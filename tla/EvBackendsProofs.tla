--------------------------- MODULE EvBackendsProofs ---------------------------
(***************************************************************************)
(* Proofs about the descriptor layer of libev over each of its backends, for *)
(* any descriptors, files and watchers.                                     *)
(***************************************************************************)
EXTENDS EvBackends, SequenceTheorems, WellFoundedInduction, TLAPS

-------------------------------------------------------------------------------
(* The invariant *)

Bits == {"read", "write"}

Loops ==
  [events : [Fds -> SUBSET Bits], reify : [Fds -> SUBSET {"iofdset", "reify"}],
   emask : [Fds -> SUBSET (Bits \cup EPERM)], changes : Seq(Fds), postfork : BOOLEAN,
   active : SUBSET Watchers, pending : [Watchers -> SUBSET (Bits \cup {"error"})]]

Pollfds == [fd : Fds, events : SUBSET Bits]
Registrations == [fd : Fds, file : Files, mask : SUBSET Bits, current : BOOLEAN]
Associations == [fd : Fds, file : Files, mask : SUBSET Bits]
Knotes == [fd : Fds, file : Files, filter : Bits]
Kevents == [fd : Fds, filter : Bits, flag : {"add", "delete"}]

Selected == [ri : SUBSET Fds, wi : SUBSET Fds]
Polled == [polls : Seq(Pollfds), idx : [Fds -> Nat \cup {-1}]]
Epolled == [interest : SUBSET Registrations, eperms : SUBSET Fds]
Ported == [interest : SUBSET Associations]
Kqueued == [interest : SUBSET Knotes, changes : Seq(Kevents)]

PollerOK(p) ==
  /\ backend = "select" => p \in Selected
  /\ backend = "poll"   => p \in Polled
  /\ backend = "epoll"  => p \in Epolled
  /\ backend = "port"   => p \in Ported
  /\ backend = "kqueue" => p \in Kqueued

Tags == [select |-> {"event", "ebadf", "enomem"}, poll |-> {"event", "nval", "enomem"}, epoll |-> {"event"},
         port |-> {"event"}, kqueue |-> {"event", "ebadf", "enoent"}]
Reported == [tag : Tags[backend], fd : Fds, file : Files \cup {NoFile}, got : SUBSET Bits, current : BOOLEAN]

TypeOK ==
  /\ backend \in {"select", "poll", "epoll", "port", "kqueue"}
  /\ phase \in {"user", "reify", "blocked", "returned", "handle"}
  /\ loop \in Loops /\ PollerOK(poller) /\ batch \subseteq Reported
  /\ watcher \in [Watchers -> [fd : Fds \cup {-1}, events : SUBSET Bits]]
  /\ \A w \in loop.active : watcher[w].fd \in Fds
  /\ file \in [Fds -> Files \cup {NoFile}] /\ elsewhere \subseteq Files
  /\ ready \in [Files -> SUBSET Bits] /\ honest \subseteq Watchers /\ ops \in Nat

\* fdchanges has the marked descriptors, each once; where the events are not
\* those of the watchers, the descriptor is marked.
Marked(l) ==
  /\ {l.changes[i] : i \in DOMAIN l.changes} = {fd \in Fds : l.reify[fd] # {}}
  /\ \A i, j \in DOMAIN l.changes : i # j => l.changes[i] # l.changes[j]
Agree(l) == \A fd \in Fds : l.events[fd] # Wanted(l, fd) => l.reify[fd] # {}

\* A descriptor some watcher was set to since it was opened.
Held(fd) == \E w \in honest : watcher[w].fd = fd

\* The backend was told of the file that is behind the descriptor now.
Known(l, fd) == Held(fd) /\ "iofdset" \notin l.reify[fd] /\ l.events[fd] # {}

FilesSound ==
  /\ \A w \in honest : watcher[w].fd \in Fds /\ IsOpen(watcher[w].fd)
  /\ \A fd, other \in Fds : file[fd] = file[other] => fd = other \/ file[fd] = NoFile

\* What the kernel returned is about the file it is told of; only epoll tells of
\* an entry that is stale.
Returned(l, b) ==
  /\ \A e \in b : e.tag = "event" /\ e.current /\ Known(l, e.fd) => e.file = file[e.fd]
  /\ \A e \in b : e.tag # "event" => e = Failure(e.tag, e.fd)
  /\ backend = "epoll" => \A e \in b : e.file \notin Unpollable
  /\ backend # "epoll" => \A e \in b : e.current

\* It is handled before the next iteration.
BatchSound ==
  /\ Returned(loop, batch)
  /\ phase \in {"user", "reify"} \/ (phase = "blocked" /\ backend # "kqueue") => batch = {}

SelectSound(l, p) ==
  /\ p.ri = {fd \in Fds : "read" \in l.events[fd]}
  /\ p.wi = {fd \in Fds : "write" \in l.events[fd]}

\* An entry of the present file is current and has the mask libev believes it
\* has, which is that of the events when the backend was told of the file; the
\* entries of earlier files are then stale.  Entries go with their file.
EpollSound(l, p) ==
  /\ \A fd \in Fds : \A e \in Mine(p, fd) : e.current /\ e.mask = l.emask[fd]
  /\ \A fd \in Fds : Known(l, fd) =>
       IF file[fd] \in Unpollable THEN l.emask[fd] = EPERM
       ELSE l.emask[fd] = l.events[fd] /\ Mine(p, fd) # {}
  /\ \A e \in p.interest : e.current /\ (Known(l, e.fd) \/ Mine(p, e.fd) # {}) => e.file = file[e.fd]
  /\ \A e \in p.interest : e.file \notin Unpollable /\ (e.file \in elsewhere \/ \E fd \in Fds : file[fd] = e.file)

\* An association is of the present file, and there is one with the events of
\* the descriptor, unless its event is still to be handled.
PortSound(l, p, b) ==
  /\ \A a \in p.interest : a.file = file[a.fd]
  /\ \A fd \in Fds : Known(l, fd) =>
       (\E e \in b : e.fd = fd) \/ (\E a \in p.interest : a.fd = fd /\ a.mask = l.events[fd])

\* The filter is in the kernel, or will be when the changes were made.
Coming(p, fd, filter) ==
  \/ /\ [fd |-> fd, file |-> file[fd], filter |-> filter] \in p.interest
     /\ \A i \in 1 .. Len(p.changes) : p.changes[i] # Change(fd, filter, "delete")
  \/ \E i \in 1 .. Len(p.changes) :
       /\ p.changes[i] = Change(fd, filter, "add")
       /\ \A j \in i .. Len(p.changes) : p.changes[j] # Change(fd, filter, "delete")

\* A filter is of the present file, and there is one for each of the events,
\* but between a fork and the iteration after it.
KqueueSound(l, p) ==
  /\ \A k \in p.interest : k.file = file[k.fd]
  /\ ~l.postfork => \A fd \in Fds : Known(l, fd) => \A filter \in l.events[fd] : Coming(p, fd, filter)

\* What the backend was told is what libev believes; b is what was returned.
Told(l, p, b) ==
  /\ backend = "select" => SelectSound(l, p)
  /\ backend = "poll"   => PollsIndexed(l, p)
  /\ backend = "epoll"  => EpollSound(l, p)
  /\ backend = "port"   => PortSound(l, p, b)
  /\ backend = "kqueue" => KqueueSound(l, p)

PollerSound ==
  /\ Told(loop, poller, batch)
  /\ backend = "kqueue" /\ loop.postfork => phase = "user"
  /\ backend = "kqueue" /\ phase \in {"blocked", "returned"} => poller.changes = <<>>

IndInv ==
  /\ TypeOK /\ Marked(loop) /\ Agree(loop)
  /\ FilesSound /\ BatchSound /\ PollerSound

-------------------------------------------------------------------------------
(* The descriptor layer *)

WatchersOK(active) == \A w \in active : watcher[w].fd \in Fds /\ watcher[w].events \subseteq Bits

LoopOK(l) == l \in Loops /\ Marked(l) /\ Agree(l) /\ WatchersOK(l.active)

\* An operator that only marks: it stops or tells watchers, the backend's view
\* of the events does not change.
Marks(l, m) ==
  /\ LoopOK(m)
  /\ m.events = l.events /\ m.emask = l.emask /\ m.postfork = l.postfork /\ m.active \subseteq l.active
  /\ \A fd \in Fds : l.reify[fd] \subseteq m.reify[fd]

LEMMA MarksTransitive ==
  ASSUME NEW l, NEW m, NEW n, Marks(l, m), Marks(m, n)
  PROVE  Marks(l, n)
BY DEF Marks

LEMMA WantedIsBits ==
  ASSUME NEW l, WatchersOK(l.active), NEW fd
  PROVE  Wanted(l, fd) \subseteq Bits
BY DEF Wanted, Watching, WatchersOK

LEMMA FdChangeKeeps ==
  ASSUME NEW l \in Loops, NEW fd \in Fds, NEW flags, flags \subseteq {"iofdset", "reify"}
  PROVE  /\ FdChange(l, fd, flags) \in Loops
         /\ FdChange(l, fd, flags).events = l.events /\ FdChange(l, fd, flags).emask = l.emask
         /\ FdChange(l, fd, flags).postfork = l.postfork
         /\ FdChange(l, fd, flags).active = l.active /\ FdChange(l, fd, flags).pending = l.pending
<1>1. /\ FdChange(l, fd, flags).events = l.events /\ FdChange(l, fd, flags).emask = l.emask
      /\ FdChange(l, fd, flags).postfork = l.postfork
      /\ FdChange(l, fd, flags).active = l.active /\ FdChange(l, fd, flags).pending = l.pending
  BY DEF Loops, FdChange
<1>2. /\ [l.reify EXCEPT ![fd] = l.reify[fd] \cup flags] \in [Fds -> SUBSET {"iofdset", "reify"}]
      /\ (IF l.reify[fd] = {} THEN Append(l.changes, fd) ELSE l.changes) \in Seq(Fds)
  <2>1. l.reify \in [Fds -> SUBSET {"iofdset", "reify"}] /\ l.changes \in Seq(Fds)
    BY DEF Loops
  <2>2. l.reify[fd] \cup flags \in SUBSET {"iofdset", "reify"}
    BY <2>1
  <2>3. [l.reify EXCEPT ![fd] = l.reify[fd] \cup flags] \in [Fds -> SUBSET {"iofdset", "reify"}]
    BY <2>1, <2>2
  <2>4. Append(l.changes, fd) \in Seq(Fds)
    BY <2>1
  <2>. QED
    BY <2>1, <2>3, <2>4
<1>3. FdChange(l, fd, flags) = [l EXCEPT !.reify = [l.reify EXCEPT ![fd] = l.reify[fd] \cup flags],
                                !.changes = IF l.reify[fd] = {} THEN Append(l.changes, fd) ELSE l.changes]
  BY DEF FdChange, Loops
<1>4. FdChange(l, fd, flags) \in Loops
  BY <1>2, <1>3 DEF Loops
<1>. QED
  BY <1>1, <1>4

LEMMA FdChangeMarks ==
  ASSUME NEW l \in Loops, Marked(l), NEW fd \in Fds, NEW flags, flags \subseteq {"iofdset", "reify"}, flags # {}
  PROVE  /\ Marked(FdChange(l, fd, flags))
         /\ FdChange(l, fd, flags).reify[fd] # {} /\ flags \subseteq FdChange(l, fd, flags).reify[fd]
         /\ \A other \in Fds : l.reify[other] \subseteq FdChange(l, fd, flags).reify[other]
<1>. DEFINE m == FdChange(l, fd, flags)
<1>1. /\ m.reify = [l.reify EXCEPT ![fd] = l.reify[fd] \cup flags]
      /\ m.changes = IF l.reify[fd] = {} THEN Append(l.changes, fd) ELSE l.changes
      /\ l.changes \in Seq(Fds) /\ l.reify \in [Fds -> SUBSET {"iofdset", "reify"}]
  <2>1. l.changes \in Seq(Fds) /\ l.reify \in [Fds -> SUBSET {"iofdset", "reify"}]
    BY DEF Loops
  <2>2. m.reify = [l.reify EXCEPT ![fd] = l.reify[fd] \cup flags]
    BY DEF Loops, FdChange
  <2>3. m.changes = IF l.reify[fd] = {} THEN Append(l.changes, fd) ELSE l.changes
    BY DEF Loops, FdChange
  <2>. QED
    BY <2>1, <2>2, <2>3
<1>. HIDE DEF m
<1>2. /\ m.reify[fd] # {} /\ flags \subseteq m.reify[fd]
      /\ \A other \in Fds : l.reify[other] \subseteq m.reify[other]
      /\ {n \in Fds : m.reify[n] # {}} = {n \in Fds : l.reify[n] # {}} \cup {fd}
  BY <1>1
<1>3. CASE l.reify[fd] # {}
  <2>1. m.changes = l.changes /\ fd \in {n \in Fds : l.reify[n] # {}}
    BY <1>1, <1>3
  <2>. QED
    BY <1>2, <2>1 DEF Marked, m
<1>4. CASE l.reify[fd] = {}
  <2>1. m.changes = Append(l.changes, fd)
    BY <1>1, <1>4
  <2>2. /\ DOMAIN m.changes = DOMAIN l.changes \cup {Len(l.changes) + 1}
        /\ m.changes[Len(l.changes) + 1] = fd
        /\ \A i \in DOMAIN l.changes : m.changes[i] = l.changes[i] /\ i # Len(l.changes) + 1
    BY <1>1, <2>1
  <2>3. \A i \in DOMAIN l.changes : l.changes[i] # fd
    BY <1>4 DEF Marked
  <2>4. {m.changes[i] : i \in DOMAIN m.changes} = {l.changes[i] : i \in DOMAIN l.changes} \cup {fd}
    BY <2>2
  <2>5. \A i, j \in DOMAIN m.changes : i # j => m.changes[i] # m.changes[j]
    BY <2>2, <2>3 DEF Marked
  <2>. QED
    BY <1>2, <2>4, <2>5 DEF Marked, m
<1>. QED
  BY <1>3, <1>4

LEMMA FdEventMarks ==
  ASSUME NEW l, LoopOK(l), NEW fd, NEW got
  PROVE  /\ Marks(l, FdEvent(l, fd, got))
         /\ FdEvent(l, fd, got).reify = l.reify
         /\ \A w \in Watchers : FdEvent(l, fd, got).pending[w] # l.pending[w] =>
              /\ w \in l.active /\ watcher[w].fd = fd /\ l.reify[fd] = {}
              /\ FdEvent(l, fd, got).pending[w] = l.pending[w] \cup (watcher[w].events \cap got)
<1>. DEFINE m == FdEvent(l, fd, got)
<1>1. CASE l.reify[fd] # {}
  BY <1>1 DEF FdEvent, Marks
<1>2. CASE l.reify[fd] = {}
  <2>1. m = [l EXCEPT !.pending = [w \in Watchers |->
               IF w \in Watching(l, fd) THEN l.pending[w] \cup (watcher[w].events \cap got) ELSE l.pending[w]]]
    BY <1>2 DEF FdEvent, FdEventNocheck
  <2>. HIDE DEF m
  <2>2. /\ m.events = l.events /\ m.emask = l.emask /\ m.postfork = l.postfork /\ m.active = l.active
        /\ m.reify = l.reify /\ m.changes = l.changes
    BY <2>1 DEF LoopOK, Loops
  <2>3. m.pending = [w \in Watchers |->
               IF w \in Watching(l, fd) THEN l.pending[w] \cup (watcher[w].events \cap got) ELSE l.pending[w]]
    BY <2>1 DEF LoopOK, Loops
  <2>4. m.pending \in [Watchers -> SUBSET (Bits \cup {"error"})]
    BY <2>3 DEF LoopOK, Loops, Watching, WatchersOK
  <2>5. m \in Loops
    BY <2>1, <2>3, <2>4 DEF LoopOK, Loops
  <2>6. LoopOK(m)
    BY <2>2, <2>5 DEF LoopOK, Marked, Agree, Wanted, Watching
  <2>7. Marks(l, m)
    BY <2>2, <2>6 DEF Marks
  <2>. QED
    BY <1>2, <2>2, <2>3, <2>7 DEF Watching, m
<1>. QED
  BY <1>1, <1>2

\* Watchers of a descriptor are stopped: what the others want is as it was.
LEMMA StoppedAgree ==
  ASSUME NEW l, NEW m, Agree(l), NEW fd, m.active \subseteq l.active, m.events = l.events,
         \A w \in l.active \ m.active : watcher[w].fd = fd,
         \A other \in Fds : l.reify[other] \subseteq m.reify[other],
         m.active # l.active /\ fd \in Fds => m.reify[fd] # {}
  PROVE  Agree(m)
<1>. SUFFICES ASSUME NEW other \in Fds, m.events[other] # Wanted(m, other) PROVE m.reify[other] # {}
  BY DEF Agree
<1>1. CASE Wanted(m, other) = Wanted(l, other)
  BY <1>1 DEF Agree
<1>2. CASE Wanted(m, other) # Wanted(l, other)
  BY <1>2 DEF Wanted, Watching
<1>. QED
  BY <1>1, <1>2

LEMMA FdKillMarks ==
  ASSUME NEW l, LoopOK(l), NEW fd
  PROVE  /\ Marks(l, FdKill(l, fd))
         /\ \A w \in Watchers : FdKill(l, fd).pending[w] # l.pending[w] => w \in l.active /\ watcher[w].fd = fd
<1>. DEFINE killed == Watching(l, fd)
            told == [l EXCEPT !.active = l.active \ killed,
                              !.pending = [w \in Watchers |->
                                 IF w \in killed THEN {"error", "read", "write"} ELSE l.pending[w]]]
<1>1. CASE killed = {}
  BY <1>1 DEF FdKill, Marks
<1>2. CASE killed # {}
  <2>1. fd \in Fds /\ killed \subseteq l.active /\ l.active \subseteq Watchers
    BY <1>2 DEF Watching, LoopOK, WatchersOK, Loops
  <2>2. FdKill(l, fd) = FdChange(told, fd, {"reify"})
    BY <1>2 DEF FdKill
  <2>3. /\ told.events = l.events /\ told.emask = l.emask /\ told.postfork = l.postfork
        /\ told.reify = l.reify /\ told.changes = l.changes /\ told.active = l.active \ killed
        /\ told.pending = [w \in Watchers |-> IF w \in killed THEN {"error", "read", "write"} ELSE l.pending[w]]
    BY DEF LoopOK, Loops
  <2>4. told.pending \in [Watchers -> SUBSET (Bits \cup {"error"})] /\ told.active \in SUBSET Watchers
    BY <2>1, <2>3 DEF LoopOK, Loops, Bits
  <2>5. told \in Loops /\ Marked(told)
    <3>1. told \in Loops
      BY <2>3, <2>4 DEF LoopOK, Loops
    <3>2. Marked(told)
      BY <2>3 DEF LoopOK, Marked
    <3>. QED
      BY SMTT(60), <3>1, <3>2
  <2>. HIDE DEF told
  <2>. DEFINE m == FdChange(told, fd, {"reify"})
  <2>6. /\ m \in Loops /\ m.events = l.events /\ m.emask = l.emask /\ m.postfork = l.postfork
        /\ m.active = told.active /\ m.pending = told.pending
    BY <2>1, <2>3, <2>5, FdChangeKeeps
  <2>7. /\ Marked(m) /\ m.reify[fd] # {} /\ \A other \in Fds : l.reify[other] \subseteq m.reify[other]
    BY <2>1, <2>3, <2>5, FdChangeMarks
  <2>. HIDE DEF m
  <2>8. Agree(m)
    BY <2>1, <2>3, <2>6, <2>7, StoppedAgree DEF Watching, LoopOK
  <2>9. WatchersOK(m.active)
    BY <2>3, <2>6 DEF LoopOK, WatchersOK
  <2>10. Marks(l, m)
    BY <2>3, <2>6, <2>7, <2>8, <2>9 DEF Marks, LoopOK
  <2>11. \A w \in Watchers : m.pending[w] # l.pending[w] => w \in killed
    BY <2>3, <2>6 DEF LoopOK, Loops
  <2>. QED
    BY <2>2, <2>10, <2>11 DEF m, Watching
<1>. QED
  BY <1>1, <1>2

LEMMA IoStopMarks ==
  ASSUME NEW l, LoopOK(l), NEW w \in l.active
  PROVE  /\ Marks(l, IoStop(l, w))
         /\ \A v \in Watchers : IoStop(l, w).pending[v] \in {l.pending[v], {}}
<1>. DEFINE fd == watcher[w].fd
            told == [l EXCEPT !.active = l.active \ {w}, !.pending = [l.pending EXCEPT ![w] = {}]]
<1>1. fd \in Fds /\ w \in Watchers
  BY DEF LoopOK, WatchersOK, Loops
<1>2. IoStop(l, w) = FdChange(told, fd, {"reify"})
  BY DEF IoStop, LoopOK, Loops
<1>3. /\ told.events = l.events /\ told.emask = l.emask /\ told.postfork = l.postfork
      /\ told.reify = l.reify /\ told.changes = l.changes /\ told.active = l.active \ {w}
      /\ told.pending = [l.pending EXCEPT ![w] = {}]
  BY DEF LoopOK, Loops
<1>4. told.pending \in [Watchers -> SUBSET (Bits \cup {"error"})] /\ told.active \in SUBSET Watchers
  BY <1>3 DEF LoopOK, Loops
<1>5. told \in Loops
  BY <1>3, <1>4 DEF LoopOK, Loops
<1>6. Marked(told)
  BY <1>3 DEF LoopOK, Marked
<1>. HIDE DEF told
<1>. DEFINE m == FdChange(told, fd, {"reify"})
<1>7. /\ m \in Loops /\ m.events = l.events /\ m.emask = l.emask /\ m.postfork = l.postfork
      /\ m.active = told.active /\ m.pending = told.pending
  BY <1>1, <1>3, <1>5, FdChangeKeeps
<1>8. Marked(m) /\ m.reify[fd] # {} /\ \A other \in Fds : l.reify[other] \subseteq m.reify[other]
  BY SMTT(60), <1>1, <1>3, <1>5, <1>6, FdChangeMarks
<1>. HIDE DEF m
<1>9. Agree(m)
  BY <1>1, <1>3, <1>7, <1>8, StoppedAgree DEF LoopOK
<1>10. WatchersOK(m.active)
  BY <1>3, <1>7 DEF LoopOK, WatchersOK
<1>11. Marks(l, m)
  BY <1>3, <1>7, <1>8, <1>9, <1>10 DEF Marks, LoopOK
<1>12. \A v \in Watchers : m.pending[v] \in {l.pending[v], {}}
  BY <1>3, <1>7 DEF LoopOK, Loops
<1>. QED
  BY <1>2, <1>11, <1>12 DEF m

\* Induction, for a set instead of a predicate
LEMMA SetInduction ==
  ASSUME NEW S, 0 \in S, \A n \in Nat : n \in S => n + 1 \in S
  PROVE  \A n \in Nat : n \in S
<1>. DEFINE T == Nat \ S
<1>. SUFFICES ASSUME T # {} PROVE FALSE
  OBVIOUS
<1>1. \E x \in T : \A y \in T : ~(<<y, x>> \in OpToRel(<, Nat))
  BY NatLessThanWellFounded, WFMin
<1>2. \A x, y \in Nat : <<y, x>> \in OpToRel(<, Nat) <=> y < x
  BY DEF OpToRel
<1>3. \E x \in T : \A y \in T : ~(y < x)
  BY <1>1, <1>2
<1>. QED
  BY <1>3

LEMMA FdEnomemMarks ==
  ASSUME NEW l, LoopOK(l)
  PROVE  Marks(l, FdEnomem(l))
BY FdKillMarks DEF FdEnomem, Marks

\* The watchers of open descriptors are left alone.
LEMMA FdEbadfMarks ==
  ASSUME NEW l, LoopOK(l)
  PROVE  /\ Marks(l, FdEbadf(l))
         /\ \A w \in Watchers : watcher[w].fd \in Fds /\ IsOpen(watcher[w].fd) =>
              FdEbadf(l).pending[w] = l.pending[w]
<1>. DEFINE Step(m, fd) == IF m.events[fd] = {} \/ IsOpen(fd) THEN m ELSE FdKill(m, fd)
            IsChecked(f, n) == f = [i \in 0 .. n |-> IF i = 0 THEN l ELSE Step(f[i - 1], i - 1)]
            Good(m) == /\ Marks(l, m)
                       /\ \A w \in Watchers : watcher[w].fd \in Fds /\ IsOpen(watcher[w].fd) =>
                            m.pending[w] = l.pending[w]
            S == {n \in Nat : \E f : IsChecked(f, n)}
<1>1. 0 \in S
  <2>1. IsChecked([i \in 0 .. 0 |-> l], 0)
    OBVIOUS
  <2>. QED
    BY <2>1
<1>2. ASSUME NEW n \in Nat, n \in S
      PROVE  n + 1 \in S
  <2>1. PICK f : IsChecked(f, n)
    BY <1>2
  <2>. DEFINE g == [i \in 0 .. n + 1 |-> IF i = n + 1 THEN Step(f[n], n) ELSE f[i]]
  <2>. HIDE DEF Step
  <2>2. \A i \in 0 .. n + 1 : g[i] = IF i = 0 THEN l ELSE Step(g[i - 1], i - 1)
    BY <2>1
  <2>3. IsChecked(g, n + 1)
    BY <2>2
  <2>. HIDE DEF IsChecked, g
  <2>. QED
    BY <2>3
<1>3. NFds \in S
  <2>. HIDE DEF S
  <2>. QED
    BY <1>1, <1>2, SetInduction, EvFdAssumption
<1>. DEFINE checked == CHOOSE f : IsChecked(f, NFds)
<1>4. IsChecked(checked, NFds)
  BY <1>3, Zenon
<1>5. FdEbadf(l) = checked[NFds]
  BY Zenon DEF FdEbadf
<1>. HIDE DEF checked
<1>6. checked[0] = l /\ \A n \in Nat : n < NFds => checked[n + 1] = Step(checked[n], n)
  <2>. HIDE DEF Step
  <2>. QED
    BY <1>4, EvFdAssumption
<1>. DEFINE G == {n \in Nat : n <= NFds => Good(checked[n])}
<1>7. 0 \in G
  BY <1>6 DEF Marks
<1>8. ASSUME NEW n \in Nat, n \in G
      PROVE  n + 1 \in G
  <2>. SUFFICES ASSUME n + 1 <= NFds PROVE Good(checked[n + 1])
    OBVIOUS
  <2>. PICK m : m = checked[n]
    OBVIOUS
  <2>1. Good(m) /\ checked[n + 1] = Step(m, n) /\ n \in Fds
    BY <1>6, <1>8, EvFdAssumption DEF Fds
  <2>2. CASE m.events[n] = {} \/ IsOpen(n)
    BY <2>1, <2>2
  <2>3. CASE ~(m.events[n] = {} \/ IsOpen(n))
    <3>1. checked[n + 1] = FdKill(m, n) /\ LoopOK(m)
      BY <2>1, <2>3 DEF Marks
    <3>2. /\ Marks(m, FdKill(m, n))
          /\ \A w \in Watchers : FdKill(m, n).pending[w] # m.pending[w] => watcher[w].fd = n
      BY <3>1, FdKillMarks
    <3>3. Marks(l, FdKill(m, n))
      BY <2>1, <3>2, MarksTransitive
    <3>. QED
      BY <2>1, <2>3, <3>1, <3>2, <3>3
  <2>. QED
    BY <2>2, <2>3
<1>9. NFds \in G
  <2>. HIDE DEF G
  <2>. QED
    BY <1>7, <1>8, SetInduction, EvFdAssumption
<1>. QED
  BY <1>5, <1>9, EvFdAssumption

Rearmed(m, fd) ==
  IF m.events[fd] = {} THEN m
  ELSE FdChange([m EXCEPT !.events[fd] = {}, !.emask[fd] = {}], fd, {"iofdset", "reify"})

LEMMA RearmedFields ==
  ASSUME NEW m \in Loops, Marked(m), NEW fd \in Fds
  PROVE  /\ Rearmed(m, fd) \in Loops /\ Marked(Rearmed(m, fd))
         /\ Rearmed(m, fd).postfork = m.postfork /\ Rearmed(m, fd).active = m.active
         /\ Rearmed(m, fd).pending = m.pending
         /\ \A other \in Fds : Rearmed(m, fd).events[other] = IF other = fd THEN {} ELSE m.events[other]
         /\ \A other \in Fds : m.reify[other] \subseteq Rearmed(m, fd).reify[other]
         /\ m.events[fd] # {} => Rearmed(m, fd).reify[fd] # {}
<1>1. CASE m.events[fd] = {}
  BY <1>1 DEF Rearmed
<1>2. CASE m.events[fd] # {}
  <2>. DEFINE n == [m EXCEPT !.events[fd] = {}, !.emask[fd] = {}]
  <2>1. /\ n.events = [m.events EXCEPT ![fd] = {}] /\ n.emask = [m.emask EXCEPT ![fd] = {}]
        /\ n.postfork = m.postfork /\ n.active = m.active /\ n.pending = m.pending
        /\ n.reify = m.reify /\ n.changes = m.changes
    BY DEF Loops
  <2>2. n.events \in [Fds -> SUBSET Bits] /\ n.emask \in [Fds -> SUBSET (Bits \cup EPERM)]
    BY <2>1 DEF Loops
  <2>3. n \in Loops
    BY <2>1, <2>2 DEF Loops
  <2>4. Marked(n)
    BY <2>1 DEF Marked
  <2>. HIDE DEF n
  <2>. DEFINE changed == FdChange(n, fd, {"iofdset", "reify"})
  <2>5. /\ changed \in Loops /\ changed.events = n.events /\ changed.postfork = n.postfork
        /\ changed.active = n.active /\ changed.pending = n.pending
    BY <2>3, FdChangeKeeps
  <2>6. /\ Marked(changed) /\ changed.reify[fd] # {}
        /\ \A other \in Fds : n.reify[other] \subseteq changed.reify[other]
    BY <2>3, <2>4, FdChangeMarks
  <2>7. Rearmed(m, fd) = changed
    BY <1>2 DEF Rearmed, n
  <2>. HIDE DEF changed
  <2>8. \A other \in Fds : changed.events[other] = IF other = fd THEN {} ELSE m.events[other]
    BY <2>1, <2>5 DEF Loops
  <2>. QED
    BY <2>1, <2>5, <2>6, <2>7, <2>8
<1>. QED
  BY <1>1, <1>2

\* Every descriptor is marked that had events, and none has events now.
LEMMA FdRearmAllMarks ==
  ASSUME NEW l, LoopOK(l)
  PROVE  /\ LoopOK(FdRearmAll(l))
         /\ FdRearmAll(l).postfork = l.postfork /\ FdRearmAll(l).active = l.active
         /\ FdRearmAll(l).pending = l.pending
         /\ \A fd \in Fds : FdRearmAll(l).events[fd] = {}
<1>. DEFINE IsRearmed(f, n) == f = [i \in 0 .. n |-> IF i = 0 THEN l ELSE Rearmed(f[i - 1], i - 1)]
            Good(m, n) == /\ m \in Loops /\ Marked(m)
                          /\ m.postfork = l.postfork /\ m.active = l.active /\ m.pending = l.pending
                          /\ \A fd \in Fds : m.events[fd] = IF fd < n THEN {} ELSE l.events[fd]
                          /\ \A fd \in Fds : l.reify[fd] \subseteq m.reify[fd]
                          /\ \A fd \in Fds : fd < n /\ l.events[fd] # {} => m.reify[fd] # {}
            S == {n \in Nat : \E f : IsRearmed(f, n)}
<1>1. 0 \in S
  <2>1. IsRearmed([i \in 0 .. 0 |-> l], 0)
    OBVIOUS
  <2>. QED
    BY <2>1
<1>2. ASSUME NEW n \in Nat, n \in S
      PROVE  n + 1 \in S
  <2>1. PICK f : IsRearmed(f, n)
    BY <1>2
  <2>. DEFINE g == [i \in 0 .. n + 1 |-> IF i = n + 1 THEN Rearmed(f[n], n) ELSE f[i]]
  <2>2. \A i \in 0 .. n + 1 : g[i] = IF i = 0 THEN l ELSE Rearmed(g[i - 1], i - 1)
    BY <2>1
  <2>3. IsRearmed(g, n + 1)
    BY <2>2
  <2>. HIDE DEF IsRearmed, g
  <2>. QED
    BY <2>3
<1>3. NFds \in S
  <2>. HIDE DEF S
  <2>. QED
    BY <1>1, <1>2, SetInduction, EvFdAssumption
<1>. DEFINE rearmed == CHOOSE f : IsRearmed(f, NFds)
<1>4. IsRearmed(rearmed, NFds)
  BY <1>3, Zenon
<1>5. FdRearmAll(l) = rearmed[NFds]
  BY Zenon DEF FdRearmAll, Rearmed
<1>. HIDE DEF rearmed
<1>6. rearmed[0] = l /\ \A n \in Nat : n < NFds => rearmed[n + 1] = Rearmed(rearmed[n], n)
  BY <1>4, EvFdAssumption
<1>. DEFINE G == {n \in Nat : n <= NFds => Good(rearmed[n], n)}
<1>7. 0 \in G
  BY <1>6 DEF LoopOK, Fds
<1>8. ASSUME NEW n \in Nat, n \in G
      PROVE  n + 1 \in G
  <2>. SUFFICES ASSUME n + 1 <= NFds PROVE Good(rearmed[n + 1], n + 1)
    OBVIOUS
  <2>. PICK m : m = rearmed[n]
    OBVIOUS
  <2>. PICK k : k = rearmed[n + 1]
    OBVIOUS
  <2>1. Good(m, n) /\ k = Rearmed(m, n) /\ n \in Fds
    BY <1>6, <1>8, EvFdAssumption DEF Fds
  <2>2. /\ k \in Loops /\ Marked(k) /\ k.postfork = m.postfork /\ k.active = m.active
        /\ k.pending = m.pending
        /\ \A other \in Fds : k.events[other] = IF other = n THEN {} ELSE m.events[other]
        /\ \A other \in Fds : m.reify[other] \subseteq k.reify[other]
        /\ m.events[n] # {} => k.reify[n] # {}
    BY SMTT(60), <2>1, RearmedFields
  <2>3. \A fd \in Fds : k.events[fd] = IF fd < n + 1 THEN {} ELSE l.events[fd]
    BY <2>1, <2>2 DEF Loops, Fds
  <2>4. \A fd \in Fds : fd < n + 1 /\ l.events[fd] # {} => k.reify[fd] # {}
    BY <2>1, <2>2 DEF Fds
  <2>5. \A fd \in Fds : l.reify[fd] \subseteq k.reify[fd]
    BY <2>1, <2>2
  <2>6. Good(k, n + 1)
    BY <2>1, <2>2, <2>3, <2>4, <2>5
  <2>. QED
    BY <2>6
<1>9. NFds \in G
  <2>. HIDE DEF G
  <2>. QED
    BY <1>7, <1>8, SetInduction, EvFdAssumption
<1>. PICK m : m = FdRearmAll(l)
  OBVIOUS
<1>10. Good(m, NFds)
  BY <1>5, <1>9, EvFdAssumption
<1>11. \A fd \in Fds : m.events[fd] = {} /\ l.reify[fd] \subseteq m.reify[fd]
  BY <1>10, EvFdAssumption DEF Fds
<1>12. Agree(m)
  <2>. SUFFICES ASSUME NEW fd \in Fds, m.events[fd] # Wanted(m, fd) PROVE m.reify[fd] # {}
    BY DEF Agree
  <2>1. Wanted(m, fd) = Wanted(l, fd)
    BY <1>10 DEF Wanted, Watching
  <2>2. CASE l.events[fd] = {}
    BY <1>11, <2>1, <2>2 DEF LoopOK, Agree
  <2>3. CASE l.events[fd] # {}
    BY <1>10, <2>3, EvFdAssumption DEF Fds
  <2>. QED
    BY <2>2, <2>3
<1>. QED
  BY <1>10, <1>11, <1>12 DEF LoopOK

\* fd_reify is done with the head of fdchanges.
LEMMA ReifiedFields ==
  ASSUME NEW l, LoopOK(l), l.changes # <<>>
  PROVE  /\ LoopOK(Reified(l)) /\ Head(l.changes) \in Fds
         /\ Reified(l).emask = l.emask /\ Reified(l).postfork = l.postfork
         /\ Reified(l).active = l.active /\ Reified(l).pending = l.pending
         /\ \A fd \in Fds : fd # Head(l.changes) =>
              Reified(l).events[fd] = l.events[fd] /\ Reified(l).reify[fd] = l.reify[fd]
         /\ Reified(l).events[Head(l.changes)] = Wanted(l, Head(l.changes))
         /\ Reified(l).reify[Head(l.changes)] = {}
<1>. DEFINE fd == Head(l.changes)
            m == Reified(l)
            s == l.changes
<1>1. /\ s \in Seq(Fds) /\ s # <<>> /\ fd = s[1] /\ fd \in Fds /\ Len(s) \in Nat /\ Len(s) > 0
      /\ l.reify \in [Fds -> SUBSET {"iofdset", "reify"}] /\ l.events \in [Fds -> SUBSET Bits]
  BY DEF LoopOK, Loops
<1>2. /\ m.emask = l.emask /\ m.postfork = l.postfork /\ m.active = l.active /\ m.pending = l.pending
      /\ m.changes = Tail(s)
      /\ m.reify = [l.reify EXCEPT ![fd] = {}] /\ m.events = [l.events EXCEPT ![fd] = Wanted(l, fd)]
  BY DEF LoopOK, Loops, Reified
<1>3. Wanted(l, fd) \in SUBSET Bits
  BY WantedIsBits DEF LoopOK
<1>4. /\ Tail(s) \in Seq(Fds) /\ [l.reify EXCEPT ![fd] = {}] \in [Fds -> SUBSET {"iofdset", "reify"}]
      /\ [l.events EXCEPT ![fd] = Wanted(l, fd)] \in [Fds -> SUBSET Bits]
  BY <1>1, <1>3
<1>5. m \in Loops
  <2>1. m = [l EXCEPT !.changes = Tail(s), !.reify = [l.reify EXCEPT ![fd] = {}],
                      !.events = [l.events EXCEPT ![fd] = Wanted(l, fd)]]
    BY DEF Reified, LoopOK, Loops
  <2>. QED
    BY <1>4, <2>1 DEF LoopOK, Loops
<1>. HIDE DEF m
<1>6. /\ \A n \in Fds : n # fd => m.events[n] = l.events[n] /\ m.reify[n] = l.reify[n]
      /\ m.events[fd] = Wanted(l, fd) /\ m.reify[fd] = {}
  BY <1>1, <1>2
<1>7. Marked(m)
  <2>. PICK t : t = Tail(s)
    OBVIOUS
  <2>1. DOMAIN t = 1 .. Len(s) - 1 /\ \A i \in 1 .. Len(s) - 1 : t[i] = s[i + 1]
    BY <1>1
  <2>2. /\ \A i, j \in 1 .. Len(s) : i # j => s[i] # s[j]
        /\ {s[i] : i \in 1 .. Len(s)} = {n \in Fds : l.reify[n] # {}}
    BY <1>1 DEF LoopOK, Marked
  <2>3. {t[i] : i \in DOMAIN t} = {s[i] : i \in 1 .. Len(s)} \ {fd}
    <3>1. \A i \in DOMAIN t : t[i] \in {s[j] : j \in 1 .. Len(s)} \ {fd}
      BY <1>1, <2>1, <2>2
    <3>2. ASSUME NEW n \in {s[i] : i \in 1 .. Len(s)} \ {fd}
          PROVE  n \in {t[i] : i \in DOMAIN t}
      <4>1. PICK i \in 1 .. Len(s) : s[i] = n
        OBVIOUS
      <4>2. i - 1 \in DOMAIN t /\ t[i - 1] = n
        BY <1>1, <2>1, <4>1
      <4>. QED
        BY <4>2
    <3>. QED
      BY SMTT(60), <3>1, <3>2
  <2>4. {n \in Fds : m.reify[n] # {}} = {n \in Fds : l.reify[n] # {}} \ {fd}
    BY <1>6
  <2>5. \A i, j \in DOMAIN t : i # j => t[i] # t[j]
    BY SMTT(60), <1>1, <2>1, <2>2
  <2>6. m.changes = t
    BY <1>2
  <2>. HIDE DEF s, fd
  <2>7. {t[i] : i \in DOMAIN t} = {n \in Fds : m.reify[n] # {}}
    BY <2>2, <2>3, <2>4
  <2>. QED
    BY <2>5, <2>6, <2>7 DEF Marked
<1>8. Agree(m)
  <2>1. \A n : Wanted(m, n) = Wanted(l, n)
    BY <1>2 DEF Wanted, Watching
  <2>. QED
    BY <1>6, <2>1 DEF Agree, LoopOK
<1>9. LoopOK(m)
  BY <1>2, <1>5, <1>7, <1>8 DEF LoopOK
<1>. QED
  BY <1>1, <1>2, <1>6, <1>9 DEF m

\* epoll notes the mask it gave to the kernel.
Noted(l, fd, mask) == [l EXCEPT !.emask[fd] = mask]

LEMMA NotedFields ==
  ASSUME NEW l, LoopOK(l), NEW fd \in Fds, NEW mask \in SUBSET (Bits \cup EPERM)
  PROVE  /\ LoopOK(Noted(l, fd, mask)) /\ Noted(l, fd, mask).pending = l.pending
         /\ Noted(l, fd, mask).events = l.events /\ Noted(l, fd, mask).postfork = l.postfork
         /\ Noted(l, fd, mask).reify = l.reify /\ Noted(l, fd, mask).active = l.active
         /\ Noted(l, fd, mask).emask[fd] = mask
         /\ \A other \in Fds : other # fd => Noted(l, fd, mask).emask[other] = l.emask[other]
<1>. PICK n : n = Noted(l, fd, mask)
  OBVIOUS
<1>1. /\ n.events = l.events /\ n.reify = l.reify /\ n.changes = l.changes /\ n.postfork = l.postfork
      /\ n.active = l.active /\ n.pending = l.pending
  BY DEF LoopOK, Loops, Noted
<1>2. n.emask[fd] = mask /\ \A other \in Fds : other # fd => n.emask[other] = l.emask[other]
  BY DEF LoopOK, Loops, Noted
<1>3. [l.emask EXCEPT ![fd] = mask] \in [Fds -> SUBSET (Bits \cup EPERM)]
  BY DEF LoopOK, Loops
<1>4. n \in Loops
  BY <1>3 DEF LoopOK, Loops, Noted
<1>5. Marked(n) /\ Agree(n)
  BY <1>1 DEF LoopOK, Marked, Agree, Wanted, Watching
<1>. QED
  BY <1>1, <1>2, <1>4, <1>5 DEF LoopOK

\* What a backend_modify does to the loop: epoll notes the mask, and a descriptor
\* that is not open is killed.
Modified(l, m, fd) ==
  /\ LoopOK(m) /\ m.events = l.events /\ m.postfork = l.postfork
  /\ \A other \in Fds : l.reify[other] \subseteq m.reify[other]
  /\ \A w \in Watchers : m.pending[w] # l.pending[w] => watcher[w].fd = fd /\ ~IsOpen(fd)

LEMMA ModifyMarks ==
  ASSUME TypeOK, NEW l, LoopOK(l), NEW p, NEW fd \in Fds, NEW oev, NEW nev \in SUBSET Bits,
         NEW m, m = Modify(l, p, fd, oev, nev).l
  PROVE  Modified(l, m, fd)
<1>. DEFINE OK(n) == Modified(l, n, fd)
<1>. USE DEF Modified
<1>1. OK(l)
  OBVIOUS
<1>2. ASSUME NEW mask \in SUBSET (Bits \cup EPERM)
      PROVE  OK(Noted(l, fd, mask)) /\ (~IsOpen(fd) => OK(FdKill(Noted(l, fd, mask), fd)))
  <2>. PICK n : n = Noted(l, fd, mask)
    OBVIOUS
  <2>1. LoopOK(n) /\ n.pending = l.pending /\ n.events = l.events /\ n.postfork = l.postfork /\ n.reify = l.reify
    BY NotedFields
  <2>2. /\ Marks(n, FdKill(n, fd))
        /\ \A w \in Watchers : FdKill(n, fd).pending[w] # n.pending[w] => watcher[w].fd = fd
    BY <2>1, FdKillMarks
  <2>3. OK(n) /\ (~IsOpen(fd) => OK(FdKill(n, fd)))
    BY <2>1, <2>2 DEF Marks
  <2>. QED
    BY <2>3
<1>3. ~IsOpen(fd) => OK(FdKill(l, fd))
  BY FdKillMarks DEF Marks
<1>4. nev \in SUBSET (Bits \cup EPERM) /\ EPERM \in SUBSET (Bits \cup EPERM)
  OBVIOUS
<1>. HIDE DEF OK, Modified
<1>5. CASE backend \in {"select", "poll", "kqueue"}
  <2>1. m = l
    BY <1>5 DEF Modify, SelectModify, PollModify, KqueueModify
  <2>. QED
    BY <1>1, <2>1 DEF OK
<1>6. CASE backend = "port"
  <2>1. m = l \/ (~IsOpen(fd) /\ m = FdKill(l, fd))
    BY <1>6 DEF Modify, PortModify
  <2>. QED
    BY <1>1, <1>3, <2>1 DEF OK
<1>7. CASE backend = "epoll"
  <2>1. m = EpollModify(l, p, fd, oev, nev).l
    BY <1>7 DEF Modify
  <2>2. \/ m = l \/ m = Noted(l, fd, EPERM) \/ m = Noted(l, fd, nev)
        \/ ~IsOpen(fd) /\ m = FdKill(Noted(l, fd, nev), fd)
    BY <2>1 DEF EpollModify, Noted
  <2>. QED
    BY <1>1, <1>2, <1>4, <2>2 DEF OK
<1>. QED
  BY <1>5, <1>6, <1>7 DEF TypeOK

-------------------------------------------------------------------------------
(* The backends are told of a descriptor: l before fd_reify and m after it differ *)
(* in the events of fd.                                                     *)

\* Of the other descriptors nothing is new, but that they may be marked.
OthersKept(l, m, fd) ==
  \A other \in Fds : other # fd => m.events[other] = l.events[other] /\ l.reify[other] \subseteq m.reify[other]

LEMMA SelectTold ==
  ASSUME NEW l \in Loops, NEW m \in Loops, NEW p \in Selected, NEW fd \in Fds, NEW k,
         SelectSound(l, p), OthersKept(l, m, fd),
         NEW q, q = SelectModify(k, p, fd, l.events[fd], m.events[fd]).p
  PROVE  q \in Selected /\ SelectSound(m, q)
<1>. USE DEF OthersKept
<1>1. CASE l.events[fd] = m.events[fd]
  <2>1. q = p /\ \A other \in Fds : m.events[other] = l.events[other]
    BY <1>1 DEF SelectModify
  <2>. QED
    BY <2>1 DEF SelectSound
<1>2. CASE l.events[fd] # m.events[fd]
  <2>1. q = [ri |-> IF "read" \in m.events[fd] THEN p.ri \cup {fd} ELSE p.ri \ {fd},
             wi |-> IF "write" \in m.events[fd] THEN p.wi \cup {fd} ELSE p.wi \ {fd}]
    BY <1>2 DEF SelectModify
  <2>2. q.ri = IF "read" \in m.events[fd] THEN p.ri \cup {fd} ELSE p.ri \ {fd}
    BY <2>1
  <2>3. q.wi = IF "write" \in m.events[fd] THEN p.wi \cup {fd} ELSE p.wi \ {fd}
    BY <2>1
  <2>4. q.ri = {n \in Fds : "read" \in m.events[n]}
    BY <2>2 DEF SelectSound
  <2>5. q.wi = {n \in Fds : "write" \in m.events[n]}
    BY <2>3 DEF SelectSound
  <2>. QED
    BY <2>1, <2>4, <2>5 DEF SelectSound, Selected
<1>. QED
  BY <1>1, <1>2

LEMMA Below ==
  ASSUME NEW v \in Int, NEW n \in Nat, v >= 0, v < n
  PROVE  v + 1 \in 1 .. n /\ (v # n - 1 => v < n - 1 /\ v + 1 \in 1 .. n - 1)
OBVIOUS

LEMMA PollTold ==
  ASSUME NEW l \in Loops, NEW m \in Loops, NEW p \in Polled, NEW fd \in Fds, NEW k,
         PollsIndexed(l, p), OthersKept(l, m, fd),
         NEW q, q = PollModify(k, p, fd, l.events[fd], m.events[fd]).p
  PROVE  q \in Polled /\ PollsIndexed(m, q)
<1>. USE DEF OthersKept
<1>. PICK s : s = p.polls
  OBVIOUS
<1>. PICK x : x = p.idx
  OBVIOUS
<1>. PICK n : n = Len(s)
  OBVIOUS
<1>. PICK old : old = l.events
  OBVIOUS
<1>. PICK new : new = m.events
  OBVIOUS
<1>1. s \in Seq(Pollfds) /\ x \in [Fds -> Nat \cup {-1}]
  BY DEF Polled
<1>2. n \in Nat /\ \A i \in 1 .. n : s[i] \in Pollfds
  BY <1>1
<1>3. \A o \in Fds : x[o] \in Int /\ x[o] >= -1
  BY <1>1
<1>4. old[fd] \in SUBSET Bits /\ new[fd] \in SUBSET Bits /\ \A o \in Fds : o # fd => new[o] = old[o]
  BY DEF Loops
\* The array at i has fd f[i] and events g[i]; the descriptors are at x.
<1>. DEFINE Indexed(k1, f, g, y, ev) ==
       /\ \A o \in Fds : y[o] \in Int /\ y[o] >= -1
       /\ \A i \in 1 .. k1 : f[i] \in Fds /\ y[f[i]] = i - 1
       /\ \A o \in Fds : (y[o] >= 0) <=> ev[o] # {}
       /\ \A o \in Fds : y[o] >= 0 => y[o] < k1 /\ f[y[o] + 1] = o /\ g[y[o] + 1] = ev[o]
            F(t) == [i \in 1 .. Len(t) |-> t[i].fd]
            G(t) == [i \in 1 .. Len(t) |-> t[i].events]
<1>5. Indexed(n, F(s), G(s), x, old)
  <2>1. /\ \A i \in 0 .. n - 1 : x[s[i + 1].fd] = i
        /\ \A o \in Fds : (x[o] >= 0) = (old[o] # {})
        /\ \A o \in Fds : x[o] >= 0 => x[o] < n /\ s[x[o] + 1] = [fd |-> o, events |-> old[o]]
    BY DEF PollsIndexed, PollCnt, At
  <2>2. \A i \in 1 .. n : F(s)[i] \in Fds /\ x[F(s)[i]] = i - 1
    <3>. TAKE i \in 1 .. n
    <3>1. i - 1 \in 0 .. n - 1 /\ i - 1 + 1 = i
      BY <1>2
    <3>2. x[s[i].fd] = i - 1
      BY <2>1, <3>1
    <3>. QED
      BY <1>2, <3>2 DEF Pollfds
  <2>3. ASSUME NEW o \in Fds, x[o] >= 0
        PROVE  x[o] < n /\ F(s)[x[o] + 1] = o /\ G(s)[x[o] + 1] = old[o]
    <3>1. x[o] < n /\ s[x[o] + 1] = [fd |-> o, events |-> old[o]]
      BY <2>1, <2>3
    <3>2. x[o] + 1 \in 1 .. n
      BY <1>2, <1>3, <2>3, <3>1, Below
    <3>. QED
      BY <3>1, <3>2
  <2>. QED
    BY <1>3, <2>1, <2>2, <2>3
\* To be shown of the new array t and index y
<1>6. ASSUME NEW t \in Seq(Pollfds), NEW y, y \in [Fds -> Nat \cup {-1}],
             Indexed(Len(t), F(t), G(t), y, new), q = [polls |-> t, idx |-> y]
      PROVE  q \in Polled /\ PollsIndexed(m, q)
  <2>1. q.polls = t /\ q.idx = y /\ q \in Polled
    BY <1>6 DEF Polled
  <2>2. ASSUME NEW i \in 0 .. Len(t) - 1
        PROVE  y[t[i + 1].fd] = i
    <3>1. i + 1 \in 1 .. Len(t) /\ i + 1 - 1 = i
      OBVIOUS
    <3>2. y[F(t)[i + 1]] = i
      BY <1>6, <3>1
    <3>. QED
      BY <3>1, <3>2
  <2>3. \A o \in Fds : (y[o] >= 0) = (new[o] # {})
    BY <1>6
  <2>4. ASSUME NEW o \in Fds, y[o] >= 0
        PROVE  y[o] < Len(t) /\ t[y[o] + 1] = [fd |-> o, events |-> new[o]]
    <3>1. y[o] \in Int /\ y[o] < Len(t) /\ F(t)[y[o] + 1] = o /\ G(t)[y[o] + 1] = new[o]
      BY <1>6, <2>4
    <3>2. y[o] + 1 \in 1 .. Len(t)
      BY <2>4, <3>1
    <3>3. t[y[o] + 1] \in Pollfds /\ t[y[o] + 1].fd = o /\ t[y[o] + 1].events = new[o]
      BY <3>1, <3>2
    <3>. QED
      BY <3>1, <3>3 DEF Pollfds
  <2>. HIDE DEF Indexed, F, G
  <2>. QED
    BY <2>1, <2>2, <2>3, <2>4 DEF PollsIndexed, PollCnt, At
<1>7. F(s) \in [1 .. n -> Fds] /\ G(s) \in [1 .. n -> SUBSET Bits]
  BY <1>2 DEF Pollfds
<1>8. CASE old[fd] = new[fd]
  <2>1. q = p /\ p = [polls |-> s, idx |-> x]
    BY <1>8 DEF PollModify, Polled
  <2>2. \A o \in Fds : new[o] = old[o]
    BY <1>4, <1>8
  <2>. HIDE DEF F, G
  <2>3. Indexed(n, F(s), G(s), x, new)
    BY <1>5, <2>2
  <2>. HIDE DEF Indexed
  <2>. QED
    BY <1>1, <1>6, <2>1, <2>3
<1>9. CASE old[fd] # new[fd] /\ new[fd] # {} /\ x[fd] >= 0
  <2>. DEFINE t == [s EXCEPT ![x[fd] + 1] = [fd |-> fd, events |-> new[fd]]]
  <2>1. x[fd] + 1 \in 1 .. n /\ s[x[fd] + 1].fd = fd /\ s[x[fd] + 1] \in Pollfds
    <3>1. x[fd] < n /\ F(s)[x[fd] + 1] = fd
      BY <1>5, <1>9
    <3>2. x[fd] + 1 \in 1 .. n
      BY SMTT(60), <1>2, <1>3, <1>9, <3>1
    <3>. QED
      BY <1>2, <3>1, <3>2
  <2>2. q = [polls |-> t, idx |-> x]
    <3>1. q = [p EXCEPT !.polls[x[fd] + 1].events = new[fd]]
      BY <1>9 DEF PollModify
    <3>2. [s EXCEPT ![x[fd] + 1].events = new[fd]] = t
      <4>1. [s[x[fd] + 1] EXCEPT !.events = new[fd]] = [fd |-> fd, events |-> new[fd]]
        BY <2>1 DEF Pollfds
      <4>. QED
        BY <4>1
    <3>. QED
      BY <3>1, <3>2 DEF Polled
  <2>3. t \in Seq(Pollfds) /\ Len(t) = n
    <3>1. [fd |-> fd, events |-> new[fd]] \in Pollfds
      BY <1>4 DEF Pollfds
    <3>. QED
      BY <1>1, <1>2, <2>1, <3>1
  <2>4. F(t) = F(s) /\ G(t) = [G(s) EXCEPT ![x[fd] + 1] = new[fd]]
    <3>1. \A i \in 1 .. n : t[i] = IF i = x[fd] + 1 THEN [fd |-> fd, events |-> new[fd]] ELSE s[i]
      BY <1>1, <1>2, <2>1
    <3>. HIDE DEF t
    <3>2. \A i \in 1 .. n : t[i].fd = s[i].fd /\ t[i].events = IF i = x[fd] + 1 THEN new[fd] ELSE s[i].events
      BY <2>1, <3>1
    <3>. QED
      BY <2>3, <3>2
  <2>5. Indexed(n, F(t), G(t), x, new)
    <3>. PICK f : f = F(s)
      OBVIOUS
    <3>. PICK g : g = G(s)
      OBVIOUS
    <3>. HIDE DEF F, G, t
    <3>1. \A o \in Fds : o # fd /\ x[o] >= 0 => x[o] # x[fd]
      BY <1>5, <1>9
    <3>2. g \in [1 .. n -> SUBSET Bits]
      BY <1>7
    <3>3. ASSUME NEW o \in Fds, x[o] >= 0
          PROVE  x[o] < n /\ f[x[o] + 1] = o /\ [g EXCEPT ![x[fd] + 1] = new[fd]][x[o] + 1] = new[o]
      <4>1. x[o] < n /\ f[x[o] + 1] = o /\ g[x[o] + 1] = old[o]
        BY <1>5, <3>3
      <4>2. x[o] + 1 \in 1 .. n
        BY <1>2, <1>3, <3>3, <4>1
      <4>3. o # fd => x[o] + 1 # x[fd] + 1
        BY SMTT(60), <1>3, <3>1, <3>3
      <4>. QED
        BY <1>4, <3>2, <4>1, <4>2, <4>3
    <3>4. \A o \in Fds : (x[o] >= 0) <=> new[o] # {}
      BY SMTT(60), <1>4, <1>5, <1>9
    <3>. QED
      BY <1>5, <2>4, <3>3, <3>4
  <2>. HIDE DEF Indexed, t, F, G
  <2>. QED
    BY <1>1, <1>6, <2>2, <2>3, <2>5
<1>10. CASE old[fd] # new[fd] /\ new[fd] # {} /\ ~(x[fd] >= 0)
  <2>. DEFINE e == [fd |-> fd, events |-> new[fd]]
              t == Append(s, e)
              y == [x EXCEPT ![fd] = n]
  <2>1. q = [polls |-> t, idx |-> y]
    <3>. PICK u : u = Append(s, [fd |-> fd, events |-> {}])
      OBVIOUS
    <3>1. q = [polls |-> [u EXCEPT ![y[fd] + 1].events = new[fd]], idx |-> y]
      BY <1>10 DEF PollModify, PollCnt
    <3>2. y[fd] = n
      BY <1>1
    <3>3. /\ u[n + 1] = [fd |-> fd, events |-> {}] /\ DOMAIN u = 1 .. n + 1 /\ u \in Seq(Pollfds)
          /\ \A i \in 1 .. n : u[i] = s[i]
      BY <1>1, <1>2 DEF Pollfds
    <3>4. [u EXCEPT ![n + 1].events = new[fd]] = [u EXCEPT ![n + 1] = e]
      <4>1. [u[n + 1] EXCEPT !.events = new[fd]] = e
        BY <3>3
      <4>. QED
        BY <4>1
    <3>5. [u EXCEPT ![n + 1] = e] = t
      <4>. HIDE DEF e
      <4>1. t = [i \in 1 .. n + 1 |-> IF i = n + 1 THEN e ELSE s[i]]
        BY <1>1, <1>2
      <4>2. u = [i \in 1 .. n + 1 |-> u[i]]
        BY <3>3
      <4>3. [u EXCEPT ![n + 1] = e] = [i \in 1 .. n + 1 |-> IF i = n + 1 THEN e ELSE u[i]]
        BY <1>2, <4>2
      <4>4. \A i \in 1 .. n + 1 : i # n + 1 => u[i] = s[i]
        BY <1>2, <3>3
      <4>. QED
        BY SMTT(60), <4>1, <4>3, <4>4
    <3>. QED
      BY <3>1, <3>2, <3>4, <3>5
  <2>2. t \in Seq(Pollfds) /\ Len(t) = n + 1 /\ t[n + 1] = e /\ \A i \in 1 .. n : t[i] = s[i]
    BY <1>1, <1>2, <1>4 DEF Pollfds
  <2>3. y \in [Fds -> Nat \cup {-1}] /\ y[fd] = n /\ \A o \in Fds : o # fd => y[o] = x[o]
    BY <1>1, <1>2
  <2>. PICK f : f = F(t)
    OBVIOUS
  <2>. PICK g : g = G(t)
    OBVIOUS
  <2>4. /\ f[n + 1] = fd /\ g[n + 1] = new[fd]
        /\ \A i \in 1 .. n : f[i] = F(s)[i] /\ g[i] = G(s)[i]
    <3>. HIDE DEF t
    <3>. QED
      BY <1>2, <2>2
  <2>5. Indexed(n + 1, f, g, y, new)
    <3>. PICK f0 : f0 = F(s)
      OBVIOUS
    <3>. PICK g0 : g0 = G(s)
      OBVIOUS
    <3>0. Indexed(n, f0, g0, x, old)
      BY <1>5
    <3>. HIDE DEF t, y, e, F, G
    <3>1. ASSUME NEW i \in 1 .. n + 1
          PROVE  f[i] \in Fds /\ y[f[i]] = i - 1
      <4>1. CASE i = n + 1
        BY <1>2, <2>3, <2>4, <4>1
      <4>2. CASE i # n + 1
        <5>1. i \in 1 .. n
          BY <1>2, <4>2
        <5>2. f0[i] \in Fds /\ x[f0[i]] = i - 1 /\ f[i] = f0[i]
          BY <2>4, <3>0, <5>1
        <5>3. f0[i] # fd
          BY <1>10, <5>1, <5>2
        <5>. QED
          BY <2>3, <5>2, <5>3
      <4>. QED
        BY <4>1, <4>2
    <3>2. \A o \in Fds : (y[o] >= 0) <=> new[o] # {}
      BY <1>2, <1>4, <1>10, <2>3, <3>0
    <3>3. ASSUME NEW o \in Fds, y[o] >= 0
          PROVE  y[o] < n + 1 /\ f[y[o] + 1] = o /\ g[y[o] + 1] = new[o]
      <4>1. CASE o = fd
        BY <1>2, <2>3, <2>4, <4>1
      <4>2. CASE o # fd
        <5>1. y[o] = x[o] /\ x[o] < n /\ f0[x[o] + 1] = o /\ g0[x[o] + 1] = old[o]
          BY <2>3, <3>0, <3>3, <4>2
        <5>2. x[o] + 1 \in 1 .. n /\ x[o] < n + 1
          BY <1>2, <1>3, <3>3, <5>1
        <5>. QED
          BY <1>4, <2>4, <4>2, <5>1, <5>2
      <4>. QED
        BY <4>1, <4>2
    <3>4. \A o \in Fds : y[o] \in Int /\ y[o] >= -1
      BY <2>3
    <3>. QED
      BY <3>1, <3>2, <3>3, <3>4
  <2>. HIDE DEF Indexed, t, y, F, G
  <2>. QED
    BY SMTT(60), <1>6, <2>1, <2>2, <2>3, <2>5
<1>11. CASE old[fd] # new[fd] /\ new[fd] = {}
  <2>. PICK f : f = F(s)
    OBVIOUS
  <2>. PICK g : g = G(s)
    OBVIOUS
  <2>. PICK a : a = x[fd]
    OBVIOUS
  <2>0. Indexed(n, f, g, x, old) /\ f \in [1 .. n -> Fds] /\ g \in [1 .. n -> SUBSET Bits]
    BY <1>5, <1>7
  <2>1. a \in Int /\ a >= 0 /\ a < n /\ n > 0 /\ f[a + 1] = fd
    BY <1>2, <1>3, <1>11, <2>0
  <2>2. q = Removed(p, fd)
    BY <1>11, <2>1 DEF PollModify
  <2>. DEFINE short == SubSeq(s, 1, n - 1)
              gone == [x EXCEPT ![fd] = -1]
  <2>3. short \in Seq(Pollfds) /\ Len(short) = n - 1 /\ \A i \in 1 .. n - 1 : short[i] = s[i]
    BY <1>1, <1>2, <2>1
  <2>4. gone \in [Fds -> Nat \cup {-1}] /\ gone[fd] = -1 /\ \A o \in Fds : o # fd => gone[o] = x[o]
    BY <1>1
  <2>5. ASSUME NEW i \in 1 .. n, i # a + 1
        PROVE  f[i] # fd
    <3>1. x[f[i]] = i - 1
      BY <2>0
    <3>2. i - 1 # a
      BY <1>2, <2>1, <2>5
    <3>. QED
      BY <3>1, <3>2
  <2>6. CASE a = n - 1
    <3>1. q = [polls |-> short, idx |-> gone]
      <4>1. ~(x[fd] < n - 1)
        BY <2>1, <2>6
      <4>. QED
        BY <2>2, <4>1 DEF Removed, PollCnt, Shortened
    <3>2. /\ \A i \in 1 .. n - 1 : F(short)[i] = f[i] /\ G(short)[i] = g[i]
      BY <1>2, <2>1, <2>3
    <3>3. Indexed(n - 1, F(short), G(short), gone, new)
      <4>. PICK f1 : f1 = F(short)
        OBVIOUS
      <4>. PICK g1 : g1 = G(short)
        OBVIOUS
      <4>. HIDE DEF short, gone, F, G
      <4>1. ASSUME NEW i \in 1 .. n - 1
            PROVE  f1[i] \in Fds /\ gone[f1[i]] = i - 1
        <5>1. i \in 1 .. n /\ i # a + 1
          BY <1>2, <2>1, <2>6
        <5>2. f1[i] = f[i] /\ f[i] \in Fds /\ x[f[i]] = i - 1 /\ f[i] # fd
          BY <2>0, <2>5, <3>2, <5>1
        <5>. QED
          BY <2>4, <5>2
      <4>2. \A o \in Fds : (gone[o] >= 0) <=> new[o] # {}
        BY SMTT(60), <1>4, <1>11, <2>0, <2>4
      <4>3. ASSUME NEW o \in Fds, gone[o] >= 0
            PROVE  gone[o] < n - 1 /\ f1[gone[o] + 1] = o /\ g1[gone[o] + 1] = new[o]
        <5>1. o # fd /\ gone[o] = x[o]
          BY <2>4, <4>3
        <5>2. x[o] \in Int /\ x[o] >= 0 /\ x[o] < n /\ f[x[o] + 1] = o /\ g[x[o] + 1] = old[o]
          BY <2>0, <4>3, <5>1
        <5>3. x[o] # n - 1
          BY <2>1, <2>6, <5>1, <5>2
        <5>4. x[o] < n - 1 /\ x[o] + 1 \in 1 .. n - 1
          BY <1>2, <5>2, <5>3, Below
        <5>. QED
          BY SMTT(60), <1>4, <3>2, <5>1, <5>2, <5>4
      <4>4. \A o \in Fds : gone[o] \in Int /\ gone[o] >= -1
        BY <2>4
      <4>. QED
        BY <4>1, <4>2, <4>3, <4>4
    <3>. HIDE DEF Indexed, short, gone, F, G
    <3>. QED
      BY <1>6, <2>3, <2>4, <3>1, <3>3
  <2>7. CASE a < n - 1
    <3>. PICK last : last = s[n]
      OBVIOUS
    <3>1. last \in Pollfds /\ last.fd = f[n] /\ last.events = g[n] /\ n \in 1 .. n
      BY SMTT(60), <1>2, <2>1
    <3>2. last.fd \in Fds /\ last.fd # fd /\ x[last.fd] = n - 1 /\ last.events = new[last.fd]
      <4>1. f[n] \in Fds /\ x[f[n]] = n - 1 /\ f[n] # fd
        <5>1. n # a + 1
          BY SMTT(60), <1>2, <2>1, <2>7
        <5>. QED
          BY <2>0, <2>5, <3>1, <5>1
      <4>2. n - 1 >= 0 /\ n - 1 + 1 = n
        BY SMTT(60), <1>2, <2>1
      <4>3. g[n] = old[f[n]]
        <5>1. x[f[n]] >= 0 /\ x[f[n]] + 1 = n
          BY <4>1, <4>2
        <5>2. g[x[f[n]] + 1] = old[f[n]]
          BY <2>0, <4>1, <5>1
        <5>. QED
          BY <5>1, <5>2
      <4>. QED
        BY <1>4, <3>1, <4>1, <4>3
    <3>. DEFINE t == [short EXCEPT ![a + 1] = last]
                y == [gone EXCEPT ![last.fd] = a]
    <3>3. q = [polls |-> t, idx |-> y]
      <4>1. n - 1 + 1 = n
        BY <1>2
      <4>2. p.idx[fd] < n - 1
        BY <2>7
      <4>3. p.polls[n - 1 + 1] = last
        BY <4>1
      <4>. QED
        BY <2>2, <4>2, <4>3 DEF Removed, PollCnt, Shortened, At
    <3>. HIDE DEF short, gone
    <3>4. a + 1 \in 1 .. n - 1
      BY <1>2, <2>1, <2>7
    <3>5. /\ t \in Seq(Pollfds) /\ Len(t) = n - 1
          /\ \A i \in 1 .. n - 1 : t[i] = IF i = a + 1 THEN last ELSE s[i]
      <4>1. t \in Seq(Pollfds) /\ Len(t) = n - 1
        BY <2>3, <3>1, <3>4
      <4>2. DOMAIN short = 1 .. n - 1
        BY <2>3
      <4>3. \A i \in 1 .. n - 1 : t[i] = IF i = a + 1 THEN last ELSE short[i]
        BY <3>4, <4>2
      <4>. QED
        BY <2>3, <4>1, <4>3
    <3>6. /\ y \in [Fds -> Nat \cup {-1}] /\ y[last.fd] = a /\ y[fd] = -1
          /\ \A o \in Fds : o # fd /\ o # last.fd => y[o] = x[o]
      BY <2>1, <2>4, <3>2
    <3>7. \A i \in 1 .. n - 1 : /\ F(t)[i] = IF i = a + 1 THEN last.fd ELSE f[i]
                                /\ G(t)[i] = IF i = a + 1 THEN last.events ELSE g[i]
      <4>. HIDE DEF t
      <4>1. ASSUME NEW i \in 1 .. n - 1
            PROVE  i \in 1 .. n /\ i \in 1 .. Len(t)
        BY <1>2, <3>5
      <4>. QED
        BY <3>5, <4>1
    <3>8. Indexed(n - 1, F(t), G(t), y, new)
      <4>. PICK f1 : f1 = F(t)
        OBVIOUS
      <4>. PICK g1 : g1 = G(t)
        OBVIOUS
      <4>. PICK b : b = last.fd
        OBVIOUS
      <4>. HIDE DEF t, y, F, G
      <4>1. ASSUME NEW i \in 1 .. n - 1
            PROVE  f1[i] \in Fds /\ y[f1[i]] = i - 1
        <5>1. CASE i = a + 1
          BY SMTT(60), <2>1, <3>2, <3>6, <3>7, <5>1
        <5>2. CASE i # a + 1
          <6>1. i \in 1 .. n /\ i # n
            BY <1>2
          <6>2. f1[i] = f[i] /\ f[i] \in Fds /\ x[f[i]] = i - 1 /\ f[i] # fd
            BY <2>0, <2>5, <3>7, <5>2, <6>1
          <6>3. f[i] # b
            BY <1>2, <3>2, <6>1, <6>2
          <6>. QED
            BY <3>6, <6>2, <6>3
        <5>. QED
          BY <5>1, <5>2
      <4>2. ASSUME NEW o \in Fds
            PROVE  (y[o] >= 0) <=> new[o] # {}
        <5>1. CASE o = fd
          BY <1>11, <3>6, <5>1
        <5>2. CASE o = b
          <6>1. x[b] >= 0
            BY <1>2, <2>1, <3>2
          <6>2. old[b] # {} /\ new[b] = old[b]
            BY SMTT(60), <1>4, <2>0, <3>2, <6>1
          <6>. QED
            BY <2>1, <3>6, <5>2, <6>2
        <5>3. CASE o # fd /\ o # b
          BY <1>4, <2>0, <3>6, <5>3
        <5>. QED
          BY <5>1, <5>2, <5>3
      <4>3. ASSUME NEW o \in Fds, y[o] >= 0
            PROVE  y[o] < n - 1 /\ f1[y[o] + 1] = o /\ g1[y[o] + 1] = new[o]
        <5>1. o # fd
          BY <3>6, <4>3
        <5>2. CASE o = b
          BY SMTT(60), <2>7, <3>2, <3>4, <3>6, <3>7, <5>2
        <5>3. CASE o # b
          <6>1. y[o] = x[o] /\ x[o] \in Int /\ x[o] < n /\ f[x[o] + 1] = o /\ g[x[o] + 1] = old[o]
            BY <2>0, <3>6, <4>3, <5>1, <5>3
          <6>2. x[o] # n - 1
            <7>1. n - 1 + 1 = n
              BY <1>2
            <7>. QED
              BY <3>1, <5>3, <6>1, <7>1
          <6>3. x[o] # a
            BY <2>1, <5>1, <6>1
          <6>4. x[o] < n - 1 /\ x[o] + 1 \in 1 .. n - 1 /\ x[o] + 1 # a + 1
            BY SMTT(60), <1>2, <2>1, <4>3, <6>1, <6>2, <6>3
          <6>. QED
            BY SMTT(60), <1>4, <3>7, <5>1, <6>1, <6>4
        <5>. QED
          BY <5>2, <5>3
      <4>4. \A o \in Fds : y[o] \in Int /\ y[o] >= -1
        BY <3>6
      <4>. QED
        BY <4>1, <4>2, <4>3, <4>4
    <3>. HIDE DEF Indexed, t, y, F, G
    <3>. QED
      BY <1>6, <3>3, <3>5, <3>6, <3>8
  <2>8. a = n - 1 \/ a < n - 1
    BY <1>2, <2>1
  <2>. QED
    BY <2>6, <2>7, <2>8
<1>. QED
  BY <1>8, <1>9, <1>10, <1>11

LEMMA NotUnpollable == NoFile \notin Unpollable
BY EvFdAssumption

\* A held descriptor is open, whether the backend knows of it or not.
LEMMA KnownIsOpen ==
  ASSUME FilesSound, NEW l, NEW fd \in Fds, Known(l, fd)
  PROVE  IsOpen(fd) /\ l.events[fd] # {}
BY DEF FilesSound, Known, Held

LEMMA KnownBefore ==
  ASSUME NEW l, NEW m, NEW fd, m.events[fd] = l.events[fd], l.reify[fd] \subseteq m.reify[fd], Known(m, fd)
  PROVE  Known(l, fd)
BY DEF Known

LEMMA AgedFields ==
  ASSUME NEW p \in Epolled, NEW fd \in Fds
  PROVE  /\ Aged(p, fd) \subseteq Registrations
         /\ \A e : e.fd # fd => (e \in Aged(p, fd) <=> e \in p.interest)
         /\ \A e \in Aged(p, fd) : e.fd = fd =>
              ~e.current /\ \E old \in p.interest : old.fd = fd /\ old.file = e.file
<1>1. ASSUME NEW old \in p.interest, old.fd = fd, NEW e, e = [old EXCEPT !.current = FALSE]
      PROVE  e \in Registrations /\ ~e.current /\ e.fd = fd /\ e.file = old.file
  BY <1>1 DEF Epolled, Registrations
<1>2. ASSUME NEW e \in Aged(p, fd)
      PROVE  \/ e \in p.interest /\ e.fd # fd
             \/ \E old \in p.interest : old.fd = fd /\ e = [old EXCEPT !.current = FALSE]
  BY DEF Aged
<1>3. ASSUME NEW e \in p.interest, e.fd # fd
      PROVE  e \in Aged(p, fd)
  BY <1>3 DEF Aged
<1>4. p.interest \subseteq Registrations
  BY DEF Epolled
<1>5. Aged(p, fd) \subseteq Registrations
  BY <1>1, <1>2, <1>4
<1>6. \A e : e.fd # fd => (e \in Aged(p, fd) <=> e \in p.interest)
  BY <1>1, <1>2, <1>3
<1>7. ASSUME NEW e \in Aged(p, fd), e.fd = fd
      PROVE  ~e.current /\ \E old \in p.interest : old.fd = fd /\ old.file = e.file
  BY <1>1, <1>2, <1>7
<1>. QED
  BY <1>5, <1>6, <1>7

LEMMA EpollMasks ==
  ASSUME NEW l, LoopOK(l), NEW p, NEW fd \in Fds, NEW oev, NEW nev \in SUBSET Bits,
         NEW m, m = EpollModify(l, p, fd, oev, nev).l
  PROVE  /\ \A other \in Fds : other # fd => m.emask[other] = l.emask[other]
         /\ nev # {} => m.emask[fd] = IF file[fd] \in Unpollable THEN EPERM ELSE nev
         /\ nev = {} => m.emask[fd] = l.emask[fd]
<1>1. nev \in SUBSET (Bits \cup EPERM) /\ EPERM \in SUBSET (Bits \cup EPERM)
  OBVIOUS
<1>2. CASE nev = {}
  BY <1>2 DEF EpollModify
<1>3. CASE nev # {} /\ ~IsOpen(fd)
  <2>1. m = FdKill(Noted(l, fd, nev), fd) /\ file[fd] \notin Unpollable
    BY <1>3, NotUnpollable DEF EpollModify, Noted, IsOpen
  <2>2. LoopOK(Noted(l, fd, nev))
    BY <1>1, NotedFields
  <2>3. m.emask = Noted(l, fd, nev).emask
    BY <2>1, <2>2, FdKillMarks DEF Marks
  <2>. QED
    BY <1>1, <1>3, <2>1, <2>3, NotedFields
<1>4. CASE nev # {} /\ IsOpen(fd) /\ file[fd] \in Unpollable
  <2>1. m = Noted(l, fd, EPERM)
    BY <1>4 DEF EpollModify, Noted
  <2>. QED
    BY <1>1, <1>4, <2>1, NotedFields
<1>5. CASE nev # {} /\ IsOpen(fd) /\ file[fd] \notin Unpollable
  <2>1. m = Noted(l, fd, nev)
    BY <1>5 DEF EpollModify, Noted
  <2>. QED
    BY <1>1, <1>5, <2>1, NotedFields
<1>. QED
  BY <1>2, <1>3, <1>4, <1>5

LEMMA EpollTold ==
  ASSUME NEW l, NEW k, LoopOK(k), k.emask = l.emask, NEW p \in Epolled, EpollSound(l, p),
         FilesSound, file \in [Fds -> Files \cup {NoFile}],
         NEW fd \in Fds, NEW oev, NEW nev \in SUBSET Bits,
         NEW m, m = EpollModify(k, p, fd, oev, nev).l, NEW q, q = EpollModify(k, p, fd, oev, nev).p,
         m.events[fd] = nev,
         OthersKept(l, m, fd)
  PROVE  q \in Epolled /\ EpollSound(m, q)
<1>. USE DEF OthersKept
<1>1. \A other \in Fds : other # fd /\ Known(m, other) => Known(l, other)
  BY KnownBefore
<1>2. Known(m, fd) => IsOpen(fd) /\ nev # {}
  BY KnownIsOpen
<1>3. /\ \A other \in Fds : other # fd => m.emask[other] = l.emask[other]
      /\ nev # {} => m.emask[fd] = IF file[fd] \in Unpollable THEN EPERM ELSE nev
      /\ nev = {} => m.emask[fd] = l.emask[fd]
  <2>1. /\ \A other \in Fds : other # fd => m.emask[other] = k.emask[other]
        /\ nev # {} => m.emask[fd] = IF file[fd] \in Unpollable THEN EPERM ELSE nev
        /\ nev = {} => m.emask[fd] = k.emask[fd]
    BY EpollMasks
  <2>. QED
    BY <2>1
<1>4. \A r, o, e : e \in Mine(r, o) <=> e \in r.interest /\ e.fd = o /\ e.file = file[o]
  BY DEF Mine
<1>5. p.interest \subseteq Registrations /\ p.eperms \subseteq Fds /\ \A e \in p.interest : e.fd \in Fds
  BY DEF Epolled, Registrations
<1>6. /\ \A o \in Fds : \A e \in Mine(p, o) : e.current /\ e.mask = l.emask[o]
      /\ \A o \in Fds : Known(l, o) =>
           IF file[o] \in Unpollable THEN l.emask[o] = EPERM
           ELSE l.emask[o] = l.events[o] /\ Mine(p, o) # {}
      /\ \A e \in p.interest : e.current /\ (Known(l, e.fd) \/ Mine(p, e.fd) # {}) => e.file = file[e.fd]
      /\ \A e \in p.interest : e.file \notin Unpollable /\ (e.file \in elsewhere \/ \E o \in Fds : file[o] = e.file)
  BY DEF EpollSound
\* What is not about fd stays.
<1>7. ASSUME \A e : e.fd # fd => (e \in q.interest <=> e \in p.interest)
      PROVE  \A o \in Fds : o # fd => Mine(q, o) = Mine(p, o)
  <2>. TAKE o \in Fds
  <2>. HAVE o # fd
  <2>1. \A e : e \in Mine(q, o) <=> e \in Mine(p, o)
    BY <1>4, <1>7
  <2>. QED
    BY <2>1
<1>8. CASE nev = {}
  <2>1. q = p
    BY <1>8 DEF EpollModify
  <2>2. ~Known(m, fd)
    BY <1>2, <1>8
  <2>3. \A o \in Fds : m.emask[o] = l.emask[o]
    BY <1>3, <1>8
  <2>4. \A o \in Fds : Known(m, o) => Known(l, o) /\ m.events[o] = l.events[o]
    BY <1>1, <2>2
  <2>. QED
    BY SMTT(60), <1>5, <1>6, <2>1, <2>3, <2>4 DEF EpollSound
<1>9. CASE nev # {} /\ ~IsOpen(fd)
  <2>1. q = p
    BY <1>9, NotUnpollable DEF EpollModify, IsOpen
  <2>2. ~Known(m, fd) /\ Mine(p, fd) = {}
    BY <1>2, <1>4, <1>5, <1>9, EvFdAssumption DEF IsOpen, Registrations
  <2>3. \A o \in Fds : Known(m, o) => Known(l, o) /\ m.events[o] = l.events[o] /\ m.emask[o] = l.emask[o]
    BY <1>1, <1>3, <2>2
  <2>4. \A o \in Fds : \A e \in Mine(p, o) : e.current /\ e.mask = m.emask[o]
    BY <1>3, <1>6, <2>2
  <2>. QED
    BY SMTT(60), <1>5, <1>6, <2>1, <2>3, <2>4 DEF EpollSound
<1>10. CASE nev # {} /\ IsOpen(fd) /\ file[fd] \in Unpollable
  <2>1. q.interest = Aged(p, fd) /\ q \in Epolled
    <3>1. q = [interest |-> Aged(p, fd),
               eperms |-> IF k.emask[fd] = EPERM THEN p.eperms ELSE p.eperms \cup {fd}]
      BY <1>10 DEF EpollModify
    <3>2. Aged(p, fd) \subseteq Registrations
      BY AgedFields
    <3>. QED
      BY <1>5, <3>1, <3>2 DEF Epolled
  <2>2. /\ \A e : e.fd # fd => (e \in q.interest <=> e \in p.interest)
        /\ \A e \in q.interest : e.fd = fd => ~e.current /\ \E old \in p.interest : old.fd = fd /\ old.file = e.file
    BY <2>1, AgedFields
  <2>3. \A o \in Fds : o # fd => Mine(q, o) = Mine(p, o)
    BY <1>7, <2>2
  <2>4. Mine(q, fd) = {}
    BY <1>4, <1>6, <1>10, <2>2
  <2>5. \A o \in Fds : \A e \in Mine(q, o) : e.current /\ e.mask = m.emask[o]
    BY <1>3, <1>6, <2>3, <2>4
  <2>6. \A o \in Fds : Known(m, o) =>
          IF file[o] \in Unpollable THEN m.emask[o] = EPERM ELSE m.emask[o] = m.events[o] /\ Mine(q, o) # {}
    <3>. TAKE o \in Fds
    <3>1. CASE o = fd
      BY <1>3, <1>10, <3>1
    <3>2. CASE o # fd
      BY <1>1, <1>3, <1>6, <2>3, <3>2
    <3>. QED
      BY <3>1, <3>2
  <2>7. ASSUME NEW e \in q.interest, e.current, Known(m, e.fd) \/ Mine(q, e.fd) # {}
        PROVE  e.file = file[e.fd]
    <3>1. e.fd # fd /\ e \in p.interest /\ e.fd \in Fds
      BY <1>5, <2>2, <2>7
    <3>2. Known(l, e.fd) \/ Mine(p, e.fd) # {}
      BY <1>1, <2>3, <2>7, <3>1
    <3>. QED
      BY <1>6, <2>7, <3>1, <3>2
  <2>8. \A e \in q.interest : e.file \notin Unpollable /\ (e.file \in elsewhere \/ \E o \in Fds : file[o] = e.file)
    <3>. TAKE e \in q.interest
    <3>1. \E old \in p.interest : old.file = e.file
      BY <2>2
    <3>. QED
      BY <1>6, <3>1
  <2>. QED
    BY <2>1, <2>5, <2>6, <2>7, <2>8 DEF EpollSound
<1>11. CASE nev # {} /\ IsOpen(fd) /\ file[fd] \notin Unpollable /\ Mine(p, fd) # {} /\ k.emask[fd] = nev
  <2>1. q = p
    BY <1>11 DEF EpollModify
  <2>2. \A o \in Fds : m.emask[o] = l.emask[o]
    BY <1>3, <1>11
  <2>3. \A o \in Fds : Known(m, o) =>
          IF file[o] \in Unpollable THEN m.emask[o] = EPERM ELSE m.emask[o] = m.events[o] /\ Mine(q, o) # {}
    <3>. TAKE o \in Fds
    <3>1. CASE o = fd
      BY <1>3, <1>11, <2>1, <3>1
    <3>2. CASE o # fd
      BY <1>1, <1>3, <1>6, <2>1, <3>2
    <3>. QED
      BY <3>1, <3>2
  <2>4. ASSUME NEW e \in q.interest, e.current, Known(m, e.fd) \/ Mine(q, e.fd) # {}
        PROVE  e.file = file[e.fd]
    <3>1. e \in p.interest /\ e.fd \in Fds
      BY <1>5, <2>1
    <3>2. CASE e.fd = fd
      BY <1>6, <1>11, <2>4, <3>1, <3>2
    <3>3. CASE e.fd # fd
      BY <1>1, <1>6, <2>1, <2>4, <3>1, <3>3
    <3>. QED
      BY <3>2, <3>3
  <2>. QED
    BY ZenonT(60), <1>6, <2>1, <2>2, <2>3, <2>4 DEF EpollSound
<1>12. CASE nev # {} /\ IsOpen(fd) /\ file[fd] \notin Unpollable /\ ~(Mine(p, fd) # {} /\ k.emask[fd] = nev)
  <2>. DEFINE aged == Aged(p, fd)
              new == Entry(fd, file[fd], nev, TRUE)
  <2>1. q = [p EXCEPT !.interest = (aged \ {e \in aged : e.fd = fd /\ e.file = file[fd]}) \cup {new}]
    BY <1>12 DEF EpollModify, Registered
  <2>2. new \in Registrations /\ new.fd = fd /\ new.file = file[fd] /\ new.mask = nev /\ new.current
    BY <1>12 DEF Entry, Registrations, IsOpen
  <2>3. /\ aged \subseteq Registrations
        /\ \A e : e.fd # fd => (e \in aged <=> e \in p.interest)
        /\ \A e \in aged : e.fd = fd => ~e.current /\ \E old \in p.interest : old.fd = fd /\ old.file = e.file
    BY AgedFields
  <2>. HIDE DEF aged, new
  <2>4. q.interest = (aged \ {e \in aged : e.fd = fd /\ e.file = file[fd]}) \cup {new} /\ q.eperms = p.eperms
    BY <2>1 DEF Epolled
  <2>5. q \in Epolled
    BY <1>5, <2>1, <2>2, <2>3, <2>4 DEF Epolled
  <2>6. /\ \A e : e.fd # fd => (e \in q.interest <=> e \in p.interest)
        /\ new \in q.interest
        /\ \A e \in q.interest : e.fd = fd => e = new \/ (~e.current /\ e.file # file[fd] /\ e \in aged)
    BY <2>2, <2>3, <2>4
  <2>7. \A o \in Fds : o # fd => Mine(q, o) = Mine(p, o)
    BY <1>7, <2>6
  <2>8. new \in Mine(q, fd) /\ \A e \in Mine(q, fd) : e = new
    BY <1>4, <2>2, <2>6
  <2>9. \A o \in Fds : \A e \in Mine(q, o) : e.current /\ e.mask = m.emask[o]
    <3>. TAKE o \in Fds
    <3>1. CASE o = fd
      BY <1>3, <1>12, <2>2, <2>8, <3>1
    <3>2. CASE o # fd
      BY <1>3, <1>6, <2>7, <3>2
    <3>. QED
      BY <3>1, <3>2
  <2>10. \A o \in Fds : Known(m, o) =>
           IF file[o] \in Unpollable THEN m.emask[o] = EPERM ELSE m.emask[o] = m.events[o] /\ Mine(q, o) # {}
    <3>. TAKE o \in Fds
    <3>1. CASE o = fd
      BY <1>3, <1>12, <2>8, <3>1
    <3>2. CASE o # fd
      BY <1>1, <1>3, <1>6, <2>7, <3>2
    <3>. QED
      BY <3>1, <3>2
  <2>11. ASSUME NEW e \in q.interest, e.current, Known(m, e.fd) \/ Mine(q, e.fd) # {}
         PROVE  e.file = file[e.fd]
    <3>1. CASE e.fd = fd
      BY <2>2, <2>6, <2>11, <3>1
    <3>2. CASE e.fd # fd
      <4>1. e \in p.interest /\ e.fd \in Fds
        BY <1>5, <2>6, <3>2
      <4>2. Known(l, e.fd) \/ Mine(p, e.fd) # {}
        BY <1>1, <2>7, <2>11, <3>2, <4>1
      <4>. QED
        BY <1>6, <2>11, <4>1, <4>2
    <3>. QED
      BY <3>1, <3>2
  <2>12. \A e \in q.interest : e.file \notin Unpollable /\ (e.file \in elsewhere \/ \E o \in Fds : file[o] = e.file)
    <3>. TAKE e \in q.interest
    <3>1. CASE e = new
      BY <1>12, <2>2, <3>1
    <3>2. CASE e # new
      <4>1. \E old \in p.interest : old.file = e.file
        BY <2>3, <2>6, <3>2
      <4>. QED
        BY <1>6, <4>1
    <3>. QED
      BY <3>1, <3>2
  <2>. QED
    BY <2>5, <2>9, <2>10, <2>11, <2>12 DEF EpollSound
<1>. QED
  BY <1>8, <1>9, <1>10, <1>11, <1>12

LEMMA PortTold ==
  ASSUME NEW l, NEW k, NEW p \in Ported, NEW b, PortSound(l, p, b),
         FilesSound, file \in [Fds -> Files \cup {NoFile}],
         NEW fd \in Fds, NEW oev, NEW nev \in SUBSET Bits,
         NEW q, q = PortModify(k, p, fd, oev, nev).p,
         NEW m, m.events[fd] = nev,
         OthersKept(l, m, fd)
  PROVE  q \in Ported /\ PortSound(m, q, b)
<1>. USE DEF OthersKept
<1>1. \A other \in Fds : other # fd /\ Known(m, other) => Known(l, other)
  BY KnownBefore
<1>2. Known(m, fd) => IsOpen(fd) /\ nev # {}
  BY KnownIsOpen
<1>3. /\ \A a \in p.interest : a.file = file[a.fd]
      /\ \A o \in Fds : Known(l, o) =>
           (\E e \in b : e.fd = o) \/ (\E a \in p.interest : a.fd = o /\ a.mask = l.events[o])
  BY DEF PortSound
<1>4. p.interest \subseteq Associations
  BY DEF Ported
\* The associations of the other descriptors stay, and fd has the new one.
<1>5. ASSUME q.interest \subseteq Associations,
             \A a : a.fd # fd => (a \in q.interest <=> a \in p.interest),
             \A a \in q.interest : a.fd = fd => a.file = file[fd],
             IsOpen(fd) /\ nev # {} => \E a \in q.interest : a.fd = fd /\ a.mask = nev
      PROVE  PortSound(m, q, b)
  <2>1. ASSUME NEW a \in q.interest
        PROVE  a.file = file[a.fd]
    BY <1>3, <1>5
  <2>2. ASSUME NEW o \in Fds, Known(m, o)
        PROVE  (\E e \in b : e.fd = o) \/ (\E a \in q.interest : a.fd = o /\ a.mask = m.events[o])
    <3>1. CASE o = fd
      BY <1>2, <1>5, <2>2, <3>1
    <3>2. CASE o # fd
      BY <1>1, <1>3, <1>5, <2>2, <3>2
    <3>. QED
      BY <3>1, <3>2
  <2>. QED
    BY <2>1, <2>2 DEF PortSound
<1>. DEFINE others == {a \in p.interest : a.fd # fd}
            new == [fd |-> fd, file |-> file[fd], mask |-> nev]
<1>6. CASE q = p /\ (nev = {} \/ ~IsOpen(fd))
  BY <1>3, <1>4, <1>5, <1>6
<1>7. CASE q = [interest |-> others] /\ nev = {}
  <2>1. q.interest = others
    BY <1>7
  <2>2. q.interest \subseteq Associations /\ \A a : a.fd # fd => (a \in q.interest <=> a \in p.interest)
    BY <1>4, <2>1
  <2>3. \A a \in q.interest : a.fd # fd
    BY <2>1
  <2>4. q \in Ported
    BY <1>7, <2>1, <2>2 DEF Ported
  <2>. QED
    BY <1>5, <1>7, <2>2, <2>3, <2>4
<1>8. CASE q = [interest |-> others \cup {new}] /\ nev # {} /\ IsOpen(fd)
  <2>1. q.interest = others \cup {new}
    BY <1>8
  <2>2. new \in Associations /\ new.fd = fd /\ new.file = file[fd] /\ new.mask = nev
    BY <1>8 DEF Associations, IsOpen
  <2>. HIDE DEF new
  <2>3. q.interest \subseteq Associations /\ \A a : a.fd # fd => (a \in q.interest <=> a \in p.interest)
    BY <1>4, <2>1, <2>2
  <2>4. \A a \in q.interest : a.fd = fd => a = new
    BY <2>1
  <2>5. q \in Ported
    BY <1>8, <2>1, <2>3 DEF Ported
  <2>6. new \in q.interest
    BY <2>1
  <2>. QED
    BY <1>5, <1>8, <2>2, <2>3, <2>4, <2>5, <2>6
<1>9. \/ q = p /\ (nev = {} \/ ~IsOpen(fd))
      \/ q = [interest |-> others] /\ nev = {}
      \/ q = [interest |-> others \cup {new}] /\ nev # {} /\ IsOpen(fd)
  BY DEF PortModify
<1>. QED
  BY <1>6, <1>7, <1>8, <1>9

LEMMA ChangesForFields ==
  ASSUME NEW fd \in Fds, NEW mask, NEW flag \in {"add", "delete"}, NEW s, s = ChangesFor(fd, mask, flag)
  PROVE  /\ s \in Seq(Kevents)
         /\ \A i \in 1 .. Len(s) : s[i].fd = fd /\ s[i].flag = flag
         /\ \A filter \in mask \cap Bits : \E i \in 1 .. Len(s) : s[i] = Change(fd, filter, flag)
<1>. DEFINE r == Change(fd, "read", flag)
            w == Change(fd, "write", flag)
<1>1. /\ r \in Kevents /\ r.fd = fd /\ r.flag = flag
      /\ w \in Kevents /\ w.fd = fd /\ w.flag = flag
  BY DEF Change, Kevents, Bits
<1>2. s = (IF "read" \in mask THEN <<r>> ELSE <<>>) \o (IF "write" \in mask THEN <<w>> ELSE <<>>)
  BY DEF ChangesFor
<1>3. \A filter \in mask \cap Bits : (filter = "read" /\ "read" \in mask) \/ (filter = "write" /\ "write" \in mask)
  BY DEF Bits
<1>. HIDE DEF r, w
<1>4. CASE "read" \in mask /\ "write" \in mask
  <2>1. s = <<r>> \o <<w>>
    BY <1>2, <1>4
  <2>2. <<r>> \in Seq(Kevents) /\ <<w>> \in Seq(Kevents) /\ Len(<<r>>) = 1 /\ Len(<<w>>) = 1
    BY <1>1
  <2>3. Len(s) = 2 /\ s[1] = r /\ s[2] = w /\ s \in Seq(Kevents)
    BY <2>1, <2>2
  <2>. QED
    BY <1>1, <1>3, <2>3 DEF r, w
<1>5. CASE "read" \in mask /\ "write" \notin mask
  <2>1. s = <<r>>
    BY <1>2, <1>5
  <2>2. Len(s) = 1 /\ s[1] = r /\ s \in Seq(Kevents)
    BY <1>1, <2>1
  <2>. QED
    BY <1>1, <1>3, <1>5, <2>2 DEF r
<1>6. CASE "read" \notin mask /\ "write" \in mask
  <2>1. s = <<w>>
    BY <1>2, <1>6
  <2>2. Len(s) = 1 /\ s[1] = w /\ s \in Seq(Kevents)
    BY <1>1, <2>1
  <2>. QED
    BY <1>1, <1>3, <1>6, <2>2 DEF w
<1>7. CASE "read" \notin mask /\ "write" \notin mask
  <2>1. s = <<>>
    BY <1>2, <1>7
  <2>2. Len(s) = 0 /\ s \in Seq(Kevents)
    BY <2>1
  <2>. QED
    BY <1>3, <1>7, <2>2
<1>. QED
  BY <1>4, <1>5, <1>6, <1>7

LEMMA ComingGrows ==
  ASSUME NEW p, p.changes \in Seq(Kevents), NEW t \in Seq(Kevents), NEW q, q.interest = p.interest,
         q.changes = p.changes \o t, NEW fd, NEW filter
  PROVE  /\ Coming(p, fd, filter) /\ (\A i \in 1 .. Len(t) : t[i] # Change(fd, filter, "delete")) =>
              Coming(q, fd, filter)
         /\ (\E i \in 1 .. Len(t) : /\ t[i] = Change(fd, filter, "add")
                                    /\ \A j \in i .. Len(t) : t[j] # Change(fd, filter, "delete")) =>
              Coming(q, fd, filter)
<1>. PICK c : c = p.changes
  OBVIOUS
<1>. PICK u : u = q.changes
  OBVIOUS
<1>. PICK bad : bad = Change(fd, filter, "delete")
  OBVIOUS
<1>. PICK good : good = Change(fd, filter, "add")
  OBVIOUS
<1>1. /\ Len(c) \in Nat /\ Len(t) \in Nat /\ Len(u) = Len(c) + Len(t)
      /\ \A i \in 1 .. Len(c) : u[i] = c[i]
      /\ \A i \in 1 .. Len(t) : u[Len(c) + i] = t[i]
  OBVIOUS
<1>2. \A i \in 1 .. Len(u) : i \in 1 .. Len(c) \/ (i - Len(c) \in 1 .. Len(t) /\ u[i] = t[i - Len(c)])
  BY <1>1
<1>3. ASSUME \A i \in 1 .. Len(t) : t[i] # bad, Coming(p, fd, filter)
      PROVE  Coming(q, fd, filter)
  <2>1. CASE /\ [fd |-> fd, file |-> file[fd], filter |-> filter] \in p.interest
             /\ \A i \in 1 .. Len(c) : c[i] # bad
    <3>1. \A i \in 1 .. Len(u) : u[i] # bad
      BY <1>1, <1>2, <1>3, <2>1
    <3>. QED
      BY <2>1, <3>1 DEF Coming
  <2>2. ASSUME NEW i \in 1 .. Len(c), c[i] = good, \A j \in i .. Len(c) : c[j] # bad
        PROVE  Coming(q, fd, filter)
    <3>1. i \in 1 .. Len(u) /\ u[i] = good
      BY <1>1, <2>2
    <3>2. ASSUME NEW j \in i .. Len(u)
          PROVE  u[j] # bad
      <4>1. CASE j \in 1 .. Len(c)
        BY <1>1, <2>2, <4>1
      <4>2. CASE j \notin 1 .. Len(c)
        <5>1. j \in 1 .. Len(u)
          BY <3>1
        <5>. QED
          BY <1>2, <1>3, <4>2, <5>1
      <4>. QED
        BY <4>1, <4>2
    <3>. QED
      BY <3>1, <3>2 DEF Coming
  <2>. QED
    BY <1>3, <2>1, <2>2 DEF Coming
<1>4. ASSUME NEW i \in 1 .. Len(t), t[i] = good, \A j \in i .. Len(t) : t[j] # bad
      PROVE  Coming(q, fd, filter)
  <2>1. Len(c) + i \in 1 .. Len(u) /\ u[Len(c) + i] = good
    BY SMTT(60), <1>1, <1>4
  <2>2. ASSUME NEW j \in Len(c) + i .. Len(u)
        PROVE  u[j] # bad
    <3>1. j - Len(c) \in i .. Len(t) /\ j - Len(c) \in 1 .. Len(t) /\ Len(c) + (j - Len(c)) = j
      BY <1>1
    <3>. QED
      BY SMTT(60), <1>1, <1>4, <3>1
  <2>. QED
    BY <2>1, <2>2 DEF Coming
<1>. QED
  BY <1>3, <1>4

LEMMA ComingKept ==
  ASSUME NEW p, p.changes \in Seq(Kevents), NEW t \in Seq(Kevents), NEW q, q.interest = p.interest,
         q.changes = p.changes \o t, NEW fd, NEW filter, Coming(p, fd, filter),
         \A i \in 1 .. Len(t) : t[i] # Change(fd, filter, "delete")
  PROVE  Coming(q, fd, filter)
BY ComingGrows

LEMMA ComingAdded ==
  ASSUME NEW p, p.changes \in Seq(Kevents), NEW t \in Seq(Kevents), NEW q, q.interest = p.interest,
         q.changes = p.changes \o t, NEW fd, NEW filter, NEW i \in 1 .. Len(t),
         t[i] = Change(fd, filter, "add"), \A j \in i .. Len(t) : t[j] # Change(fd, filter, "delete")
  PROVE  Coming(q, fd, filter)
BY ComingGrows

\* Its changes are queued, those that add after those that delete.
LEMMA KqueueTold ==
  ASSUME NEW k, NEW p \in Kqueued, NEW fd \in Fds, NEW oev, NEW nev \in SUBSET Bits,
         NEW q, q = KqueueModify(k, p, fd, oev, nev).p
  PROVE  /\ q \in Kqueued /\ q.interest = p.interest
         /\ \A filter \in nev : Coming(q, fd, filter)
         /\ \A o, filter : o # fd /\ Coming(p, o, filter) => Coming(q, o, filter)
<1>. PICK c : c = p.changes
  OBVIOUS
<1>. PICK d : d = IF oev # nev THEN ChangesFor(fd, oev, "delete") ELSE <<>>
  OBVIOUS
<1>. PICK a : a = ChangesFor(fd, nev, "add")
  OBVIOUS
<1>1. c \in Seq(Kevents) /\ p.interest \in SUBSET Knotes
  BY DEF Kqueued
<1>2. d \in Seq(Kevents) /\ \A i \in 1 .. Len(d) : d[i].fd = fd
  <2>1. CASE oev # nev
    BY <2>1, ChangesForFields
  <2>2. CASE oev = nev
    BY <2>2
  <2>. QED
    BY <2>1, <2>2
<1>3. /\ a \in Seq(Kevents) /\ \A i \in 1 .. Len(a) : a[i].fd = fd /\ a[i].flag = "add"
      /\ \A filter \in nev : \E i \in 1 .. Len(a) : a[i] = Change(fd, filter, "add")
  <2>1. \A filter \in nev : filter \in nev \cap Bits
    OBVIOUS
  <2>. QED
    BY <2>1, ChangesForFields
<1>4. q = [p EXCEPT !.changes = (c \o d) \o a]
  BY DEF KqueueModify
<1>. DEFINE r == [p EXCEPT !.changes = c \o d]
<1>5. r.interest = p.interest /\ r.changes = c \o d /\ c \o d \in Seq(Kevents)
  BY <1>1, <1>2 DEF Kqueued
<1>6. (c \o d) \o a \in Seq(Kevents)
  BY <1>3, <1>5
<1>7. q.interest = r.interest /\ q.changes = r.changes \o a /\ q \in Kqueued
  BY <1>1, <1>4, <1>5, <1>6 DEF Kqueued
<1>. HIDE DEF r
<1>8. \A o, filter : \A flag : Change(o, filter, flag).fd = o /\ Change(o, filter, flag).flag = flag
  BY DEF Change
<1>9. ASSUME NEW o, NEW filter, o # fd, Coming(p, o, filter)
      PROVE  Coming(q, o, filter)
  <2>1. \A i \in 1 .. Len(d) : d[i] # Change(o, filter, "delete")
    BY <1>2, <1>8, <1>9
  <2>2. Coming(r, o, filter)
    BY <1>1, <1>2, <1>5, <1>9, <2>1, ComingKept
  <2>3. \A i \in 1 .. Len(a) : a[i] # Change(o, filter, "delete")
    BY <1>3, <1>8, <1>9
  <2>. QED
    BY ZenonT(120), <1>3, <1>5, <1>7, <2>2, <2>3, ComingKept
<1>10. ASSUME NEW filter \in nev
       PROVE  Coming(q, fd, filter)
  <2>1. PICK i \in 1 .. Len(a) : a[i] = Change(fd, filter, "add")
    BY <1>3
  <2>2. Len(a) \in Nat /\ \A j \in i .. Len(a) : j \in 1 .. Len(a)
    BY <1>3
  <2>3. \A j \in i .. Len(a) : a[j] # Change(fd, filter, "delete")
    BY <1>3, <1>8, <2>2
  <2>4. a \in Seq(Kevents) /\ r.changes \in Seq(Kevents) /\ q.interest = r.interest /\ q.changes = r.changes \o a
    BY <1>3, <1>5, <1>7
  <2>. QED
    BY <2>1, <2>3, <2>4, ComingAdded
<1>. QED
  BY <1>5, <1>7, <1>9, <1>10

-------------------------------------------------------------------------------
(* What a step of the loop has to show: lemmas that change no file *)

LEMMA LoopIsOK ==
  ASSUME IndInv
  PROVE  LoopOK(loop) /\ \A w \in Watchers : watcher[w].events \subseteq Bits
BY DEF IndInv, TypeOK, LoopOK, WatchersOK, Loops

LEMMA MarksKnown ==
  ASSUME NEW l, NEW m, Marks(l, m)
  PROVE  \A fd \in Fds : Known(m, fd) => Known(l, fd)
BY KnownBefore DEF Marks

LEMMA PendingMarks ==
  ASSUME NEW l, LoopOK(l), NEW x \in [Watchers -> SUBSET (Bits \cup {"error"})],
         NEW m, m = [l EXCEPT !.pending = x]
  PROVE  Marks(l, m) /\ m.pending = x
<1>1. /\ m.events = l.events /\ m.reify = l.reify /\ m.emask = l.emask /\ m.changes = l.changes
      /\ m.postfork = l.postfork /\ m.active = l.active /\ m.pending = x
  BY DEF LoopOK, Loops
<1>2. m \in Loops
  BY DEF LoopOK, Loops
<1>3. Marked(m) /\ Agree(m) /\ WatchersOK(m.active)
  BY <1>1 DEF LoopOK, Marked, Agree, Wanted, Watching
<1>. QED
  BY <1>1, <1>2, <1>3 DEF Marks, LoopOK

Flagged(l, flag) == [l EXCEPT !.postfork = flag]

LEMMA PostforkFields ==
  ASSUME NEW l, LoopOK(l), NEW flag \in BOOLEAN, NEW m, m = Flagged(l, flag)
  PROVE  /\ LoopOK(m) /\ m.postfork = flag
         /\ m.events = l.events /\ m.reify = l.reify /\ m.emask = l.emask
         /\ m.active = l.active /\ m.pending = l.pending
<1>1. /\ m.events = l.events /\ m.reify = l.reify /\ m.emask = l.emask /\ m.changes = l.changes
      /\ m.postfork = flag /\ m.active = l.active /\ m.pending = l.pending
  BY DEF LoopOK, Loops, Flagged
<1>2. m \in Loops
  BY DEF LoopOK, Loops, Flagged
<1>3. Marked(m) /\ Agree(m) /\ WatchersOK(m.active)
  BY <1>1 DEF LoopOK, Marked, Agree, Wanted, Watching
<1>. QED
  BY <1>1, <1>2, <1>3 DEF LoopOK

\* The backend is as it was, and libev believes no more than it did.
LEMMA ToldKept ==
  ASSUME NEW l, NEW m, NEW p, NEW b, NEW c, Told(l, p, b), m.events = l.events, m.emask = l.emask,
         \A fd \in Fds : Known(m, fd) => Known(l, fd),
         backend = "epoll" => p \in Epolled,
         backend = "port" => b \subseteq c, backend = "kqueue" => m.postfork \/ m.postfork = l.postfork
  PROVE  Told(m, p, c)
<1>1. backend = "select" => SelectSound(m, p)
  BY DEF Told, SelectSound
<1>2. backend = "poll" => PollsIndexed(m, p)
  BY DEF Told, PollsIndexed
<1>3. ASSUME backend = "epoll"
      PROVE  EpollSound(m, p)
  <2>1. \A e \in p.interest : Known(m, e.fd) => Known(l, e.fd)
    BY <1>3 DEF Epolled, Registrations
  <2>. QED
    BY <1>3, <2>1 DEF Told, EpollSound
<1>4. backend = "port" => PortSound(m, p, c)
  BY DEF Told, PortSound
<1>5. backend = "kqueue" => KqueueSound(m, p)
  BY DEF Told, KqueueSound
<1>. QED
  BY <1>1, <1>2, <1>3, <1>4, <1>5 DEF Told

LEMMA ReturnedKept ==
  ASSUME NEW l, NEW m, NEW b, Returned(l, b), NEW c \in SUBSET b, \A e \in c : e.fd \in Fds,
         \A fd \in Fds : Known(m, fd) => Known(l, fd)
  PROVE  Returned(m, c)
BY DEF Returned

\* The kernel's files and the user's watchers stay as they are.
LEMMA LoopStep ==
  ASSUME IndInv, UNCHANGED <<backend, watcher, honest, file>>,
         elsewhere \subseteq elsewhere', elsewhere' \subseteq Files,
         ready' \in [Files -> SUBSET Bits], ops' \in Nat,
         phase' \in {"user", "reify", "blocked", "returned", "handle"},
         LoopOK(loop'), PollerOK(poller'), batch' \subseteq Reported,
         Returned(loop', batch'), Told(loop', poller', batch'),
         phase' \in {"user", "reify"} \/ (phase' = "blocked" /\ backend # "kqueue") => batch' = {},
         backend = "kqueue" /\ loop'.postfork => phase' = "user",
         backend = "kqueue" /\ phase' \in {"blocked", "returned"} => poller'.changes = <<>>
  PROVE  IndInv'
<1>1. TypeOK'
  <2>1. \A w \in loop'.active : watcher[w].fd \in Fds
    BY DEF LoopOK, WatchersOK
  <2>2. loop' \in Loops /\ PollerOK(poller)' /\ batch' \subseteq Reported'
    BY DEF LoopOK, PollerOK, Reported
  <2>. QED
    BY <2>1, <2>2 DEF IndInv, TypeOK
<1>2. Marked(loop)' /\ Agree(loop)'
  <2>1. Marked(loop)'
    BY DEF LoopOK, Marked
  <2>2. Agree(loop)'
    BY DEF LoopOK, Agree, Wanted, Watching
  <2>. QED
    BY <2>1, <2>2
<1>3. FilesSound'
  BY DEF IndInv, FilesSound, IsOpen
<1>4. \A fd : Known(loop, fd)' <=> Known(loop', fd)
  BY DEF Known, Held
<1>5. BatchSound'
  <2>1. Returned(loop, batch)'
    BY <1>4 DEF Returned
  <2>. QED
    BY <2>1 DEF BatchSound
<1>6. \A p, fd : Mine(p, fd)' = Mine(p', fd)
  BY DEF Mine
<1>7. Told(loop, poller, batch)'
  <2>1. backend = "select" => SelectSound(loop, poller)'
    BY DEF Told, SelectSound
  <2>2. backend = "poll" => PollsIndexed(loop, poller)'
    BY DEF Told, PollsIndexed, PollCnt, At
  <2>3. ASSUME backend = "epoll"
        PROVE  EpollSound(loop, poller)'
    <3>1. EpollSound(loop', poller')
      BY <2>3 DEF Told
    <3>. QED
      BY <1>4, <1>6, <3>1 DEF EpollSound
  <2>4. backend = "port" => PortSound(loop, poller, batch)'
    BY <1>4 DEF Told, PortSound
  <2>5. ASSUME backend = "kqueue"
        PROVE  KqueueSound(loop, poller)'
    <3>1. KqueueSound(loop', poller')
      BY <2>5 DEF Told
    <3>2. \A fd, filter : Coming(poller, fd, filter)' <=> Coming(poller', fd, filter)
      BY DEF Coming
    <3>. QED
      BY <1>4, <3>1, <3>2 DEF KqueueSound
  <2>. QED
    BY <2>1, <2>2, <2>3, <2>4, <2>5 DEF Told
<1>8. PollerSound'
  BY <1>7 DEF PollerSound
<1>. QED
  BY <1>1, <1>2, <1>3, <1>5, <1>8 DEF IndInv

LEMMA InitHolds == Init => IndInv
<1>. SUFFICES ASSUME Init PROVE IndInv
  OBVIOUS
<1>1. /\ loop.events = [fd \in Fds |-> {}] /\ loop.reify = [fd \in Fds |-> {}]
      /\ loop.emask = [fd \in Fds |-> {}] /\ loop.changes = <<>> /\ loop.postfork = FALSE
      /\ loop.active = {} /\ loop.pending = [w \in Watchers |-> {}]
  BY DEF Init, LoopInit
<1>2. loop \in Loops
  BY <1>1 DEF Init, LoopInit, Loops
<1>3. 0 \in Fds
  BY EvFdAssumption DEF Fds
<1>4. file \in [Fds -> Files \cup {NoFile}] /\ elsewhere \subseteq Files /\ ready \in [Files -> SUBSET Bits]
  <2>1. file \in [Fds -> Files \cup {NoFile}]
    BY BackendsAssumption DEF Init
  <2>2. elsewhere \subseteq Files
    BY <1>3, <2>1 DEF Init
  <2>3. ready \in [Files -> SUBSET Bits]
    BY DEF Init, Bits
  <2>. QED
    BY <2>1, <2>2, <2>3
<1>5. PollerOK(poller) /\ backend \in {"select", "poll", "epoll", "port", "kqueue"}
  <2>1. backend \in {"select", "poll", "epoll", "port", "kqueue"}
    BY BackendsAssumption DEF Init
  <2>2. /\ backend = "select" => poller = [ri |-> {}, wi |-> {}]
        /\ backend = "poll"   => poller = [polls |-> <<>>, idx |-> [fd \in Fds |-> -1]]
        /\ backend = "epoll"  => poller = [interest |-> {}, eperms |-> {}]
        /\ backend = "port"   => poller = [interest |-> {}]
        /\ backend = "kqueue" => poller = [interest |-> {}, changes |-> <<>>]
    BY DEF Init, SelectInit, PollInit, EpollInit, PortInit, KqueueInit
  <2>3. [polls |-> <<>>, idx |-> [fd \in Fds |-> -1]] \in Polled
    BY DEF Polled
  <2>4. [interest |-> {}, changes |-> <<>>] \in Kqueued
    BY DEF Kqueued
  <2>5. [ri |-> {}, wi |-> {}] \in Selected /\ [interest |-> {}, eperms |-> {}] \in Epolled /\ [interest |-> {}] \in Ported
    BY DEF Selected, Epolled, Ported
  <2>. QED
    BY <2>1, <2>2, <2>3, <2>4, <2>5 DEF PollerOK
<1>6. TypeOK
  BY <1>1, <1>2, <1>4, <1>5 DEF Init, TypeOK
<1>7. Marked(loop)
  BY <1>1 DEF Marked
<1>8. Agree(loop)
  BY <1>1 DEF Agree, Wanted, Watching
<1>9. FilesSound
  BY BackendsAssumption DEF Init, FilesSound
<1>10. BatchSound
  BY DEF Init, BatchSound, Returned
<1>11. \A fd \in Fds : ~Known(loop, fd)
  BY DEF Init, Known, Held
<1>12. Told(loop, poller, batch)
  <2>1. backend = "select" => SelectSound(loop, poller)
    BY <1>1 DEF Init, SelectInit, SelectSound
  <2>2. ASSUME backend = "poll"
        PROVE  PollsIndexed(loop, poller)
    <3>1. poller.polls = <<>> /\ poller.idx = [fd \in Fds |-> -1]
      BY <2>2 DEF Init, PollInit
    <3>2. Len(poller.polls) = 0
      BY <3>1
    <3>3. \A fd \in Fds : ~(poller.idx[fd] >= 0) /\ loop.events[fd] = {}
      BY <1>1, <3>1
    <3>. QED
      BY <3>2, <3>3 DEF PollsIndexed, PollCnt
  <2>3. ASSUME backend = "epoll"
        PROVE  EpollSound(loop, poller)
    <3>1. poller.interest = {}
      BY <2>3 DEF Init, EpollInit
    <3>. QED
      BY <1>11, <3>1 DEF EpollSound, Mine
  <2>4. ASSUME backend = "port"
        PROVE  PortSound(loop, poller, batch)
    <3>1. poller.interest = {}
      BY <2>4 DEF Init, PortInit
    <3>. QED
      BY <1>11, <3>1 DEF PortSound
  <2>5. ASSUME backend = "kqueue"
        PROVE  KqueueSound(loop, poller)
    <3>1. poller.interest = {}
      BY <2>5 DEF Init, KqueueInit
    <3>. QED
      BY <1>11, <3>1 DEF KqueueSound
  <2>. QED
    BY <2>1, <2>2, <2>3, <2>4, <2>5 DEF Told
<1>13. PollerSound
  BY <1>1, <1>12 DEF Init, PollerSound
<1>. QED
  BY <1>6, <1>7, <1>8, <1>9, <1>10, <1>13 DEF IndInv

\* Steps that leave the loop and its backend alone
LEMMA QuietStep ==
  ASSUME IndInv, UNCHANGED <<backend, loop, poller, watcher, honest, file>>,
         elsewhere \subseteq elsewhere', elsewhere' \subseteq Files,
         ready' \in [Files -> SUBSET Bits], ops' \in Nat,
         phase' \in {"user", "reify", "blocked", "returned", "handle"},
         batch' \subseteq Reported, Returned(loop, batch'), backend = "port" => batch \subseteq batch',
         phase' \in {"user", "reify"} \/ (phase' = "blocked" /\ backend # "kqueue") => batch' = {},
         backend = "kqueue" => ~loop.postfork \/ phase' = "user",
         backend = "kqueue" /\ phase' \in {"blocked", "returned"} => poller.changes = <<>>
  PROVE  IndInv'
<1>1. LoopOK(loop) /\ PollerOK(poller)
  BY LoopIsOK DEF IndInv, TypeOK
<1>2. Told(loop, poller, batch')
  <2>1. backend = "epoll" => poller \in Epolled
    BY <1>1 DEF PollerOK
  <2>. QED
    BY <2>1, ToldKept DEF IndInv, PollerSound
<1>3. LoopOK(loop') /\ PollerOK(poller') /\ Told(loop', poller', batch') /\ Returned(loop', batch')
  BY <1>1, <1>2
<1>. QED
  BY <1>3, LoopStep

LEMMA AcquireKeeps == IndInv /\ Acquire => IndInv'
<1>. SUFFICES ASSUME IndInv, Acquire PROVE IndInv'
  OBVIOUS
<1>1. IndInv /\ phase' = "handle" /\ phase = "returned" /\ batch' = batch
      /\ UNCHANGED <<backend, loop, poller, watcher, honest, file>> /\ UNCHANGED <<elsewhere, ready, ops>>
  BY DEF Acquire
<1>2. TypeOK /\ BatchSound /\ PollerSound
  BY DEF IndInv
<1>3. Returned(loop, batch') /\ batch' \subseteq Reported
  BY <1>1, <1>2 DEF BatchSound, TypeOK
<1>. QED
  BY <1>1, <1>2, <1>3, QuietStep DEF TypeOK, PollerSound

LEMMA ReturnNoMemoryKeeps == IndInv /\ ReturnNoMemory => IndInv'
<1>. SUFFICES ASSUME IndInv, ReturnNoMemory PROVE IndInv'
  OBVIOUS
<1>1. /\ phase' = "returned" /\ phase = "blocked" /\ batch' = {Failure("enomem", 0)} /\ ops' = ops + 1
      /\ backend \in {"select", "poll"}
      /\ UNCHANGED <<backend, loop, poller, watcher, honest, file>> /\ UNCHANGED <<elsewhere, ready>>
  BY DEF ReturnNoMemory
<1>2. TypeOK
  BY DEF IndInv
<1>3. 0 \in Fds
  BY EvFdAssumption DEF Fds
<1>4. Failure("enomem", 0) \in Reported
  BY <1>1, <1>3 DEF Failure, Reported, Tags
<1>5. Returned(loop, batch')
  BY <1>1 DEF Failure, Returned
<1>. QED
  BY <1>1, <1>2, <1>4, <1>5, QuietStep DEF TypeOK

LEMMA ReadinessKeeps ==
  ASSUME IndInv, NEW f \in Files, NEW mask \in ReadySets, Readiness(f, mask)
  PROVE  IndInv'
<1>1. /\ phase' = phase /\ phase = "blocked" /\ batch' = batch /\ ops' = ops + 1
      /\ ready' = [ready EXCEPT ![f] = mask]
      /\ UNCHANGED <<backend, loop, poller, watcher, honest, file>> /\ elsewhere' = elsewhere
  BY DEF Readiness, Acts
<1>2. TypeOK /\ BatchSound /\ PollerSound
  BY DEF IndInv
<1>3. Returned(loop, batch') /\ batch' \subseteq Reported
  BY <1>1, <1>2 DEF BatchSound, TypeOK
<1>4. ready' \in [Files -> SUBSET Bits]
  BY <1>1, <1>2, EvFdAssumption DEF TypeOK, Bits
<1>. QED
  BY <1>1, <1>2, <1>3, <1>4, QuietStep DEF TypeOK, PollerSound, BatchSound

LEMMA KeepElsewhereKeeps ==
  ASSUME IndInv, NEW f \in Files, KeepElsewhere(f)
  PROVE  IndInv'
<1>1. /\ phase' = phase /\ phase = "user" /\ batch' = batch /\ ops' = ops + 1
      /\ elsewhere' = elsewhere \cup {f}
      /\ UNCHANGED <<backend, loop, poller, watcher, honest, file>> /\ ready' = ready
  BY DEF KeepElsewhere, Acts
<1>2. TypeOK /\ BatchSound /\ PollerSound
  BY DEF IndInv
<1>3. Returned(loop, batch') /\ batch' \subseteq Reported
  BY <1>1, <1>2 DEF BatchSound, TypeOK
<1>. QED
  BY <1>1, <1>2, <1>3, QuietStep DEF TypeOK, BatchSound

\* Only the pending events of watchers change, or watchers are stopped.
LEMMA MarkingStep ==
  ASSUME IndInv, Marks(loop, loop'), UNCHANGED <<backend, poller, watcher, honest, phase, file, elsewhere, ready>>,
         ops' \in Nat, batch' \subseteq batch, backend = "port" => batch' = batch
  PROVE  IndInv'
<1>1. TypeOK /\ BatchSound /\ PollerSound
  BY DEF IndInv
<1>2. /\ LoopOK(loop') /\ loop'.events = loop.events /\ loop'.emask = loop.emask /\ loop'.postfork = loop.postfork
      /\ \A fd \in Fds : Known(loop', fd) => Known(loop, fd)
  BY MarksKnown DEF Marks
<1>3. PollerOK(poller) /\ (backend = "epoll" => poller \in Epolled)
  BY <1>1 DEF TypeOK, PollerOK
<1>4. Told(loop', poller, batch')
  BY <1>1, <1>2, <1>3, ToldKept DEF PollerSound
<1>5. Returned(loop', batch')
  <2>1. \A e \in batch' : e.fd \in Fds
    BY <1>1 DEF TypeOK, Reported
  <2>. QED
    BY <1>1, <1>2, <2>1, ReturnedKept DEF BatchSound
<1>6. batch' \subseteq Reported /\ elsewhere' \subseteq Files /\ ready' \in [Files -> SUBSET Bits]
  BY <1>1 DEF TypeOK
<1>7. Told(loop', poller', batch') /\ PollerOK(poller')
  BY <1>3, <1>4
<1>8. /\ phase' \in {"user", "reify", "blocked", "returned", "handle"}
      /\ phase' \in {"user", "reify"} \/ (phase' = "blocked" /\ backend # "kqueue") => batch' = {}
      /\ backend = "kqueue" /\ loop'.postfork => phase' = "user"
      /\ backend = "kqueue" /\ phase' \in {"blocked", "returned"} => poller'.changes = <<>>
  BY <1>1, <1>2 DEF TypeOK, BatchSound, PollerSound
<1>. QED
  BY <1>2, <1>5, <1>6, <1>7, <1>8, LoopStep

LEMMA InvokeKeeps ==
  ASSUME IndInv, NEW w \in Watchers, Invoke(w)
  PROVE  IndInv'
<1>1. /\ loop' = [loop EXCEPT !.pending = [loop.pending EXCEPT ![w] = {}]]
      /\ UNCHANGED <<backend, poller, watcher, honest, phase, file, elsewhere, ready>> /\ UNCHANGED <<ops, batch>>
  BY DEF Invoke
<1>2. [loop.pending EXCEPT ![w] = {}] \in [Watchers -> SUBSET (Bits \cup {"error"})]
  BY DEF IndInv, TypeOK, Loops
<1>3. Marks(loop, loop')
  BY <1>1, <1>2, LoopIsOK, PendingMarks
<1>. QED
  BY <1>1, <1>3, MarkingStep DEF IndInv, TypeOK

LEMMA StopKeeps ==
  ASSUME IndInv, NEW w \in Watchers, Stop(w)
  PROVE  IndInv'
<1>1. /\ loop' = IoStop(loop, w) /\ w \in loop.active /\ ops' = ops + 1
      /\ UNCHANGED <<backend, poller, watcher, honest, phase, file, elsewhere, ready>> /\ batch' = batch
  BY DEF Stop, Acts
<1>2. Marks(loop, loop')
  BY <1>1, LoopIsOK, IoStopMarks
<1>. QED
  BY <1>1, <1>2, MarkingStep DEF IndInv, TypeOK

\* What a started watcher wants is not compared: its descriptor is marked.
LEMMA IoStartFields ==
  ASSUME NEW l \in Loops, Marked(l), NEW w \in Watchers, NEW fd \in Fds,
         NEW flags, flags \subseteq {"iofdset", "reify"}, flags # {}
  PROVE  LET m == IoStart(l, w, fd, flags)
         IN  /\ m \in Loops /\ Marked(m)
             /\ m.events = l.events /\ m.emask = l.emask /\ m.postfork = l.postfork /\ m.pending = l.pending
             /\ m.active = l.active \cup {w}
             /\ m.reify[fd] # {} /\ flags \subseteq m.reify[fd]
             /\ \A other \in Fds : l.reify[other] \subseteq m.reify[other]
<1>. DEFINE n == [l EXCEPT !.active = l.active \cup {w}]
<1>1. /\ n.events = l.events /\ n.reify = l.reify /\ n.emask = l.emask /\ n.changes = l.changes
      /\ n.postfork = l.postfork /\ n.pending = l.pending /\ n.active = l.active \cup {w}
  BY DEF Loops
<1>2. n \in Loops
  BY DEF Loops
<1>3. Marked(n)
  BY <1>1 DEF Marked
<1>4. IoStart(l, w, fd, flags) = FdChange(n, fd, flags)
  BY DEF IoStart
<1>. HIDE DEF n
<1>5. /\ FdChange(n, fd, flags) \in Loops
      /\ FdChange(n, fd, flags).events = n.events /\ FdChange(n, fd, flags).emask = n.emask
      /\ FdChange(n, fd, flags).postfork = n.postfork
      /\ FdChange(n, fd, flags).active = n.active /\ FdChange(n, fd, flags).pending = n.pending
  BY <1>2, FdChangeKeeps
<1>6. /\ Marked(FdChange(n, fd, flags))
      /\ FdChange(n, fd, flags).reify[fd] # {} /\ flags \subseteq FdChange(n, fd, flags).reify[fd]
      /\ \A other \in Fds : n.reify[other] \subseteq FdChange(n, fd, flags).reify[other]
  BY <1>2, <1>3, FdChangeMarks
<1>. QED
  BY <1>1, <1>4, <1>5, <1>6

LEMMA RestartKeeps ==
  ASSUME IndInv, NEW w \in Watchers, Restart(w)
  PROVE  IndInv'
<1>. DEFINE fd == watcher[w].fd
<1>1. /\ loop' = IoStart(loop, w, fd, {"reify"}) /\ ops' = ops + 1
      /\ UNCHANGED <<backend, poller, watcher, honest, phase, file, elsewhere, ready>> /\ batch' = batch
      /\ w \notin loop.active /\ fd >= 0
  BY DEF Restart, Acts
<1>2. TypeOK /\ BatchSound /\ PollerSound /\ LoopOK(loop)
  BY LoopIsOK DEF IndInv
<1>3. fd \in Fds
  BY <1>1, <1>2 DEF TypeOK
<1>4. /\ loop' \in Loops /\ Marked(loop')
      /\ loop'.events = loop.events /\ loop'.emask = loop.emask /\ loop'.postfork = loop.postfork
      /\ loop'.active = loop.active \cup {w}
      /\ loop'.reify[fd] # {}
      /\ \A other \in Fds : loop.reify[other] \subseteq loop'.reify[other]
  BY <1>1, <1>2, <1>3, IoStartFields DEF LoopOK
<1>5. Agree(loop')
  <2>. SUFFICES ASSUME NEW other \in Fds, loop'.events[other] # Wanted(loop', other) PROVE loop'.reify[other] # {}
    BY DEF Agree
  <2>1. CASE other = fd
    BY <1>4, <2>1
  <2>2. CASE other # fd
    <3>1. Wanted(loop', other) = Wanted(loop, other)
      BY <1>4, <2>2 DEF Wanted, Watching
    <3>. QED
      BY <1>2, <1>4, <3>1 DEF LoopOK, Agree
  <2>. QED
    BY <2>1, <2>2
<1>6. LoopOK(loop')
  BY <1>2, <1>3, <1>4, <1>5, LoopIsOK DEF LoopOK, WatchersOK
<1>7. \A o \in Fds : Known(loop', o) => Known(loop, o)
  BY <1>4, KnownBefore
<1>8. PollerOK(poller') /\ (backend = "epoll" => poller \in Epolled)
  BY <1>1, <1>2 DEF TypeOK, PollerOK
<1>9. Told(loop', poller', batch')
  <2>1. Told(loop', poller, batch)
    BY <1>2, <1>4, <1>7, <1>8, ToldKept DEF PollerSound
  <2>. QED
    BY <1>1, <2>1
<1>10. Returned(loop', batch')
  <2>1. \A e \in batch' : e.fd \in Fds
    BY <1>1, <1>2 DEF TypeOK, Reported
  <2>. QED
    BY <1>1, <1>2, <1>7, <2>1, ReturnedKept DEF BatchSound
<1>11. batch' \subseteq Reported /\ elsewhere' \subseteq Files /\ ready' \in [Files -> SUBSET Bits] /\ ops' \in Nat
  BY <1>1, <1>2 DEF TypeOK
<1>12. /\ phase' \in {"user", "reify", "blocked", "returned", "handle"}
       /\ phase' \in {"user", "reify"} \/ (phase' = "blocked" /\ backend # "kqueue") => batch' = {}
       /\ backend = "kqueue" /\ loop'.postfork => phase' = "user"
       /\ backend = "kqueue" /\ phase' \in {"blocked", "returned"} => poller'.changes = <<>>
  BY <1>1, <1>2, <1>4 DEF TypeOK, BatchSound, PollerSound
<1>. QED
  BY <1>1, <1>6, <1>8, <1>9, <1>10, <1>11, <1>12, LoopStep

LEMMA RunIterationKeeps == IndInv /\ RunIteration => IndInv'
<1>. SUFFICES ASSUME IndInv, RunIteration PROVE IndInv'
  OBVIOUS
<1>. DEFINE forked == IF loop.postfork THEN Forked(loop, poller) ELSE [l |-> loop, p |-> poller]
<1>1. /\ phase = "user" /\ phase' = "reify"
      /\ loop' = [forked.l EXCEPT !.postfork = FALSE] /\ poller' = forked.p
      /\ UNCHANGED <<backend, watcher, honest, batch, file, elsewhere, ready>> /\ ops' = ops
  BY DEF RunIteration
<1>2. TypeOK /\ BatchSound /\ PollerSound /\ LoopOK(loop)
  BY LoopIsOK DEF IndInv
<1>3. batch = {} /\ batch' = {}
  BY <1>1, <1>2 DEF BatchSound
<1>4. backend \in {"select", "poll", "epoll", "port", "kqueue"}
  BY <1>2 DEF TypeOK
\* Either nothing is done to the backend, or libev starts anew with it.
<1>5. /\ LoopOK(forked.l)
      /\ PollerOK(forked.p)
      /\ \/ /\ forked.l = loop /\ forked.p = poller
            /\ backend = "kqueue" => ~loop.postfork
         \/ /\ backend \in {"epoll", "port", "kqueue"}
            /\ forked.p.interest = {}
            /\ \A fd \in Fds : forked.l.events[fd] = {}
  <2>1. CASE ~loop.postfork
    BY <1>2, <2>1 DEF TypeOK
  <2>2. CASE loop.postfork /\ backend \in {"select", "poll"}
    <3>1. forked.l = loop /\ forked.p = poller
      BY <2>2 DEF Forked
    <3>. QED
      BY <1>2, <2>2, <3>1 DEF TypeOK
  <2>3. CASE loop.postfork /\ backend \in {"epoll", "port", "kqueue"}
    <3>1. forked.l = FdRearmAll(loop)
      BY <2>3 DEF Forked, EpollFork, PortFork, KqueueFork
    <3>2. forked.p = IF backend = "port" THEN [interest |-> {}] ELSE [poller EXCEPT !.interest = {}]
      BY <2>3 DEF Forked, EpollFork, PortFork, PortInit, KqueueFork
    <3>3. PollerOK(forked.p) /\ forked.p.interest = {}
      <4>1. CASE backend = "epoll"
        BY <1>2, <3>2, <4>1 DEF TypeOK, PollerOK, Epolled
      <4>2. CASE backend = "port"
        BY <1>2, <3>2, <4>2 DEF TypeOK, PollerOK, Ported
      <4>3. CASE backend = "kqueue"
        BY <1>2, <3>2, <4>3 DEF TypeOK, PollerOK, Kqueued
      <4>. QED
        BY <2>3, <4>1, <4>2, <4>3
    <3>. QED
      BY <1>2, <2>3, <3>1, <3>3, FdRearmAllMarks
  <2>. QED
    BY <1>4, <2>1, <2>2, <2>3
<1>. HIDE DEF forked
<1>6. /\ LoopOK(loop') /\ loop'.postfork = FALSE
      /\ loop'.events = forked.l.events /\ loop'.reify = forked.l.reify /\ loop'.emask = forked.l.emask
  <2>. PICK k : k = forked.l
    OBVIOUS
  <2>. PICK m : m = loop'
    OBVIOUS
  <2>1. LoopOK(k) /\ m = Flagged(k, FALSE)
    BY <1>1, <1>5 DEF Flagged
  <2>2. LoopOK(m) /\ m.postfork = FALSE /\ m.events = k.events /\ m.reify = k.reify /\ m.emask = k.emask
    BY ZenonT(120), <2>1, PostforkFields
  <2>. QED
    BY <2>2
<1>7. Told(loop', poller', batch')
  <2>1. CASE forked.l = loop /\ forked.p = poller /\ (backend = "kqueue" => ~loop.postfork)
    <3>1. \A fd \in Fds : Known(loop', fd) => Known(loop, fd)
      BY <1>6, <2>1, KnownBefore
    <3>2. backend = "epoll" => poller \in Epolled
      BY <1>2 DEF TypeOK, PollerOK
    <3>3. loop'.events = loop.events /\ loop'.emask = loop.emask /\ (backend = "kqueue" => loop'.postfork = loop.postfork)
      BY <1>2, <1>6, <2>1 DEF LoopOK, Loops
    <3>4. Told(loop', poller, batch)
      BY <1>2, <3>1, <3>2, <3>3, ToldKept DEF PollerSound
    <3>. QED
      BY <1>1, <2>1, <3>4
  <2>2. CASE backend \in {"epoll", "port", "kqueue"} /\ forked.p.interest = {} /\ \A fd \in Fds : forked.l.events[fd] = {}
    <3>1. \A fd \in Fds : ~Known(loop', fd)
      BY <1>6, <2>2 DEF Known
    <3>2. poller'.interest = {}
      BY <1>1, <2>2
    <3>3. backend = "epoll" => EpollSound(loop', poller')
      BY <3>1, <3>2 DEF EpollSound, Mine
    <3>4. backend = "port" => PortSound(loop', poller', batch')
      BY <3>1, <3>2 DEF PortSound
    <3>5. backend = "kqueue" => KqueueSound(loop', poller')
      BY <3>1, <3>2 DEF KqueueSound
    <3>. QED
      BY <2>2, <3>3, <3>4, <3>5 DEF Told
  <2>. QED
    BY <1>5, <2>1, <2>2
<1>8. PollerOK(poller')
  BY <1>1, <1>5
<1>9. Returned(loop', batch') /\ batch' \subseteq Reported
  BY <1>3 DEF Returned
<1>10. /\ elsewhere \subseteq elsewhere' /\ elsewhere' \subseteq Files /\ ready' \in [Files -> SUBSET Bits] /\ ops' \in Nat
       /\ phase' \in {"user", "reify", "blocked", "returned", "handle"}
  BY <1>1, <1>2 DEF TypeOK
<1>. QED
  BY <1>1, <1>3, <1>6, <1>7, <1>8, <1>9, <1>10, LoopStep

LEMMA FdReifyKeeps == IndInv /\ FdReify => IndInv'
<1>. SUFFICES ASSUME IndInv, FdReify PROVE IndInv'
  OBVIOUS
<1>. PICK fd : fd = Head(loop.changes)
  OBVIOUS
<1>. PICK l : l = Reified(loop)
  OBVIOUS
<1>. DEFINE modified == Modify(l, poller, fd, loop.events[fd], l.events[fd])
<1>1. /\ phase = "reify" /\ phase' = "reify" /\ loop.changes # <<>>
      /\ MustModify(loop) => loop' = modified.l /\ poller' = modified.p
      /\ ~MustModify(loop) => loop' = l /\ poller' = poller
      /\ UNCHANGED <<backend, watcher, honest, batch, file, elsewhere, ready>> /\ ops' = ops
  BY DEF FdReify
<1>. HIDE DEF modified
<1>2. TypeOK /\ BatchSound /\ PollerSound /\ LoopOK(loop) /\ FilesSound
  BY LoopIsOK DEF IndInv
<1>3. batch = {} /\ batch' = {} /\ (backend = "kqueue" => ~loop.postfork)
  BY <1>1, <1>2 DEF BatchSound, PollerSound
<1>4. /\ LoopOK(l) /\ fd \in Fds
      /\ l.emask = loop.emask /\ l.postfork = loop.postfork
      /\ \A o \in Fds : o # fd => l.events[o] = loop.events[o] /\ l.reify[o] = loop.reify[o]
      /\ l.events[fd] = Wanted(loop, fd) /\ l.reify[fd] = {}
  BY <1>1, <1>2, ReifiedFields
<1>5. loop.events \in [Fds -> SUBSET Bits] /\ l.events \in [Fds -> SUBSET Bits]
  BY <1>2, <1>4 DEF LoopOK, Loops
<1>6. /\ backend \in {"select", "poll", "epoll", "port", "kqueue"} /\ PollerOK(poller)
      /\ file \in [Fds -> Files \cup {NoFile}]
  BY <1>2 DEF TypeOK
<1>7. LoopOK(loop') /\ loop'.postfork = loop.postfork /\ PollerOK(poller') /\ Told(loop', poller', batch')
  <2>1. CASE ~MustModify(loop)
    <3>1. loop.events[fd] = l.events[fd] /\ "iofdset" \notin loop.reify[fd]
      BY <1>4, <2>1 DEF MustModify
    <3>2. \A o \in Fds : loop.events[o] = l.events[o]
      BY <1>4, <3>1
    <3>3. loop.events = l.events
      BY <1>5, <3>2
    <3>4. \A o \in Fds : Known(l, o) => Known(loop, o)
      BY <1>4, <3>1, <3>2 DEF Known
    <3>5. backend = "epoll" => poller \in Epolled
      BY <1>6 DEF PollerOK
    <3>6. Told(l, poller, batch)
      BY <1>2, <1>4, <3>3, <3>4, <3>5, ToldKept DEF PollerSound
    <3>. QED
      BY <1>1, <1>3, <1>4, <1>6, <2>1, <3>6
  <2>2. CASE MustModify(loop)
    <3>. PICK m : m = modified.l
      OBVIOUS
    <3>. PICK q : q = modified.p
      OBVIOUS
    <3>1. /\ LoopOK(m) /\ m.events = l.events /\ m.postfork = l.postfork
          /\ \A other \in Fds : l.reify[other] \subseteq m.reify[other]
      <4>1. m = Modify(l, poller, fd, loop.events[fd], l.events[fd]).l /\ l.events[fd] \in SUBSET Bits
        BY <1>4, <1>5 DEF modified
      <4>2. LoopOK(l) /\ fd \in Fds /\ TypeOK
        BY <1>2, <1>4
      <4>3. Modified(l, m, fd)
        BY <4>1, <4>2, ModifyMarks
      <4>. QED
        BY <4>3 DEF Modified
    <3>2. /\ m.events[fd] = l.events[fd] /\ l.events[fd] \in SUBSET Bits
          /\ \A o \in Fds : o # fd => m.events[o] = loop.events[o] /\ loop.reify[o] \subseteq m.reify[o]
      BY <1>4, <1>5, <3>1
    <3>3. Told(loop, poller, batch) /\ fd \in Fds /\ OthersKept(loop, m, fd)
      BY <1>2, <1>4, <3>2 DEF PollerSound, OthersKept
    <3>4. PollerOK(q) /\ Told(m, q, batch)
      <4>1. CASE backend = "select"
        <5>1. q = SelectModify(l, poller, fd, loop.events[fd], m.events[fd]).p
          BY <3>2, <4>1 DEF modified, Modify
        <5>2. poller \in Selected /\ SelectSound(loop, poller) /\ loop \in Loops /\ m \in Loops
          BY <1>2, <1>6, <3>1, <3>3, <4>1 DEF PollerOK, Told, LoopOK
        <5>3. q \in Selected /\ SelectSound(m, q)
          BY ZenonT(60), <3>3, <5>1, <5>2, SelectTold
        <5>. QED
          BY SMTT(60), <4>1, <5>3 DEF PollerOK, Told
      <4>2. CASE backend = "poll"
        <5>1. q = PollModify(l, poller, fd, loop.events[fd], m.events[fd]).p
          BY <3>2, <4>2 DEF modified, Modify
        <5>2. poller \in Polled /\ PollsIndexed(loop, poller) /\ loop \in Loops /\ m \in Loops
          BY <1>2, <1>6, <3>1, <3>3, <4>2 DEF PollerOK, Told, LoopOK
        <5>3. q \in Polled /\ PollsIndexed(m, q)
          BY ZenonT(60), <3>3, <5>1, <5>2, PollTold
        <5>. QED
          BY SMTT(60), <4>2, <5>3 DEF PollerOK, Told
      <4>3. CASE backend = "epoll"
        <5>1. /\ q = EpollModify(l, poller, fd, loop.events[fd], l.events[fd]).p
              /\ m = EpollModify(l, poller, fd, loop.events[fd], l.events[fd]).l
          BY <4>3 DEF modified, Modify
        <5>2. poller \in Epolled /\ EpollSound(loop, poller)
          BY SMTT(60), <1>6, <3>3, <4>3 DEF PollerOK, Told
        <5>3. q \in Epolled /\ EpollSound(m, q)
          <6>1. FilesSound /\ file \in [Fds -> Files \cup {NoFile}] /\ LoopOK(l) /\ l.emask = loop.emask
            BY <1>2, <1>4, <1>6
          <6>. PICK oev : oev = loop.events[fd]
            OBVIOUS
          <6>. PICK nev : nev = l.events[fd]
            OBVIOUS
          <6>2. /\ m = EpollModify(l, poller, fd, oev, nev).l /\ q = EpollModify(l, poller, fd, oev, nev).p
                /\ m.events[fd] = nev /\ nev \in SUBSET Bits /\ OthersKept(loop, m, fd)
            BY <3>2, <3>3, <5>1
          <6>3. /\ FilesSound /\ file \in [Fds -> Files \cup {NoFile}] /\ LoopOK(l) /\ l.emask = loop.emask
                /\ poller \in Epolled /\ EpollSound(loop, poller) /\ fd \in Fds /\ nev \in SUBSET Bits
                /\ m = EpollModify(l, poller, fd, oev, nev).l /\ q = EpollModify(l, poller, fd, oev, nev).p
                /\ m.events[fd] = nev /\ OthersKept(loop, m, fd)
            BY <1>4, <5>2, <6>1, <6>2
          <6>. QED
            BY ONLY <6>3, EpollTold
        <5>. QED
          BY <4>3, <5>3 DEF PollerOK, Told
      <4>4. CASE backend = "port"
        <5>1. q = PortModify(l, poller, fd, loop.events[fd], l.events[fd]).p
          BY <4>4 DEF modified, Modify
        <5>2. poller \in Ported /\ PortSound(loop, poller, batch)
          BY <1>6, <3>3, <4>4 DEF PollerOK, Told
        <5>3. q \in Ported /\ PortSound(m, q, batch)
          <6>1. FilesSound /\ file \in [Fds -> Files \cup {NoFile}]
            BY <1>2, <1>6
          <6>. QED
            BY <3>2, <3>3, <5>1, <5>2, <6>1, PortTold
        <5>. QED
          BY <4>4, <5>3 DEF PollerOK, Told
      <4>5. CASE backend = "kqueue"
        <5>1. q = KqueueModify(l, poller, fd, loop.events[fd], l.events[fd]).p
          BY <4>5 DEF modified, Modify
        <5>2. poller \in Kqueued /\ KqueueSound(loop, poller)
          BY <1>6, <3>3, <4>5 DEF PollerOK, Told
        <5>3. /\ q \in Kqueued /\ q.interest = poller.interest
              /\ \A filter \in l.events[fd] : Coming(q, fd, filter)
              /\ \A o, filter : o # fd /\ Coming(poller, o, filter) => Coming(q, o, filter)
          BY <1>4, <3>2, <5>1, <5>2, KqueueTold
        <5>4. ASSUME NEW o \in Fds, Known(m, o), NEW filter \in m.events[o]
              PROVE  Coming(q, o, filter)
          <6>1. CASE o = fd
            BY <3>2, <5>3, <5>4, <6>1
          <6>2. CASE o # fd
            <7>1. Known(loop, o) /\ filter \in loop.events[o]
              BY <3>2, <5>4, <6>2, KnownBefore
            <7>2. Coming(poller, o, filter)
              BY <1>3, <4>5, <5>2, <7>1 DEF KqueueSound
            <7>. QED
              BY <5>3, <6>2, <7>2
          <6>. QED
            BY <6>1, <6>2
        <5>5. KqueueSound(m, q)
          BY <5>2, <5>3, <5>4 DEF KqueueSound
        <5>. QED
          BY <4>5, <5>3, <5>5 DEF PollerOK, Told
      <4>. QED
        BY <1>6, <4>1, <4>2, <4>3, <4>4, <4>5
    <3>5. loop' = m /\ poller' = q /\ batch' = batch
      BY <1>1, <2>2
    <3>. QED
      BY <1>4, <3>1, <3>4, <3>5
  <2>. QED
    BY <2>1, <2>2
<1>8. Returned(loop', batch') /\ batch' \subseteq Reported
  BY <1>3 DEF Returned
<1>9. /\ elsewhere \subseteq elsewhere' /\ elsewhere' \subseteq Files /\ ready' \in [Files -> SUBSET Bits] /\ ops' \in Nat
      /\ phase' \in {"user", "reify", "blocked", "returned", "handle"}
  BY <1>1, <1>2 DEF TypeOK
<1>. QED
  BY <1>1, <1>3, <1>7, <1>8, <1>9, LoopStep

\* What kevent makes of the changes
Note(fd, filter) == [fd |-> fd, file |-> file[fd], filter |-> filter]
Refusals == {e \in [tag : {"ebadf", "enoent"}, fd : Fds, file : {NoFile}, got : {{}}, current : {TRUE}] :
               e = Failure(e.tag, e.fd)}
Submitted == [interest : SUBSET Knotes, errors : SUBSET Refusals]
OfPresent(interest) == \A k \in interest : k.file = file[k.fd]

LEMMA AppliedFields ==
  ASSUME file \in [Fds -> Files \cup {NoFile}], NEW s \in Submitted, OfPresent(s.interest), NEW c \in Kevents,
         NEW t, t = Applied(s, c)
  PROVE  /\ t \in Submitted /\ OfPresent(t.interest)
         /\ \A fd, filter : Note(fd, filter) \in s.interest /\ c # Change(fd, filter, "delete") =>
              Note(fd, filter) \in t.interest
         /\ IsOpen(c.fd) /\ c.flag = "add" => Note(c.fd, c.filter) \in t.interest
<1>. PICK n : n = Note(c.fd, c.filter)
  OBVIOUS
<1>1. c.fd \in Fds /\ c.filter \in Bits /\ c.flag \in {"add", "delete"} /\ c = Change(c.fd, c.filter, c.flag)
  BY DEF Kevents, Change
<1>2. n.fd = c.fd /\ n.file = file[c.fd] /\ n.filter = c.filter /\ (IsOpen(c.fd) => n \in Knotes)
  <2>1. n.fd = c.fd /\ n.file = file[c.fd] /\ n.filter = c.filter
    BY DEF Note
  <2>2. IsOpen(c.fd) => file[c.fd] \in Files
    BY <1>1 DEF IsOpen
  <2>. QED
    BY <1>1, <2>1, <2>2 DEF Note, Knotes
<1>3. s.interest \subseteq Knotes /\ s.errors \subseteq Refusals
  BY DEF Submitted
<1>4. /\ Failure("ebadf", c.fd) \in Refusals
      /\ Failure("enoent", c.fd) \in Refusals
  BY <1>1 DEF Failure, Refusals
<1>5. \/ /\ t = [s EXCEPT !.errors = s.errors \cup {Failure("ebadf", c.fd)}] /\ ~IsOpen(c.fd)
      \/ t = [s EXCEPT !.interest = s.interest \cup {n}] /\ IsOpen(c.fd)
      \/ t = [s EXCEPT !.interest = s.interest \ {n}] /\ c.flag = "delete"
      \/ t = [s EXCEPT !.errors = s.errors \cup {Failure("enoent", c.fd)}] /\ c.flag = "delete"
  BY <1>1 DEF Applied, Note
<1>6. CASE t = [s EXCEPT !.errors = s.errors \cup {Failure("ebadf", c.fd)}] /\ ~IsOpen(c.fd)
  <2>1. t.interest = s.interest /\ t.errors = s.errors \cup {Failure("ebadf", c.fd)} /\ t \in Submitted
    BY <1>3, <1>4, <1>6 DEF Submitted
  <2>. QED
    BY <1>6, <2>1 DEF OfPresent
<1>7. CASE t = [s EXCEPT !.interest = s.interest \cup {n}] /\ IsOpen(c.fd)
  <2>1. t.interest = s.interest \cup {n}
    BY <1>7 DEF Submitted
  <2>2. t \in Submitted
    BY <1>2, <1>3, <1>7 DEF Submitted
  <2>. QED
    BY <1>2, <2>1, <2>2 DEF OfPresent
<1>8. CASE t = [s EXCEPT !.interest = s.interest \ {n}] /\ c.flag = "delete"
  <2>1. t.interest = s.interest \ {n}
    BY <1>8 DEF Submitted
  <2>2. t \in Submitted
    BY <1>3, <1>8 DEF Submitted
  <2>3. ASSUME NEW fd, NEW filter, Note(fd, filter) \in s.interest, c # Change(fd, filter, "delete")
        PROVE  Note(fd, filter) # n
    <3>1. Note(fd, filter).fd = fd /\ Note(fd, filter).filter = filter
      BY DEF Note
    <3>. QED
      BY <1>1, <1>2, <1>8, <2>3, <3>1
  <2>. QED
    BY <1>8, <2>1, <2>2, <2>3 DEF OfPresent
<1>9. CASE t = [s EXCEPT !.errors = s.errors \cup {Failure("enoent", c.fd)}] /\ c.flag = "delete"
  <2>1. t.interest = s.interest /\ t.errors = s.errors \cup {Failure("enoent", c.fd)} /\ t \in Submitted
    BY <1>3, <1>4, <1>9 DEF Submitted
  <2>. QED
    BY <1>9, <2>1 DEF OfPresent
<1>. QED
  BY <1>5, <1>6, <1>7, <1>8, <1>9

LEMMA KqueueSubmitted ==
  ASSUME file \in [Fds -> Files \cup {NoFile}], NEW p \in Kqueued, OfPresent(p.interest),
         NEW q, q = KqueueSubmit(p).p, NEW errors, errors = KqueueSubmit(p).errors
  PROVE  /\ q \in Kqueued /\ q.changes = <<>> /\ OfPresent(q.interest) /\ errors \subseteq Refusals
         /\ \A fd \in Fds : \A filter : IsOpen(fd) /\ Coming(p, fd, filter) => Note(fd, filter) \in q.interest
<1>. DEFINE c == p.changes
            len == Len(c)
            base == [interest |-> p.interest, errors |-> {}]
            IsDone(f, n) == f = [i \in 0 .. n |-> IF i = 0 THEN base ELSE Applied(f[i - 1], c[i])]
            \* Coming, for the first n changes
            UpTo(n, fd, filter) ==
              \/ /\ Note(fd, filter) \in p.interest
                 /\ \A i \in 1 .. n : c[i] # Change(fd, filter, "delete")
              \/ \E i \in 1 .. n : /\ c[i] = Change(fd, filter, "add")
                                   /\ \A j \in i .. n : c[j] # Change(fd, filter, "delete")
            Good(s, n) ==
              /\ s \in Submitted /\ OfPresent(s.interest)
              /\ \A fd \in Fds : \A filter : IsOpen(fd) /\ UpTo(n, fd, filter) => Note(fd, filter) \in s.interest
            S == {n \in Nat : \E f : IsDone(f, n)}
<1>0. c \in Seq(Kevents) /\ len \in Nat /\ p.interest \subseteq Knotes
  BY DEF Kqueued
<1>1. 0 \in S
  <2>1. IsDone([i \in 0 .. 0 |-> base], 0)
    OBVIOUS
  <2>. QED
    BY <2>1
<1>2. ASSUME NEW n \in Nat, n \in S
      PROVE  n + 1 \in S
  <2>. HIDE DEF base
  <2>1. PICK f : IsDone(f, n)
    BY <1>2
  <2>. DEFINE g == [i \in 0 .. n + 1 |-> IF i = n + 1 THEN Applied(f[n], c[n + 1]) ELSE f[i]]
  <2>2. \A i \in 0 .. n + 1 : g[i] = IF i = 0 THEN base ELSE Applied(g[i - 1], c[i])
    BY <2>1
  <2>3. IsDone(g, n + 1)
    BY <2>2
  <2>. HIDE DEF IsDone, g
  <2>. QED
    BY <2>3
<1>3. len \in S
  <2>. HIDE DEF S, len
  <2>. QED
    BY <1>0, <1>1, <1>2, SetInduction
<1>. DEFINE done == CHOOSE f : IsDone(f, len)
<1>4. IsDone(done, len)
  <2>. HIDE DEF len, IsDone
  <2>. QED
    BY <1>3, Zenon
<1>5. KqueueSubmit(p) = [p |-> [interest |-> done[len].interest, changes |-> <<>>], errors |-> done[len].errors]
  BY Zenon DEF KqueueSubmit
<1>. HIDE DEF done
<1>6. done[0] = base /\ \A n \in Nat : n < len => done[n + 1] = Applied(done[n], c[n + 1])
  <2>. HIDE DEF base, len, c
  <2>. QED
    BY <1>0, <1>4
<1>. DEFINE G == {n \in Nat : n <= len => Good(done[n], n)}
<1>7. 0 \in G
  <2>1. base \in Submitted /\ base.interest = p.interest
    BY <1>0 DEF Submitted
  <2>2. \A fd, filter : UpTo(0, fd, filter) => Note(fd, filter) \in p.interest
    OBVIOUS
  <2>. HIDE DEF base, UpTo
  <2>3. Good(done[0], 0)
    BY <1>6, <2>1, <2>2
  <2>. QED
    BY <2>3
<1>8. ASSUME NEW n \in Nat, n \in G
      PROVE  n + 1 \in G
  <2>. SUFFICES ASSUME n + 1 <= len PROVE Good(done[n + 1], n + 1)
    OBVIOUS
  <2>. HIDE DEF base, UpTo
  <2>. PICK s : s = done[n]
    OBVIOUS
  <2>. PICK t : t = done[n + 1]
    OBVIOUS
  <2>. PICK d : d = c[n + 1]
    OBVIOUS
  <2>1. Good(s, n) /\ t = Applied(s, d)
    BY <1>0, <1>6, <1>8
  <2>2. d \in Kevents
    BY <1>0
  <2>3. /\ t \in Submitted /\ OfPresent(t.interest)
        /\ \A fd, filter : Note(fd, filter) \in s.interest /\ d # Change(fd, filter, "delete") =>
             Note(fd, filter) \in t.interest
        /\ IsOpen(d.fd) /\ d.flag = "add" => Note(d.fd, d.filter) \in t.interest
    BY <2>1, <2>2, AppliedFields
  <2>4. ASSUME NEW fd \in Fds, NEW filter, IsOpen(fd), UpTo(n + 1, fd, filter)
        PROVE  Note(fd, filter) \in t.interest
    <3>1. CASE d = Change(fd, filter, "add")
      <4>1. d.fd = fd /\ d.filter = filter /\ d.flag = "add"
        BY <3>1 DEF Change
      <4>. QED
        BY <2>3, <2>4, <4>1
    <3>2. CASE d # Change(fd, filter, "add")
      <4>1. n + 1 \in 1 .. n + 1 /\ \A i \in 1 .. n : i \in 1 .. n + 1
        OBVIOUS
      <4>2. d # Change(fd, filter, "delete") /\ UpTo(n, fd, filter)
        <5>1. CASE Note(fd, filter) \in p.interest /\ \A i \in 1 .. n + 1 : c[i] # Change(fd, filter, "delete")
          <6>. HIDE DEF c
          <6>. QED
            BY <4>1, <5>1 DEF UpTo
        <5>2. ASSUME NEW i \in 1 .. n + 1, c[i] = Change(fd, filter, "add"),
                     \A j \in i .. n + 1 : c[j] # Change(fd, filter, "delete")
              PROVE  d # Change(fd, filter, "delete") /\ UpTo(n, fd, filter)
          <6>1. i # n + 1
            BY <3>2, <5>2
          <6>2. i \in 1 .. n /\ n + 1 \in i .. n + 1 /\ \A j \in i .. n : j \in i .. n + 1
            BY <6>1
          <6>. HIDE DEF c
          <6>. QED
            BY <5>2, <6>2 DEF UpTo
        <5>. QED
          BY <2>4, <5>1, <5>2 DEF UpTo
      <4>3. Note(fd, filter) \in s.interest
        BY <2>1, <2>4, <4>2
      <4>. QED
        BY <2>3, <4>2, <4>3
    <3>. QED
      BY <3>1, <3>2
  <2>. QED
    BY <2>3, <2>4
<1>9. len \in G
  <2>. HIDE DEF G, len
  <2>. QED
    BY <1>0, <1>7, <1>8, SetInduction
<1>. PICK s : s = done[len]
  OBVIOUS
<1>10. Good(s, len)
  <2>. HIDE DEF len, Good
  <2>. QED
    BY <1>0, <1>9
<1>11. q = [interest |-> s.interest, changes |-> <<>>] /\ errors = s.errors
  BY <1>5
<1>12. q.interest = s.interest /\ q.changes = <<>> /\ q \in Kqueued /\ errors \subseteq Refusals
  <2>1. s.interest \subseteq Knotes /\ s.errors \subseteq Refusals
    BY <1>10 DEF Submitted
  <2>2. <<>> \in Seq(Kevents)
    OBVIOUS
  <2>. QED
    BY <1>11, <2>1, <2>2 DEF Kqueued
<1>13. \A fd, filter : Coming(p, fd, filter) => UpTo(len, fd, filter)
  BY DEF Coming, Note
<1>. HIDE DEF UpTo
<1>. QED
  BY <1>10, <1>12, <1>13

LEMMA BlockKeeps == IndInv /\ Block => IndInv'
<1>. SUFFICES ASSUME IndInv, Block PROVE IndInv'
  OBVIOUS
<1>1. /\ phase = "reify" /\ phase' = "blocked"
      /\ UNCHANGED <<backend, loop, watcher, honest, file, elsewhere, ready>> /\ ops' = ops
  BY DEF Block
<1>2. TypeOK /\ BatchSound /\ PollerSound /\ LoopOK(loop) /\ FilesSound
  BY LoopIsOK DEF IndInv
<1>3. batch = {} /\ (backend = "kqueue" => ~loop.postfork)
  BY <1>1, <1>2 DEF BatchSound, PollerSound
<1>4. /\ elsewhere \subseteq elsewhere' /\ elsewhere' \subseteq Files /\ ready' \in [Files -> SUBSET Bits] /\ ops' \in Nat
      /\ phase' \in {"user", "reify", "blocked", "returned", "handle"}
  BY <1>1, <1>2 DEF TypeOK
<1>5. CASE backend # "kqueue"
  <2>1. batch' = {} /\ poller' = poller
    BY <1>3, <1>5 DEF Block
  <2>2. Returned(loop, batch') /\ batch' \subseteq Reported
    BY <2>1 DEF Returned
  <2>. QED
    BY <1>1, <1>3, <1>4, <1>5, <2>1, <2>2, QuietStep
<1>6. CASE backend = "kqueue"
  <2>1. poller' = KqueueSubmit(poller).p /\ batch' = KqueueSubmit(poller).errors
    BY <1>6 DEF Block
  <2>2. poller \in Kqueued /\ KqueueSound(loop, poller) /\ file \in [Fds -> Files \cup {NoFile}]
    BY <1>2, <1>6 DEF TypeOK, PollerOK, PollerSound, Told
  <2>3. OfPresent(poller.interest)
    BY <2>2 DEF KqueueSound, OfPresent
  <2>4. /\ poller' \in Kqueued /\ poller'.changes = <<>> /\ OfPresent(poller'.interest) /\ batch' \subseteq Refusals
        /\ \A fd \in Fds : \A filter : IsOpen(fd) /\ Coming(poller, fd, filter) => Note(fd, filter) \in poller'.interest
    BY <2>1, <2>2, <2>3, KqueueSubmitted
  <2>5. ASSUME NEW fd \in Fds, Known(loop, fd), NEW filter \in loop.events[fd]
        PROVE  Coming(poller', fd, filter)
    <3>1. Coming(poller, fd, filter) /\ IsOpen(fd)
      BY <1>2, <1>3, <1>6, <2>2, <2>5, KnownIsOpen DEF KqueueSound
    <3>2. Note(fd, filter) \in poller'.interest
      BY <2>4, <3>1
    <3>3. Len(poller'.changes) = 0
      BY <2>4
    <3>. QED
      BY <3>2, <3>3 DEF Coming, Note
  <2>6. KqueueSound(loop', poller')
    BY <1>1, <2>4, <2>5 DEF KqueueSound, OfPresent
  <2>7. Told(loop', poller', batch') /\ PollerOK(poller')
    BY <1>6, <2>4, <2>6 DEF Told, PollerOK
  <2>8. \A e \in batch' : e \in Reported /\ e.tag # "event" /\ e = Failure(e.tag, e.fd) /\ e.current
    BY <1>6, <2>4 DEF Refusals, Reported, Tags
  <2>9. Returned(loop', batch') /\ batch' \subseteq Reported
    BY <1>6, <2>8 DEF Returned
  <2>10. LoopOK(loop') /\ loop'.postfork = loop.postfork
    BY <1>1, <1>2
  <2>. QED
    BY <1>1, <1>3, <1>4, <1>6, <2>4, <2>7, <2>9, <2>10, LoopStep
<1>. QED
  BY <1>5, <1>6

\* What is reported is typed, and is about the present file if the backend knows of it.
LEMMA ReportsSound ==
  ASSUME IndInv
  PROVE  Reports \subseteq Reported /\ Returned(loop, Reports)
<1>1. TypeOK /\ PollerSound /\ FilesSound /\ 0 \in Fds
  BY EvFdAssumption DEF IndInv, Fds
<1>2. /\ backend \in {"select", "poll", "epoll", "port", "kqueue"} /\ PollerOK(poller) /\ Told(loop, poller, batch)
      /\ file \in [Fds -> Files \cup {NoFile}]
  BY <1>1 DEF TypeOK, PollerSound
<1>3. \A fd, f, got, current : LET e == Event(fd, f, got, current)
                               IN  e.tag = "event" /\ e.fd = fd /\ e.file = f /\ e.got = got /\ e.current = current
  BY DEF Event
<1>4. ASSUME NEW fd \in Fds, NEW f \in Files \cup {NoFile}, NEW got \in SUBSET Bits, NEW current \in BOOLEAN
      PROVE  Event(fd, f, got, current) \in Reported
  <2>1. "event" \in Tags[backend]
    BY <1>2 DEF Tags
  <2>. QED
    BY <2>1 DEF Event, Reported
<1>5. ASSUME NEW tag \in Tags[backend], NEW fd \in Fds, tag # "event"
      PROVE  /\ Failure(tag, fd) \in Reported /\ Failure(tag, fd).tag = tag /\ Failure(tag, fd).fd = fd
             /\ Failure(tag, fd).current
  BY <1>5 DEF Failure, Reported
\* An event or an error: what is to be shown of it
<1>. DEFINE Good(e) ==
       /\ e \in Reported
       /\ \/ /\ e.tag = "event"
             /\ e.current \/ backend = "epoll"
             /\ backend = "epoll" => e.file \notin Unpollable
             /\ e.current /\ Known(loop, e.fd) => e.file = file[e.fd]
          \/ /\ backend # "epoll" /\ e.tag # "event" /\ e = Failure(e.tag, e.fd) /\ e.current
<1>. HIDE DEF Good
<1>11. ASSUME backend # "epoll", NEW fd \in Fds, NEW got \in SUBSET Bits
       PROVE  Good(Event(fd, file[fd], got, TRUE))
  <2>1. file[fd] \in Files \cup {NoFile} /\ TRUE \in BOOLEAN
    BY <1>2
  <2>. PICK e : e = Event(fd, file[fd], got, TRUE)
    OBVIOUS
  <2>2. e \in Reported
    BY <1>4, <2>1
  <2>3. e.tag = "event" /\ e.fd = fd /\ e.file = file[fd] /\ e.current
    BY DEF Event
  <2>. QED
    BY <1>11, <2>2, <2>3 DEF Good
<1>6. CASE backend = "select"
  <2>1. Reports = SelectReports(poller) /\ poller \in Selected /\ "ebadf" \in Tags[backend]
    BY <1>2, <1>6 DEF Reports, PollerOK, Tags
  <2>2. ASSUME NEW e \in Reports
        PROVE  Good(e)
    <3>1. CASE e = Failure("ebadf", 0)
      BY <1>1, <1>5, <1>6, <2>1, <3>1 DEF Good
    <3>2. ASSUME NEW fd \in poller.ri \cup poller.wi,
                 e = Event(fd, file[fd], SelectMask(poller, fd) \cap ReadyFor(file[fd]), TRUE)
          PROVE  Good(e)
      <4>1. fd \in Fds /\ file[fd] \in Files \cup {NoFile}
        BY <1>2, <2>1 DEF Selected
      <4>2. SelectMask(poller, fd) \cap ReadyFor(file[fd]) \in SUBSET Bits
        BY DEF SelectMask, Bits
      <4>. QED
        BY <1>6, <1>11, <3>2, <4>1, <4>2
    <3>. QED
      BY <2>1, <3>1, <3>2 DEF SelectReports
  <2>. QED
    BY <1>6, <2>2 DEF Returned, Good
<1>7. CASE backend = "poll"
  <2>1. Reports = PollReports(poller) /\ poller \in Polled /\ "nval" \in Tags[backend]
    BY <1>2, <1>7 DEF Reports, PollerOK, Tags
  <2>2. \A n \in {poller.polls[i] : i \in DOMAIN poller.polls} : n \in Pollfds /\ n.fd \in Fds /\ n.events \in SUBSET Bits
    <3>. TAKE n \in {poller.polls[i] : i \in DOMAIN poller.polls}
    <3>1. PICK i \in DOMAIN poller.polls : n = poller.polls[i]
      OBVIOUS
    <3>2. poller.polls \in Seq(Pollfds)
      BY <2>1 DEF Polled
    <3>3. n \in Pollfds
      BY <3>1, <3>2
    <3>. QED
      BY <3>3 DEF Pollfds
  <2>3. ASSUME NEW e \in Reports
        PROVE  Good(e)
    <3>1. ASSUME NEW n \in {poller.polls[i] : i \in DOMAIN poller.polls}, e = Failure("nval", n.fd)
          PROVE  Good(e)
      BY <1>5, <1>7, <2>1, <2>2, <3>1 DEF Good
    <3>2. ASSUME NEW n \in {poller.polls[i] : i \in DOMAIN poller.polls},
                 e = Event(n.fd, file[n.fd], n.events \cap ReadyFor(file[n.fd]), TRUE)
          PROVE  Good(e)
      <4>1. n.fd \in Fds /\ file[n.fd] \in Files \cup {NoFile} /\ n.events \cap ReadyFor(file[n.fd]) \in SUBSET Bits
        BY <1>2, <2>2
      <4>. QED
        BY <1>7, <1>11, <3>2, <4>1
    <3>. QED
      BY <2>1, <3>1, <3>2 DEF PollReports
  <2>. QED
    BY <1>7, <2>3 DEF Returned, Good
<1>8. CASE backend = "epoll"
  <2>1. Reports = EpollReports(poller) /\ poller \in Epolled /\ EpollSound(loop, poller)
    BY <1>2, <1>8 DEF Reports, PollerOK, Told
  <2>2. ASSUME NEW e \in Reports
        PROVE  Good(e)
    <3>1. PICK n \in poller.interest : e = Event(n.fd, n.file, n.mask \cap ReadyFor(n.file), n.current)
      BY <2>1 DEF EpollReports
    <3>2. n.fd \in Fds /\ n.file \in Files /\ n.mask \cap ReadyFor(n.file) \in SUBSET Bits /\ n.current \in BOOLEAN
      BY <2>1 DEF Epolled, Registrations
    <3>3. n.file \notin Unpollable /\ (n.current /\ Known(loop, n.fd) => n.file = file[n.fd])
      BY <2>1 DEF EpollSound
    <3>4. e \in Reported
      BY <1>4, <3>1, <3>2
    <3>5. e.tag = "event" /\ e.fd = n.fd /\ e.file = n.file /\ e.current = n.current
      BY <1>3, <3>1
    <3>. QED
      BY <1>8, <3>3, <3>4, <3>5 DEF Good
  <2>. QED
    BY <1>8, <2>2 DEF Returned, Good
<1>9. CASE backend = "port"
  <2>1. Reports = PortReports(poller) /\ poller \in Ported /\ PortSound(loop, poller, batch)
    BY <1>2, <1>9 DEF Reports, PollerOK, Told
  <2>2. ASSUME NEW e \in Reports
        PROVE  Good(e)
    <3>1. PICK n \in poller.interest : e = Event(n.fd, n.file, n.mask \cap ReadyFor(n.file), TRUE)
      BY <2>1 DEF PortReports, PortFires
    <3>2. n.fd \in Fds /\ n.file \in Files /\ n.mask \cap ReadyFor(n.file) \in SUBSET Bits
      BY <2>1 DEF Ported, Associations
    <3>3. n.file = file[n.fd]
      BY <2>1 DEF PortSound
    <3>. QED
      BY <1>9, <1>11, <3>1, <3>2, <3>3
  <2>. QED
    BY <1>9, <2>2 DEF Returned, Good
<1>10. CASE backend = "kqueue"
  <2>1. Reports = KqueueReports(poller) /\ poller \in Kqueued /\ KqueueSound(loop, poller)
    BY <1>2, <1>10 DEF Reports, PollerOK, Told
  <2>2. ASSUME NEW e \in Reports
        PROVE  Good(e)
    <3>1. PICK n \in poller.interest : e = Event(n.fd, n.file, {n.filter}, TRUE)
      BY <2>1 DEF KqueueReports
    <3>2. n.fd \in Fds /\ n.file \in Files /\ {n.filter} \in SUBSET Bits
      BY <2>1 DEF Kqueued, Knotes
    <3>3. n.file = file[n.fd]
      BY <2>1 DEF KqueueSound
    <3>. QED
      BY <1>10, <1>11, <3>1, <3>2, <3>3
  <2>. QED
    BY <1>10, <2>2 DEF Returned, Good
<1>. QED
  BY <1>2, <1>6, <1>7, <1>8, <1>9, <1>10

LEMMA ReturnKeeps == IndInv /\ Return => IndInv'
<1>. SUFFICES ASSUME IndInv, Return PROVE IndInv'
  OBVIOUS
<1>1. /\ phase = "blocked" /\ phase' = "returned" /\ batch' = batch \cup Reports
      /\ UNCHANGED <<backend, loop, watcher, honest, file, elsewhere, ready>> /\ ops' = ops
  BY DEF Return
<1>2. TypeOK /\ BatchSound /\ PollerSound /\ LoopOK(loop) /\ FilesSound
  BY LoopIsOK DEF IndInv
<1>3. /\ elsewhere \subseteq elsewhere' /\ elsewhere' \subseteq Files /\ ready' \in [Files -> SUBSET Bits] /\ ops' \in Nat
      /\ phase' \in {"user", "reify", "blocked", "returned", "handle"}
  BY <1>1, <1>2 DEF TypeOK
<1>4. Returned(loop, batch') /\ batch' \subseteq Reported
  <2>1. Returned(loop, batch) /\ batch \subseteq Reported /\ Returned(loop, Reports) /\ Reports \subseteq Reported
    BY <1>2, ReportsSound DEF BatchSound, TypeOK
  <2>. QED
    BY <1>1, <2>1 DEF Returned
<1>5. backend = "kqueue" => ~loop.postfork /\ poller.changes = <<>>
  BY <1>1, <1>2 DEF PollerSound
<1>6. CASE backend # "port"
  <2>1. poller' = poller
    BY <1>6 DEF Return
  <2>. QED
    BY <1>1, <1>3, <1>4, <1>5, <1>6, <2>1, QuietStep
<1>7. CASE backend = "port"
  <2>1. poller' = [interest |-> poller.interest \ PortFires(poller)] /\ batch' = batch \cup PortReports(poller)
    BY <1>1, <1>7 DEF Return, Reports
  <2>2. poller'.interest = poller.interest \ PortFires(poller)
    BY <2>1
  <2>3. poller \in Ported /\ PortSound(loop, poller, batch)
    BY <1>2, <1>7 DEF TypeOK, PollerOK, PollerSound, Told
  <2>4. ASSUME NEW fd \in Fds, Known(loop, fd)
        PROVE  \/ \E e \in batch' : e.fd = fd
               \/ \E a \in poller'.interest : a.fd = fd /\ a.mask = loop.events[fd]
    <3>1. CASE \E e \in batch : e.fd = fd
      BY <2>1, <3>1
    <3>2. CASE \E a \in poller.interest : a.fd = fd /\ a.mask = loop.events[fd]
      <4>1. PICK a \in poller.interest : a.fd = fd /\ a.mask = loop.events[fd]
        BY <3>2
      <4>2. CASE a \in PortFires(poller)
        <5>1. Event(a.fd, a.file, a.mask \cap ReadyFor(a.file), TRUE) \in batch'
          BY <2>1, <4>2 DEF PortReports
        <5>2. Event(a.fd, a.file, a.mask \cap ReadyFor(a.file), TRUE).fd = fd
          BY <4>1 DEF Event
        <5>. QED
          BY <5>1, <5>2
      <4>3. CASE a \notin PortFires(poller)
        BY <2>2, <4>1, <4>3
      <4>. QED
        BY <4>2, <4>3
    <3>. QED
      BY <2>3, <2>4, <3>1, <3>2 DEF PortSound
  <2>5. PortSound(loop', poller', batch')
    BY <1>1, <2>2, <2>3, <2>4 DEF PortSound
  <2>6. Told(loop', poller', batch') /\ PollerOK(poller')
    BY <1>7, <2>1, <2>2, <2>3, <2>5 DEF Told, PollerOK, Ported
  <2>7. LoopOK(loop') /\ Returned(loop', batch')
    BY <1>1, <1>2, <1>4
  <2>. QED
    BY <1>1, <1>3, <1>4, <1>7, <2>6, <2>7, LoopStep
<1>. QED
  BY <1>6, <1>7

LEMMA PollReturnsKeeps == IndInv /\ PollReturns => IndInv'
<1>. SUFFICES ASSUME IndInv, PollReturns PROVE IndInv'
  OBVIOUS
<1>1. /\ phase = "handle" /\ phase' = "user" /\ batch = {} /\ batch' = {}
      /\ UNCHANGED <<backend, watcher, honest, file, elsewhere, ready>> /\ ops' = ops
  BY DEF PollReturns
<1>2. TypeOK /\ BatchSound /\ PollerSound /\ LoopOK(loop) /\ FilesSound
  BY LoopIsOK DEF IndInv
<1>3. /\ elsewhere \subseteq elsewhere' /\ elsewhere' \subseteq Files /\ ready' \in [Files -> SUBSET Bits] /\ ops' \in Nat
      /\ phase' \in {"user", "reify", "blocked", "returned", "handle"}
  BY <1>1, <1>2 DEF TypeOK
<1>4. CASE backend # "epoll"
  <2>1. UNCHANGED <<loop, poller>>
    BY <1>4 DEF PollReturns
  <2>2. Returned(loop, batch') /\ batch' \subseteq Reported
    BY <1>1 DEF Returned
  <2>3. backend = "port" => batch \subseteq batch'
    BY <1>1
  <2>. QED
    BY <1>1, <1>3, <1>4, <2>1, <2>2, <2>3, QuietStep
<1>5. CASE backend = "epoll"
  <2>1. loop' = EpollPerms(loop, poller).l /\ poller' = EpollPerms(loop, poller).p
    BY <1>5 DEF PollReturns
  <2>2. poller \in Epolled /\ EpollSound(loop, poller)
    BY <1>2, <1>5 DEF TypeOK, PollerOK, PollerSound, Told
  <2>3. PICK eperms \in SUBSET Fds : poller' = [poller EXCEPT !.eperms = eperms]
    <3>1. poller' = [poller EXCEPT !.eperms = {fd \in poller.eperms : loop.emask[fd] = EPERM /\ loop.events[fd] # {}}]
      BY <2>1 DEF EpollPerms
    <3>2. {fd \in poller.eperms : loop.emask[fd] = EPERM /\ loop.events[fd] # {}} \in SUBSET Fds
      BY <2>2 DEF Epolled
    <3>. QED
      BY <3>1, <3>2
  <2>4. PICK x \in [Watchers -> SUBSET (Bits \cup {"error"})] : loop' = [loop EXCEPT !.pending = x]
    <3>. DEFINE Quiet(w) == {n \in {fd \in {fd \in poller.eperms : loop.emask[fd] = EPERM /\ loop.events[fd] # {}} :
                                      loop.reify[fd] = {}} : w \in Watching(loop, n)}
                y == [w \in Watchers |-> loop.pending[w] \cup
                        UNION {watcher[w].events \cap loop.events[fd] : fd \in Quiet(w)}]
    <3>1. loop' = [loop EXCEPT !.pending = y]
      BY <2>1 DEF EpollPerms
    <3>2. ASSUME NEW w \in Watchers
          PROVE  y[w] \in SUBSET (Bits \cup {"error"})
      <4>1. watcher[w].events \subseteq Bits /\ loop.pending[w] \in SUBSET (Bits \cup {"error"})
        BY <1>2, LoopIsOK DEF LoopOK, Loops
      <4>. QED
        BY <4>1
    <3>3. y \in [Watchers -> SUBSET (Bits \cup {"error"})]
      BY <3>2
    <3>. QED
      BY <3>1, <3>3
  <2>5. Marks(loop, loop')
    BY <1>2, <2>4, PendingMarks
  <2>6. poller'.interest = poller.interest /\ poller' \in Epolled
    BY <2>2, <2>3 DEF Epolled
  <2>7. \A fd \in Fds : Mine(poller', fd) = Mine(poller, fd)
    BY <2>6 DEF Mine
  <2>8. Told(loop', poller, batch)
    BY <1>2, <2>2, <2>5, MarksKnown, ToldKept, <1>5 DEF Marks, PollerSound
  <2>9. EpollSound(loop', poller')
    <3>1. EpollSound(loop', poller)
      BY <1>5, <2>8 DEF Told
    <3>2. \A e \in poller.interest : e.fd \in Fds
      BY <2>2 DEF Epolled, Registrations
    <3>. QED
      BY <2>6, <2>7, <3>1, <3>2 DEF EpollSound
  <2>10. Told(loop', poller', batch') /\ PollerOK(poller') /\ Returned(loop', batch') /\ batch' \subseteq Reported
    BY <1>1, <1>5, <2>6, <2>9 DEF Told, PollerOK, Returned
  <2>11. LoopOK(loop')
    BY <2>5 DEF Marks
  <2>. QED
    BY <1>1, <1>3, <1>5, <2>10, <2>11, LoopStep
<1>. QED
  BY <1>4, <1>5

\* The backends that only pass the events on: fd_kill, fd_ebadf, fd_enomem
LEMMA PassedOn ==
  ASSUME IndInv, NEW e \in batch, Handle(e), Marks(loop, loop'), poller' = poller, backend # "port"
  PROVE  IndInv'
<1>1. /\ UNCHANGED <<backend, poller, watcher, honest, phase, file, elsewhere, ready>>
      /\ ops' \in Nat /\ batch' \subseteq batch
  BY DEF Handle, IndInv, TypeOK
<1>. QED
  BY <1>1, MarkingStep

LEMMA HandleSelectOrPoll ==
  ASSUME IndInv, NEW e \in batch, Handle(e), backend \in {"select", "poll"}
  PROVE  IndInv'
<1>1. LoopOK(loop) /\ e.tag \in Tags[backend]
  BY LoopIsOK DEF IndInv, TypeOK, Reported
<1>2. /\ backend = "select" => loop' = SelectHandle(loop, poller, e).l /\ poller' = SelectHandle(loop, poller, e).p
      /\ backend = "poll" => loop' = PollHandle(loop, poller, e).l /\ poller' = PollHandle(loop, poller, e).p
  BY DEF Handle, HandleEvent
<1>3. poller' = poller
  BY <1>2 DEF SelectHandle, PollHandle
<1>4. \/ loop' = FdEbadf(loop) \/ loop' = FdEnomem(loop) \/ loop' = FdEvent(loop, e.fd, e.got)
      \/ loop' = FdKill(loop, e.fd)
  BY <1>1, <1>2 DEF SelectHandle, PollHandle, Tags
<1>5. Marks(loop, loop')
  BY <1>1, <1>4, FdEbadfMarks, FdEnomemMarks, FdEventMarks, FdKillMarks
<1>. QED
  BY <1>3, <1>5, PassedOn

\* What the steps of Handle have in common
LEMMA HandleStep ==
  ASSUME IndInv, NEW e \in batch, Handle(e), LoopOK(loop'), PollerOK(poller'), Told(loop', poller', batch'),
         \A fd \in Fds : Known(loop', fd) => Known(loop, fd), backend = "kqueue" => ~loop'.postfork
  PROVE  IndInv'
<1>1. /\ phase = "handle" /\ phase' = "handle" /\ batch' = batch \ {e}
      /\ UNCHANGED <<backend, watcher, honest, file, elsewhere, ready>> /\ ops' = ops
  BY DEF Handle
<1>2. TypeOK /\ BatchSound
  BY DEF IndInv
<1>3. batch' \subseteq Reported /\ batch' \subseteq batch /\ \A n \in batch' : n.fd \in Fds
  BY <1>1, <1>2 DEF TypeOK, Reported
<1>4. Returned(loop', batch')
  BY <1>2, <1>3, ReturnedKept DEF BatchSound
<1>5. /\ elsewhere \subseteq elsewhere' /\ elsewhere' \subseteq Files /\ ready' \in [Files -> SUBSET Bits] /\ ops' \in Nat
      /\ phase' \in {"user", "reify", "blocked", "returned", "handle"}
  BY <1>1, <1>2 DEF TypeOK
<1>. QED
  BY <1>1, <1>3, <1>4, <1>5, LoopStep

LEMMA HandlePort ==
  ASSUME IndInv, NEW e \in batch, Handle(e), backend = "port"
  PROVE  IndInv'
<1>1. /\ loop' = FdChange(FdEvent(loop, e.fd, e.got), e.fd, {"iofdset"}) /\ poller' = poller
      /\ batch' = batch \ {e}
  BY DEF Handle, HandleEvent, PortHandle
<1>2. TypeOK /\ PollerSound /\ LoopOK(loop)
  BY LoopIsOK DEF IndInv
<1>3. e.fd \in Fds /\ poller \in Ported /\ PortSound(loop, poller, batch)
  BY <1>2 DEF TypeOK, Reported, PollerOK, PollerSound, Told
<1>. PICK l : l = FdEvent(loop, e.fd, e.got)
  OBVIOUS
<1>4. Marks(loop, l) /\ l.reify = loop.reify
  BY <1>2, FdEventMarks
<1>. PICK fd : fd = e.fd
  OBVIOUS
<1>. PICK m : m = loop'
  OBVIOUS
<1>5. /\ m \in Loops /\ m.events = l.events /\ m.emask = l.emask /\ m.postfork = l.postfork
      /\ m.active = l.active
  <2>1. l \in Loops /\ fd \in Fds /\ m = FdChange(l, fd, {"iofdset"})
    BY <1>1, <1>3, <1>4 DEF Marks, LoopOK
  <2>. QED
    BY <2>1, FdChangeKeeps
<1>6. /\ Marked(m) /\ {"iofdset"} \subseteq m.reify[fd]
      /\ \A other \in Fds : l.reify[other] \subseteq m.reify[other]
  <2>1. l \in Loops /\ Marked(l) /\ fd \in Fds /\ m = FdChange(l, fd, {"iofdset"})
    BY <1>1, <1>3, <1>4 DEF Marks, LoopOK
  <2>. QED
    BY <2>1, FdChangeMarks
<1>7. LoopOK(m)
  BY <1>4, <1>5, <1>6 DEF Marks, LoopOK, Agree, WatchersOK, Wanted, Watching
<1>8. \A o \in Fds : Known(m, o) => o # fd /\ Known(loop, o) /\ m.events[o] = loop.events[o]
  BY <1>4, <1>5, <1>6 DEF Known, Marks
<1>9. PortSound(m, poller, batch')
  <2>1. ASSUME NEW o \in Fds, Known(m, o)
        PROVE  (\E n \in batch' : n.fd = o) \/ (\E a \in poller.interest : a.fd = o /\ a.mask = m.events[o])
    <3>1. CASE \E n \in batch : n.fd = o
      BY <1>1, <1>8, <2>1, <3>1
    <3>2. CASE \E a \in poller.interest : a.fd = o /\ a.mask = loop.events[o]
      BY <1>8, <2>1, <3>2
    <3>. QED
      BY <1>3, <1>8, <2>1, <3>1, <3>2 DEF PortSound
  <2>. QED
    BY <1>3, <2>1 DEF PortSound
<1>10. LoopOK(loop') /\ PollerOK(poller') /\ Told(loop', poller', batch')
       /\ \A o \in Fds : Known(loop', o) => Known(loop, o)
  BY <1>1, <1>3, <1>7, <1>8, <1>9 DEF PollerOK, Told
<1>. QED
  BY <1>10, HandleStep

LEMMA HandleKqueue ==
  ASSUME IndInv, NEW e \in batch, Handle(e), backend = "kqueue"
  PROVE  IndInv'
<1>1. loop' = KqueueHandle(loop, poller, e).l /\ poller' = KqueueHandle(loop, poller, e).p /\ phase = "handle"
  BY DEF Handle, HandleEvent
<1>2. TypeOK /\ PollerSound /\ LoopOK(loop)
  BY LoopIsOK DEF IndInv
<1>3. /\ e.fd \in Fds /\ e.tag \in {"event", "ebadf", "enoent"}
      /\ poller \in Kqueued /\ KqueueSound(loop, poller) /\ ~loop.postfork
  BY <1>1, <1>2 DEF TypeOK, Reported, Tags, PollerOK, PollerSound, Told
<1>4. \/ loop' = FdEvent(loop, e.fd, e.got) /\ poller' = poller
      \/ loop' = loop /\ poller' = poller
      \/ loop' = FdKill(loop, e.fd) /\ poller' = poller
      \/ /\ loop' = KqueueModify(loop, poller, e.fd, {}, loop.events[e.fd]).l
         /\ poller' = KqueueModify(loop, poller, e.fd, {}, loop.events[e.fd]).p
  <2>1. CASE e.tag = "event"
    BY <1>1, <2>1 DEF KqueueHandle
  <2>2. CASE e.tag # "event" /\ loop.events[e.fd] = {}
    BY <1>1, <2>2 DEF KqueueHandle
  <2>3. CASE e.tag # "event" /\ loop.events[e.fd] # {} /\ (e.tag = "enoent" \/ IsOpen(e.fd))
    <3>1. KqueueHandle(loop, poller, e) = KqueueModify(loop, poller, e.fd, {}, loop.events[e.fd])
      BY <2>3 DEF KqueueHandle
    <3>. QED
      BY <1>1, <3>1
  <2>4. CASE e.tag = "ebadf" /\ loop.events[e.fd] # {} /\ ~IsOpen(e.fd)
    BY <1>1, <2>4 DEF KqueueHandle
  <2>. QED
    BY <1>3, <2>1, <2>2, <2>3, <2>4
<1>5. CASE poller' = poller /\ (loop' = FdEvent(loop, e.fd, e.got) \/ loop' = loop \/ loop' = FdKill(loop, e.fd))
  <2>1. Marks(loop, loop')
    BY <1>2, <1>5, FdEventMarks, FdKillMarks DEF Marks
  <2>. QED
    BY <1>5, <2>1, PassedOn
<1>6. CASE /\ loop' = KqueueModify(loop, poller, e.fd, {}, loop.events[e.fd]).l
           /\ poller' = KqueueModify(loop, poller, e.fd, {}, loop.events[e.fd]).p
  <2>1. loop' = loop
    BY <1>6 DEF KqueueModify
  <2>. PICK fd : fd = e.fd
    OBVIOUS
  <2>. PICK nev : nev = loop.events[fd]
    OBVIOUS
  <2>. PICK q : q = poller'
    OBVIOUS
  <2>2. fd \in Fds /\ nev \in SUBSET Bits /\ q = KqueueModify(loop, poller, fd, {}, nev).p
    BY <1>2, <1>3, <1>6 DEF LoopOK, Loops
  <2>3. /\ q \in Kqueued /\ q.interest = poller.interest
        /\ \A filter \in nev : Coming(q, fd, filter)
        /\ \A o, filter : o # fd /\ Coming(poller, o, filter) => Coming(q, o, filter)
    BY <1>3, <2>2, KqueueTold
  <2>4. ASSUME NEW o \in Fds, Known(loop, o), NEW filter \in loop.events[o]
        PROVE  Coming(q, o, filter)
    <3>1. Coming(poller, o, filter)
      BY <1>3, <2>4 DEF KqueueSound
    <3>. QED
      BY <2>3, <2>4, <3>1
  <2>5. KqueueSound(loop', q)
    BY <1>3, <2>1, <2>3, <2>4 DEF KqueueSound
  <2>6. LoopOK(loop') /\ PollerOK(poller') /\ Told(loop', poller', batch')
        /\ (\A o \in Fds : Known(loop', o) => Known(loop, o)) /\ ~loop'.postfork
    BY <1>2, <1>3, <2>1, <2>3, <2>5 DEF PollerOK, Told
  <2>. QED
    BY <2>6, HandleStep
<1>. QED
  BY <1>4, <1>5, <1>6

LEMMA HandleEpoll ==
  ASSUME IndInv, NEW e \in batch, Handle(e), backend = "epoll"
  PROVE  IndInv'
<1>. PICK fd : fd = e.fd
  OBVIOUS
<1>. PICK want : want = loop.events[fd]
  OBVIOUS
<1>. PICK known : known = Mine(poller, fd)
  OBVIOUS
<1>. PICK masked : masked = Noted(loop, fd, want)
  OBVIOUS
<1>1. loop' = EpollHandle(loop, poller, e).l /\ poller' = EpollHandle(loop, poller, e).p
  BY DEF Handle, HandleEvent
<1>2. TypeOK /\ PollerSound /\ LoopOK(loop) /\ BatchSound
  BY LoopIsOK DEF IndInv
<1>3. /\ fd \in Fds /\ poller \in Epolled /\ EpollSound(loop, poller) /\ Told(loop, poller, batch)
      /\ e.tag = "event" /\ e.file \notin Unpollable
      /\ e.current /\ Known(loop, fd) => e.file = file[fd]
  BY <1>2 DEF TypeOK, Reported, Tags, PollerOK, PollerSound, Told, BatchSound, Returned
<1>4. want \in SUBSET Bits /\ want \in SUBSET (Bits \cup EPERM)
  BY <1>2, <1>3 DEF LoopOK, Loops
<1>5. /\ LoopOK(masked) /\ masked.events = loop.events /\ masked.postfork = loop.postfork
      /\ masked.reify = loop.reify /\ masked.emask[fd] = want
      /\ \A o \in Fds : o # fd => masked.emask[o] = loop.emask[o]
  BY <1>2, <1>3, <1>4, NotedFields
<1>6. /\ \A o \in Fds : \A n \in Mine(poller, o) : n.current /\ n.mask = loop.emask[o]
      /\ \A o \in Fds : Known(loop, o) =>
           IF file[o] \in Unpollable THEN loop.emask[o] = EPERM
           ELSE loop.emask[o] = loop.events[o] /\ Mine(poller, o) # {}
      /\ \A n \in poller.interest : n.current /\ (Known(loop, n.fd) \/ Mine(poller, n.fd) # {}) => n.file = file[n.fd]
      /\ \A n \in poller.interest : n.file \notin Unpollable /\ (n.file \in elsewhere \/ \E o \in Fds : file[o] = n.file)
      /\ \A n \in poller.interest : n.fd \in Fds
  BY <1>3 DEF EpollSound, Epolled, Registrations
<1>7. \A r, o, n : n \in Mine(r, o) <=> n \in r.interest /\ n.fd = o /\ n.file = file[o]
  BY DEF Mine
\* To be shown of the new loop m and poller q
<1>8. ASSUME NEW m, LoopOK(m), NEW q \in Epolled, EpollSound(m, q), loop' = m, poller' = q,
             m.events = loop.events, \A o \in Fds : loop.reify[o] \subseteq m.reify[o]
      PROVE  IndInv'
  <2>1. \A o \in Fds : Known(loop', o) => Known(loop, o)
    BY <1>8, KnownBefore
  <2>2. LoopOK(loop') /\ PollerOK(poller') /\ Told(loop', poller', batch')
    BY <1>8 DEF PollerOK, Told
  <2>. QED
    BY <2>1, <2>2, HandleStep
<1>9. CASE ~e.current
  <2>1. loop' = [loop EXCEPT !.postfork = TRUE] /\ poller' = poller
    BY <1>1, <1>9 DEF EpollHandle
  <2>. PICK m : m = Flagged(loop, TRUE)
    OBVIOUS
  <2>2. LoopOK(m) /\ m.events = loop.events /\ m.reify = loop.reify /\ m.emask = loop.emask
    BY <1>2, PostforkFields
  <2>3. Told(m, poller, batch)
    BY <1>3, <2>2, KnownBefore, ToldKept
  <2>. QED
    BY <1>3, <1>8, <2>1, <2>2, <2>3 DEF Told, Flagged
<1>10. CASE e.current /\ e.got \subseteq want
  <2>1. loop' = FdEvent(loop, fd, e.got) /\ poller' = poller
    BY <1>1, <1>10 DEF EpollHandle
  <2>2. Marks(loop, loop')
    BY <1>2, <2>1, FdEventMarks
  <2>. QED
    BY <2>1, <2>2, PassedOn
<1>11. CASE e.current /\ ~(e.got \subseteq want) /\ known = {}
  <2>. PICK m : m = Flagged(masked, TRUE)
    OBVIOUS
  <2>1. loop' = m /\ poller' = poller
    BY <1>1, <1>11 DEF EpollHandle, Noted, Flagged
  <2>2. LoopOK(m) /\ m.events = loop.events /\ m.reify = loop.reify /\ m.emask = masked.emask
    <3>1. LoopOK(masked) /\ masked.events = loop.events /\ masked.reify = loop.reify
      BY <1>5
    <3>2. ASSUME NEW k, LoopOK(k)
          PROVE  /\ LoopOK(Flagged(k, TRUE)) /\ Flagged(k, TRUE).events = k.events
                 /\ Flagged(k, TRUE).reify = k.reify /\ Flagged(k, TRUE).emask = k.emask
      BY <3>2, PostforkFields
    <3>. QED
      BY <3>1, <3>2
  <2>3. ~Known(loop, fd)
    BY <1>3, <1>6, <1>11
  <2>4. \A o \in Fds : Known(m, o) => Known(loop, o)
    BY <2>2, KnownBefore
  <2>5. \A o \in Fds : \A n \in Mine(poller, o) : n.current /\ n.mask = m.emask[o]
    BY ZenonT(120), <1>5, <1>6, <1>11, <2>2
  <2>6. \A o \in Fds : Known(m, o) =>
          IF file[o] \in Unpollable THEN m.emask[o] = EPERM ELSE m.emask[o] = m.events[o] /\ Mine(poller, o) # {}
    <3>. TAKE o \in Fds
    <3>. HAVE Known(m, o)
    <3>1. Known(loop, o) /\ o # fd
      BY <2>3, <2>4
    <3>2. m.emask[o] = loop.emask[o] /\ m.events[o] = loop.events[o]
      BY <1>5, <2>2, <3>1
    <3>. QED
      BY <1>6, <3>1, <3>2
  <2>7. EpollSound(m, poller)
    BY <1>6, <2>4, <2>5, <2>6 DEF EpollSound
  <2>. QED
    BY <1>3, <1>8, <2>1, <2>2, <2>7
<1>12. CASE e.current /\ ~(e.got \subseteq want) /\ known # {}
  <2>. DEFINE others == poller.interest \ known
              changed == {[k EXCEPT !.mask = want] : k \in known}
              q == [poller EXCEPT !.interest = IF want = {} THEN others ELSE others \cup changed]
  <2>. PICK m : m = FdEvent(masked, fd, e.got)
    OBVIOUS
  <2>1. loop' = m /\ poller' = q
    BY <1>1, <1>12 DEF EpollHandle, Noted
  <2>2. /\ LoopOK(m) /\ m.events = loop.events /\ m.emask = masked.emask
        /\ \A o \in Fds : loop.reify[o] \subseteq m.reify[o]
    BY <1>5, FdEventMarks DEF Marks
  <2>3. known \subseteq poller.interest /\ poller.interest \subseteq Registrations
    BY <1>3, <1>7 DEF Epolled
  <2>4. \A n \in changed : n \in Registrations /\ n.fd = fd /\ n.file = file[fd] /\ n.mask = want /\ n.current
    <3>. TAKE n \in changed
    <3>1. PICK k \in known : n = [k EXCEPT !.mask = want]
      OBVIOUS
    <3>2. k \in Registrations /\ k.fd = fd /\ k.file = file[fd] /\ k.current
      BY <1>3, <1>6, <1>7, <2>3
    <3>. QED
      BY <1>4, <3>1, <3>2 DEF Registrations
  <2>5. q.interest = (IF want = {} THEN others ELSE others \cup changed) /\ q \in Epolled
    BY <1>3, <2>3, <2>4 DEF Epolled
  <2>6. want # {} => changed # {}
    BY <1>12
  <2>. HIDE DEF changed, q
  <2>7. /\ \A n : n.fd # fd => (n \in q.interest <=> n \in poller.interest)
        /\ \A n \in q.interest : n.fd = fd => (want # {} /\ n \in changed) \/ (n \in poller.interest /\ n.file # file[fd])
        /\ want # {} => changed \subseteq q.interest
    BY <1>7, <2>4, <2>5
  <2>8. \A o \in Fds : o # fd => Mine(q, o) = Mine(poller, o)
    <3>. TAKE o \in Fds
    <3>. HAVE o # fd
    <3>1. \A n : n \in Mine(q, o) <=> n \in Mine(poller, o)
      BY <1>7, <2>7
    <3>. QED
      BY <3>1
  <2>9. /\ \A n \in Mine(q, fd) : want # {} /\ n \in changed
        /\ want # {} => Mine(q, fd) # {}
    BY <1>7, <2>4, <2>6, <2>7
  <2>10. file[fd] \notin Unpollable
    BY <1>6, <1>7, <1>12
  <2>11. \A o \in Fds : Known(m, o) => Known(loop, o)
    BY <2>2, KnownBefore
  <2>12. \A o \in Fds : \A n \in Mine(q, o) : n.current /\ n.mask = m.emask[o]
    <3>. TAKE o \in Fds
    <3>1. CASE o = fd
      BY SMTT(60), <1>5, <2>2, <2>4, <2>9, <3>1
    <3>2. CASE o # fd
      BY <1>5, <1>6, <2>2, <2>8, <3>2
    <3>. QED
      BY <3>1, <3>2
  <2>13. ASSUME NEW o \in Fds, Known(m, o)
         PROVE  IF file[o] \in Unpollable THEN m.emask[o] = EPERM ELSE m.emask[o] = m.events[o] /\ Mine(q, o) # {}
    <3>1. CASE o = fd
      <4>1. want # {}
        BY SMTT(60), <2>2, <2>13, <3>1 DEF Known
      <4>. QED
        BY SMTT(60), <1>5, <2>2, <2>9, <2>10, <3>1, <4>1
    <3>2. CASE o # fd
      BY <1>5, <1>6, <2>2, <2>8, <2>11, <2>13, <3>2
    <3>. QED
      BY SMTT(60), <3>1, <3>2
  <2>14. ASSUME NEW n \in q.interest, n.current, Known(m, n.fd) \/ Mine(q, n.fd) # {}
         PROVE  n.file = file[n.fd]
    <3>1. CASE n.fd = fd
      BY <1>6, <1>12, <2>4, <2>7, <2>14, <3>1
    <3>2. CASE n.fd # fd
      <4>1. n \in poller.interest /\ n.fd \in Fds
        BY <1>6, <2>7, <3>2
      <4>2. Known(loop, n.fd) \/ Mine(poller, n.fd) # {}
        BY <2>8, <2>11, <2>14, <3>2, <4>1
      <4>. QED
        BY <1>6, <2>14, <4>1, <4>2
    <3>. QED
      BY <3>1, <3>2
  <2>15. ASSUME NEW n \in q.interest
         PROVE  n.file \notin Unpollable /\ (n.file \in elsewhere \/ \E o \in Fds : file[o] = n.file)
    <3>1. CASE n \in poller.interest
      BY <1>6, <3>1
    <3>2. CASE n \notin poller.interest
      <4>1. n \in changed
        BY <2>7, <3>2
      <4>. QED
        BY <1>3, <2>4, <2>10, <4>1
    <3>. QED
      BY <3>1, <3>2
  <2>16. EpollSound(m, q)
    BY <2>12, <2>13, <2>14, <2>15 DEF EpollSound
  <2>. QED
    BY <1>8, <2>1, <2>2, <2>5, <2>16
<1>. QED
  BY <1>9, <1>10, <1>11, <1>12

LEMMA HandleKeeps ==
  ASSUME IndInv, NEW e \in batch, Handle(e)
  PROVE  IndInv'
BY HandleSelectOrPoll, HandleEpoll, HandlePort, HandleKqueue DEF IndInv, TypeOK

-------------------------------------------------------------------------------
(* The user's steps that change files or watchers *)

LEMMA FileStep ==
  ASSUME IndInv, UNCHANGED <<backend, batch>>, PollerOK(poller)', file' \in [Fds -> Files \cup {NoFile}],
         loop'.events = loop.events, loop'.emask = loop.emask, loop'.postfork = loop.postfork,
         \A o \in Fds : Known(loop, o)' => Known(loop, o) /\ file'[o] = file[o],
         backend \in {"select", "poll"} => poller' = poller,
         backend \in {"epoll", "port", "kqueue"} =>
           /\ poller'.interest \subseteq poller.interest
           /\ \A e \in poller'.interest : e.file = file'[e.fd] => file'[e.fd] = file[e.fd]
           /\ \A e \in poller.interest : Known(loop, e.fd)' /\ e.file = file[e.fd] => e \in poller'.interest,
         backend \in {"port", "kqueue"} => \A e \in poller'.interest : file'[e.fd] = file[e.fd],
         backend = "kqueue" => poller'.changes = poller.changes,
         backend = "epoll" =>
           \A e \in poller'.interest : e.file \in elsewhere' \/ \E fd \in Fds : file'[fd] = e.file
  PROVE  Told(loop, poller, batch)' /\ Returned(loop, batch)'
<1>. PICK p : p = poller
  OBVIOUS
<1>. PICK l : l = loop
  OBVIOUS
<1>1. PollerOK(p) /\ Told(l, p, batch) /\ Returned(l, batch) /\ \A e \in batch : e.fd \in Fds
  BY DEF IndInv, TypeOK, PollerSound, BatchSound, Reported
<1>2. \A o \in Fds : Known(loop, o)' => Known(l, o) /\ file'[o] = file[o]
  OBVIOUS
<1>3. Returned(loop, batch)'
  <2>1. \A e \in batch : e.tag = "event" /\ e.current /\ Known(loop, e.fd)' => e.file = file'[e.fd]
    BY <1>1, <1>2 DEF Returned
  <2>. QED
    BY <1>1, <2>1 DEF Returned, Failure
<1>4. backend = "select" => SelectSound(loop, poller)'
  BY <1>1 DEF Told, SelectSound
<1>5. backend = "poll" => PollsIndexed(loop, poller)'
  BY <1>1 DEF Told, PollsIndexed, PollCnt, At
<1>6. ASSUME backend = "epoll"
      PROVE  EpollSound(loop, poller)'
  <2>. PICK q : q = poller'
    OBVIOUS
  <2>1. /\ q.interest \subseteq p.interest
        /\ \A e \in q.interest : e.file = file'[e.fd] => file'[e.fd] = file[e.fd]
        /\ \A e \in p.interest : Known(loop, e.fd)' /\ e.file = file[e.fd] => e \in q.interest
        /\ \A e \in q.interest : e.file \in elsewhere' \/ \E fd \in Fds : file'[fd] = e.file
        /\ \A e \in p.interest : e.fd \in Fds
    BY <1>1, <1>6 DEF PollerOK, Epolled, Registrations
  <2>2. /\ \A o \in Fds : \A e \in Mine(p, o) : e.current /\ e.mask = l.emask[o]
        /\ \A o \in Fds : Known(l, o) =>
             IF file[o] \in Unpollable THEN l.emask[o] = EPERM ELSE l.emask[o] = l.events[o] /\ Mine(p, o) # {}
        /\ \A e \in p.interest : e.current /\ (Known(l, e.fd) \/ Mine(p, e.fd) # {}) => e.file = file[e.fd]
        /\ \A e \in p.interest : e.file \notin Unpollable
    BY <1>1, <1>6 DEF Told, EpollSound
  <2>3. \A o, e : e \in Mine(p, o) <=> e \in p.interest /\ e.fd = o /\ e.file = file[o]
    BY DEF Mine
  <2>4. \A o, e : e \in Mine(poller, o)' <=> e \in q.interest /\ e.fd = o /\ e.file = file'[o]
    BY DEF Mine
  <2>5. \A o, e : e \in Mine(poller, o)' => e \in Mine(p, o) /\ file'[o] = file[o]
    BY <2>1, <2>3, <2>4
  <2>6. \A o \in Fds : Known(loop, o)' => \A e \in Mine(p, o) : e \in Mine(poller, o)'
    BY <1>2, <2>1, <2>3, <2>4
  <2>7. \A o \in Fds : \A e \in Mine(poller, o)' : e.current /\ e.mask = l.emask[o]
    BY <2>2, <2>5
  <2>8. \A o \in Fds : Known(loop, o)' =>
          IF file'[o] \in Unpollable THEN l.emask[o] = EPERM
          ELSE l.emask[o] = l.events[o] /\ Mine(poller, o)' # {}
    BY <1>2, <2>2, <2>6
  <2>9. ASSUME NEW e \in q.interest, e.current, Known(loop, e.fd)' \/ Mine(poller, e.fd)' # {}
        PROVE  e.file = file'[e.fd]
    <3>1. e \in p.interest /\ e.fd \in Fds
      BY <2>1
    <3>2. (Known(l, e.fd) \/ Mine(p, e.fd) # {}) /\ file'[e.fd] = file[e.fd]
      BY <1>2, <2>5, <2>9, <3>1
    <3>. QED
      BY <2>2, <2>9, <3>1, <3>2
  <2>10. \A e \in q.interest : e.file \notin Unpollable
    BY <2>1, <2>2
  <2>11. loop'.emask = l.emask /\ loop'.events = l.events /\ poller' = q
    OBVIOUS
  <2>. QED
    BY <2>1, <2>7, <2>8, <2>9, <2>10, <2>11 DEF EpollSound
<1>7. ASSUME backend = "port"
      PROVE  PortSound(loop, poller, batch)'
  <2>1. PortSound(l, p, batch) /\ \A a \in p.interest : a.fd \in Fds
    BY <1>1, <1>7 DEF Told, PollerOK, Ported, Associations
  <2>2. \A a \in poller'.interest : a.file = file'[a.fd]
    BY <1>7, <2>1 DEF PortSound
  <2>3. ASSUME NEW o \in Fds, Known(loop, o)'
        PROVE  (\E e \in batch : e.fd = o) \/ (\E a \in poller'.interest : a.fd = o /\ a.mask = l.events[o])
    <3>1. Known(l, o)
      BY <1>2, <2>3
    <3>2. CASE \E a \in p.interest : a.fd = o /\ a.mask = l.events[o]
      <4>1. PICK a \in p.interest : a.fd = o /\ a.mask = l.events[o]
        BY <3>2
      <4>2. a.file = file[a.fd]
        BY <2>1 DEF PortSound
      <4>3. a \in poller'.interest
        BY <1>7, <2>3, <4>1, <4>2
      <4>. QED
        BY <4>1, <4>3
    <3>. QED
      BY <2>1, <3>1, <3>2 DEF PortSound
  <2>. QED
    BY <2>2, <2>3 DEF PortSound
<1>8. ASSUME backend = "kqueue"
      PROVE  KqueueSound(loop, poller)'
  <2>1. KqueueSound(l, p) /\ \A k \in p.interest : k.fd \in Fds
    BY <1>1, <1>8 DEF Told, PollerOK, Kqueued, Knotes
  <2>2. \A k \in poller'.interest : k.file = file'[k.fd]
    BY <1>8, <2>1 DEF KqueueSound
  <2>3. ASSUME ~l.postfork, NEW o \in Fds, Known(loop, o)', NEW filter \in l.events[o]
        PROVE  Coming(poller, o, filter)'
    <3>1. Coming(p, o, filter) /\ file'[o] = file[o]
      BY <1>2, <2>1, <2>3 DEF KqueueSound
    <3>. PICK k : k = [fd |-> o, file |-> file[o], filter |-> filter]
      OBVIOUS
    <3>2. k \in p.interest => k \in poller'.interest
      <4>1. k.fd = o /\ k.file = file[o]
        OBVIOUS
      <4>. QED
        BY <1>8, <2>3, <4>1
    <3>3. poller'.changes = p.changes /\ k = [fd |-> o, file |-> file'[o], filter |-> filter]
      BY <1>8, <3>1
    <3>. QED
      BY <3>1, <3>2, <3>3 DEF Coming, Change
  <2>. QED
    BY <2>2, <2>3 DEF KqueueSound
<1>. QED
  BY <1>3, <1>4, <1>5, <1>6, <1>7, <1>8 DEF Told

\* The rest of what such a step has to show
LEMMA UserStep ==
  ASSUME IndInv, UNCHANGED <<backend, phase, batch>>, ops' \in Nat, loop'.postfork = loop.postfork,
         Told(loop, poller, batch)', Returned(loop, batch)', FilesSound', Marked(loop)', Agree(loop)',
         loop' \in Loops, PollerOK(poller)', watcher' \in [Watchers -> [fd : Fds \cup {-1}, events : SUBSET Bits]],
         \A w \in loop'.active : watcher'[w].fd \in Fds, file' \in [Fds -> Files \cup {NoFile}],
         elsewhere' \subseteq Files, ready' \in [Files -> SUBSET Bits], honest' \subseteq Watchers,
         backend = "kqueue" => poller'.changes = poller.changes
  PROVE  IndInv'
<1>1. TypeOK /\ BatchSound /\ PollerSound
  BY DEF IndInv
<1>2. TypeOK'
  <2>1. batch' \subseteq Reported'
    BY <1>1 DEF TypeOK, Reported
  <2>. QED
    BY <1>1, <2>1 DEF TypeOK
<1>3. BatchSound'
  BY <1>1 DEF BatchSound
<1>4. PollerSound'
  BY <1>1 DEF PollerSound
<1>. QED
  BY <1>2, <1>3, <1>4 DEF IndInv

LEMMA StartKeeps ==
  ASSUME IndInv, NEW w \in Watchers, NEW fd \in Fds, NEW events \in EventSets, Start(w, fd, events)
  PROVE  IndInv'
<1>1. /\ w \notin loop.active /\ ops' = ops + 1
      /\ watcher' = [watcher EXCEPT ![w] = [fd |-> fd, events |-> events]]
      /\ honest' = IF IsOpen(fd) THEN honest \cup {w} ELSE honest \ {w}
      /\ loop' = IoStart(loop, w, fd, {"iofdset", "reify"})
      /\ UNCHANGED <<backend, poller, phase, batch, file, elsewhere, ready>>
  BY DEF Start, Acts
<1>2. TypeOK /\ FilesSound /\ LoopOK(loop)
  BY LoopIsOK DEF IndInv
<1>3. /\ loop' \in Loops /\ Marked(loop')
      /\ loop'.events = loop.events /\ loop'.emask = loop.emask /\ loop'.postfork = loop.postfork
      /\ loop'.active = loop.active \cup {w}
      /\ loop'.reify[fd] # {} /\ {"iofdset", "reify"} \subseteq loop'.reify[fd]
      /\ \A other \in Fds : loop.reify[other] \subseteq loop'.reify[other]
  BY <1>1, <1>2, IoStartFields DEF LoopOK
<1>4. /\ watcher'[w].fd = fd /\ watcher'[w].events = events /\ events \in SUBSET Bits
      /\ \A v \in Watchers : v # w => watcher'[v] = watcher[v]
  BY <1>1, <1>2, EvFdAssumption DEF TypeOK, Bits
<1>5. watcher' \in [Watchers -> [fd : Fds \cup {-1}, events : SUBSET Bits]]
  <2>1. [fd |-> fd, events |-> events] \in [fd : Fds \cup {-1}, events : SUBSET Bits]
    BY <1>4
  <2>. QED
    BY <1>1, <1>2, <2>1 DEF TypeOK
<1>6. loop.active \subseteq Watchers /\ honest \subseteq Watchers
  BY <1>2 DEF LoopOK, Loops, TypeOK
<1>7. \A v \in loop'.active : watcher'[v].fd \in Fds
  BY <1>2, <1>3, <1>4, <1>6 DEF TypeOK
<1>8. Marked(loop)'
  BY <1>3 DEF Marked
<1>9. Agree(loop)'
  <2>. SUFFICES ASSUME NEW other \in Fds, loop'.events[other] # Wanted(loop, other)' PROVE loop'.reify[other] # {}
    BY DEF Agree
  <2>1. CASE other = fd
    BY <1>3, <2>1
  <2>2. CASE other # fd
    <3>1. Watching(loop, other)' = Watching(loop, other)
      BY <1>1, <1>3, <1>4, <1>6, <2>2 DEF Watching
    <3>2. \A v \in Watching(loop, other) : watcher'[v] = watcher[v]
      BY <1>1, <1>4, <1>6 DEF Watching
    <3>3. Wanted(loop, other)' = Wanted(loop, other)
      BY <3>1, <3>2 DEF Wanted
    <3>. QED
      BY <1>2, <1>3, <3>3 DEF LoopOK, Agree
  <2>. QED
    BY <2>1, <2>2
<1>10. FilesSound'
  <2>1. \A v \in honest' : watcher'[v].fd \in Fds /\ IsOpen(watcher'[v].fd)
    BY <1>1, <1>2, <1>4, <1>6 DEF FilesSound, IsOpen
  <2>. QED
    BY <1>1, <1>2, <2>1 DEF FilesSound, IsOpen
<1>11. \A o \in Fds : Known(loop, o)' => Known(loop, o)
  <2>. SUFFICES ASSUME NEW o \in Fds, Known(loop, o)' PROVE Known(loop, o)
    OBVIOUS
  <2>1. o # fd
    BY <1>3 DEF Known
  <2>2. \E v \in honest' : watcher'[v].fd = o
    BY DEF Known, Held
  <2>3. \E v \in honest : watcher[v].fd = o
    BY <1>1, <1>4, <1>6, <2>1, <2>2
  <2>. QED
    BY <1>3, <2>3 DEF Known, Held
<1>12. PollerOK(poller)' /\ (backend = "epoll" => EpollSound(loop, poller))
  BY <1>1, <1>2 DEF IndInv, TypeOK, PollerOK, PollerSound, Told
<1>13. Told(loop, poller, batch)' /\ Returned(loop, batch)'
  <2>1. backend = "epoll" => \A e \in poller'.interest : e.file \in elsewhere' \/ \E o \in Fds : file'[o] = e.file
    BY <1>1, <1>12 DEF EpollSound
  <2>2. file' \in [Fds -> Files \cup {NoFile}] /\ \A o \in Fds : Known(loop, o)' => Known(loop, o) /\ file'[o] = file[o]
    BY <1>1, <1>2, <1>11 DEF TypeOK
  <2>. QED
    BY <1>1, <1>3, <1>12, <2>1, <2>2, FileStep
<1>14. honest' \subseteq Watchers /\ file' \in [Fds -> Files \cup {NoFile}] /\ elsewhere' \subseteq Files
       /\ ready' \in [Files -> SUBSET Bits] /\ ops' \in Nat
  BY <1>1, <1>2, <1>6 DEF TypeOK
<1>. QED
  BY <1>1, <1>3, <1>5, <1>7, <1>8, <1>9, <1>10, <1>12, <1>13, <1>14, UserStep

\* Of a step that leaves the loop and the watchers as they are
LEMMA FilesOnly ==
  ASSUME IndInv, UNCHANGED <<backend, phase, batch, loop, watcher>>, ops' \in Nat, honest' \subseteq honest,
         Told(loop, poller, batch)', Returned(loop, batch)', FilesSound', PollerOK(poller)',
         file' \in [Fds -> Files \cup {NoFile}], elsewhere' \subseteq Files, ready' \in [Files -> SUBSET Bits],
         backend = "kqueue" => poller'.changes = poller.changes
  PROVE  IndInv'
<1>1. TypeOK /\ LoopOK(loop)
  BY LoopIsOK DEF IndInv
<1>2. Marked(loop)' /\ Agree(loop)'
  BY <1>1 DEF LoopOK, Marked, Agree, Wanted, Watching
<1>3. /\ loop' \in Loops /\ watcher' \in [Watchers -> [fd : Fds \cup {-1}, events : SUBSET Bits]]
      /\ \A w \in loop'.active : watcher'[w].fd \in Fds
      /\ honest' \subseteq Watchers /\ loop'.postfork = loop.postfork
  BY <1>1 DEF TypeOK
<1>. QED
  BY <1>2, <1>3, UserStep

LEMMA OpenKeeps ==
  ASSUME IndInv, NEW f \in Files, Open(f)
  PROVE  IndInv'
<1>1. /\ f \notin elsewhere /\ (\A o \in Fds : file[o] # f) /\ ops' = ops + 1
      /\ ready' = [ready EXCEPT ![f] = {}]
      /\ UNCHANGED <<backend, loop, poller, watcher, honest, phase, batch, elsewhere>>
  BY DEF Open, Acts
<1>2. PICK fd \in Fds : ~IsOpen(fd) /\ file' = [file EXCEPT ![fd] = f]
  BY DEF Open
<1>3. TypeOK /\ FilesSound /\ Told(loop, poller, batch)
  BY DEF IndInv, PollerSound
<1>4. /\ file[fd] = NoFile /\ file'[fd] = f /\ \A o \in Fds : o # fd => file'[o] = file[o]
      /\ file' \in [Fds -> Files \cup {NoFile}] /\ f # NoFile
  BY <1>2, <1>3, EvFdAssumption DEF TypeOK, IsOpen
<1>5. \A w \in honest : watcher[w].fd # fd
  BY <1>2, <1>3 DEF FilesSound
<1>6. FilesSound'
  <2>1. \A w \in honest' : watcher'[w].fd \in Fds /\ file'[watcher'[w].fd] # NoFile
    BY <1>1, <1>3, <1>4, <1>5 DEF FilesSound, IsOpen
  <2>2. \A o, other \in Fds : file'[o] = file'[other] => o = other \/ file'[o] = NoFile
    BY <1>1, <1>3, <1>4 DEF FilesSound
  <2>. QED
    BY <2>1, <2>2 DEF FilesSound, IsOpen
<1>7. \A o \in Fds : Known(loop, o)' => Known(loop, o) /\ file'[o] = file[o]
  BY <1>1, <1>4, <1>5 DEF Known, Held
<1>8. PollerOK(poller)' /\ PollerOK(poller)
  BY <1>1, <1>3 DEF TypeOK, PollerOK
\* The new file has no trace in the kernel.
<1>9. ASSUME backend \in {"epoll", "port", "kqueue"}, NEW e \in poller.interest
      PROVE  /\ e.fd \in Fds /\ e.file \in Files
             /\ e.file = file'[e.fd] => file'[e.fd] = file[e.fd]
             /\ backend \in {"port", "kqueue"} => file'[e.fd] = file[e.fd]
             /\ backend = "epoll" => e.file \in elsewhere' \/ \E o \in Fds : file'[o] = e.file
  <2>1. e.fd \in Fds /\ e.file \in Files
    BY <1>8, <1>9 DEF PollerOK, Epolled, Registrations, Ported, Associations, Kqueued, Knotes
  <2>2. CASE backend = "epoll"
    <3>1. e.file \in elsewhere \/ \E o \in Fds : file[o] = e.file
      BY <1>3, <2>2 DEF Told, EpollSound
    <3>2. e.file # f
      BY <1>1, <3>1
    <3>3. e.file # NoFile
      BY <2>1, EvFdAssumption
    <3>4. \A o \in Fds : file[o] = e.file => file'[o] = e.file
      BY <1>4, <3>3
    <3>. QED
      BY <1>1, <1>4, <2>1, <2>2, <3>1, <3>2, <3>4
  <2>3. CASE backend \in {"port", "kqueue"}
    <3>1. e.file = file[e.fd]
      BY <1>3, <2>3 DEF Told, PortSound, KqueueSound
    <3>2. e.fd # fd
      BY <1>4, <2>1, <3>1, EvFdAssumption
    <3>. QED
      BY <1>4, <2>1, <2>3, <3>2
  <2>. QED
    BY <1>9, <2>2, <2>3
<1>10. Told(loop, poller, batch)' /\ Returned(loop, batch)'
  <2>1. backend \in {"epoll", "port", "kqueue"} =>
          /\ poller'.interest \subseteq poller.interest
          /\ \A e \in poller'.interest : e.file = file'[e.fd] => file'[e.fd] = file[e.fd]
          /\ \A e \in poller.interest : Known(loop, e.fd)' /\ e.file = file[e.fd] => e \in poller'.interest
    BY <1>1, <1>9
  <2>2. backend \in {"port", "kqueue"} => \A e \in poller'.interest : file'[e.fd] = file[e.fd]
    BY <1>1, <1>9
  <2>3. backend = "epoll" => \A e \in poller'.interest : e.file \in elsewhere' \/ \E o \in Fds : file'[o] = e.file
    BY <1>1, <1>9
  <2>. QED
    BY <1>1, <1>4, <1>7, <1>8, <2>1, <2>2, <2>3, FileStep
<1>11. ops' \in Nat /\ elsewhere' \subseteq Files /\ ready' \in [Files -> SUBSET Bits]
  BY <1>1, <1>3 DEF TypeOK
<1>. QED
  BY <1>1, <1>4, <1>6, <1>8, <1>10, <1>11, FilesOnly

LEMMA CloseKeeps ==
  ASSUME IndInv, NEW fd \in Fds, Close(fd)
  PROVE  IndInv'
<1>. PICK f : f = file[fd]
  OBVIOUS
<1>1. /\ ops' = ops + 1 /\ file' = [file EXCEPT ![fd] = NoFile] /\ f # NoFile
      /\ poller' = Closed(poller, fd, f)
      /\ honest' = {w \in honest : watcher[w].fd # fd}
      /\ UNCHANGED <<backend, loop, watcher, phase, batch, elsewhere, ready>>
  BY DEF Close, Acts, IsOpen
<1>2. TypeOK /\ FilesSound /\ Told(loop, poller, batch)
  BY DEF IndInv, PollerSound
<1>3. /\ file'[fd] = NoFile /\ \A o \in Fds : o # fd => file'[o] = file[o] /\ file[o] # f
      /\ file' \in [Fds -> Files \cup {NoFile}]
  BY <1>1, <1>2 DEF TypeOK, FilesSound
<1>4. FilesSound'
  <2>1. \A w \in honest' : watcher'[w].fd \in Fds /\ file'[watcher'[w].fd] # NoFile
    BY <1>1, <1>2, <1>3 DEF FilesSound, IsOpen
  <2>2. \A o, other \in Fds : file'[o] = file'[other] => o = other \/ file'[o] = NoFile
    BY <1>2, <1>3 DEF FilesSound
  <2>. QED
    BY <2>1, <2>2 DEF FilesSound, IsOpen
<1>5. \A o \in Fds : Known(loop, o)' => o # fd /\ Known(loop, o) /\ file'[o] = file[o]
  <2>. SUFFICES ASSUME NEW o \in Fds, Known(loop, o)' PROVE o # fd /\ Known(loop, o)
    BY <1>3
  <2>1. \E w \in honest' : watcher[w].fd = o
    BY <1>1 DEF Known, Held
  <2>2. o # fd /\ \E w \in honest : watcher[w].fd = o
    BY <1>1, <2>1
  <2>. QED
    BY <1>1, <2>2 DEF Known, Held
<1>6. PollerOK(poller) /\ backend \in {"select", "poll", "epoll", "port", "kqueue"}
  BY <1>2 DEF TypeOK
<1>7. backend \in {"select", "poll"} => poller' = poller
  BY <1>1 DEF Closed
<1>8. ASSUME backend \in {"epoll", "port", "kqueue"}, NEW e \in poller.interest
      PROVE  e.fd \in Fds /\ e.file \in Files /\ e.file # NoFile
  <2>1. e.fd \in Fds /\ e.file \in Files
    BY <1>6, <1>8 DEF PollerOK, Epolled, Registrations, Ported, Associations, Kqueued, Knotes
  <2>. QED
    BY <2>1, EvFdAssumption
\* What is gone is of the closed file or the closed descriptor.
<1>9. CASE backend = "epoll"
  <2>1. poller \in Epolled /\ EpollSound(loop, poller)
    BY <1>2, <1>6, <1>9 DEF PollerOK, Told
  <2>2. poller' = IF f \in elsewhere THEN poller ELSE [poller EXCEPT !.interest = {e \in poller.interest : e.file # f}]
    BY <1>1, <1>9 DEF Closed, EpollClosed
  <2>3. /\ poller' \in Epolled
        /\ poller'.interest \subseteq poller.interest
        /\ \A e \in poller.interest : e.file # f => e \in poller'.interest
        /\ \A e \in poller'.interest : e.file = f => f \in elsewhere
    BY <2>1, <2>2 DEF Epolled
  <2>4. \A e \in poller'.interest : e.file = file'[e.fd] => file'[e.fd] = file[e.fd]
    BY <1>3, <1>8, <1>9, <2>3
  <2>5. \A e \in poller.interest : Known(loop, e.fd)' /\ e.file = file[e.fd] => e \in poller'.interest
    BY <1>3, <1>5, <1>8, <1>9, <2>3
  <2>6. ASSUME NEW e \in poller'.interest
        PROVE  e.file \in elsewhere' \/ \E o \in Fds : file'[o] = e.file
    <3>1. e.file \in elsewhere \/ \E o \in Fds : file[o] = e.file
      BY <2>1, <2>3 DEF EpollSound
    <3>2. CASE e.file \in elsewhere
      BY <1>1, <3>2
    <3>3. ASSUME NEW o \in Fds, file[o] = e.file
          PROVE  e.file \in elsewhere' \/ \E n \in Fds : file'[n] = e.file
      <4>1. CASE o = fd
        BY <1>1, <2>3, <3>3, <4>1
      <4>2. CASE o # fd
        BY <1>3, <3>3, <4>2
      <4>. QED
        BY <4>1, <4>2
    <3>. QED
      BY <3>1, <3>2, <3>3
  <2>7. PollerOK(poller)'
    BY <1>1, <1>9, <2>3 DEF PollerOK
  <2>8. Told(loop, poller, batch)' /\ Returned(loop, batch)'
    BY <1>1, <1>3, <1>5, <1>9, <2>3, <2>4, <2>5, <2>6, <2>7, FileStep
  <2>9. ops' \in Nat /\ elsewhere' \subseteq Files /\ ready' \in [Files -> SUBSET Bits] /\ honest' \subseteq honest
    BY <1>1, <1>2 DEF TypeOK
  <2>. QED
    BY <1>1, <1>3, <1>4, <1>9, <2>7, <2>8, <2>9, FilesOnly
<1>10. CASE backend \in {"port", "kqueue"}
  <2>1. /\ \A e \in poller.interest : e.file = file[e.fd]
        /\ poller \in Ported \/ poller \in Kqueued
    BY <1>2, <1>6, <1>10 DEF PollerOK, Told, PortSound, KqueueSound
  <2>2. /\ poller'.interest = {e \in poller.interest : e.fd # fd}
        /\ PollerOK(poller')
        /\ backend = "kqueue" => poller'.changes = poller.changes
    <3>1. CASE backend = "port"
      <4>1. poller' = [interest |-> {e \in poller.interest : e.fd # fd}] /\ poller \in Ported
        BY <1>1, <1>6, <3>1 DEF Closed, PortClosed, PollerOK
      <4>2. poller' \in Ported
        BY <4>1 DEF Ported
      <4>. QED
        BY <3>1, <4>1, <4>2 DEF PollerOK
    <3>2. CASE backend = "kqueue"
      <4>1. poller' = [poller EXCEPT !.interest = {e \in poller.interest : e.fd # fd}] /\ poller \in Kqueued
        BY <1>1, <1>6, <3>2 DEF Closed, KqueueClosed, PollerOK
      <4>2. poller' \in Kqueued /\ poller'.interest = {e \in poller.interest : e.fd # fd}
            /\ poller'.changes = poller.changes
        BY <4>1 DEF Kqueued
      <4>. QED
        BY <3>2, <4>2 DEF PollerOK
    <3>. QED
      BY <1>10, <3>1, <3>2
  <2>3. PollerOK(poller)'
    BY <1>1, <2>2 DEF PollerOK
  <2>4. /\ poller'.interest \subseteq poller.interest
        /\ \A e \in poller'.interest : file'[e.fd] = file[e.fd]
        /\ \A e \in poller.interest : Known(loop, e.fd)' /\ e.file = file[e.fd] => e \in poller'.interest
    BY <1>3, <1>5, <1>8, <1>10, <2>2
  <2>5. Told(loop, poller, batch)' /\ Returned(loop, batch)'
    BY <1>1, <1>3, <1>5, <1>10, <2>2, <2>3, <2>4, FileStep
  <2>6. ops' \in Nat /\ elsewhere' \subseteq Files /\ ready' \in [Files -> SUBSET Bits] /\ honest' \subseteq honest
    BY <1>1, <1>2 DEF TypeOK
  <2>. QED
    BY <1>1, <1>3, <1>4, <1>10, <2>2, <2>3, <2>5, <2>6, FilesOnly
<1>11. CASE backend \in {"select", "poll"}
  <2>1. PollerOK(poller)' /\ poller' = poller
    BY <1>1, <1>6, <1>7, <1>11 DEF PollerOK
  <2>2. Told(loop, poller, batch)' /\ Returned(loop, batch)'
    BY <1>1, <1>3, <1>5, <1>11, <2>1, FileStep
  <2>3. ops' \in Nat /\ elsewhere' \subseteq Files /\ ready' \in [Files -> SUBSET Bits] /\ honest' \subseteq honest
    BY <1>1, <1>2 DEF TypeOK
  <2>. QED
    BY <1>1, <1>3, <1>4, <1>11, <2>1, <2>2, <2>3, FilesOnly
<1>. QED
  BY <1>6, <1>9, <1>10, <1>11

LEMMA ReleaseElsewhereKeeps ==
  ASSUME IndInv, NEW f \in Files, ReleaseElsewhere(f)
  PROVE  IndInv'
<1>1. /\ ops' = ops + 1 /\ elsewhere' = elsewhere \ {f}
      /\ poller' = IF backend = "epoll" /\ \A fd \in Fds : file[fd] # f THEN EpollClosed(poller, f) ELSE poller
      /\ UNCHANGED <<backend, loop, watcher, honest, phase, batch, file, ready>>
  BY DEF ReleaseElsewhere, Acts
<1>2. TypeOK /\ FilesSound /\ Told(loop, poller, batch) /\ PollerOK(poller)
  BY DEF IndInv, PollerSound, TypeOK
<1>3. FilesSound'
  BY <1>1, <1>2 DEF FilesSound, IsOpen
<1>4. \A o \in Fds : Known(loop, o)' => Known(loop, o) /\ file'[o] = file[o]
  BY <1>1 DEF Known, Held
<1>5. /\ PollerOK(poller)'
      /\ backend # "epoll" => poller' = poller
      /\ backend = "epoll" =>
           /\ poller'.interest \subseteq poller.interest
           /\ \A e \in poller.interest : e.file # f \/ (\E o \in Fds : file[o] = f) => e \in poller'.interest
           /\ \A e \in poller'.interest : e.file # f \/ (\E o \in Fds : file[o] = f)
  <2>1. CASE poller' = poller /\ ~(backend = "epoll" /\ \A fd \in Fds : file[fd] # f)
    BY <1>1, <1>2, <2>1 DEF PollerOK
  <2>2. CASE backend = "epoll" /\ (\A fd \in Fds : file[fd] # f) /\ poller' = EpollClosed(poller, f)
    <3>1. poller \in Epolled /\ poller' = [poller EXCEPT !.interest = {e \in poller.interest : e.file # f}]
      BY <1>2, <2>2 DEF PollerOK, EpollClosed
    <3>2. poller' \in Epolled /\ poller'.interest = {e \in poller.interest : e.file # f}
      BY <3>1 DEF Epolled
    <3>. QED
      BY <1>1, <2>2, <3>2 DEF PollerOK
  <2>. QED
    BY <1>1, <2>1, <2>2
<1>6. ASSUME backend = "epoll"
      PROVE  /\ \A e \in poller.interest : Known(loop, e.fd)' /\ e.file = file[e.fd] => e \in poller'.interest
             /\ \A e \in poller'.interest : e.file \in elsewhere' \/ \E o \in Fds : file'[o] = e.file
  <2>1. \A e \in poller.interest : /\ e.file \in elsewhere \/ \E o \in Fds : file[o] = e.file
                                   /\ e.fd \in Fds
    BY <1>2, <1>6 DEF Told, EpollSound, PollerOK, Epolled, Registrations
  <2>2. \A e \in poller.interest : e.file = file[e.fd] => e \in poller'.interest
    BY <1>5, <1>6, <2>1
  <2>3. \A e \in poller'.interest : e.file \in elsewhere' \/ \E o \in Fds : file'[o] = e.file
    BY <1>1, <1>5, <1>6, <2>1
  <2>. QED
    BY <2>2, <2>3
<1>7. Told(loop, poller, batch)' /\ Returned(loop, batch)'
  <2>1. file' \in [Fds -> Files \cup {NoFile}]
    BY <1>1, <1>2 DEF TypeOK
  <2>2. backend \in {"epoll", "port", "kqueue"} =>
          /\ poller'.interest \subseteq poller.interest
          /\ \A e \in poller'.interest : e.file = file'[e.fd] => file'[e.fd] = file[e.fd]
          /\ \A e \in poller.interest : Known(loop, e.fd)' /\ e.file = file[e.fd] => e \in poller'.interest
    BY <1>1, <1>5, <1>6
  <2>3. backend \in {"port", "kqueue"} => \A e \in poller'.interest : file'[e.fd] = file[e.fd]
    BY <1>1
  <2>. QED
    BY <1>1, <1>4, <1>5, <1>6, <2>1, <2>2, <2>3, FileStep
<1>8. ops' \in Nat /\ elsewhere' \subseteq Files /\ ready' \in [Files -> SUBSET Bits] /\ honest' \subseteq honest
      /\ file' \in [Fds -> Files \cup {NoFile}]
  BY <1>1, <1>2 DEF TypeOK
<1>. QED
  BY <1>1, <1>3, <1>5, <1>7, <1>8, FilesOnly

\* The child loses what kqueue knew, and starts anew with its next iteration.
LEMMA ForkKeeps == IndInv /\ Fork => IndInv'
<1>. SUFFICES ASSUME IndInv, Fork PROVE IndInv'
  OBVIOUS
<1>1. /\ phase = "user" /\ phase' = phase /\ ops' = ops + 1
      /\ elsewhere' = elsewhere \cup {file[fd] : fd \in {n \in Fds : IsOpen(n)}}
      /\ poller' = IF backend = "kqueue" THEN [poller EXCEPT !.interest = {}] ELSE poller
      /\ loop' = Flagged(loop, TRUE)
      /\ UNCHANGED <<backend, watcher, honest, batch, file, ready>>
  BY DEF Fork, Acts, Flagged
<1>2. TypeOK /\ BatchSound /\ Told(loop, poller, batch) /\ PollerOK(poller) /\ LoopOK(loop)
  BY LoopIsOK DEF IndInv, PollerSound, TypeOK
<1>3. LoopOK(loop') /\ loop'.events = loop.events /\ loop'.reify = loop.reify /\ loop'.emask = loop.emask
  BY <1>1, <1>2, PostforkFields
<1>4. loop'.postfork = TRUE
  BY <1>1, <1>2 DEF LoopOK, Loops, Flagged
<1>5. \A o \in Fds : Known(loop', o) => Known(loop, o)
  BY <1>3, KnownBefore
<1>6. Told(loop', poller', batch') /\ PollerOK(poller')
  <2>1. CASE backend = "kqueue"
    <3>1. poller \in Kqueued /\ poller' = [poller EXCEPT !.interest = {}]
      BY <1>1, <1>2, <2>1 DEF PollerOK
    <3>2. poller' \in Kqueued /\ poller'.interest = {}
      BY <3>1 DEF Kqueued
    <3>3. KqueueSound(loop', poller')
      BY <1>4, <3>2 DEF KqueueSound
    <3>. QED
      BY <2>1, <3>2, <3>3 DEF Told, PollerOK
  <2>2. CASE backend # "kqueue"
    <3>1. poller' = poller /\ batch' = batch /\ (backend = "epoll" => poller \in Epolled)
      BY <1>1, <1>2, <2>2 DEF PollerOK
    <3>2. Told(loop', poller, batch)
      BY <1>2, <1>3, <1>5, <2>2, <3>1, ToldKept
    <3>. QED
      BY <1>2, <3>1, <3>2
  <2>. QED
    BY <2>1, <2>2
<1>7. Returned(loop', batch')
  <2>1. \A e \in batch' : e.fd \in Fds
    BY <1>1, <1>2 DEF TypeOK, Reported
  <2>. QED
    BY <1>1, <1>2, <1>5, <2>1, ReturnedKept DEF BatchSound
<1>8. /\ elsewhere \subseteq elsewhere' /\ elsewhere' \subseteq Files /\ ready' \in [Files -> SUBSET Bits] /\ ops' \in Nat
      /\ phase' \in {"user", "reify", "blocked", "returned", "handle"} /\ batch' \subseteq Reported /\ batch' = {}
  BY <1>1, <1>2 DEF TypeOK, IsOpen, BatchSound
<1>. QED
  BY <1>1, <1>3, <1>6, <1>7, <1>8, LoopStep

-------------------------------------------------------------------------------
(* The theorems *)

LEMMA StutterKeeps == IndInv /\ UNCHANGED vars => IndInv'
<1>. SUFFICES ASSUME IndInv, UNCHANGED vars PROVE IndInv'
  OBVIOUS
<1>1. /\ UNCHANGED <<backend, loop, poller, watcher, honest, phase, batch, file>>
      /\ UNCHANGED <<elsewhere, ready, ops>>
  BY DEF vars
<1>2. TypeOK /\ BatchSound /\ PollerSound
  BY DEF IndInv
<1>3. /\ backend = "kqueue" => ~loop.postfork \/ phase' = "user"
      /\ backend = "kqueue" /\ phase' \in {"blocked", "returned"} => poller.changes = <<>>
  BY <1>1, <1>2 DEF PollerSound
<1>4. Returned(loop, batch') /\ batch' \subseteq Reported
      /\ (phase' \in {"user", "reify"} \/ (phase' = "blocked" /\ backend # "kqueue") => batch' = {})
  BY <1>1, <1>2 DEF BatchSound, TypeOK
<1>5. /\ elsewhere \subseteq elsewhere' /\ elsewhere' \subseteq Files /\ ready' \in [Files -> SUBSET Bits]
      /\ ops' \in Nat /\ phase' \in {"user", "reify", "blocked", "returned", "handle"}
  BY <1>1, <1>2 DEF TypeOK
<1>. QED
  BY <1>1, <1>3, <1>4, <1>5, QuietStep

LEMMA NextKeeps == IndInv /\ [Next]_vars => IndInv'
<1>. SUFFICES ASSUME IndInv, [Next]_vars PROVE IndInv'
  OBVIOUS
<1>1. CASE LoopNext
  BY <1>1, RunIterationKeeps, FdReifyKeeps, BlockKeeps, ReturnKeeps, AcquireKeeps, PollReturnsKeeps,
     HandleKeeps, InvokeKeeps DEF LoopNext
<1>2. CASE UserNext
  <2>1. CASE \E w \in Watchers, fd \in Fds, events \in EventSets : Start(w, fd, events)
    BY <2>1, StartKeeps
  <2>2. CASE \E w \in Watchers : Restart(w) \/ Stop(w)
    BY <2>2, RestartKeeps, StopKeeps
  <2>3. CASE \E f \in Files : Open(f) \/ ReleaseElsewhere(f) \/ KeepElsewhere(f)
    BY <2>3, OpenKeeps, ReleaseElsewhereKeeps, KeepElsewhereKeeps
  <2>4. CASE \E fd \in Fds : Close(fd)
    BY <2>4, CloseKeeps
  <2>5. CASE \E f \in Files, mask \in ReadySets : Readiness(f, mask)
    BY <2>5, ReadinessKeeps
  <2>6. CASE Fork \/ ReturnNoMemory
    BY <2>6, ForkKeeps, ReturnNoMemoryKeeps
  <2>. QED
    BY <1>2, <2>1, <2>2, <2>3, <2>4, <2>5, <2>6 DEF UserNext
<1>3. CASE UNCHANGED vars
  BY <1>3, StutterKeeps
<1>. QED
  BY <1>1, <1>2, <1>3 DEF Next

\* What libev believes the backend was told (anfds, epoll's emask, poll's index,
\* the changes queued for kqueue) is what the kernel holds, for each backend.
THEOREM Invariance == Spec => []IndInv
<1>. QED
  BY InitHolds, NextKeeps, PTL DEF Spec

\* loop_init chooses the backend once.
LEMMA BackendStays == Spec => [](backend \in Backends)
<1>1. Init => backend \in Backends
  BY DEF Init
<1>2. backend \in Backends /\ [Next]_vars => (backend \in Backends)'
  <2>1. ASSUME Next PROVE backend' = backend
    BY <2>1 DEF Next, LoopNext, UserNext, RunIteration, FdReify, Block, Return, ReturnNoMemory, Acquire, Handle,
                PollReturns, Invoke, Start, Restart, Stop, Open, Close, Fork, ReleaseElsewhere, KeepElsewhere,
                Readiness
  <2>. QED
    BY <2>1 DEF vars
<1>. QED
  BY <1>1, <1>2, PTL DEF Spec

\* fdchanges has exactly the descriptors that are marked, each once; events that
\* differ from those of the watchers are marked; and poll's index and array agree
\* (fd_change, fd_reify, fd_kill, poll_modify).
THEOREM TablesAreInStep == Spec => []TablesAgree
<1>1. IndInv /\ backend \in Backends => TablesAgree
  BY DEF IndInv, TypeOK, Marked, Agree, PollerSound, Told, TablesAgree
<1>. QED
  BY <1>1, Invariance, BackendStays, PTL

\* With no mark left, the events of a descriptor are what its watchers want.
LEMMA QuietIsKnown ==
  ASSUME IndInv, NEW w \in loop.active \cap honest, NEW fd, fd = watcher[w].fd, loop.reify[fd] = {}
  PROVE  /\ fd \in Fds /\ IsOpen(fd) /\ loop.events[fd] = Wanted(loop, fd)
         /\ watcher[w].events \subseteq loop.events[fd] /\ watcher[w].events \subseteq Bits
         /\ watcher[w].events # {} => Known(loop, fd)
<1>1. fd \in Fds /\ IsOpen(fd)
  BY DEF IndInv, FilesSound
<1>2. loop.events[fd] = Wanted(loop, fd)
  BY <1>1 DEF IndInv, Agree
<1>3. watcher[w].events \subseteq Wanted(loop, fd)
  BY DEF Wanted, Watching
<1>4. watcher[w].events \subseteq Bits
  BY LoopIsOK DEF IndInv, TypeOK
<1>. QED
  BY <1>1, <1>2, <1>3, <1>4 DEF Known, Held

LEMMA BlockedHears == IndInv => NobodyDeaf
<1>. SUFFICES ASSUME IndInv, phase = "blocked", NEW w \in loop.active \cap honest,
                     loop.reify[watcher[w].fd] = {}, ~TakenOff(w), NEW bit \in watcher[w].events
              PROVE  bit \in Interest(watcher[w].fd)
  BY DEF NobodyDeaf
<1>. PICK fd : fd = watcher[w].fd
  OBVIOUS
<1>1. fd \in Fds /\ IsOpen(fd) /\ Known(loop, fd) /\ bit \in loop.events[fd] /\ bit \in Bits
  BY QuietIsKnown
<1>2. TypeOK /\ PollerOK(poller) /\ PollerSound /\ BatchSound
  BY DEF IndInv, TypeOK
<1>3. CASE backend = "select"
  BY <1>1, <1>2, <1>3 DEF PollerSound, Told, SelectSound, Interest, SelectMask, Bits
<1>4. CASE backend = "poll"
  <2>1. loop.events[fd] # {} /\ PollsIndexed(loop, poller)
    BY <1>1, <1>2, <1>4 DEF PollerSound, Told
  <2>2. poller.idx[fd] >= 0 /\ At(poller, poller.idx[fd]) = [fd |-> fd, events |-> loop.events[fd]]
    BY <1>1, <2>1 DEF PollsIndexed
  <2>. QED
    BY <1>1, <1>4, <2>2 DEF Interest
<1>5. CASE backend = "epoll"
  <2>1. EpollSound(loop, poller)
    BY <1>2, <1>5 DEF PollerSound, Told
  <2>2. CASE file[fd] \in Unpollable
    <3>1. loop.emask[fd] = EPERM
      BY <1>1, <2>1, <2>2 DEF EpollSound
    <3>2. fd \in poller.eperms
      BY <1>5, <2>2, <3>1 DEF TakenOff
    <3>. QED
      BY <1>1, <1>5, <3>2 DEF Interest, Bits
  <2>3. CASE file[fd] \notin Unpollable
    <3>1. loop.emask[fd] = loop.events[fd] /\ Mine(poller, fd) # {}
      BY <1>1, <2>1, <2>3 DEF EpollSound
    <3>2. PICK e \in Mine(poller, fd) : e.current /\ e.mask = loop.emask[fd]
      BY <1>1, <2>1, <3>1 DEF EpollSound
    <3>3. bit \in UNION {n.mask : n \in {m \in Mine(poller, fd) : m.current}}
      BY <1>1, <3>1, <3>2
    <3>. QED
      BY <1>1, <1>5, <3>3 DEF Interest, Bits
  <2>. QED
    BY <2>2, <2>3
<1>6. CASE backend = "port"
  <2>1. PortSound(loop, poller, batch) /\ batch = {}
    BY <1>2, <1>6 DEF PollerSound, Told, BatchSound
  <2>2. PICK a \in poller.interest : a.fd = fd /\ a.mask = loop.events[fd] /\ a.file = file[fd]
    BY <1>1, <2>1 DEF PortSound
  <2>. QED
    BY <1>1, <1>6, <2>2 DEF Interest
<1>7. CASE backend = "kqueue"
  <2>1. KqueueSound(loop, poller) /\ ~loop.postfork /\ poller.changes = <<>>
    BY <1>2, <1>7 DEF PollerSound, Told
  <2>2. Coming(poller, fd, bit)
    BY <1>1, <2>1 DEF KqueueSound
  <2>3. [fd |-> fd, file |-> file[fd], filter |-> bit] \in poller.interest
    BY <2>1, <2>2 DEF Coming
  <2>. QED
    BY <1>1, <1>7, <2>3 DEF Interest
<1>. QED
  BY <1>2, <1>3, <1>4, <1>5, <1>6, <1>7 DEF TypeOK

\* When the loop begins to wait, the kernel watches the present file of every
\* active watcher for its events, however descriptors were closed, used again
\* and forked before (fd_reify, xxx_modify, loop_fork, the errors of kevent).
THEOREM NobodyIsDeaf == Spec => []NobodyDeaf
<1>. QED
  BY Invariance, BlockedHears, PTL

\* What ToldOfItsFile asks of a step, for one watcher
Sourced(w) ==
  LET news == loop'.pending[w] \ loop.pending[w]
      f == file[watcher[w].fd]
      said == {e \in batch : e.file = f}
  IN  \/ news \subseteq UNION {e.got : e \in said}
      \/ f \in Unpollable /\ news \subseteq watcher[w].events
      \/ \E e \in batch : e.tag = "enomem" \/ e = Failure("nval", watcher[w].fd)
ToldTruly(w) == loop'.pending[w] # loop.pending[w] /\ loop'.pending[w] # {} => Sourced(w)

\* An event of the kernel that is passed on, after epoll noted a mask or not
LEMMA EventIsOfTheFile ==
  ASSUME IndInv, NEW e \in batch, e.tag = "event", e.current, NEW l, LoopOK(l), l.pending = loop.pending,
         l.reify = loop.reify, l.active = loop.active,
         loop'.pending = FdEvent(l, e.fd, e.got).pending, NEW w \in honest
  PROVE  ToldTruly(w)
<1>. SUFFICES ASSUME loop'.pending[w] # loop.pending[w] PROVE Sourced(w)
  BY DEF ToldTruly
<1>1. w \in Watchers
  BY DEF IndInv, TypeOK
<1>2. /\ w \in l.active /\ watcher[w].fd = e.fd /\ l.reify[e.fd] = {}
      /\ loop'.pending[w] = l.pending[w] \cup (watcher[w].events \cap e.got)
  BY <1>1, FdEventMarks
<1>3. watcher[w].events # {}
  BY <1>2
<1>4. Known(loop, e.fd)
  BY <1>2, <1>3, QuietIsKnown
<1>5. e.file = file[e.fd]
  BY <1>4 DEF IndInv, BatchSound, Returned
<1>6. loop'.pending[w] \ loop.pending[w] \subseteq UNION {n.got : n \in {n \in batch : n.file = file[watcher[w].fd]}}
  BY <1>2, <1>5
<1>. QED
  BY <1>6 DEF Sourced

LEMMA ReifyTells ==
  ASSUME IndInv, FdReify, NEW w \in honest
  PROVE  loop'.pending[w] = loop.pending[w]
<1>. PICK fd : fd = Head(loop.changes)
  OBVIOUS
<1>. PICK l : l = Reified(loop)
  OBVIOUS
<1>. PICK nev : nev = l.events[fd]
  OBVIOUS
<1>1. loop.changes # <<>> /\ (loop' = l \/ loop' = Modify(l, poller, fd, loop.events[fd], nev).l)
  BY DEF FdReify
<1>2. LoopOK(loop) /\ TypeOK /\ w \in Watchers /\ IsOpen(watcher[w].fd)
  BY LoopIsOK DEF IndInv, TypeOK, FilesSound
<1>3. LoopOK(l) /\ fd \in Fds /\ l.pending = loop.pending
  BY <1>1, <1>2, ReifiedFields
<1>4. nev \in SUBSET Bits
  BY <1>3 DEF LoopOK, Loops
<1>5. CASE loop' = Modify(l, poller, fd, loop.events[fd], nev).l
  <2>1. Modified(l, loop', fd)
    BY <1>2, <1>3, <1>4, <1>5, ModifyMarks
  <2>. QED
    BY <1>2, <1>3, <2>1 DEF Modified
<1>. QED
  BY <1>1, <1>3, <1>5

LEMMA RunIterationTells ==
  ASSUME IndInv, RunIteration
  PROVE  loop'.pending = loop.pending
<1>. DEFINE forked == IF loop.postfork THEN Forked(loop, poller) ELSE [l |-> loop, p |-> poller]
<1>1. loop' = [forked.l EXCEPT !.postfork = FALSE]
  BY DEF RunIteration
<1>2. LoopOK(loop) /\ backend \in {"select", "poll", "epoll", "port", "kqueue"}
  BY LoopIsOK DEF IndInv, TypeOK
<1>3. forked.l = loop \/ forked.l = FdRearmAll(loop)
  BY <1>2 DEF Forked, EpollFork, PortFork, KqueueFork
<1>. HIDE DEF forked
<1>. PICK l : l = forked.l
  OBVIOUS
<1>4. LoopOK(l) /\ l.pending = loop.pending
  BY <1>2, <1>3, FdRearmAllMarks
<1>5. loop'.pending = l.pending
  BY <1>1, <1>4 DEF LoopOK, Loops
<1>. QED
  BY <1>4, <1>5

LEMMA PermsTell ==
  ASSUME IndInv, PollReturns, NEW w \in honest
  PROVE  ToldTruly(w)
<1>. SUFFICES ASSUME loop'.pending[w] # loop.pending[w] PROVE Sourced(w)
  BY DEF ToldTruly
<1>1. backend = "epoll" /\ loop' = EpollPerms(loop, poller).l
  BY DEF PollReturns
<1>. DEFINE quiet == {n \in {fd \in poller.eperms : loop.emask[fd] = EPERM /\ loop.events[fd] # {}} : loop.reify[n] = {}}
<1>2. w \in Watchers /\ LoopOK(loop) /\ EpollSound(loop, poller)
  BY <1>1, LoopIsOK DEF IndInv, TypeOK, PollerSound, Told
<1>3. loop'.pending = [v \in Watchers |->
         loop.pending[v] \cup UNION {watcher[v].events \cap loop.events[fd] : fd \in {n \in quiet : v \in Watching(loop, n)}}]
  BY <1>1, <1>2 DEF EpollPerms, LoopOK, Loops
<1>4. loop'.pending[w] =
         loop.pending[w] \cup UNION {watcher[w].events \cap loop.events[fd] : fd \in {n \in quiet : w \in Watching(loop, n)}}
  BY <1>2, <1>3
<1>5. PICK fd \in quiet : w \in Watching(loop, fd) /\ watcher[w].events \cap loop.events[fd] # {}
  BY <1>4
<1>6. /\ loop.emask[fd] = EPERM /\ loop.reify[fd] = {} /\ w \in loop.active /\ watcher[w].fd = fd
      /\ watcher[w].events # {}
  BY <1>5 DEF Watching
<1>7. fd \in Fds /\ Known(loop, fd)
  BY <1>6, QuietIsKnown
<1>8. loop.events[fd] \subseteq Bits
  BY <1>2, <1>7 DEF LoopOK, Loops
<1>9. file[fd] \in Unpollable
  BY <1>2, <1>6, <1>7, <1>8 DEF EpollSound, EPERM, Bits
<1>10. loop'.pending[w] \ loop.pending[w] \subseteq watcher[w].events
  BY <1>4
<1>. QED
  BY <1>6, <1>9, <1>10 DEF Sourced

LEMMA HandleTells ==
  ASSUME IndInv, NEW e \in batch, Handle(e), NEW w \in honest
  PROVE  ToldTruly(w)
<1>. PICK fd : fd = e.fd
  OBVIOUS
<1>. PICK want : want = loop.events[fd]
  OBVIOUS
<1>. PICK masked : masked = Noted(loop, fd, want)
  OBVIOUS
<1>1. LoopOK(loop) /\ e.tag \in Tags[backend] /\ fd \in Fds /\ backend \in {"select", "poll", "epoll", "port", "kqueue"}
  BY LoopIsOK DEF IndInv, TypeOK, Reported
<1>2. /\ e.tag # "event" => e = Failure(e.tag, fd)
      /\ backend # "epoll" => e.current
  BY DEF IndInv, BatchSound, Returned
<1>3. w \in Watchers /\ IsOpen(watcher[w].fd) /\ watcher[w].fd \in Fds
  BY DEF IndInv, TypeOK, FilesSound
<1>4. loop'.pending[w] = loop.pending[w] => ToldTruly(w)
  BY DEF ToldTruly
\* An event is passed on, by epoll perhaps with its mask noted.
<1>5. ASSUME NEW m, LoopOK(m), m.pending = loop.pending, m.reify = loop.reify, m.active = loop.active,
             e.tag = "event", e.current, loop'.pending = FdEvent(m, fd, e.got).pending
      PROVE  ToldTruly(w)
  BY <1>5, EventIsOfTheFile
<1>6. ASSUME e.tag = "event", e.current, loop' = FdEvent(loop, fd, e.got)
      PROVE  ToldTruly(w)
  BY <1>1, <1>5, <1>6
\* A descriptor is killed.
<1>7. ASSUME loop' = FdKill(loop, fd), e.tag = "nval" \/ ~IsOpen(fd)
      PROVE  ToldTruly(w)
  <2>1. loop'.pending[w] # loop.pending[w] => watcher[w].fd = fd
    BY <1>1, <1>3, <1>7, FdKillMarks
  <2>2. e.tag = "nval" => e = Failure("nval", fd)
    BY <1>2
  <2>. QED
    BY <1>3, <1>4, <1>7, <2>1, <2>2 DEF ToldTruly, Sourced
<1>8. CASE backend = "select"
  <2>1. loop' = SelectHandle(loop, poller, e).l
    BY <1>8 DEF Handle, HandleEvent
  <2>2. CASE e.tag = "ebadf"
    <3>1. loop' = FdEbadf(loop)
      BY <2>1, <2>2 DEF SelectHandle
    <3>. QED
      BY <1>1, <1>3, <1>4, <3>1, FdEbadfMarks
  <2>3. CASE e.tag = "enomem"
    BY <2>3 DEF ToldTruly, Sourced
  <2>4. CASE e.tag = "event"
    <3>1. loop' = FdEvent(loop, fd, e.got)
      BY <2>1, <2>4 DEF SelectHandle
    <3>. QED
      BY <1>2, <1>6, <1>8, <2>4, <3>1
  <2>. QED
    BY <1>1, <1>8, <2>2, <2>3, <2>4 DEF Tags
<1>9. CASE backend = "poll"
  <2>1. loop' = PollHandle(loop, poller, e).l
    BY <1>9 DEF Handle, HandleEvent
  <2>2. CASE e.tag = "nval"
    <3>1. loop' = FdKill(loop, fd)
      BY <2>1, <2>2 DEF PollHandle
    <3>. QED
      BY <1>7, <2>2, <3>1
  <2>3. CASE e.tag = "enomem"
    BY <2>3 DEF ToldTruly, Sourced
  <2>4. CASE e.tag = "event"
    <3>1. loop' = FdEvent(loop, fd, e.got)
      BY <2>1, <2>4 DEF PollHandle
    <3>. QED
      BY <1>2, <1>6, <1>9, <2>4, <3>1
  <2>. QED
    BY <1>1, <1>9, <2>2, <2>3, <2>4 DEF Tags
<1>10. CASE backend = "epoll"
  <2>1. loop' = EpollHandle(loop, poller, e).l /\ e.tag = "event"
    BY <1>1, <1>10 DEF Handle, HandleEvent, Tags
  <2>2. want \in SUBSET (Bits \cup EPERM)
    BY <1>1 DEF LoopOK, Loops
  <2>3. /\ LoopOK(masked) /\ masked.pending = loop.pending
        /\ masked.reify = loop.reify /\ masked.active = loop.active
    BY <1>1, <2>2, NotedFields
  <2>4. \/ loop' = Flagged(loop, TRUE)
        \/ loop' = Flagged(masked, TRUE)
        \/ e.current /\ loop' = FdEvent(loop, fd, e.got)
        \/ e.current /\ loop' = FdEvent(masked, fd, e.got)
    BY <2>1 DEF EpollHandle, Flagged, Noted
  <2>5. ASSUME NEW l, LoopOK(l) PROVE Flagged(l, TRUE).pending = l.pending
    BY <2>5, PostforkFields
  <2>6. Flagged(loop, TRUE).pending = loop.pending /\ Flagged(masked, TRUE).pending = loop.pending
    BY <1>1, <2>3, <2>5
  <2>. QED
    BY <1>4, <1>5, <1>6, <2>1, <2>3, <2>4, <2>6
<1>11. CASE backend = "port"
  <2>1. loop' = FdChange(FdEvent(loop, fd, e.got), fd, {"iofdset"}) /\ e.tag = "event"
    BY <1>1, <1>11 DEF Handle, HandleEvent, PortHandle, Tags
  <2>2. FdEvent(loop, fd, e.got) \in Loops
    BY <1>1, FdEventMarks DEF Marks, LoopOK
  <2>3. loop'.pending = FdEvent(loop, fd, e.got).pending
    BY <1>1, <2>1, <2>2, FdChangeKeeps
  <2>. QED
    BY <1>1, <1>2, <1>5, <1>11, <2>1, <2>3
<1>12. CASE backend = "kqueue"
  <2>1. loop' = KqueueHandle(loop, poller, e).l
    BY <1>12 DEF Handle, HandleEvent
  <2>2. CASE e.tag = "event"
    <3>1. loop' = FdEvent(loop, fd, e.got)
      BY <2>1, <2>2 DEF KqueueHandle
    <3>. QED
      BY <1>2, <1>6, <1>12, <2>2, <3>1
  <2>3. CASE e.tag # "event" /\ loop.events[fd] = {}
    <3>1. loop' = loop
      BY <2>1, <2>3 DEF KqueueHandle
    <3>. QED
      BY <1>4, <3>1
  <2>4. CASE e.tag # "event" /\ loop.events[fd] # {} /\ (e.tag = "enoent" \/ IsOpen(fd))
    <3>1. KqueueHandle(loop, poller, e) = KqueueModify(loop, poller, fd, {}, loop.events[fd])
      BY <2>4 DEF KqueueHandle
    <3>2. loop' = loop
      BY <2>1, <3>1 DEF KqueueModify
    <3>. QED
      BY <1>4, <3>2
  <2>5. CASE e.tag = "ebadf" /\ loop.events[fd] # {} /\ ~IsOpen(fd)
    <3>1. loop' = FdKill(loop, fd)
      BY <2>1, <2>5 DEF KqueueHandle
    <3>. QED
      BY <1>7, <2>5, <3>1
  <2>. QED
    BY <1>1, <1>12, <2>2, <2>3, <2>4, <2>5 DEF Tags
<1>. QED
  BY <1>1, <1>8, <1>9, <1>10, <1>11, <1>12

\* The user's steps tell no watcher of anything.
LEMMA UserTells ==
  ASSUME IndInv, UserNext, NEW w \in honest
  PROVE  ToldTruly(w)
<1>1. LoopOK(loop) /\ TypeOK /\ w \in Watchers
  BY LoopIsOK DEF IndInv, TypeOK
<1>2. loop'.pending[w] \in {loop.pending[w], {}} => ToldTruly(w)
  BY DEF ToldTruly
<1>3. ASSUME NEW v \in Watchers, NEW fd \in Fds, NEW flags, flags \subseteq {"iofdset", "reify"}, flags # {},
             loop' = IoStart(loop, v, fd, flags)
      PROVE  ToldTruly(w)
  <2>. PICK l : l = loop
    OBVIOUS
  <2>1. l \in Loops /\ Marked(l)
    BY <1>1 DEF LoopOK
  <2>2. IoStart(l, v, fd, flags).pending = l.pending
    <3>. HIDE DEF IoStart
    <3>. PICK m : m = IoStart(l, v, fd, flags)
      OBVIOUS
    <3>1. m.pending = l.pending
      BY <1>3, <2>1, IoStartFields
    <3>. QED
      BY <3>1
  <2>3. loop'.pending = loop.pending
    BY <1>3, <2>2
  <2>. QED
    BY <1>2, <2>3
<1>4. CASE \E v \in Watchers, fd \in Fds, events \in EventSets : Start(v, fd, events)
  BY <1>3, <1>4 DEF Start
<1>5. CASE \E v \in Watchers : Restart(v) \/ Stop(v)
  <2>1. PICK v \in Watchers : Restart(v) \/ Stop(v)
    BY <1>5
  <2>2. CASE Restart(v)
    <3>1. watcher[v].fd \in Fds /\ loop' = IoStart(loop, v, watcher[v].fd, {"reify"})
      BY <1>1, <2>2 DEF Restart, TypeOK
    <3>. QED
      BY <1>3, <3>1
  <2>3. CASE Stop(v)
    <3>1. v \in loop.active /\ loop' = IoStop(loop, v)
      BY <2>3 DEF Stop
    <3>. QED
      BY <1>1, <1>2, <3>1, IoStopMarks
  <2>. QED
    BY <2>1, <2>2, <2>3
<1>6. CASE Fork
  <2>1. loop' = Flagged(loop, TRUE)
    BY <1>6 DEF Fork, Flagged
  <2>2. loop'.pending = loop.pending
    BY <1>1, <2>1, PostforkFields
  <2>. QED
    BY <1>2, <2>2
<1>7. CASE UNCHANGED loop
  BY <1>2, <1>7
<1>. QED
  BY <1>4, <1>5, <1>6, <1>7 DEF UserNext, Open, ReleaseElsewhere, KeepElsewhere, Close, Readiness, ReturnNoMemory

LEMMA StepTells ==
  ASSUME IndInv, [Next]_vars, NEW w \in honest
  PROVE  ToldTruly(w)
<1>1. loop'.pending[w] \in {loop.pending[w], {}} => ToldTruly(w)
  BY DEF ToldTruly
<1>2. CASE RunIteration
  BY <1>1, <1>2, RunIterationTells
<1>3. CASE FdReify
  BY <1>1, <1>3, ReifyTells
<1>4. CASE Block \/ Return \/ Acquire
  BY <1>1, <1>4 DEF Block, Return, Acquire
<1>5. CASE PollReturns
  BY <1>5, PermsTell
<1>6. CASE \E e \in batch : Handle(e)
  BY <1>6, HandleTells
<1>7. CASE \E v \in Watchers : Invoke(v)
  <2>1. LoopOK(loop) /\ w \in Watchers
    BY LoopIsOK DEF IndInv, TypeOK
  <2>2. PICK v \in Watchers : loop' = [loop EXCEPT !.pending = [loop.pending EXCEPT ![v] = {}]]
    BY <1>7 DEF Invoke
  <2>3. loop'.pending = [loop.pending EXCEPT ![v] = {}] /\ loop.pending \in [Watchers -> SUBSET (Bits \cup {"error"})]
    BY <2>1, <2>2 DEF LoopOK, Loops
  <2>4. loop'.pending[w] \in {loop.pending[w], {}}
    BY <2>1, <2>3
  <2>. QED
    BY <1>1, <2>4
<1>8. CASE UserNext
  BY <1>8, UserTells
<1>9. CASE UNCHANGED vars
  BY <1>1, <1>9 DEF vars
<1>. QED
  BY <1>2, <1>3, <1>4, <1>5, <1>6, <1>7, <1>8, <1>9 DEF Next, LoopNext

\* A watcher is told only what the kernel said of the file that is behind its
\* descriptor now, although numbers are used again (fd_event drops the events of
\* a marked descriptor, epoll_poll those of an older generation), and is killed
\* only by an ENOMEM or a POLLNVAL for its descriptor (fd_kill).
THEOREM WatchersAreToldTruly == Spec => ToldOfItsFile
<1>1. IndInv /\ [Next]_vars =>
        [\A w \in honest : loop'.pending[w] # loop.pending[w] /\ loop'.pending[w] # {} =>
           LET news == loop'.pending[w] \ loop.pending[w]
               f == file[watcher[w].fd]
               said == {e \in batch : e.file = f}
           IN  \/ news \subseteq UNION {e.got : e \in said}
               \/ f \in Unpollable /\ news \subseteq watcher[w].events
               \/ \E e \in batch : e.tag = "enomem" \/ e = Failure("nval", watcher[w].fd)]_vars
  BY StepTells DEF ToldTruly, Sourced
<1>. QED
  BY <1>1, Invariance, PTL DEF Spec, ToldOfItsFile

=============================================================================
