--------------------------- MODULE ConnectionsProofs ---------------------------
(***************************************************************************)
(* Proofs about Connections for any number of clients, descriptors and      *)
(* watchers: descriptor, entry of libev_list and watcher are taken and given *)
(* up together, and no callback of a batch comes too late.                  *)
(***************************************************************************)
EXTENDS Connections, MemoryPool, TLAPS

Peers == {"none", "quiet", "data", "eof"} \cup Cut

TypeOK ==
  /\ backlog \in Nat
  /\ peer \in [Fds -> Peers]
  /\ libevList \in [Listed -> Watchers \cup {NULL}]
  /\ wfd \in [Watchers -> Nat]
  /\ pool \subseteq Watchers /\ active \subseteq Watchers \cup {Acceptor}
  /\ pending \subseteq (Watchers \cup {Acceptor}) \X {"read", "error"}
  /\ stalled \subseteq Fds /\ answering \in Watchers \cup {NULL}

\* An entry is made for a descriptor the kernel gave.
EntriesAreFds == \A fd \in Listed : libevList[fd] # NULL => fd \in Fds

\* accept finds a client: only the callback of the batch takes one.
AcceptIsReady == <<Acceptor, "read">> \in pending => backlog > 0

\* The callback that is in send has its watcher, and so its connection.
AnswererIsThere == answering # NULL => answering \notin pool

IndInv ==
  /\ TypeOK /\ EntriesAreFds /\ AcceptIsReady /\ AnswererIsThere
  /\ OneWatcherPerSocket /\ EveryClientHasEntry /\ PendingIsReady

-------------------------------------------------------------------------------

\* A watcher outside ev_pool has its own descriptor, below those of the server.
LEMMA WatcherHasEntry ==
  ASSUME TypeOK, EntriesAreFds, OneWatcherPerSocket, NEW w \in Watchers \ pool
  PROVE  /\ wfd[w] \in Fds /\ wfd[w] \in Listed /\ libevList[wfd[w]] = w
         /\ wfd[w] # ListenFd /\ peer[wfd[w]] # "none"
<1>1. PICK fd \in Listed : libevList[fd] = w
  BY DEF OneWatcherPerSocket
<1>2. libevList[fd] # NULL
  BY <1>1, ConnectionsAssumption
<1>3. wfd[w] = fd /\ peer[fd] # "none" /\ fd \in Fds
  BY <1>1, <1>2 DEF OneWatcherPerSocket, EntriesAreFds
<1>. QED
  BY <1>1, <1>3, ConnectionsAssumption DEF Fds, ListenFd

\* Two watchers never share a descriptor.
LEMMA DescriptorsDiffer ==
  ASSUME TypeOK, EntriesAreFds, OneWatcherPerSocket,
         NEW v \in Watchers \ pool, NEW w \in Watchers \ pool, wfd[v] = wfd[w]
  PROVE  v = w
BY WatcherHasEntry

LEMMA InitHolds == Init => IndInv
<1>. SUFFICES ASSUME Init PROVE IndInv
  OBVIOUS
<1>1. TypeOK
  BY DEF Init, TypeOK, Peers
<1>. QED
  BY <1>1, ConnectionsAssumption
     DEF Init, IndInv, EntriesAreFds, AcceptIsReady, AnswererIsThere, OneWatcherPerSocket, EveryClientHasEntry, PendingIsReady

-------------------------------------------------------------------------------
(* The steps *)

\* A client comes, sends, closes, resets its connection or reads.
LEMMA ClientStep ==
  ASSUME IndInv,
         Connect \/ \E fd \in Fds : PeerSends(fd) \/ PeerResets(fd) \/ PeerReads(fd)
  PROVE  IndInv'
<1>. USE DEF IndInv, client, libev, sending
<1>1. CASE Connect
  BY <1>1 DEF Connect, TypeOK, EntriesAreFds, AcceptIsReady, AnswererIsThere, OneWatcherPerSocket,
              EveryClientHasEntry, PendingIsReady, Ready
<1>2. ASSUME NEW fd \in Fds, PeerSends(fd) \/ PeerResets(fd)
      PROVE  IndInv'
  <2>1. PICK what \in {"data", "eof"} \cup Cut : peer' = [peer EXCEPT ![fd] = what]
    BY <1>2 DEF PeerSends, PeerResets, Cut
  <2>2. /\ peer[fd] # "none" /\ stalled' \subseteq stalled
        /\ UNCHANGED <<backlog, libevList, wfd, pool, active, pending, answering>>
    BY <1>2 DEF PeerSends, PeerResets
  <2>3. \A f : (peer'[f] = "none" <=> peer[f] = "none") /\ (f # fd => peer'[f] = peer[f])
    BY <2>1, <2>2 DEF TypeOK, Cut
  <2>4. TypeOK'
    BY <2>1, <2>2 DEF TypeOK, Peers
  <2>5. OneWatcherPerSocket' /\ EveryClientHasEntry'
    BY <2>2, <2>3 DEF OneWatcherPerSocket, EveryClientHasEntry
  <2>6. \A f : Ready(f) => Ready(f)'
    BY <2>1, <2>2, <2>3 DEF Ready, TypeOK, Cut
  <2>. QED
    BY <2>2, <2>4, <2>5, <2>6 DEF EntriesAreFds, AcceptIsReady, AnswererIsThere, PendingIsReady
<1>3. ASSUME NEW fd \in Fds, PeerReads(fd)
      PROVE  IndInv'
  BY <1>3 DEF PeerReads, TypeOK, EntriesAreFds, AcceptIsReady, AnswererIsThere, OneWatcherPerSocket,
              EveryClientHasEntry, PendingIsReady, Ready
<1>. QED
  BY <1>1, <1>2, <1>3

\* What the kernel tells is so when the batch begins.
LEMMA PollStep ==
  ASSUME IndInv, Poll
  PROVE  IndInv'
<1>. USE DEF IndInv, client, libev, sending
<1>1. PICK bad \in SUBSET Modified :
        LET killed == {w \in active : FdOf(w) \in bad}
            left == active \ killed
            now == polled \cup (Modified \ bad)
        IN  /\ active' = left
            /\ pending' = {<<w, "error">> : w \in killed} \cup
                 {<<w, "read">> : w \in {v \in left : FdOf(v) \in now /\ Ready(FdOf(v))}}
  BY DEF Poll
<1>2. active' \subseteq active /\ UNCHANGED <<backlog, peer, libevList, wfd, pool, sending>>
  BY <1>1 DEF Poll
<1>3. pending' \subseteq (Watchers \cup {Acceptor}) \X {"read", "error"}
  BY <1>1 DEF TypeOK
<1>4. \A w : <<w, "read">> \in pending' => w \in active' /\ Ready(FdOf(w))
  BY <1>1
<1>5. \A fd : Ready(fd)' <=> Ready(fd)
  BY <1>2 DEF Ready
<1>6. AcceptIsReady'
  BY <1>2, <1>4 DEF AcceptIsReady, FdOf, Ready
<1>7. PendingIsReady'
  <2>1. ASSUME NEW w \in Watchers PROVE FdOf(w) = wfd[w]
    BY ConnectionsAssumption DEF FdOf
  <2>. QED
    BY <1>2, <1>4, <1>5, <2>1 DEF PendingIsReady
<1>8. TypeOK'
  BY <1>2, <1>3 DEF TypeOK
<1>. QED
  BY <1>2, <1>6, <1>7, <1>8 DEF EntriesAreFds, AnswererIsThere, OneWatcherPerSocket, EveryClientHasEntry

\* accept_func_cb
LEMMA AcceptStep ==
  ASSUME IndInv,
         \/ AcceptNoMemory \/ AcceptError \/ AcceptFails
         \/ \E fd \in Fds : AcceptOverLimit(fd) \/ AcceptTaken(fd)
         \/ \E w \in Watchers, fd \in Fds : AcceptStarts(w, fd)
  PROVE  IndInv'
<1>. USE DEF IndInv, client, libev, sending
<1>1. /\ pending' \subseteq pending /\ (<<Acceptor, "read">> \notin pending' \/ backlog' = backlog)
      /\ backlog' \in Nat
  <2>1. pending' \subseteq pending /\ (<<Acceptor, "read">> \notin pending' \/ backlog' = backlog)
    BY DEF AcceptNoMemory, AcceptError, AcceptFails, AcceptOverLimit, AcceptTaken, AcceptStarts, Done
  <2>2. backlog' = backlog \/ (backlog' = backlog - 1 /\ <<Acceptor, "read">> \in pending)
    BY DEF AcceptNoMemory, AcceptError, AcceptFails, AcceptOverLimit, AcceptTaken, AcceptStarts, Done
  <2>. QED
    BY <2>1, <2>2 DEF TypeOK, AcceptIsReady
<1>2. pending' \subseteq pending /\ AcceptIsReady'
  BY <1>1 DEF AcceptIsReady
<1>6. UNCHANGED <<stalled, answering>> /\ AnswererIsThere'
  <2>1. answering = NULL /\ UNCHANGED <<stalled, answering>>
    BY DEF AcceptNoMemory, AcceptError, AcceptFails, AcceptOverLimit, AcceptTaken, AcceptStarts, Done
  <2>. QED
    BY <2>1 DEF AnswererIsThere
<1>3. CASE UNCHANGED <<peer, libevList, wfd, pool, active>>
  <2>1. ASSUME NEW w \in Watchers, <<w, "read">> \in pending'
        PROVE  w \in active' /\ Ready(wfd[w])'
    <3>1. w \in active /\ Ready(wfd[w]) /\ w \in Watchers \ pool
      BY <1>2, <2>1 DEF PendingIsReady, OneWatcherPerSocket
    <3>. QED
      BY <1>3, <3>1, WatcherHasEntry DEF Ready
  <2>2. TypeOK'
    BY <1>6, <1>1, <1>3 DEF TypeOK
  <2>3. PendingIsReady'
    BY <1>3, <2>1 DEF PendingIsReady
  <2>. QED
    BY <1>6, <1>2, <1>3, <2>2, <2>3 DEF EntriesAreFds, OneWatcherPerSocket, EveryClientHasEntry
<1>4. ASSUME NEW fd \in Fds, AcceptTaken(fd) PROVE IndInv'
  <2>1. /\ peer[fd] = "none" /\ peer' = [peer EXCEPT ![fd] = "quiet"]
        /\ fd <= MaxClient /\ Taken(fd) /\ UNCHANGED <<libevList, wfd, pool, active>>
    BY <1>4 DEF AcceptTaken, NewFd
  <2>2. \A f : f # fd => peer'[f] = peer[f]
    BY <2>1 DEF TypeOK
  <2>3. peer'[fd] = "quiet"
    BY <2>1 DEF TypeOK
  <2>4. TypeOK'
    BY <1>6, <1>1, <1>2, <2>1 DEF TypeOK, Peers
  <2>5. OneWatcherPerSocket'
    BY <2>1, <2>2, <2>3 DEF OneWatcherPerSocket
  <2>6. fd # MaxClient => fd \in Listed /\ libevList[fd] # NULL
    BY <2>1, ConnectionsAssumption DEF Taken, Listed, Fds
  <2>7. EveryClientHasEntry'
    BY <2>1, <2>2, <2>6 DEF EveryClientHasEntry
  <2>8. PendingIsReady'
    <3>1. ASSUME NEW w \in Watchers, <<w, "read">> \in pending'
          PROVE  w \in active' /\ Ready(wfd[w])'
      <4>1. w \in active /\ Ready(wfd[w]) /\ w \in Watchers \ pool
        BY <1>2, <3>1 DEF PendingIsReady, OneWatcherPerSocket
      <4>2. wfd[w] # ListenFd /\ peer[wfd[w]] \notin {"none", "quiet"}
        BY <4>1, WatcherHasEntry DEF Ready
      <4>. QED
        BY <2>1, <2>2, <4>1, <4>2 DEF Ready
    <3>. QED
      BY <2>1, <3>1 DEF PendingIsReady
  <2>. QED
    BY <1>6, <1>2, <2>1, <2>4, <2>5, <2>7, <2>8 DEF EntriesAreFds
<1>5. ASSUME NEW w \in Watchers, NEW fd \in Fds, AcceptStarts(w, fd) PROVE IndInv'
  <2>1. /\ w \in pool /\ pool' = pool \ {w} /\ active' = active \cup {w}
        /\ peer[fd] = "none" /\ peer' = [peer EXCEPT ![fd] = "quiet"]
        /\ wfd' = [wfd EXCEPT ![w] = fd] /\ libevList' = [libevList EXCEPT ![fd] = w]
        /\ fd \in Listed /\ libevList[fd] = NULL
    BY <1>5 DEF AcceptStarts, NewFd, Taken
  <2>2. /\ \A f : f # fd => peer'[f] = peer[f]
        /\ \A f \in Listed : f # fd => libevList'[f] = libevList[f]
        /\ \A v \in Watchers : v # w => wfd'[v] = wfd[v]
        /\ peer'[fd] = "quiet" /\ libevList'[fd] = w /\ wfd'[w] = fd
    BY <2>1 DEF TypeOK
  <2>3. w # NULL
    BY ConnectionsAssumption
  <2>4. \A f \in Listed : libevList[f] # w
    BY <2>1, <2>3 DEF OneWatcherPerSocket
  <2>5. TypeOK'
    BY <1>6, <1>1, <1>2, <2>1 DEF TypeOK, Peers, Fds
  <2>6. OneWatcherPerSocket'
    <3>1. ASSUME NEW f \in Listed, libevList'[f] # NULL
          PROVE  libevList'[f] \notin pool' /\ wfd'[libevList'[f]] = f /\ peer'[f] # "none"
      <4>1. CASE f = fd
        BY <2>1, <2>2, <4>1
      <4>2. CASE f # fd
        <5>1. libevList'[f] = libevList[f] /\ libevList[f] \in Watchers /\ libevList[f] # w
          BY <2>2, <2>4, <3>1, <4>2 DEF TypeOK
        <5>. QED
          BY <2>1, <2>2, <3>1, <4>2, <5>1 DEF OneWatcherPerSocket
      <4>. QED
        BY <4>1, <4>2
    <3>2. ASSUME NEW v \in Watchers \ pool' PROVE \E f \in Listed : libevList'[f] = v
      <4>1. CASE v = w
        BY <2>1, <2>2, <4>1
      <4>2. CASE v # w
        <5>1. PICK f \in Listed : libevList[f] = v
          BY <2>1, <4>2 DEF OneWatcherPerSocket
        <5>2. f # fd
          BY <2>1, <5>1, ConnectionsAssumption
        <5>. QED
          BY <2>2, <5>1, <5>2
      <4>. QED
        BY <4>1, <4>2
    <3>3. active' \cap pool' = {}
      BY <2>1 DEF OneWatcherPerSocket
    <3>. QED
      BY <3>1, <3>2, <3>3 DEF OneWatcherPerSocket
  <2>7. EveryClientHasEntry'
    BY <2>1, <2>2, <2>3 DEF EveryClientHasEntry, Listed
  <2>8. PendingIsReady'
    <3>1. ASSUME NEW v \in Watchers, <<v, "read">> \in pending'
          PROVE  v \in active' /\ Ready(wfd[v])'
      <4>1. v \in active /\ Ready(wfd[v]) /\ v \in Watchers \ pool
        BY <1>2, <3>1 DEF PendingIsReady, OneWatcherPerSocket
      <4>2. /\ wfd[v] # ListenFd /\ peer[wfd[v]] \notin {"none", "quiet"}
            /\ v # w /\ wfd[v] # fd
        BY <2>1, <4>1, WatcherHasEntry DEF Ready
      <4>. QED
        BY <2>1, <2>2, <4>1, <4>2 DEF Ready
    <3>. QED
      BY <3>1 DEF PendingIsReady
  <2>9. EntriesAreFds'
    BY <2>2 DEF EntriesAreFds
  <2>. QED
    BY <1>6, <1>2, <2>5, <2>6, <2>7, <2>8, <2>9
<1>. QED
  BY <1>3, <1>4, <1>5 DEF AcceptNoMemory, AcceptError, AcceptFails, AcceptOverLimit

\* read_func_cb
LEMMA ReadStep ==
  ASSUME IndInv, NEW w \in Watchers, ReadError(w) \/ ReadSome(w) \/ ReadFails(w) \/ ReadEnd(w)
  PROVE  IndInv'
<1>. USE DEF IndInv, client, libev, sending
<1>1. pending' \subseteq pending /\ UNCHANGED <<backlog, wfd>> /\ answering = NULL
  BY DEF ReadError, ReadSome, ReadFails, ReadEnd, Done
<1>2. AcceptIsReady'
  BY <1>1 DEF AcceptIsReady
<1>3. CASE ReadError(w)
  BY <1>1, <1>2, <1>3
     DEF ReadError, TypeOK, EntriesAreFds, AnswererIsThere, OneWatcherPerSocket, EveryClientHasEntry, PendingIsReady, Ready
<1>4. ASSUME ReadSome(w) \/ ReadFails(w) \/ ReadEnd(w)
      PROVE  /\ w \in active /\ w \in Watchers \ pool /\ wfd[w] \in Fds /\ wfd[w] \in Listed
             /\ libevList[wfd[w]] = w /\ <<w, "read">> \notin pending'
             /\ \A v \in Watchers : <<v, "read">> \in pending' =>
                  /\ v \in active /\ v # w /\ wfd[v] # wfd[w]
                  /\ wfd[v] # ListenFd /\ peer[wfd[v]] \notin {"none", "quiet"}
  <2>1. <<w, "read">> \in pending /\ <<w, "read">> \notin pending'
    BY <1>4 DEF ReadSome, ReadFails, ReadEnd, Done
  <2>2. \A v \in Watchers : <<v, "read">> \in pending =>
          v \in active /\ Ready(wfd[v]) /\ v \in Watchers \ pool
    BY DEF PendingIsReady, OneWatcherPerSocket
  <2>3. ASSUME NEW v \in Watchers, <<v, "read">> \in pending'
        PROVE  /\ v \in active /\ v # w /\ wfd[v] # wfd[w]
               /\ wfd[v] # ListenFd /\ peer[wfd[v]] \notin {"none", "quiet"}
    BY <1>1, <2>1, <2>2, <2>3, WatcherHasEntry, DescriptorsDiffer DEF Ready
  <2>. QED
    BY <2>1, <2>2, <2>3, WatcherHasEntry
<1>5. CASE ReadSome(w) \/ ReadFails(w)
  <2>1. PICK said \in {"quiet", "data"} \cup Cut : peer' = [peer EXCEPT ![wfd[w]] = said]
    BY <1>5 DEF ReadSome, ReadFails, Cut
  <2>2. /\ UNCHANGED <<libevList, pool, active, stalled>> /\ peer[wfd[w]] # "none"
        /\ answering' \in {NULL, w}
    BY <1>1, <1>5 DEF ReadSome, ReadFails
  <2>3. /\ peer'[wfd[w]] = said /\ said # "none"
        /\ \A f : f # wfd[w] => peer'[f] = peer[f]
    BY <1>4, <1>5, <2>1 DEF TypeOK, Cut
  <2>4. TypeOK'
    BY <1>1, <1>4, <1>5, <2>1, <2>2 DEF TypeOK, Peers
  <2>5. \A f : peer[f] = "none" <=> peer'[f] = "none"
    BY <2>2, <2>3
  <2>6. OneWatcherPerSocket' /\ EveryClientHasEntry'
    BY <1>1, <2>2, <2>5 DEF OneWatcherPerSocket, EveryClientHasEntry
  <2>7. PendingIsReady'
    BY <1>1, <1>4, <1>5, <2>2, <2>3 DEF PendingIsReady, Ready
  <2>. QED
    BY <1>2, <1>4, <1>5, <2>2, <2>4, <2>6, <2>7 DEF EntriesAreFds, AnswererIsThere
<1>6. CASE ReadEnd(w)
  <2>1. /\ peer' = [peer EXCEPT ![wfd[w]] = "none"]
        /\ active' = active \ {w} /\ pool' = pool \cup {w}
        /\ libevList' = [libevList EXCEPT ![wfd[w]] = NULL]
        /\ stalled' \subseteq stalled /\ answering' = NULL
    BY <1>1, <1>4, <1>6 DEF ReadEnd, FreeLibev
  <2>2. /\ \A f : f # wfd[w] => peer'[f] = peer[f]
        /\ \A f \in Listed : f # wfd[w] => libevList'[f] = libevList[f]
        /\ libevList'[wfd[w]] = NULL /\ peer'[wfd[w]] = "none"
    BY <1>4, <1>6, <2>1 DEF TypeOK
  <2>3. TypeOK'
    BY <1>1, <1>4, <1>6, <2>1 DEF TypeOK, Peers
  <2>4. OneWatcherPerSocket'
    <3>1. ASSUME NEW f \in Listed, libevList'[f] # NULL
          PROVE  libevList'[f] \notin pool' /\ wfd'[libevList'[f]] = f /\ peer'[f] # "none"
      <4>1. f # wfd[w] /\ libevList'[f] = libevList[f]
        BY <2>2, <3>1
      <4>2. libevList[f] \notin pool /\ wfd[libevList[f]] = f /\ peer[f] # "none"
        BY <3>1, <4>1 DEF OneWatcherPerSocket
      <4>. QED
        BY <1>1, <2>1, <2>2, <4>1, <4>2
    <3>2. ASSUME NEW v \in Watchers \ pool' PROVE \E f \in Listed : libevList'[f] = v
      <4>1. v \in Watchers \ pool /\ v # w
        BY <2>1
      <4>2. PICK f \in Listed : libevList[f] = v
        BY <4>1 DEF OneWatcherPerSocket
      <4>3. f # wfd[w]
        BY <1>4, <1>6, <4>1, <4>2
      <4>. QED
        BY <2>2, <4>2, <4>3
    <3>3. active' \cap pool' = {}
      BY <2>1 DEF OneWatcherPerSocket
    <3>. QED
      BY <3>1, <3>2, <3>3 DEF OneWatcherPerSocket
  <2>5. EveryClientHasEntry'
    BY <2>2 DEF EveryClientHasEntry
  <2>6. PendingIsReady'
    BY <1>1, <1>4, <1>6, <2>1, <2>2 DEF PendingIsReady, Ready
  <2>7. EntriesAreFds'
    BY <2>2 DEF EntriesAreFds
  <2>8. AnswererIsThere'
    BY <2>1 DEF AnswererIsThere
  <2>. QED
    BY <1>2, <2>3, <2>4, <2>5, <2>6, <2>7, <2>8
<1>. QED
  BY <1>3, <1>5, <1>6

\* The send in read_func_cb returns.
LEMMA SendStep ==
  ASSUME IndInv, Send
  PROVE  IndInv'
<1>. USE DEF IndInv, client, libev
<1>1. /\ answering \in Watchers \ pool /\ answering' = NULL
      /\ UNCHANGED <<backlog, peer, libevList, wfd, pool, active, pending>>
  BY DEF Send, TypeOK, AnswererIsThere
<1>2. stalled' \subseteq stalled \cup {wfd[answering]}
  BY DEF Send, Answer, AnswerFails
<1>3. TypeOK' /\ AnswererIsThere'
  BY <1>1, <1>2, WatcherHasEntry DEF TypeOK, AnswererIsThere
<1>. QED
  BY <1>1, <1>3 DEF EntriesAreFds, AcceptIsReady, OneWatcherPerSocket, EveryClientHasEntry,
                    PendingIsReady, Ready

-------------------------------------------------------------------------------
(* The theorems *)

\* Whatever the clients and the kernel do, every state the event loop reaches
\* satisfies the invariant.
THEOREM Invariance == Spec => []IndInv
<1>1. IndInv /\ [Next]_vars => IndInv'
  <2>1. ASSUME IndInv, UNCHANGED vars PROVE IndInv'
    BY <2>1 DEF vars, client, libev, sending, IndInv, TypeOK, EntriesAreFds, AcceptIsReady, AnswererIsThere, OneWatcherPerSocket,
       EveryClientHasEntry, PendingIsReady, Ready
  <2>. QED
    BY <2>1, ClientStep, PollStep, AcceptStep, ReadStep, SendStep DEF Next, Callback
<1>. QED
  BY <1>1, InitHolds, PTL DEF Spec

\* accept_func_cb and free_libev neither leak an ev_io block nor give back one
\* that is started or listed, and no two connections share one.
THEOREM WatchersAreSound == Spec => []OneWatcherPerSocket
BY Invariance, PTL DEF IndInv

\* Every descriptor below SOCKET_ALLOC_MAX_CLIENT that accept gave has its entry
\* in libev_list, as long as it is open.
THEOREM ClientsAreListed == Spec => []EveryClientHasEntry
BY Invariance, PTL DEF IndInv

\* read_func_cb is never called for a connection that an earlier callback of the
\* batch has closed, nor for another that took its descriptor or its block.
THEOREM CallbacksAreInTime == Spec => []PendingIsReady
BY Invariance, PTL DEF IndInv

-------------------------------------------------------------------------------
(* ev_pool, where the watchers come from: a MemoryPool that one thread uses, *)
(* the event loop, for any number of blocks.  With a second thread the       *)
(* theorems are false, as the run of MemoryPoolObd.cfg shows.                *)

\* At most one thread uses the pool.
OneThread == \A s, t \in Threads : s = t

-------------------------------------------------------------------------------
\* What is left of the stack of free blocks when the first one goes.
LEMMA RestFacts ==
  ASSUME NEW S, NEW s \in Seq(S), s # <<>>
  PROVE  LET r == SubSeq(s, 2, Len(s)) IN
         /\ r \in Seq(S)
         /\ Len(s) \in Nat /\ Len(s) > 0
         /\ DOMAIN s = 1 .. Len(s)
         /\ DOMAIN r = 1 .. Len(s) - 1
         /\ \A i \in 1 .. Len(s) - 1 : r[i] = s[i + 1]
  OBVIOUS

\* The stack with one more block in front.
LEMMA ConsFacts ==
  ASSUME NEW S, NEW s \in Seq(S), NEW b \in S
  PROVE  LET r == <<b>> \o s IN
         /\ r \in Seq(S)
         /\ Len(s) \in Nat
         /\ DOMAIN s = 1 .. Len(s)
         /\ DOMAIN r = 1 .. Len(s) + 1
         /\ r[1] = b
         /\ \A i \in 1 .. Len(s) : r[i + 1] = s[i]
  OBVIOUS

\* Taking the first block off the stack takes it out of the set of free blocks
\* and moves the others up.
LEMMA StackLosesFirst ==
  ASSUME PoolTypeOK, FreeListInv, stack # <<>>, stack' = SubSeq(stack, 2, Len(stack))
  PROVE  /\ stack' \in Seq(Blocks)
         /\ StackAt(1) \in Blocks
         /\ Stacked' = Stacked \ {StackAt(1)}
         /\ StackAt(1) \in Stacked
         /\ StackAt(1)' = StackAt(2)
         /\ link[StackAt(1)] = StackAt(2)
         /\ \A i, j \in DOMAIN stack' : stack'[i] = stack'[j] => i = j
         /\ \A i \in DOMAIN stack' :
              link[stack'[i]] = StackAt(i + 1)' /\ stack'[i] # StackAt(1)
<1> DEFINE r == SubSeq(stack, 2, Len(stack))
           n == Len(stack)
<1>1. /\ r \in Seq(Blocks) /\ n \in Nat /\ n > 0 /\ DOMAIN stack = 1 .. n
      /\ DOMAIN r = 1 .. n - 1 /\ \A i \in 1 .. n - 1 : r[i] = stack[i + 1]
  BY RestFacts DEF PoolTypeOK
<1>2. stack' = r
  OBVIOUS
<1>3. \A i \in 1 .. n : stack[i] \in Blocks
  BY <1>1 DEF PoolTypeOK
<1> HIDE DEF r, n
<1>4. StackAt(1) = stack[1] /\ 1 \in DOMAIN stack
  BY <1>1 DEF StackAt
<1>5. \A i \in DOMAIN stack' : StackAt(i + 1)' = StackAt(i + 2)
  BY <1>1, <1>2 DEF StackAt
<1>6. StackAt(1)' = StackAt(2)
  BY <1>1, <1>2 DEF StackAt
<1>7. \A i \in DOMAIN stack' : i + 1 \in DOMAIN stack /\ stack'[i] = stack[i + 1] /\ i + 1 # 1
  BY <1>1, <1>2
<1>8. \A i, j \in DOMAIN stack : stack[i] = stack[j] => i = j
  BY DEF FreeListInv
<1>9. \A i, j \in DOMAIN stack' : stack'[i] = stack'[j] => i = j
  BY <1>1, <1>2, <1>7, <1>8
<1>10. \A i \in DOMAIN stack' : stack'[i] # StackAt(1)
  BY <1>4, <1>7, <1>8
<1>11. \A i \in DOMAIN stack : link[stack[i]] = StackAt(i + 1)
  BY DEF FreeListInv
<1>12. \A i \in DOMAIN stack' : link[stack'[i]] = StackAt(i + 1)'
  <2> TAKE i \in DOMAIN stack'
  <2>1. i \in 1 .. n - 1 /\ (i + 1) + 1 = i + 2
    BY <1>1, <1>2
  <2> QED BY <2>1, <1>5, <1>7, <1>11
<1>13. link[StackAt(1)] = StackAt(2)
  BY <1>4, <1>11
<1>14. Stacked' = Stacked \ {StackAt(1)}
  <2>1. ASSUME NEW b \in Stacked' PROVE b \in Stacked \ {StackAt(1)}
    BY <1>7, <1>10 DEF Stacked
  <2>2. ASSUME NEW b \in Stacked, b # StackAt(1) PROVE b \in Stacked'
    <3>1. PICK i \in DOMAIN stack : b = stack[i]
      BY DEF Stacked
    <3>2. i # 1 /\ i - 1 \in DOMAIN stack' /\ stack'[i - 1] = stack[(i - 1) + 1]
      BY <1>1, <1>2, <1>4, <2>2, <3>1
    <3>3. (i - 1) + 1 = i
      BY <1>1, <3>1
    <3> QED BY <3>1, <3>2, <3>3 DEF Stacked
  <2> QED BY <2>1, <2>2
<1>15. stack' \in Seq(Blocks) /\ StackAt(1) \in Blocks /\ StackAt(1) \in Stacked
  BY <1>1, <1>2, <1>3, <1>4 DEF Stacked
<1> QED
  BY <1>6, <1>9, <1>10, <1>12, <1>13, <1>14, <1>15

\* Putting a block that is not free in front of the stack.
LEMMA StackGainsFirst ==
  ASSUME PoolTypeOK, FreeListInv, NEW b \in Blocks, b \notin Stacked,
         link[b] = StackAt(1), stack' = <<b>> \o stack
  PROVE  /\ stack' \in Seq(Blocks)
         /\ Stacked' = Stacked \cup {b}
         /\ StackAt(1)' = b
         /\ \A i, j \in DOMAIN stack' : stack'[i] = stack'[j] => i = j
         /\ \A i \in DOMAIN stack' : link[stack'[i]] = StackAt(i + 1)'
<1> DEFINE r == <<b>> \o stack
           n == Len(stack)
<1>1. /\ r \in Seq(Blocks) /\ n \in Nat /\ DOMAIN stack = 1 .. n
      /\ DOMAIN r = 1 .. n + 1 /\ r[1] = b /\ \A i \in 1 .. n : r[i + 1] = stack[i]
  BY ConsFacts DEF PoolTypeOK
<1>2. stack' = r
  OBVIOUS
<1> HIDE DEF r, n
<1>3. \A i \in DOMAIN stack' : i = 1 \/ (i - 1 \in DOMAIN stack /\ i = (i - 1) + 1)
  BY <1>1, <1>2
<1>4. \A i \in DOMAIN stack : i + 1 \in DOMAIN stack' /\ stack'[i + 1] = stack[i]
  BY <1>1, <1>2
<1>5. stack'[1] = b /\ 1 \in DOMAIN stack'
  BY <1>1, <1>2
<1>6. \A i \in DOMAIN stack : stack[i] # b
  BY DEF Stacked
<1>7. \A i, j \in DOMAIN stack : stack[i] = stack[j] => i = j
  BY DEF FreeListInv
<1>8. ASSUME NEW i \in DOMAIN stack', NEW j \in DOMAIN stack', stack'[i] = stack'[j]
      PROVE  i = j
  BY <1>3, <1>4, <1>5, <1>6, <1>7, <1>8
<1>9. StackAt(1)' = b
  BY <1>5 DEF StackAt
<1>10. \A i \in 1 .. n + 1 : StackAt(i + 1)' = StackAt(i)
  BY <1>1, <1>2 DEF StackAt
<1>11. \A i \in DOMAIN stack : link[stack[i]] = StackAt(i + 1)
  BY DEF FreeListInv
<1>12. ASSUME NEW i \in DOMAIN stack' PROVE link[stack'[i]] = StackAt(i + 1)'
  <2>1. StackAt(i + 1)' = StackAt(i)
    BY <1>1, <1>2, <1>10
  <2>2. CASE i = 1
    BY <2>1, <2>2, <1>5
  <2>3. CASE i # 1
    <3>1. i - 1 \in DOMAIN stack /\ i = (i - 1) + 1
      BY <1>3, <2>3
    <3>2. stack'[i] = stack[i - 1] /\ link[stack[i - 1]] = StackAt(i)
      BY <3>1, <1>4, <1>11
    <3> QED BY <2>1, <3>2
  <2> QED BY <2>2, <2>3
<1>13. Stacked' = Stacked \cup {b}
  <2>1. ASSUME NEW c \in Stacked' PROVE c \in Stacked \cup {b}
    BY <1>3, <1>4, <1>5 DEF Stacked
  <2>2. ASSUME NEW c \in Stacked \cup {b} PROVE c \in Stacked'
    BY <1>4, <1>5 DEF Stacked
  <2> QED BY <2>1, <2>2
<1> QED
  BY <1>1, <1>2, <1>8, <1>9, <1>12, <1>13

\* The first free block, when there is one, is the only one the head names.
LEMMA FirstIsBlock ==
  ASSUME PoolTypeOK
  PROVE  /\ StackAt(1) \in Blocks \cup {NoBlock}
         /\ StackAt(2) \in Blocks \cup {NoBlock}
         /\ stack # <<>> => StackAt(1) \in Stacked /\ StackAt(1) \in Blocks
         /\ StackAt(1) # NoBlock => stack # <<>>
         /\ Stacked \subseteq Blocks
<1>1. \A i \in DOMAIN stack : stack[i] \in Blocks
  BY DEF PoolTypeOK
<1>2. stack # <<>> => 1 \in DOMAIN stack
  BY DEF PoolTypeOK
<1>3. stack = <<>> => 1 \notin DOMAIN stack
  OBVIOUS
<1> QED
  BY <1>1, <1>2, <1>3, MemoryAssumption DEF StackAt, Stacked

\* With one thread, at most the block that thread is freeing is on its way.
LEMMA TransitOfOne ==
  ASSUME OneThread, NEW t \in Threads
  PROVE  /\ InTransit = IF pc[t] \in {"link", "push"} THEN {ptr[t]} ELSE {}
         /\ InTransit' = IF pc'[t] \in {"link", "push"} THEN {ptr'[t]} ELSE {}
  BY DEF InTransit, OneThread

-------------------------------------------------------------------------------
\* The loads of Malloc change nothing but what the thread knows.
LEMMA LoadsKeep ==
  ASSUME PoolIndInv, OneThread, NEW t \in Threads,
         Test(t) \/ Take(t) \/ LoadFirst(t) \/ Follow(t)
  PROVE  PoolIndInv'
<1> USE DEF PoolIndInv
<1>1. \A s \in Threads : s = t
  BY DEF OneThread
<1>2. UNCHANGED <<available, link, system, users, state, stack>>
  BY DEF Test, Take, LoadFirst, Follow
<1>3. /\ pc[t] \notin {"link", "push"} /\ pc'[t] \notin {"link", "push"}
      /\ state = "alive"
  BY DEF Test, Take, LoadFirst, Follow, Goto, PoolTypeOK, LocalInv
<1>4. available = StackAt(1)
  BY <1>3 DEF FreeListInv
<1>5. PoolTypeOK'
  <2>1. CASE Test(t) \/ Take(t) \/ LoadFirst(t)
    BY <1>2, <2>1 DEF PoolTypeOK, Test, Take, LoadFirst, Goto
  <2>2. CASE Follow(t)
    <3>1. loaded[t] = StackAt(1) /\ stack # <<>>
      BY <2>2 DEF Follow, LocalInv
    <3>2. link[loaded[t]] = StackAt(2)
      BY <3>1 DEF FreeListInv, StackAt, PoolTypeOK
    <3>3. link[loaded[t]] \in Blocks \cup {NoBlock}
      BY <3>2, FirstIsBlock
    <3> QED BY <1>2, <2>2, <3>3 DEF PoolTypeOK, Follow, Goto
  <2> QED BY <2>1, <2>2
<1>6. OneUserPerBlock' /\ FreeListInv'
  BY <1>2 DEF OneUserPerBlock, FreeListInv, StackAt
<1>7. PlacesInv'
  <2>1. InTransit = {} /\ InTransit' = {}
    BY <1>3, TransitOfOne
  <2>2. Stacked' = Stacked /\ InUse' = InUse
    BY <1>2 DEF Stacked, InUse
  <2> QED BY <1>2, <2>1, <2>2 DEF PlacesInv
<1>8. StackAt(1)' = StackAt(1) /\ StackAt(2)' = StackAt(2)
  BY <1>2 DEF StackAt
<1>9. LocalInv'
  <2>1. CASE Test(t)
    BY <1>1, <1>2, <1>4, <1>8, <2>1, FirstIsBlock DEF Test, Goto, LocalInv, PoolTypeOK
  <2>2. CASE Take(t)
    BY <1>1, <1>2, <1>4, <1>8, <2>2 DEF Take, Goto, LocalInv, PoolTypeOK
  <2>3. CASE LoadFirst(t)
    BY <1>1, <1>2, <1>4, <1>8, <2>3 DEF LoadFirst, Goto, LocalInv, PoolTypeOK
  <2>4. CASE Follow(t)
    <3>1. loaded[t] = StackAt(1) /\ stack # <<>>
      BY <2>4 DEF Follow, LocalInv
    <3>2. link[loaded[t]] = StackAt(2)
      BY <3>1 DEF FreeListInv, StackAt, PoolTypeOK
    <3> QED BY <1>1, <1>2, <1>8, <2>4, <3>2 DEF Follow, Goto, LocalInv, PoolTypeOK
  <2> QED BY <2>1, <2>2, <2>3, <2>4
<1> QED BY <1>5, <1>6, <1>7, <1>9

\* The store that pops the list hands out a block nobody has.
LEMMA PopKeeps ==
  ASSUME PoolIndInv, OneThread, NEW t \in Threads, Pop(t)
  PROVE  PoolIndInv'
<1> USE DEF PoolIndInv
<1>1. \A s \in Threads : s = t
  BY DEF OneThread
<1>2. /\ pc[t] = "pop" /\ pc' = [pc EXCEPT ![t] = "idle"]
      /\ stack # <<>> /\ ptr[t] = StackAt(1) /\ loaded[t] = StackAt(2)
      /\ available' = StackAt(2) /\ stack' = SubSeq(stack, 2, Len(stack))
      /\ users' = [users EXCEPT ![StackAt(1)] = @ + 1]
      /\ link' = [link EXCEPT ![StackAt(1)] = Wild]
      /\ UNCHANGED <<system, ptr, loaded, state>>
  BY DEF Pop, Goto, HandOut, LocalInv
<1>3. /\ stack' \in Seq(Blocks)
      /\ StackAt(1) \in Blocks
      /\ Stacked' = Stacked \ {StackAt(1)}
      /\ StackAt(1) \in Stacked
      /\ StackAt(1)' = StackAt(2)
      /\ \A i, j \in DOMAIN stack' : stack'[i] = stack'[j] => i = j
      /\ \A i \in DOMAIN stack' :
           link[stack'[i]] = StackAt(i + 1)' /\ stack'[i] # StackAt(1)
  BY <1>2, StackLosesFirst
<1>4. users[StackAt(1)] = 0
  BY <1>3 DEF PlacesInv, InUse, PoolTypeOK
<1>5. pc'[t] = "idle" /\ state = "alive"
  BY <1>2 DEF PoolTypeOK, LocalInv
<1>6. PoolTypeOK'
  BY <1>2, <1>3, FirstIsBlock DEF PoolTypeOK
<1>7. OneUserPerBlock'
  BY <1>2, <1>4 DEF OneUserPerBlock, PoolTypeOK
<1>8. FreeListInv'
  <2>1. ASSUME NEW i \in DOMAIN stack' PROVE link'[stack'[i]] = StackAt(i + 1)'
    BY SMTT(60), <1>2, <1>3 DEF PoolTypeOK
  <2> QED BY <1>2, <1>3, <1>5, <2>1 DEF FreeListInv
<1>9. PlacesInv'
  <2>1. InTransit = {} /\ InTransit' = {}
    BY <1>2, <1>5, TransitOfOne
  <2>2. InUse' = InUse \cup {StackAt(1)}
    BY <1>2, <1>3, <1>4 DEF InUse, PoolTypeOK
  <2> QED BY <1>2, <1>3, <2>1, <2>2 DEF PlacesInv
<1>10. LocalInv'
  BY <1>1, <1>2, <1>5 DEF LocalInv
<1> QED BY <1>6, <1>7, <1>8, <1>9, <1>10

\* A block from the C library was in no other place.
LEMMA AskSystemKeeps ==
  ASSUME PoolIndInv, OneThread, NEW t \in Threads, AskSystem(t)
  PROVE  PoolIndInv'
<1> USE DEF PoolIndInv
<1>1. \A s \in Threads : s = t
  BY DEF OneThread
<1>2. /\ pc[t] = "system" /\ pc' = [pc EXCEPT ![t] = "idle"]
      /\ UNCHANGED <<available, ptr, loaded, state, stack>>
  BY DEF AskSystem, Goto
<1>3. pc'[t] = "idle" /\ state # "destroying" /\ state = "alive"
  BY <1>2 DEF PoolTypeOK, LocalInv
<1>4. InTransit = {} /\ InTransit' = {}
  BY <1>2, <1>3, TransitOfOne
<1>5. Stacked' = Stacked /\ \A i : StackAt(i)' = StackAt(i)
  BY <1>2 DEF Stacked, StackAt
<1>6. LocalInv'
  BY <1>1, <1>2, <1>3 DEF LocalInv
<1>7. CASE UNCHANGED <<users, link, system>>
  <2>1. PoolTypeOK' /\ OneUserPerBlock' /\ FreeListInv'
    BY <1>2, <1>5, <1>7 DEF PoolTypeOK, OneUserPerBlock, FreeListInv
  <2>2. InUse' = InUse
    BY <1>7 DEF InUse
  <2> QED BY <1>4, <1>5, <1>6, <1>7, <2>1, <2>2 DEF PlacesInv
<1>8. ASSUME NEW b \in system, HandOut(b), system' = system \ {b} PROVE PoolIndInv'
  <2>1. b \in Blocks /\ users[b] = 0 /\ b \notin Stacked
    BY <1>8 DEF PlacesInv, InUse, PoolTypeOK
  <2>2. PoolTypeOK' /\ OneUserPerBlock'
    BY <1>2, <1>8, <2>1 DEF PoolTypeOK, OneUserPerBlock, HandOut
  <2>3. FreeListInv'
    <3>1. \A i \in DOMAIN stack : stack[i] \in Blocks /\ stack[i] # b
      BY <2>1 DEF Stacked, PoolTypeOK
    <3>2. \A i \in DOMAIN stack : link'[stack[i]] = link[stack[i]]
      BY <1>8, <2>1, <3>1 DEF HandOut, PoolTypeOK
    <3> QED BY <1>2, <1>5, <3>2 DEF FreeListInv
  <2>4. InUse' = InUse \cup {b}
    BY <1>8, <2>1 DEF InUse, HandOut, PoolTypeOK
  <2>5. PlacesInv'
    BY <1>4, <1>5, <1>8, <2>1, <2>4 DEF PlacesInv
  <2> QED BY <1>6, <2>2, <2>3, <2>5
<1> QED BY <1>7, <1>8 DEF AskSystem

-------------------------------------------------------------------------------
\* A caller that gives up its block puts it on its way.
LEMMA LoadForFreeKeeps ==
  ASSUME PoolIndInv, OneThread, NEW t \in Threads, NEW b \in Blocks, LoadForFree(t, b)
  PROVE  PoolIndInv'
<1> USE DEF PoolIndInv
<1>1. \A s \in Threads : s = t
  BY DEF OneThread
<1>2. /\ pc[t] = "idle" /\ state = "alive" /\ users[b] > 0
      /\ users' = [users EXCEPT ![b] = @ - 1]
      /\ ptr' = [ptr EXCEPT ![t] = b] /\ loaded' = [loaded EXCEPT ![t] = available]
      /\ pc' = [pc EXCEPT ![t] = "link"]
      /\ UNCHANGED <<available, link, system, state, stack>>
  BY DEF LoadForFree, Goto
<1>3. users[b] = 1
  BY <1>2 DEF OneUserPerBlock, PoolTypeOK
<1>4. pc'[t] = "link" /\ ptr'[t] = b
  BY <1>2 DEF PoolTypeOK
<1>5. InTransit = {} /\ InTransit' = {b}
  BY <1>2, <1>4, TransitOfOne
<1>6. Stacked' = Stacked /\ \A i : StackAt(i)' = StackAt(i)
  BY <1>2 DEF Stacked, StackAt
<1>7. PoolTypeOK' /\ OneUserPerBlock'
  BY <1>2, <1>3 DEF PoolTypeOK, OneUserPerBlock
<1>8. FreeListInv'
  BY <1>2, <1>6 DEF FreeListInv
<1>9. InUse' = InUse \ {b} /\ b \in InUse
  BY <1>2, <1>3 DEF InUse, PoolTypeOK
<1>10. PlacesInv'
  BY <1>2, <1>5, <1>6, <1>9 DEF PlacesInv
<1>11. LocalInv'
  BY <1>1, <1>2, <1>4, <1>6 DEF LocalInv, FreeListInv, PoolTypeOK
<1> QED BY <1>7, <1>8, <1>10, <1>11

\* The block on its way is on nobody's list when its link is written.
LEMMA LinkKeeps ==
  ASSUME PoolIndInv, OneThread, NEW t \in Threads, Link(t)
  PROVE  PoolIndInv'
<1> USE DEF PoolIndInv
<1>1. \A s \in Threads : s = t
  BY DEF OneThread
<1>2. /\ pc[t] = "link" /\ pc' = [pc EXCEPT ![t] = "push"]
      /\ link' = [link EXCEPT ![ptr[t]] = loaded[t]]
      /\ ptr[t] \in Blocks /\ loaded[t] = StackAt(1)
      /\ UNCHANGED <<available, system, users, ptr, loaded, state, stack>>
  BY DEF Link, Goto, LocalInv
<1>3. pc'[t] = "push"
  BY <1>2 DEF PoolTypeOK
<1>4. InTransit = {ptr[t]} /\ InTransit' = {ptr[t]}
  BY <1>2, <1>3, TransitOfOne
<1>5. Stacked' = Stacked /\ InUse' = InUse /\ \A i : StackAt(i)' = StackAt(i)
  BY <1>2 DEF Stacked, StackAt, InUse
<1>6. PoolTypeOK' /\ OneUserPerBlock'
  BY <1>2 DEF PoolTypeOK, OneUserPerBlock
<1>7. PlacesInv'
  BY <1>2, <1>4, <1>5 DEF PlacesInv
<1>8. FreeListInv'
  <2>1. ptr[t] \notin Stacked
    BY <1>4 DEF PlacesInv
  <2>2. \A i \in DOMAIN stack : link'[stack[i]] = link[stack[i]]
    BY <1>2, <2>1 DEF Stacked, PoolTypeOK
  <2> QED BY <1>2, <1>5, <2>2 DEF FreeListInv
<1>9. LocalInv'
  BY <1>1, <1>2, <1>3, <1>5 DEF LocalInv, PoolTypeOK
<1> QED BY <1>6, <1>7, <1>8, <1>9

\* The store that makes the freed block the first available one.
LEMMA PushKeeps ==
  ASSUME PoolIndInv, OneThread, NEW t \in Threads, Push(t)
  PROVE  PoolIndInv'
<1> USE DEF PoolIndInv
<1>1. \A s \in Threads : s = t
  BY DEF OneThread
<1>2. /\ pc[t] = "push" /\ pc' = [pc EXCEPT ![t] = "idle"]
      /\ available' = ptr[t] /\ stack' = <<ptr[t]>> \o stack
      /\ ptr[t] \in Blocks /\ link[ptr[t]] = StackAt(1)
      /\ UNCHANGED <<link, system, users, ptr, loaded, state>>
  BY DEF Push, Goto, LocalInv
<1>3. pc'[t] = "idle" /\ state = "alive"
  BY <1>2 DEF PoolTypeOK, LocalInv
<1>4. InTransit = {ptr[t]} /\ InTransit' = {}
  BY <1>2, <1>3, TransitOfOne
<1>5. ptr[t] \notin Stacked
  BY <1>4 DEF PlacesInv
<1>6. /\ stack' \in Seq(Blocks)
      /\ Stacked' = Stacked \cup {ptr[t]}
      /\ StackAt(1)' = ptr[t]
      /\ \A i, j \in DOMAIN stack' : stack'[i] = stack'[j] => i = j
      /\ \A i \in DOMAIN stack' : link[stack'[i]] = StackAt(i + 1)'
  BY <1>2, <1>5, StackGainsFirst
<1>7. PoolTypeOK' /\ OneUserPerBlock'
  BY <1>2, <1>6 DEF PoolTypeOK, OneUserPerBlock
<1>8. FreeListInv'
  BY <1>2, <1>3, <1>6 DEF FreeListInv
<1>9. InUse' = InUse
  BY <1>2 DEF InUse
<1>10. PlacesInv'
  BY <1>2, <1>4, <1>6, <1>9 DEF PlacesInv
<1>11. LocalInv'
  BY <1>1, <1>2, <1>3 DEF LocalInv
<1> QED BY <1>7, <1>8, <1>10, <1>11

\* Without a pool the block goes to the C library.
LEMMA FreeWithoutPoolKeeps ==
  ASSUME PoolIndInv, OneThread, NEW t \in Threads, NEW b \in Blocks,
         FreeWithoutPool(t, b)
  PROVE  PoolIndInv'
<1> USE DEF PoolIndInv
<1>1. /\ pc[t] = "idle" /\ state = "gone" /\ users[b] > 0
      /\ users' = [users EXCEPT ![b] = @ - 1]
      /\ system' = system \cup {b}
      /\ UNCHANGED <<available, link, pc, ptr, loaded, state, stack>>
  BY DEF FreeWithoutPool
<1>2. users[b] = 1
  BY <1>1 DEF OneUserPerBlock, PoolTypeOK
<1>3. InTransit = {} /\ InTransit' = {}
  BY <1>1, TransitOfOne
<1>4. Stacked' = Stacked /\ \A i : StackAt(i)' = StackAt(i)
  BY <1>1 DEF Stacked, StackAt
<1>5. PoolTypeOK' /\ OneUserPerBlock'
  BY <1>1, <1>2 DEF PoolTypeOK, OneUserPerBlock
<1>6. FreeListInv' /\ LocalInv'
  BY <1>1, <1>4 DEF FreeListInv, LocalInv
<1>7. InUse' = InUse \ {b} /\ b \in InUse
  BY <1>1, <1>2 DEF InUse, PoolTypeOK
<1>8. PlacesInv'
  BY <1>1, <1>3, <1>4, <1>7 DEF PlacesInv
<1> QED BY <1>5, <1>6, <1>8

-------------------------------------------------------------------------------
\* Destroying the pool starts from its first available block and ends at NULL.
LEMMA DestroyEndsKeep ==
  ASSUME PoolIndInv, OneThread, NEW t \in Threads, BeginDestroy(t) \/ EndDestroy(t)
  PROVE  PoolIndInv'
<1> USE DEF PoolIndInv
<1>1. \A s \in Threads : s = t
  BY DEF OneThread
<1>2. UNCHANGED <<available, link, system, users, ptr, stack>>
  BY DEF BeginDestroy, EndDestroy
<1>3. /\ pc[t] \notin {"link", "push"} /\ pc'[t] \notin {"link", "push"}
  BY DEF BeginDestroy, EndDestroy, Idle, Goto, PoolTypeOK
<1>4. PoolTypeOK' /\ OneUserPerBlock'
  BY <1>2 DEF PoolTypeOK, OneUserPerBlock, BeginDestroy, EndDestroy, Goto
<1>5. Stacked' = Stacked /\ InUse' = InUse /\ \A i : StackAt(i)' = StackAt(i)
  BY <1>2 DEF Stacked, InUse, StackAt
<1>6. InTransit = {} /\ InTransit' = {}
  BY <1>3, TransitOfOne
<1>7. PlacesInv'
  BY <1>2, <1>5, <1>6 DEF PlacesInv
<1>8. CASE BeginDestroy(t)
  <2>1. /\ pc[t] = "idle" /\ state = "alive" /\ state' = "destroying"
        /\ pc'[t] = "walk" /\ loaded'[t] = available
    BY <1>8 DEF BeginDestroy, Idle, Goto, PoolTypeOK
  <2>2. FreeListInv'
    BY <1>2, <1>5, <2>1 DEF FreeListInv
  <2>3. LocalInv'
    BY <1>1, <1>5, <2>1 DEF LocalInv, FreeListInv
  <2> QED BY <1>4, <1>7, <2>2, <2>3
<1>9. CASE EndDestroy(t)
  <2>1. /\ pc[t] = "walk" /\ loaded[t] = NoBlock /\ state' = "gone" /\ pc'[t] = "idle"
    BY <1>9 DEF EndDestroy, Goto, PoolTypeOK
  <2>2. stack = <<>>
    BY <2>1, FirstIsBlock, MemoryAssumption DEF LocalInv
  <2>3. FreeListInv'
    BY <1>2, <2>1, <2>2 DEF FreeListInv
  <2>4. LocalInv'
    BY <1>1, <2>1 DEF LocalInv
  <2> QED BY <1>4, <1>7, <2>3, <2>4
<1> QED BY <1>8, <1>9

\* Each turn of the walk gives one free block back to the C library.
LEMMA WalkKeeps ==
  ASSUME PoolIndInv, OneThread, NEW t \in Threads, Walk(t)
  PROVE  PoolIndInv'
<1> USE DEF PoolIndInv
<1>1. \A s \in Threads : s = t
  BY DEF OneThread
<1>2. /\ pc[t] = "walk" /\ loaded[t] \in Blocks /\ loaded[t] = StackAt(1)
      /\ state = "destroying"
      /\ loaded' = [loaded EXCEPT ![t] = link[StackAt(1)]]
      /\ system' = system \cup {StackAt(1)}
      /\ stack' = SubSeq(stack, 2, Len(stack))
      /\ UNCHANGED <<available, link, users, pc, ptr, state>>
  BY DEF Walk, LocalInv
<1>3. stack # <<>>
  BY <1>2, FirstIsBlock, MemoryAssumption
<1>4. /\ stack' \in Seq(Blocks)
      /\ StackAt(1) \in Blocks
      /\ Stacked' = Stacked \ {StackAt(1)}
      /\ StackAt(1) \in Stacked
      /\ StackAt(1)' = StackAt(2)
      /\ link[StackAt(1)] = StackAt(2)
      /\ \A i, j \in DOMAIN stack' : stack'[i] = stack'[j] => i = j
      /\ \A i \in DOMAIN stack' : link[stack'[i]] = StackAt(i + 1)'
  BY <1>2, <1>3, StackLosesFirst
<1>5. PoolTypeOK' /\ OneUserPerBlock'
  BY <1>2, <1>4, FirstIsBlock DEF PoolTypeOK, OneUserPerBlock
<1>6. FreeListInv'
  BY <1>2, <1>4 DEF FreeListInv
<1>7. InTransit = {} /\ InTransit' = {} /\ InUse' = InUse
  BY <1>2, TransitOfOne DEF InUse
<1>8. PlacesInv'
  BY <1>2, <1>4, <1>7 DEF PlacesInv
<1>9. LocalInv'
  BY <1>1, <1>2, <1>4 DEF LocalInv, PoolTypeOK
<1> QED BY <1>5, <1>6, <1>8, <1>9

-------------------------------------------------------------------------------
\* CreateMemoryPool makes a pool with no free block.
LEMMA PoolInitInv == PoolInit => PoolIndInv
<1> SUFFICES ASSUME PoolInit PROVE PoolIndInv
  OBVIOUS
<1>1. stack = <<>> /\ Stacked = {} /\ InUse = {} /\ InTransit = {} /\ StackAt(1) = NoBlock
  BY DEF PoolInit, Stacked, InUse, InTransit, StackAt
<1>2. PoolTypeOK /\ OneUserPerBlock
  BY DEF PoolInit, PoolTypeOK, OneUserPerBlock
<1>3. FreeListInv /\ PlacesInv /\ LocalInv
  BY <1>1 DEF PoolInit, FreeListInv, PlacesInv, LocalInv
<1> QED BY <1>2, <1>3 DEF PoolIndInv

\* Every load and store of the one thread keeps the list and the places.
LEMMA PoolStepInv == ASSUME OneThread PROVE PoolIndInv /\ [PoolNext]_poolVars => PoolIndInv'
<1> SUFFICES ASSUME PoolIndInv, [PoolNext]_poolVars PROVE PoolIndInv'
  OBVIOUS
<1>1. CASE UNCHANGED poolVars
  <2>1. /\ \A i : StackAt(i)' = StackAt(i)
        /\ Stacked' = Stacked /\ InUse' = InUse /\ InTransit' = InTransit
    BY <1>1 DEF poolVars, Stacked, StackAt, InUse, InTransit
  <2>2. PoolTypeOK' /\ OneUserPerBlock'
    BY <1>1 DEF poolVars, PoolIndInv, PoolTypeOK, OneUserPerBlock
  <2>3. FreeListInv' /\ PlacesInv' /\ LocalInv'
    BY <1>1, <2>1 DEF poolVars, PoolIndInv, FreeListInv, PlacesInv, LocalInv
  <2> QED BY <2>2, <2>3 DEF PoolIndInv
<1>2. CASE PoolNext
  <2>1. ASSUME NEW t \in Allocators, Test(t) PROVE PoolIndInv'
    BY <2>1, LoadsKeep, MemoryAssumption
  <2>2. ASSUME NEW t \in Threads, Take(t) \/ LoadFirst(t) \/ Follow(t) PROVE PoolIndInv'
    BY <2>2, LoadsKeep
  <2>3. ASSUME NEW t \in Threads, Pop(t) \/ AskSystem(t) \/ Link(t) \/ Push(t)
        PROVE  PoolIndInv'
    BY <2>3, PopKeeps, AskSystemKeeps, LinkKeeps, PushKeeps
  <2>4. ASSUME NEW t \in Threads, BeginDestroy(t) \/ Walk(t) \/ EndDestroy(t)
        PROVE  PoolIndInv'
    BY <2>4, DestroyEndsKeep, WalkKeeps
  <2>5. ASSUME NEW t \in Threads, NEW b \in Blocks,
               LoadForFree(t, b) \/ FreeWithoutPool(t, b)
        PROVE  PoolIndInv'
    BY <2>5, LoadForFreeKeeps, FreeWithoutPoolKeeps
  <2> QED BY <1>2, <2>1, <2>2, <2>3, <2>4, <2>5 DEF PoolNext
<1> QED BY <1>1, <1>2

\* Used by one thread, the pool keeps its free list and every block accounted
\* for, at every load and store.
THEOREM PoolInvariance == ASSUME OneThread PROVE PoolSpec => []PoolIndInv
<1>1. PoolIndInv /\ [PoolNext]_poolVars => PoolIndInv'
  BY PoolStepInv
<1> QED BY PoolInitInv, <1>1, PTL DEF PoolSpec

\* Used by one thread, the pool never hands out a block that is in use.
THEOREM NoBlockShared == ASSUME OneThread PROVE PoolSpec => []OneUserPerBlock
<1>1. PoolIndInv => OneUserPerBlock
  BY DEF PoolIndInv
<1> QED BY <1>1, PoolInvariance, PTL

\* Used by one thread, Malloc only follows the link of a block that is free.
THEOREM NoWildLink == ASSUME OneThread PROVE PoolSpec => []FollowsFreeBlocks
<1>1. PoolIndInv => FollowsFreeBlocks
  <2> SUFFICES ASSUME PoolIndInv, NEW t \in Threads, pc[t] = "follow"
               PROVE  loaded[t] \in Blocks /\ users[loaded[t]] = 0 /\ loaded[t] \notin system
    BY DEF FollowsFreeBlocks
  <2>1. loaded[t] \in Stacked /\ loaded[t] \in Blocks
    BY FirstIsBlock DEF PoolIndInv, LocalInv
  <2> QED BY <2>1 DEF PoolIndInv, PlacesInv, InUse, PoolTypeOK
<1> QED BY <1>1, PoolInvariance, PTL

\* Used by one thread, the pool's destruction leaks no block of the free list.
THEOREM DestroyLeaksNothing == ASSUME OneThread PROVE PoolSpec => []DestroyReturnsAll
<1>1. PoolIndInv => DestroyReturnsAll
  <2> SUFFICES ASSUME PoolIndInv, state = "gone" PROVE system = Blocks \ InUse
    BY DEF DestroyReturnsAll
  <2>1. Stacked = {}
    BY DEF PoolIndInv, FreeListInv, Stacked
  <2>2. InTransit = {}
    <3>1. \A t \in Threads : pc[t] = "idle"
      BY DEF PoolIndInv, LocalInv
    <3> QED BY <3>1 DEF InTransit
  <2>3. InUse \subseteq Blocks
    BY DEF InUse
  <2> QED BY <2>1, <2>2, <2>3 DEF PoolIndInv, PlacesInv
<1> QED BY <1>1, PoolInvariance, PTL

\* To accept_func_cb and free_libev the pool is what Connections takes it for: a
\* call takes a block out of those nobody has, or puts one back that was taken.
FreeBlocks == Blocks \ InUse
TakesOrGivesOne ==
  \/ FreeBlocks' = FreeBlocks
  \/ \E w \in FreeBlocks : FreeBlocks' = FreeBlocks \ {w}
  \/ \E w \in Blocks \ FreeBlocks : FreeBlocks' = FreeBlocks \cup {w}
THEOREM PoolIsASet ==
  ASSUME OneThread
  PROVE  PoolSpec => FreeBlocks = Blocks /\ [][TakesOrGivesOne]_FreeBlocks
<1>1. PoolInit => FreeBlocks = Blocks
  BY DEF PoolInit, InUse, FreeBlocks
<1>2. ASSUME PoolIndInv, [PoolNext]_poolVars PROVE TakesOrGivesOne
  <2>1. users \in [Blocks -> Nat] /\ \A b \in Blocks : users[b] \in {0, 1}
    BY <1>2 DEF PoolIndInv, PoolTypeOK, OneUserPerBlock
  <2>2. CASE users' = users
    BY <2>2 DEF TakesOrGivesOne, FreeBlocks, InUse
  <2>3. ASSUME NEW b \in Blocks, users[b] = 0, users' = [users EXCEPT ![b] = @ + 1] PROVE TakesOrGivesOne
    <3>1. b \in FreeBlocks /\ FreeBlocks' = FreeBlocks \ {b}
      BY <2>1, <2>3 DEF FreeBlocks, InUse
    <3>. QED
      BY <3>1 DEF TakesOrGivesOne
  <2>4. ASSUME NEW b \in Blocks, users[b] > 0, users' = [users EXCEPT ![b] = @ - 1] PROVE TakesOrGivesOne
    <3>1. b \in Blocks \ FreeBlocks /\ FreeBlocks' = FreeBlocks \cup {b}
      BY <2>1, <2>4 DEF FreeBlocks, InUse
    <3>. QED
      BY <3>1 DEF TakesOrGivesOne
  <2>5. ASSUME NEW t \in Threads, Pop(t) PROVE TakesOrGivesOne
    <3>1. ptr[t] \in Blocks /\ users' = [users EXCEPT ![ptr[t]] = @ + 1] /\ pc[t] = "pop"
      BY <2>5 DEF Pop, HandOut
    <3>2. ptr[t] = StackAt(1) /\ stack # <<>>
      BY <1>2, <3>1 DEF PoolIndInv, LocalInv
    <3>3. ptr[t] \in Stacked
      BY <1>2, <3>2, FirstIsBlock DEF PoolIndInv
    <3>4. users[ptr[t]] = 0
      BY <1>2, <2>1, <3>1, <3>3 DEF PoolIndInv, PlacesInv, InUse
    <3>. QED
      BY <2>3, <3>1, <3>4
  <2>6. ASSUME NEW t \in Threads, AskSystem(t) PROVE TakesOrGivesOne
    <3>1. CASE users' = users
      BY <2>2, <3>1
    <3>2. CASE \E b \in system : users' = [users EXCEPT ![b] = @ + 1]
      <4>1. PICK b \in system : users' = [users EXCEPT ![b] = @ + 1]
        BY <3>2
      <4>2. b \in Blocks /\ users[b] = 0
        BY <1>2, <2>1, <4>1 DEF PoolIndInv, PoolTypeOK, PlacesInv, InUse
      <4>. QED
        BY <2>3, <4>1, <4>2
    <3>. QED
      BY <2>6, <3>1, <3>2 DEF AskSystem, HandOut
  <2>7. ASSUME NEW t \in Threads, NEW b \in Blocks, LoadForFree(t, b) \/ FreeWithoutPool(t, b)
        PROVE  TakesOrGivesOne
    BY <2>4, <2>7 DEF LoadForFree, FreeWithoutPool
  <2>8. ASSUME NEW t \in Threads,
               \/ Test(t) \/ Take(t) \/ LoadFirst(t) \/ Follow(t) \/ Link(t)
               \/ Push(t) \/ BeginDestroy(t) \/ Walk(t) \/ EndDestroy(t)
        PROVE  TakesOrGivesOne
    BY <2>2, <2>8 DEF Test, Take, LoadFirst, Follow, Link, Push,
       BeginDestroy, Walk, EndDestroy
  <2>9. CASE UNCHANGED poolVars
    BY <2>2, <2>9 DEF poolVars
  <2>. QED
    BY <1>2, <2>5, <2>6, <2>7, <2>8, <2>9, MemoryAssumption DEF PoolNext
<1>3. PoolIndInv /\ [PoolNext]_poolVars => [TakesOrGivesOne]_FreeBlocks
  BY <1>2
<1>. QED
  BY PoolInvariance, <1>1, <1>3, PTL DEF PoolSpec
===============================================================================
