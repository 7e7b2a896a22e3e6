------------------------------ MODULE EvBackends ------------------------------
(***************************************************************************)
(* ev_io watchers over each of the five backends: the user starts and stops *)
(* watchers, opens and closes descriptors and forks; files become ready;    *)
(* ev_run reifies, waits, and feeds what the kernel returned.  While the    *)
(* loop waits, and until it has its lock back (EV_ACQUIRE_CB), another       *)
(* thread may call the library.                                             *)
(*                                                                          *)
(* A descriptor is opened with a file that is new: that a dup comes back to *)
(* the number it was closed under is a case ev.pod excludes.                *)
(***************************************************************************)
EXTENDS EvSelect, EvPoll, EvEpoll, EvPort, EvKqueue

CONSTANTS
  Backends,    \* those compiled in
  FirstFiles   \* what the descriptors may be at the start, each with a file of its own

ASSUME BackendsAssumption ==
  /\ Backends \subseteq {"select", "poll", "epoll", "port", "kqueue"}
  /\ FirstFiles \subseteq [Fds -> Files \cup {NoFile}]
  /\ \A first \in FirstFiles : \A fd, other \in Fds :
       first[fd] = first[other] => fd = other \/ first[fd] = NoFile

Modify(l, p, fd, oev, nev) ==
  CASE backend = "select" -> SelectModify(l, p, fd, oev, nev)
    [] backend = "poll"   -> PollModify(l, p, fd, oev, nev)
    [] backend = "epoll"  -> EpollModify(l, p, fd, oev, nev)
    [] backend = "port"   -> PortModify(l, p, fd, oev, nev)
    [] backend = "kqueue" -> KqueueModify(l, p, fd, oev, nev)

Reports ==
  CASE backend = "select" -> SelectReports(poller)
    [] backend = "poll"   -> PollReports(poller)
    [] backend = "epoll"  -> EpollReports(poller)
    [] backend = "port"   -> PortReports(poller)
    [] backend = "kqueue" -> KqueueReports(poller)

HandleEvent(e) ==
  CASE backend = "select" -> SelectHandle(loop, poller, e)
    [] backend = "poll"   -> PollHandle(loop, poller, e)
    [] backend = "epoll"  -> EpollHandle(loop, poller, e)
    [] backend = "port"   -> PortHandle(loop, poller, e)
    [] backend = "kqueue" -> KqueueHandle(loop, poller, e)

\* backend_fork, in loop_fork
Forked(l, p) ==
  CASE backend = "epoll"  -> EpollFork(l, p)
    [] backend = "port"   -> PortFork(l, p)
    [] backend = "kqueue" -> KqueueFork(l, p)
    [] backend \in {"select", "poll"} -> [l |-> l, p |-> p]

\* The kernel's side of close: f is the file, and whether it is open elsewhere.
Closed(p, fd, f) ==
  CASE backend = "epoll"  -> IF f \in elsewhere THEN p ELSE EpollClosed(p, f)
    [] backend = "port"   -> PortClosed(p, fd)
    [] backend = "kqueue" -> KqueueClosed(p, fd)
    [] backend \in {"select", "poll"} -> p

\* loop_init: the backend, and its xxx_init
Init ==
  /\ backend \in Backends
  /\ loop = LoopInit
  /\ poller = CASE backend = "select" -> SelectInit
                [] backend = "poll"   -> PollInit
                [] backend = "epoll"  -> EpollInit
                [] backend = "port"   -> PortInit
                [] backend = "kqueue" -> KqueueInit
  /\ watcher = [w \in Watchers |-> [fd |-> -1, events |-> {}]]
  /\ honest = {} /\ phase = "user" /\ batch = {} /\ ops = 0
  /\ file \in FirstFiles
  /\ \/ elsewhere = {} /\ ready = [f \in Files |-> {}]
     \/ /\ elsewhere = {file[0]} \ {NoFile}      \* inherited, and ready
        /\ ready = [f \in Files |-> IF f \in elsewhere \ Unpollable THEN {"read"} ELSE {}]

-------------------------------------------------------------------------------
(* The loop *)

RunIteration ==
  /\ phase = "user" /\ \A w \in Watchers : loop.pending[w] = {}
  /\ LET forked == IF loop.postfork THEN Forked(loop, poller) ELSE [l |-> loop, p |-> poller]
     IN  loop' = [forked.l EXCEPT !.postfork = FALSE] /\ poller' = forked.p
  /\ phase' = "reify"
  /\ UNCHANGED <<backend, watcher, honest, batch, file, elsewhere, ready, ops>>

\* One descriptor of fdchanges
FdReify ==
  /\ phase = "reify" /\ loop.changes # <<>>
  /\ LET fd == Head(loop.changes)
         l == Reified(loop)
         modified == IF MustModify(loop) THEN Modify(l, poller, fd, loop.events[fd], l.events[fd])
                     ELSE [l |-> l, p |-> poller]
     IN  loop' = modified.l /\ poller' = modified.p
  /\ UNCHANGED <<backend, watcher, honest, phase, batch, file, elsewhere, ready, ops>>

\* backend_poll, as far as the wait
Block ==
  /\ phase = "reify" /\ loop.changes = <<>>
  /\ IF backend = "kqueue"
     THEN poller' = KqueueSubmit(poller).p /\ batch' = KqueueSubmit(poller).errors
     ELSE UNCHANGED <<poller, batch>>
  /\ phase' = "blocked"
  /\ UNCHANGED <<backend, loop, watcher, honest, file, elsewhere, ready, ops>>

\* The wait ends: with errors, with events, or with neither (a timeout, a signal).
Return ==
  /\ phase = "blocked"
  /\ batch' = batch \cup Reports
  /\ poller' = IF backend = "port" THEN [interest |-> poller.interest \ PortFires(poller)] ELSE poller
  /\ phase' = "returned"
  /\ UNCHANGED <<backend, loop, watcher, honest, file, elsewhere, ready, ops>>

\* ENOMEM of select and poll
ReturnNoMemory ==
  /\ phase = "blocked" /\ backend \in {"select", "poll"} /\ ops < MaxOps
  /\ batch' = {Failure("enomem", 0)}
  /\ phase' = "returned" /\ ops' = ops + 1
  /\ UNCHANGED <<backend, loop, poller, watcher, honest, file, elsewhere, ready>>

\* EV_ACQUIRE_CB
Acquire ==
  /\ phase = "returned"
  /\ phase' = "handle"
  /\ UNCHANGED <<backend, loop, poller, watcher, honest, batch, file, elsewhere, ready, ops>>

Handle(e) ==
  /\ phase = "handle" /\ e \in batch
  /\ loop' = HandleEvent(e).l /\ poller' = HandleEvent(e).p
  /\ batch' = batch \ {e}
  /\ UNCHANGED <<backend, watcher, honest, phase, file, elsewhere, ready, ops>>

PollReturns ==
  /\ phase = "handle" /\ batch = {}
  /\ IF backend = "epoll"
     THEN loop' = EpollPerms(loop, poller).l /\ poller' = EpollPerms(loop, poller).p
     ELSE UNCHANGED <<loop, poller>>
  /\ phase' = "user"
  /\ UNCHANGED <<backend, watcher, honest, batch, file, elsewhere, ready, ops>>

\* ev_invoke_pending: the callback of one watcher
Invoke(w) ==
  /\ phase = "user" /\ loop.pending[w] # {}
  /\ loop' = [loop EXCEPT !.pending[w] = {}]
  /\ UNCHANGED <<backend, poller, watcher, honest, phase, batch, file, elsewhere, ready, ops>>

-------------------------------------------------------------------------------
(* The user: in callbacks, or in another thread while the loop has no lock *)

Unlocked == phase \in {"user", "blocked", "returned"}
Acts == ops < MaxOps /\ ops' = ops + 1

\* ev_io_set and ev_io_start
Start(w, fd, events) ==
  /\ Unlocked /\ Acts /\ w \notin loop.active
  /\ watcher' = [watcher EXCEPT ![w] = [fd |-> fd, events |-> events]]
  /\ honest' = IF IsOpen(fd) THEN honest \cup {w} ELSE honest \ {w}
  /\ loop' = IoStart(loop, w, fd, {"iofdset", "reify"})
  /\ UNCHANGED <<backend, poller, phase, batch, file, elsewhere, ready>>

\* ev_io_start of a watcher that was set before
Restart(w) ==
  /\ Unlocked /\ Acts /\ w \notin loop.active /\ watcher[w].fd >= 0
  /\ loop' = IoStart(loop, w, watcher[w].fd, {"reify"})
  /\ UNCHANGED <<backend, poller, watcher, honest, phase, batch, file, elsewhere, ready>>

Stop(w) ==
  /\ Unlocked /\ Acts /\ w \in loop.active
  /\ loop' = IoStop(loop, w)
  /\ UNCHANGED <<backend, poller, watcher, honest, phase, batch, file, elsewhere, ready>>

\* The lowest free descriptor, and a file no trace is left of
Open(f) ==
  /\ Unlocked /\ Acts
  /\ f \notin elsewhere /\ \A e \in batch : e.file # f
  /\ \A fd \in Fds : file[fd] # f
  /\ \E fd \in Fds : ~IsOpen(fd) /\ (\A n \in 0 .. fd - 1 : IsOpen(n)) /\ file' = [file EXCEPT ![fd] = f]
  /\ ready' = [ready EXCEPT ![f] = {}]
  /\ UNCHANGED <<backend, loop, poller, watcher, honest, phase, batch, elsewhere>>

Close(fd) ==
  /\ Unlocked /\ Acts /\ IsOpen(fd)
  /\ file' = [file EXCEPT ![fd] = NoFile]
  /\ poller' = Closed(poller, fd, file[fd])
  /\ honest' = {w \in honest : watcher[w].fd # fd}
  /\ UNCHANGED <<backend, loop, watcher, phase, batch, elsewhere, ready>>

\* fork, and ev_loop_fork in the child, which is the process followed here
Fork ==
  /\ phase = "user" /\ Acts /\ ~loop.postfork
  /\ elsewhere' = elsewhere \cup {file[fd] : fd \in {n \in Fds : IsOpen(n)}}
  /\ poller' = IF backend = "kqueue" THEN [poller EXCEPT !.interest = {}] ELSE poller
  /\ loop' = [loop EXCEPT !.postfork = TRUE]
  /\ UNCHANGED <<backend, watcher, honest, phase, batch, file, ready>>

\* The other process closes its descriptors of a file.
ReleaseElsewhere(f) ==
  /\ phase \in {"user", "blocked"} /\ Acts /\ f \in elsewhere
  /\ elsewhere' = elsewhere \ {f}
  /\ poller' = IF backend = "epoll" /\ \A fd \in Fds : file[fd] # f
               THEN EpollClosed(poller, f) ELSE poller
  /\ UNCHANGED <<backend, loop, watcher, honest, phase, batch, file, ready>>

\* dup: another descriptor, outside Fds, for the file
KeepElsewhere(f) ==
  /\ phase = "user" /\ Acts /\ f \notin elsewhere /\ \E fd \in Fds : file[fd] = f
  /\ elsewhere' = elsewhere \cup {f}
  /\ UNCHANGED <<backend, loop, poller, watcher, honest, phase, batch, file, ready>>

\* The other end of the file writes, reads or closes; or someone drains it.
\* Only the end of the wait looks at it, so it may as well happen in the wait.
Readiness(f, mask) ==
  /\ phase = "blocked" /\ Acts /\ f \notin Unpollable /\ ready[f] # mask
  /\ f \in elsewhere \/ \E fd \in Fds : file[fd] = f
  /\ ready' = [ready EXCEPT ![f] = mask]
  /\ UNCHANGED <<backend, loop, poller, watcher, honest, phase, batch, file, elsewhere>>

LoopNext ==
  \/ RunIteration \/ FdReify \/ Block \/ Return \/ Acquire \/ PollReturns
  \/ \E e \in batch : Handle(e)
  \/ \E w \in Watchers : Invoke(w)

UserNext ==
  \/ \E w \in Watchers, fd \in Fds, events \in EventSets : Start(w, fd, events)
  \/ \E w \in Watchers : Restart(w) \/ Stop(w)
  \/ \E f \in Files : Open(f) \/ ReleaseElsewhere(f) \/ KeepElsewhere(f)
  \/ \E fd \in Fds : Close(fd)
  \/ \E f \in Files, mask \in ReadySets : Readiness(f, mask)
  \/ Fork \/ ReturnNoMemory

Next == LoopNext \/ UserNext

Spec == Init /\ [][Next]_vars /\ WF_vars(LoopNext)
-------------------------------------------------------------------------------
(* Properties *)

\* The descriptors to reify are exactly those marked, each once; a descriptor
\* whose events are not those of its watchers is marked; and poll's index and
\* array agree.  A fd_change, a swap or a kill at the wrong place breaks it.
TablesAgree ==
  /\ backend \in Backends /\ phase \in {"user", "reify", "blocked", "returned", "handle"}
  /\ {loop.changes[i] : i \in DOMAIN loop.changes} = {fd \in Fds : loop.reify[fd] # {}}
  /\ \A i, j \in DOMAIN loop.changes : i # j => loop.changes[i] # loop.changes[j]
  /\ \A fd \in Fds : loop.events[fd] # Wanted(loop, fd) => loop.reify[fd] # {}
  /\ backend = "poll" => PollsIndexed(loop, poller)

\* What the backend would report of the file behind a descriptor.
Interest(fd) ==
  CASE backend = "select" -> SelectMask(poller, fd)
    [] backend = "poll"   -> IF poller.idx[fd] >= 0 THEN At(poller, poller.idx[fd]).events ELSE {}
    [] backend = "epoll"  -> IF fd \in poller.eperms THEN {"read", "write"}
                             ELSE UNION {e.mask : e \in {n \in Mine(poller, fd) : n.current}}
    [] backend = "port"   -> UNION {a.mask : a \in {n \in poller.interest : n.fd = fd /\ n.file = file[fd]}}
    [] backend = "kqueue" -> {k.filter : k \in {n \in poller.interest : n.fd = fd /\ n.file = file[fd]}}

\* A file that epoll refuses is lost once it was stopped, a poll has taken it off
\* epoll_eperms, and it is started again: emask says that it is still there.
TakenOff(w) ==
  LET fd == watcher[w].fd
  IN  backend = "epoll" /\ file[fd] \in Unpollable /\ loop.emask[fd] = EPERM /\ fd \notin poller.eperms

\* When the loop begins to wait, the kernel watches the present file of every
\* active watcher for its events, although closes are not announced, epoll_ctl
\* calls are saved by guessing, and a fork replaces the set (fd_reify,
\* xxx_modify, loop_fork).  A watcher whose descriptor was closed under it is
\* the user's error.
NobodyDeaf ==
  phase = "blocked" =>
    \A w \in loop.active \cap honest :
      loop.reify[watcher[w].fd] = {} /\ ~TakenOff(w) => watcher[w].events \subseteq Interest(watcher[w].fd)

\* A watcher is told only what the kernel said of the file that is behind its
\* descriptor now, not of one that had the number before, and is not killed
\* (EV_ERROR) while its descriptor is good, but by an ENOMEM of select or poll, or
\* when the descriptor was closed as poll looked (fd_event, the generation counter
\* of epoll_poll, fd_kill).
ToldOfItsFile ==
  [][\A w \in honest : loop'.pending[w] # loop.pending[w] /\ loop'.pending[w] # {} =>
       LET news == loop'.pending[w] \ loop.pending[w]
           f == file[watcher[w].fd]
           said == {e \in batch : e.file = f}
       IN  \/ news \subseteq UNION {e.got : e \in said}
           \/ f \in Unpollable /\ news \subseteq watcher[w].events
           \/ \E e \in batch : e.tag = "enomem" \/ e = Failure("nval", watcher[w].fd)]_vars

\* A watcher whose file stays ready for it is called in the end, unless it is
\* stopped or its descriptor closed: ev_io is level triggered.
Waiting(w) ==
  /\ w \in loop.active \cap honest /\ ~TakenOff(w)
  /\ watcher[w].events \cap ReadyFor(file[watcher[w].fd]) # {}
ReadyIsTold == \A w \in Watchers : []<>(Waiting(w) => loop.pending[w] # {})
=============================================================================
