-------------------------------- MODULE EvFd ----------------------------------
(***************************************************************************)
(* ev.c: the descriptor layer of an event loop, below every backend.        *)
(* ev_io watchers hang off anfds[fd]; a change of a watcher only marks its   *)
(* descriptor (fd_change), and the next iteration tells the backend          *)
(* (fd_reify).  EvSelect, EvPoll, EvEpoll, EvPort and EvKqueue have the      *)
(* backends, EvBackends puts them together.                                  *)
(*                                                                          *)
(* The lists of watchers are sets here: no property depends on their order. *)
(* A file is an open file description; it may stay open elsewhere (a dup, a  *)
(* forked process) when the last descriptor of this process is closed.       *)
(***************************************************************************)
EXTENDS Integers, Sequences, FiniteSets

CONSTANTS
  NFds,        \* descriptors 0 .. NFds - 1
  Files,       \* open file descriptions
  Unpollable,  \* those of them epoll refuses with EPERM: always ready
  Watchers,    \* ev_io watchers
  EventSets,   \* the event masks they are set to
  ReadySets,   \* what a file may become ready for
  MaxOps,      \* bound on the operations of the user and the kernel's peers
  NoFile

ASSUME EvFdAssumption ==
  /\ NFds \in Nat \ {0} /\ MaxOps \in Nat
  /\ Unpollable \subseteq Files /\ NoFile \notin Files
  /\ EventSets \subseteq (SUBSET {"read", "write"}) \ {{}}
  /\ ReadySets \subseteq SUBSET {"read", "write"}

VARIABLES
  backend,     \* which backend loop_init chose
  loop,        \* struct ev_loop: anfds, fdchanges, postfork; the watchers' active and pending
  poller,      \* the backend's own part of it, and the interest set in the kernel
  watcher,     \* w->fd and w->events
  honest,      \* history: watchers whose descriptor was not closed since ev_io_set
  phase,       \* where ev_run is
  batch,       \* what the kernel returned and the backend has not handled yet
  file,        \* kernel: the file behind each descriptor
  elsewhere,   \* kernel: files that other descriptors or processes keep open
  ready,       \* kernel: what each file is ready for
  ops          \* history: how many operations of MaxOps are used up

vars == <<backend, loop, poller, watcher, honest, phase, batch, file, elsewhere, ready, ops>>

Fds == 0 .. NFds - 1
IsOpen(fd) == file[fd] # NoFile
ReadyFor(f) == IF f \in Unpollable THEN {"read", "write"} ELSE ready[f]

\* An event of the kernel, and an error it reports instead.
Event(fd, f, got, current) == [tag |-> "event", fd |-> fd, file |-> f, got |-> got, current |-> current]
Failure(tag, fd) == [tag |-> tag, fd |-> fd, file |-> NoFile, got |-> {}, current |-> TRUE]

Watching(l, fd) == {w \in l.active : watcher[w].fd = fd}
Wanted(l, fd) == UNION {watcher[w].events : w \in Watching(l, fd)}

LoopInit ==
  [events |-> [fd \in Fds |-> {}], reify |-> [fd \in Fds |-> {}],
   emask |-> [fd \in Fds |-> {}], changes |-> <<>>, postfork |-> FALSE,
   active |-> {}, pending |-> [w \in Watchers |-> {}]]

-------------------------------------------------------------------------------
(* Operators on struct ev_loop, one per function of ev.c *)

FeedEvent(l, w, revents) == [l EXCEPT !.pending[w] = @ \cup revents]

FdEventNocheck(l, fd, revents) ==
  [l EXCEPT !.pending = [w \in Watchers |->
     IF w \in Watching(l, fd) THEN @[w] \cup (watcher[w].events \cap revents) ELSE @[w]]]

\* Events for a descriptor that changed while the kernel was polling are dropped.
FdEvent(l, fd, revents) ==
  IF l.reify[fd] = {} THEN FdEventNocheck(l, fd, revents) ELSE l

FdChange(l, fd, flags) ==
  [l EXCEPT !.reify[fd] = @ \cup flags,
            !.changes = IF l.reify[fd] = {} THEN Append(@, fd) ELSE @]

IoStart(l, w, fd, flags) == FdChange([l EXCEPT !.active = @ \cup {w}], fd, flags)

IoStop(l, w) ==
  LET cleared == [l EXCEPT !.pending[w] = {}]
  IN  IF w \in l.active
      THEN FdChange([cleared EXCEPT !.active = @ \ {w}], watcher[w].fd, {"reify"})
      ELSE cleared

\* Each watcher of the descriptor is stopped and told.
FdKill(l, fd) ==
  LET killed == Watching(l, fd)
      told == [l EXCEPT !.active = @ \ killed,
                        !.pending = [w \in Watchers |->
                           IF w \in killed THEN {"error", "read", "write"} ELSE @[w]]]
  IN  IF killed = {} THEN l ELSE FdChange(told, fd, {"reify"})

\* fd_rearm_all: the descriptors in use are started again, from the lowest on
FdRearmAll(l) ==
  LET rearmed[n \in 0 .. NFds] ==
        IF n = 0 THEN l
        ELSE IF rearmed[n - 1].events[n - 1] = {} THEN rearmed[n - 1]
        ELSE FdChange([rearmed[n - 1] EXCEPT !.events[n - 1] = {}, !.emask[n - 1] = {}],
                      n - 1, {"iofdset", "reify"})
  IN  rearmed[NFds]

\* fd_ebadf: kills every descriptor that is not open any more
FdEbadf(l) ==
  LET checked[n \in 0 .. NFds] ==
        IF n = 0 THEN l
        ELSE IF checked[n - 1].events[n - 1] = {} \/ IsOpen(n - 1) THEN checked[n - 1]
        ELSE FdKill(checked[n - 1], n - 1)
  IN  checked[NFds]

\* fd_enomem: kills the highest descriptor that is in use
FdEnomem(l) ==
  LET used == {fd \in Fds : l.events[fd] # {}}
  IN  IF used = {} THEN l
      ELSE FdKill(l, CHOOSE fd \in used : \A other \in used : other <= fd)

\* fd_reify: the head of fdchanges is done with; its events are those of its
\* watchers.  A descriptor killed on the way is appended, and comes up again.
Reified(l) ==
  LET fd == Head(l.changes)
  IN  [l EXCEPT !.changes = Tail(@), !.reify[fd] = {}, !.events[fd] = Wanted(l, fd)]

MustModifyIfChanged(l) == l.events[Head(l.changes)] # Wanted(l, Head(l.changes))   \* mutant

\* backend_modify is called when the events or the descriptor itself changed.
MustModify(l) ==
  LET fd == Head(l.changes)
  IN  l.events[fd] # Wanted(l, fd) \/ "iofdset" \in l.reify[fd]
=============================================================================
