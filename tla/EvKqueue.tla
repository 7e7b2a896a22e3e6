------------------------------- MODULE EvKqueue -------------------------------
(***************************************************************************)
(* ev_kqueue.c: changes are collected and handed to the kernel with the     *)
(* next kevent call, which answers a bad one with an EV_ERROR event.  A     *)
(* filter is gone when its descriptor is closed.                            *)
(***************************************************************************)
EXTENDS EvFd

KqueueInit == [interest |-> {}, changes |-> <<>>]

Change(fd, filter, flag) == [fd |-> fd, filter |-> filter, flag |-> flag]
\* the changes of one flag for a mask, reading first
ChangesFor(fd, mask, flag) ==
  (IF "read" \in mask THEN <<Change(fd, "read", flag)>> ELSE <<>>) \o
  (IF "write" \in mask THEN <<Change(fd, "write", flag)>> ELSE <<>>)

KqueueModify(l, p, fd, oev, nev) ==
  [l |-> l,
   p |-> [p EXCEPT !.changes = @ \o (IF oev # nev THEN ChangesFor(fd, oev, "delete") ELSE <<>>)
                                 \o ChangesFor(fd, nev, "add")]]

\* What the kernel makes of one change.
Applied(s, c) ==
  LET filter == [fd |-> c.fd, file |-> file[c.fd], filter |-> c.filter]
  IN  CASE ~IsOpen(c.fd) ->
             [s EXCEPT !.errors = @ \cup {Failure("ebadf", c.fd)}]
        [] IsOpen(c.fd) /\ c.flag = "add" ->
             [s EXCEPT !.interest = @ \cup {filter}]
        [] IsOpen(c.fd) /\ c.flag = "delete" /\ filter \in s.interest ->
             [s EXCEPT !.interest = @ \ {filter}]
        [] IsOpen(c.fd) /\ c.flag = "delete" /\ filter \notin s.interest ->
             [s EXCEPT !.errors = @ \cup {Failure("enoent", c.fd)}]

\* kevent, up to its wait
KqueueSubmit(p) ==
  LET done[i \in 0 .. Len(p.changes)] ==
        IF i = 0 THEN [interest |-> p.interest, errors |-> {}]
        ELSE Applied(done[i - 1], p.changes[i])
      last == done[Len(p.changes)]
  IN  [p |-> [interest |-> last.interest, changes |-> <<>>], errors |-> last.errors]

KqueueReports(p) ==
  {Event(k.fd, k.file, {k.filter}, TRUE) : k \in {n \in p.interest : n.filter \in ReadyFor(n.file)}}

KqueueHandle(l, p, e) ==
  CASE e.tag = "event" ->
         [l |-> FdEvent(l, e.fd, e.got), p |-> p]
    [] e.tag # "event" /\ l.events[e.fd] = {} ->
         [l |-> l, p |-> p]
    [] e.tag # "event" /\ l.events[e.fd] # {} /\ (e.tag = "enoent" \/ IsOpen(e.fd)) ->
         KqueueModify(l, p, e.fd, {}, l.events[e.fd])
    [] e.tag = "ebadf" /\ l.events[e.fd] # {} /\ ~IsOpen(e.fd) ->
         [l |-> FdKill(l, e.fd), p |-> p]

KqueueFork(l, p) == [l |-> FdRearmAll(l), p |-> [p EXCEPT !.interest = {}]]

KqueueClosed(p, fd) == [p EXCEPT !.interest = {k \in @ : k.fd # fd}]
=============================================================================
