------------------------------- MODULE EvSelect -------------------------------
(***************************************************************************)
(* ev_select.c: two bit sets tell select what to wait for.  A descriptor    *)
(* that is not open makes the whole call fail.                              *)
(***************************************************************************)
EXTENDS EvFd

SelectInit == [ri |-> {}, wi |-> {}]

SelectModify(l, p, fd, oev, nev) ==
  [l |-> l,
   p |-> IF oev = nev THEN p
         ELSE [ri |-> IF "read" \in nev THEN p.ri \cup {fd} ELSE p.ri \ {fd},
               wi |-> IF "write" \in nev THEN p.wi \cup {fd} ELSE p.wi \ {fd}]]

SelectMask(p, fd) == (IF fd \in p.ri THEN {"read"} ELSE {}) \cup (IF fd \in p.wi THEN {"write"} ELSE {})

\* One pass over vec_ro and vec_wo: an event per descriptor with a bit left.
SelectReports(p) ==
  IF \E fd \in p.ri \cup p.wi : ~IsOpen(fd) THEN {Failure("ebadf", 0)}
  ELSE {Event(fd, file[fd], SelectMask(p, fd) \cap ReadyFor(file[fd]), TRUE) :
          fd \in {n \in p.ri \cup p.wi : SelectMask(p, n) \cap ReadyFor(file[n]) # {}}}

SelectHandle(l, p, e) ==
  [p |-> p,
   l |-> CASE e.tag = "ebadf"  -> FdEbadf(l)
           [] e.tag = "enomem" -> FdEnomem(l)
           [] e.tag = "event"  -> FdEvent(l, e.fd, e.got)]
=============================================================================
