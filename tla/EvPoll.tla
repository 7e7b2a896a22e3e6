-------------------------------- MODULE EvPoll --------------------------------
(***************************************************************************)
(* ev_poll.c: an array of pollfds without gaps, and pollidxs, which says     *)
(* where in it a descriptor is.  The last one moves into a gap.  polls is    *)
(* indexed from 0, as in the code.                                          *)
(***************************************************************************)
EXTENDS EvFd

PollInit == [polls |-> <<>>, idx |-> [fd \in Fds |-> -1]]

PollCnt(p) == Len(p.polls)
At(p, i) == p.polls[i + 1]

Shortened(p) == SubSeq(p.polls, 1, PollCnt(p) - 1)

RemovedUnindexed(p, fd) ==                                \* mutant
  LET idx == p.idx[fd]
  IN  [polls |-> IF idx < PollCnt(p) - 1 THEN [Shortened(p) EXCEPT ![idx + 1] = At(p, PollCnt(p) - 1)]
                 ELSE Shortened(p),
       idx |-> [p.idx EXCEPT ![fd] = -1]]

\* The last pollfd moves to the place of fd.
Removed(p, fd) ==
  LET idx == p.idx[fd]
      last == At(p, PollCnt(p) - 1)
      gone == [p.idx EXCEPT ![fd] = -1]
  IN  IF idx < PollCnt(p) - 1
      THEN [polls |-> [Shortened(p) EXCEPT ![idx + 1] = last], idx |-> [gone EXCEPT ![last.fd] = idx]]
      ELSE [polls |-> Shortened(p), idx |-> gone]

PollModify(l, p, fd, oev, nev) ==
  LET q == IF p.idx[fd] >= 0 THEN p
           ELSE [polls |-> Append(p.polls, [fd |-> fd, events |-> {}]), idx |-> [p.idx EXCEPT ![fd] = PollCnt(p)]]
  IN  [l |-> l,
       p |-> IF oev = nev THEN p
             ELSE IF nev # {} THEN [q EXCEPT !.polls[q.idx[fd] + 1].events = nev]
             ELSE Removed(q, fd)]

\* POLLNVAL for a descriptor that is not open
PollReports(p) ==
  LET entries == {p.polls[i] : i \in DOMAIN p.polls}
  IN  {Failure("nval", e.fd) : e \in {n \in entries : ~IsOpen(n.fd)}} \cup
      {Event(e.fd, file[e.fd], e.events \cap ReadyFor(file[e.fd]), TRUE) :
         e \in {n \in entries : IsOpen(n.fd) /\ n.events \cap ReadyFor(file[n.fd]) # {}}}

PollHandle(l, p, e) ==
  [p |-> p,
   l |-> CASE e.tag = "nval"   -> FdKill(l, e.fd)
           [] e.tag = "enomem" -> FdEnomem(l)
           [] e.tag = "event"  -> FdEvent(l, e.fd, e.got)]

\* pollidxs and polls agree; a descriptor has one pollfd if it wants events.
PollsIndexed(l, p) ==
  /\ \A i \in 0 .. PollCnt(p) - 1 : p.idx[At(p, i).fd] = i
  /\ \A fd \in Fds : (p.idx[fd] >= 0) = (l.events[fd] # {})
  /\ \A fd \in Fds : p.idx[fd] >= 0 =>
       /\ p.idx[fd] < PollCnt(p)
       /\ At(p, p.idx[fd]) = [fd |-> fd, events |-> l.events[fd]]
=============================================================================
