-------------------------------- MODULE EvEpoll -------------------------------
(***************************************************************************)
(* ev_epoll.c.  The kernel's set has one entry per descriptor and file, and *)
(* keeps it until the file is closed everywhere; libev never removes one.   *)
(* It tells its own entries from stale ones by a generation counter, of     *)
(* which only this matters here: whether an entry has the counter the       *)
(* descriptor has now (current).                                            *)
(***************************************************************************)
EXTENDS EvFd

EpollInit == [interest |-> {}, eperms |-> {}]

EPERM == {"eperm"}                                        \* EV_EMASK_EPERM
Entry(fd, f, mask, current) == [fd |-> fd, file |-> f, mask |-> mask, current |-> current]
Mine(p, fd) == {e \in p.interest : e.fd = fd /\ e.file = file[fd]}

AgedNever(p, fd) == p.interest                            \* mutant

\* ++egen: what is in the kernel for the descriptor is stale from here on.
Aged(p, fd) == {IF e.fd = fd THEN [e EXCEPT !.current = FALSE] ELSE e : e \in p.interest}

\* epoll_ctl ADD or MOD in the end: one entry, with the new mask
Registered(p, fd, mask) ==
  [p EXCEPT !.interest = (Aged(p, fd) \ {e \in Aged(p, fd) : e.fd = fd /\ e.file = file[fd]})
                            \cup {Entry(fd, file[fd], mask, TRUE)}]

EpollModify(l, p, fd, oev, nev) ==
  LET oldmask == l.emask[fd]
      masked == [l EXCEPT !.emask[fd] = nev]
      snobbish == [l EXCEPT !.emask[fd] = EPERM]
  IN  CASE nev = {} ->                       \* the fd is assumed to be gone
             [l |-> l, p |-> p]
        [] nev # {} /\ ~IsOpen(fd) ->        \* EBADF; the counter is taken back
             [l |-> FdKill(masked, fd), p |-> p]
        [] nev # {} /\ file[fd] \in Unpollable ->
             [l |-> snobbish,
              p |-> [interest |-> Aged(p, fd),
                     eperms |-> IF oldmask = EPERM THEN p.eperms ELSE p.eperms \cup {fd}]]
        [] nev # {} /\ IsOpen(fd) /\ file[fd] \notin Unpollable ->
             [l |-> masked,                  \* EEXIST with the mask it had: nothing to do
              p |-> IF Mine(p, fd) # {} /\ oldmask = nev THEN p ELSE Registered(p, fd, nev)]

EpollReports(p) ==
  {Event(e.fd, e.file, e.mask \cap ReadyFor(e.file), e.current) :
     e \in {n \in p.interest : n.mask \cap ReadyFor(n.file) # {}}}

\* MOD or DEL for events nobody wants; it fails when the event is not the fd's.
EpollHandle(l, p, e) ==
  LET want == l.events[e.fd]
      known == Mine(p, e.fd)
      masked == [l EXCEPT !.emask[e.fd] = want]
      others == p.interest \ known
  IN  CASE ~e.current ->
             [l |-> [l EXCEPT !.postfork = TRUE], p |-> p]
        [] e.current /\ e.got \subseteq want ->
             [l |-> FdEvent(l, e.fd, e.got), p |-> p]
        [] e.current /\ ~(e.got \subseteq want) /\ known = {} ->
             [l |-> [masked EXCEPT !.postfork = TRUE], p |-> p]
        [] e.current /\ ~(e.got \subseteq want) /\ known # {} ->
             [l |-> FdEvent(masked, e.fd, e.got),
              p |-> [p EXCEPT !.interest = IF want = {} THEN others
                        ELSE others \cup {[k EXCEPT !.mask = want] : k \in known}]]

\* Events for the descriptors epoll refuses, after the others
EpollPerms(l, p) ==
  LET kept == {fd \in p.eperms : l.emask[fd] = EPERM /\ l.events[fd] # {}}
      quiet == {fd \in kept : l.reify[fd] = {}}
  IN  [l |-> [l EXCEPT !.pending = [w \in Watchers |->
                @[w] \cup UNION {watcher[w].events \cap l.events[fd] :
                                    fd \in {n \in quiet : w \in Watching(l, n)}}]],
       p |-> [p EXCEPT !.eperms = kept]]

EpollFork(l, p) == [l |-> FdRearmAll(l), p |-> [p EXCEPT !.interest = {}]]

\* The kernel drops the entries of a file that nobody has open.
EpollClosed(p, f) == [p EXCEPT !.interest = {e \in @ : e.file # f}]
=============================================================================
