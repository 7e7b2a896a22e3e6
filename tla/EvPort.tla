-------------------------------- MODULE EvPort --------------------------------
(***************************************************************************)
(* ev_port.c: an association of a descriptor with the port is used up by     *)
(* its first event, and is gone when the descriptor is closed.  So every    *)
(* event marks its descriptor for the next fd_reify.                        *)
(***************************************************************************)
EXTENDS EvFd

PortInit == [interest |-> {}]

PortModify(l, p, fd, oev, nev) ==
  LET others == {a \in p.interest : a.fd # fd}
  IN  CASE nev = {} /\ oev = {} ->
             [l |-> l, p |-> p]
        [] nev = {} /\ oev # {} ->
             [l |-> l, p |-> [interest |-> others]]
        [] nev # {} /\ IsOpen(fd) ->
             [l |-> l, p |-> [interest |-> others \cup {[fd |-> fd, file |-> file[fd], mask |-> nev]}]]
        [] nev # {} /\ ~IsOpen(fd) ->        \* EBADFD
             [l |-> FdKill(l, fd), p |-> p]

PortFires(p) == {a \in p.interest : a.mask \cap ReadyFor(a.file) # {}}

PortReports(p) == {Event(a.fd, a.file, a.mask \cap ReadyFor(a.file), TRUE) : a \in PortFires(p)}

PortHandleKept(l, p, e) == [l |-> FdEvent(l, e.fd, e.got), p |-> p]   \* mutant

PortHandle(l, p, e) ==
  [l |-> FdChange(FdEvent(l, e.fd, e.got), e.fd, {"iofdset"}), p |-> p]

PortFork(l, p) == [l |-> FdRearmAll(l), p |-> PortInit]

PortClosed(p, fd) == [interest |-> {a \in p.interest : a.fd # fd}]
=============================================================================
