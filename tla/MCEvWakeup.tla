------------------------------ MODULE MCEvWakeup ------------------------------
(***************************************************************************)
(* Two senders, so that one may undo pipe_write_skipped of the other, and a  *)
(* watcher of any process beside one of a single process.                   *)
(***************************************************************************)
EXTENDS EvWakeup, TLC

CONSTANTS a1, a2, usr, p1, p2, anyPid, one, any

Waits == one :> p1 @@ any :> anyPid
Groups == {{a1, a2}, {a1, usr}, {p1, p2, one, any}}
=============================================================================
