------------------------------ MODULE EvPrograms ------------------------------
(***************************************************************************)
(* Programs on libev: the loop of EvLoop with libevent's events, ev_once and *)
(* ev_stat, whose callbacks run between those of the user.                  *)
(***************************************************************************)
EXTENDS LibEvent, EvStat

vars == <<loopvars, libevent, evstat>>

Init == LoopInit /\ LibEventInit /\ EvStatInit

\* inotify's descriptor is ready while there are events to read, as EvBackends says.
Happens(happened) == happened \subseteq MayHappen /\ (FsW \in happened <=> FsW \in MayHappen /\ events # <<>>)

Next ==
  \/ (LoopStep \/ (\E happened \in SUBSET MayHappen : Happens(happened) /\ Poll(happened)) \/ UserStep) /\ UNCHANGED <<libevent, evstat>>
  \/ LoopFork /\ InfyFork /\ UNCHANGED libevent
  \/ (LibEventCallbacks \/ LibEventCalls) /\ UNCHANGED evstat
  \/ (EvStatCallbacks \/ EvStatCalls) /\ UNCHANGED libevent
  \/ FileChanges /\ UNCHANGED <<loopvars, libevent>>

Spec == Init /\ [][Next]_vars
=============================================================================
