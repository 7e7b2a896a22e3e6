----------------------------- MODULE MCEvBackends -----------------------------
(***************************************************************************)
(* Two descriptors, two watchers, and files of which one is refused by epoll. *)
(***************************************************************************)
EXTENDS EvBackends, TLC

CONSTANTS f1, f2, regular, none

AnyReady == {{}, {"read"}, {"read", "write"}}
OneOrTwo == {(0 :> f1 @@ 1 :> none), (0 :> f1 @@ 1 :> regular)}
Masks == {{"read"}, {"write"}}
=============================================================================
