----------------------------- MODULE MessageFifo ------------------------------
(***************************************************************************)
(* What OBD_mq.h offers its callers, with no pointers and no mutex: one    *)
(* unbounded first-in first-out queue shared by threads, each of which     *)
(* sees the result of its own last call.                                   *)
(***************************************************************************)
EXTENDS Sequences

CONSTANTS
  Threads,   \* who calls the queue
  Nodes,     \* what is queued
  NULL       \* what a get from an empty queue returns

VARIABLES
  items,     \* oldest first
  result     \* what each thread's last call with a result returned

vars == <<items, result>>

Queued == {items[i] : i \in DOMAIN items}

Init ==
  /\ items = <<>>
  /\ result = [t \in Threads |-> NULL]

Put(n) ==
  /\ n \notin Queued
  /\ items' = Append(items, n)
  /\ UNCHANGED result

Get(t) ==
  /\ items # <<>>
  /\ result' = [result EXCEPT ![t] = Head(items)]
  /\ items' = Tail(items)

GetNothing(t) ==
  /\ items = <<>>
  /\ result' = [result EXCEPT ![t] = NULL]
  /\ UNCHANGED items

AskEmpty(t) ==
  /\ result' = [result EXCEPT ![t] = (items = <<>>)]
  /\ UNCHANGED items

Next ==
  \/ \E n \in Nodes : Put(n)
  \/ \E t \in Threads : Get(t) \/ GetNothing(t) \/ AskEmpty(t)

Spec == Init /\ [][Next]_vars
===============================================================================
