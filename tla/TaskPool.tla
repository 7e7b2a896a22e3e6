------------------------------- MODULE TaskPool -------------------------------
(***************************************************************************)
(* What threadpool.h promises to a caller of the pool, with no lock, no    *)
(* condition variable and no ring buffer: a bounded FIFO of tasks, a fixed *)
(* set of executors that each run one task at a time, and a shutdown that  *)
(* is graceful (every accepted task is run first) or immediate (tasks that *)
(* have not been started are dropped).                                     *)
(***************************************************************************)
EXTENDS Integers, Sequences

CONSTANTS
  Executors,   \* the worker threads
  Capacity,    \* how many accepted tasks may be waiting
  Tasks,       \* the tasks callers submit
  NoTask       \* "this executor runs nothing"

VARIABLES
  pending,     \* accepted tasks, oldest first
  executing,   \* what each executor runs
  mode         \* "open", then "graceful" or "immediate", then "closed"

vars == <<pending, executing, mode>>

Init ==
  /\ pending = <<>>
  /\ executing = [e \in Executors |-> NoTask]
  /\ mode = "open"

Submit(t) ==
  /\ mode = "open"
  /\ Len(pending) < Capacity
  /\ pending' = Append(pending, t)
  /\ UNCHANGED <<executing, mode>>

Start(e) ==
  /\ mode \in {"open", "graceful"}
  /\ pending # <<>>
  /\ executing[e] = NoTask
  /\ executing' = [executing EXCEPT ![e] = Head(pending)]
  /\ pending' = Tail(pending)
  /\ UNCHANGED mode

Finish(e) ==
  /\ executing[e] # NoTask
  /\ executing' = [executing EXCEPT ![e] = NoTask]
  /\ UNCHANGED <<pending, mode>>

Shutdown(kind) ==
  /\ mode = "open"
  /\ mode' = kind
  /\ UNCHANGED <<pending, executing>>

\* The pool is gone: nothing is being run, and a graceful pool owes nothing.
Close ==
  /\ mode \in {"graceful", "immediate"}
  /\ \A e \in Executors : executing[e] = NoTask
  /\ mode = "graceful" => pending = <<>>
  /\ mode' = "closed"
  /\ UNCHANGED <<pending, executing>>

Next ==
  \/ \E t \in Tasks : Submit(t)
  \/ \E e \in Executors : Start(e) \/ Finish(e)
  \/ \E kind \in {"graceful", "immediate"} : Shutdown(kind)
  \/ Close

Spec == Init /\ [][Next]_vars
===============================================================================
