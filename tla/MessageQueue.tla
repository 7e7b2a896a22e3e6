----------------------------- MODULE MessageQueue -----------------------------
(***************************************************************************)
(* OBD_mq.h: the queue between the event loop, which puts decoded requests *)
(* in it, and the dispatcher thread, which takes them out.  A circular     *)
(* doubly linked list through the requests themselves, with a sentinel,    *)
(* under one mutex.                                                        *)
(*                                                                         *)
(* Every access to the links happens with mq_mutex held, so the critical   *)
(* section of a call is one action, which can happen only when the mutex   *)
(* is free.  mq_is_empty returns before its unlock: its caller keeps the   *)
(* mutex.                                                                  *)
(*                                                                         *)
(* Left out: list_del, mq_release and mq_cond, which nothing calls.        *)
(***************************************************************************)
EXTENDS Integers, Sequences

CONSTANTS
  Threads,   \* the callers
  Nodes,     \* the list_t inside each request
  Sentinel,  \* &mq->list
  NULL,      \* no node
  Nobody     \* the mutex is free

ASSUME QueueAssumption ==
  /\ Sentinel \notin Nodes
  /\ NULL \notin Nodes
  /\ Nobody \notin Threads

VARIABLES
  next,      \* node->next
  prev,      \* node->prev
  size,      \* mq->size
  mutex,     \* who holds mq_mutex
  result,    \* what each thread's last mq_get or mq_is_empty returned
  fifo       \* history: the queued nodes in the order they were put

links == <<next, prev>>
vars == <<next, prev, size, mutex, result, fifo>>

Places == Nodes \cup {Sentinel}
Queued == {fifo[i] : i \in DOMAIN fifo}

\* mq_init; a node that is not queued is as list_init leaves it.
Init ==
  /\ next = [p \in Places |-> p]
  /\ prev = [p \in Places |-> p]
  /\ size = 0
  /\ mutex = Nobody
  /\ result = [t \in Threads |-> NULL]
  /\ fifo = <<>>

AddFrontLinkedLate(n) ==                                   \* mutant
  /\ next' = [next EXCEPT ![n] = next[Sentinel], ![Sentinel] = n]
  /\ prev' = [prev EXCEPT ![n] = Sentinel]

\* list_add_front(&mq->list, n)
AddFront(n) ==
  /\ next' = [next EXCEPT ![n] = next[Sentinel], ![Sentinel] = n]
  /\ prev' = [prev EXCEPT ![next[Sentinel]] = n, ![n] = Sentinel]

DelFront ==                                                \* mutant
  LET front == next[Sentinel] IN
  /\ prev' = [prev EXCEPT ![next[front]] = Sentinel, ![front] = front]
  /\ next' = [next EXCEPT ![Sentinel] = next[front], ![front] = front]

Empty == prev[Sentinel] = Sentinel

\* list_del_back(&mq->list) of a list that is not empty.
DelBack ==
  LET back == prev[Sentinel] IN
  /\ next' = [next EXCEPT ![prev[back]] = Sentinel, ![back] = back]
  /\ prev' = [prev EXCEPT ![Sentinel] = prev[back], ![back] = back]

\* A caller puts a request that is in nobody else's hands: not in the queue.
Put(t, n) ==
  /\ mutex = Nobody
  /\ n \notin Queued
  /\ AddFront(n)
  /\ size' = size + 1
  /\ fifo' = Append(fifo, n)
  /\ UNCHANGED <<mutex, result>>

Get(t) ==
  /\ mutex = Nobody
  /\ ~Empty
  /\ DelBack
  /\ result' = [result EXCEPT ![t] = prev[Sentinel]]
  /\ size' = size - 1
  /\ fifo' = Tail(fifo)
  /\ UNCHANGED mutex

GetNothing(t) ==
  /\ mutex = Nobody
  /\ Empty
  /\ result' = [result EXCEPT ![t] = NULL]
  /\ UNCHANGED <<links, size, mutex, fifo>>

\* The return statement comes before the unlock.
IsEmpty(t) ==
  /\ mutex = Nobody
  /\ mutex' = t
  /\ result' = [result EXCEPT ![t] = Empty]
  /\ UNCHANGED <<links, size, fifo>>

Next ==
  \E t \in Threads :
    \/ \E n \in Nodes : Put(t, n)
    \/ Get(t) \/ GetNothing(t) \/ IsEmpty(t)

Spec == Init /\ [][Next]_vars

-------------------------------------------------------------------------------
(***************************************************************************)
(* Properties                                                              *)
(***************************************************************************)

\* Types; size, which is unsigned, never goes below zero.
TypeOK ==
  /\ next \in [Places -> Places]
  /\ prev \in [Places -> Places]
  /\ size \in Nat
  /\ mutex \in Threads \cup {Nobody}
  /\ result \in [Threads -> Nodes \cup {NULL} \cup BOOLEAN]
  /\ fifo \in Seq(Nodes)

\* The i-th place from the old end of the list, the sentinel at both ends.
At(i) == IF i \in DOMAIN fifo THEN fifo[i] ELSE Sentinel

\* The two directions of the list agree with each other and with the order of
\* the puts, no node is in it twice, size counts it, and a node that is not in
\* it points to itself: the updates of list_add_front and list_del_back, done in
\* sequence on overlapping fields, also when the list has no or one node.
ListInv ==
  /\ \A i \in 0 .. Len(fifo) :
       prev[At(i)] = At(i + 1) /\ next[At(i + 1)] = At(i)
  /\ \A i, j \in DOMAIN fifo : fifo[i] = fifo[j] => i = j
  /\ size = Len(fifo)
  /\ \A n \in Nodes \ Queued : next[n] = n /\ prev[n] = n

\* What the proofs carry through every step.
IndInv == TypeOK /\ ListInv

\* mq_put, mq_get and mq_is_empty behave as a FIFO with no pointers: a get
\* returns the oldest request put and not yet returned, NULL only if there is
\* none, and mq_is_empty answers for the moment it held the lock.
Fifo == INSTANCE MessageFifo WITH items <- fifo

ImplementsFifo == Fifo!Spec

\* OBD_mq.h:56: mq_is_empty unlocks mq_mutex before it returns, so between calls
\* nobody holds it.
MutexFreeBetweenCalls == mutex = Nobody
===============================================================================
