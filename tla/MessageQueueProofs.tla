-------------------------- MODULE MessageQueueProofs --------------------------
(***************************************************************************)
(* Proofs about MessageQueue, for any set of threads and of requests: the  *)
(* linked list is well formed and holds the requests in the order of the   *)
(* puts, and the queue implements MessageFifo.                             *)
(***************************************************************************)
EXTENDS MessageQueue, TLAPS

(* A put: the new node becomes the last place before the sentinel. *)

\* list_add_front links a node that is not queued at the young end and leaves
\* the rest of the list as it was.
LEMMA PutKeepsList ==
  ASSUME IndInv, NEW t \in Threads, NEW n \in Nodes, Put(t, n)
  PROVE  IndInv'
<1> USE QueueAssumption DEF IndInv, TypeOK, Places
<1>1. /\ Len(fifo) \in Nat /\ DOMAIN fifo = 1 .. Len(fifo)
      /\ fifo' = Append(fifo, n) /\ fifo' \in Seq(Nodes)
      /\ Len(fifo') = Len(fifo) + 1
      /\ DOMAIN fifo' = 1 .. Len(fifo) + 1
      /\ \A i \in 1 .. Len(fifo) : fifo'[i] = fifo[i]
      /\ fifo'[Len(fifo) + 1] = n
  BY DEF Put
<1>2. /\ \A i \in 1 .. Len(fifo) : fifo[i] \in Nodes /\ fifo[i] # n
      /\ n # Sentinel
  BY <1>1 DEF Put, Queued
<1>3. TypeOK'
  <2>1. next[Sentinel] \in Places /\ n \in Places /\ Sentinel \in Places
    OBVIOUS
  <2>2. next' \in [Places -> Places] /\ prev' \in [Places -> Places]
    BY <2>1 DEF Put, AddFront
  <2>3. size' \in Nat
    BY DEF Put
  <2> QED BY <1>1, <2>2, <2>3 DEF Put
<1>k. PICK k \in Nat : k = Len(fifo)
  BY <1>1
<1>4. next[Sentinel] = At(k)
  BY <1>1, <1>k DEF ListInv, At
<1>5. /\ next' = [next EXCEPT ![n] = At(k), ![Sentinel] = n]
      /\ prev' = [prev EXCEPT ![At(k)] = n, ![n] = Sentinel]
  BY <1>4 DEF Put, AddFront
<1>6. /\ \A i \in 0 .. k : At(i)' = At(i) /\ At(i) \in Places /\ At(i) # n
      /\ At(k + 1)' = n
      /\ At(k + 2)' = Sentinel
      /\ At(0) = Sentinel
  BY <1>1, <1>2, <1>k DEF At
<1>7. \A i, j \in DOMAIN fifo : fifo[i] = fifo[j] => i = j
  BY DEF ListInv
<1>8. \A i, j \in 0 .. k : At(i) = At(j) => i = j
  <2>1. \A i \in 1 .. k : At(i) = fifo[i] /\ fifo[i] # Sentinel
    BY <1>1, <1>2, <1>k DEF At
  <2>2. \A i \in 0 .. k : i = 0 \/ i \in 1 .. k
    BY <1>1
  <2> QED BY <1>1, <1>k, <1>6, <1>7, <2>1, <2>2
<1>9. ASSUME NEW i \in 0 .. Len(fifo')
      PROVE  prev'[At(i)'] = At(i + 1)' /\ next'[At(i + 1)'] = At(i)'
  <2>1. CASE i < k
    <3>1. i \in 0 .. k /\ i + 1 \in 0 .. k /\ i # k /\ i + 1 # 0
      BY <1>1, <1>k, <2>1
    <3>2. At(i)' = At(i) /\ At(i + 1)' = At(i + 1) /\ At(i) # n /\ At(i + 1) # n
      BY <3>1, <1>6
    <3>3. At(i) # At(k) /\ At(i + 1) # Sentinel
      BY <3>1, <1>6, <1>8, <1>1
    <3>4. prev[At(i)] = At(i + 1) /\ next[At(i + 1)] = At(i)
      BY <3>1, <1>k DEF ListInv
    <3> QED BY <1>5, <1>6, <3>1, <3>2, <3>3, <3>4
  <2>2. CASE i = k
    BY <1>1, <1>2, <1>k, <1>5, <1>6, <2>2
  <2>3. CASE i = k + 1
    <3>1. At(i)' = n /\ At(i + 1)' = Sentinel
      BY <2>3, <1>6
    <3>2. prev'[n] = Sentinel /\ next'[Sentinel] = n
      BY <1>2, <1>5
    <3> QED BY <3>1, <3>2
  <2>4. i < k \/ i = k \/ i = k + 1
    <3>1. Len(fifo') = k + 1
      BY <1>1, <1>k
    <3> QED BY <3>1
  <2> QED BY <2>1, <2>2, <2>3, <2>4
<1>10. \A i, j \in DOMAIN fifo' : fifo'[i] = fifo'[j] => i = j
  BY <1>1, <1>2, <1>7
<1>11. size' = Len(fifo')
  BY <1>1 DEF Put, ListInv
<1>12. ASSUME NEW m \in Nodes \ Queued'
       PROVE  next'[m] = m /\ prev'[m] = m
  <2>1. m # n /\ m \in Nodes \ Queued /\ m # At(k) /\ m # Sentinel
    BY <1>1, <1>k DEF Queued, At
  <2> QED BY <2>1, <1>5 DEF ListInv
<1> QED
  BY <1>3, <1>9, <1>10, <1>11, <1>12 DEF ListInv

-------------------------------------------------------------------------------
(* A get: the places of the remaining nodes move down by one. *)

\* list_del_back unlinks the oldest node, whatever the length of the list.
LEMMA GetKeepsList ==
  ASSUME IndInv, NEW t \in Threads, Get(t)
  PROVE  /\ IndInv'
         /\ fifo # <<>>
         /\ prev[Sentinel] = Head(fifo)
<1> USE QueueAssumption DEF IndInv, TypeOK, Places
<1>1. Len(fifo) \in Nat /\ DOMAIN fifo = 1 .. Len(fifo)
  OBVIOUS
<1>2. prev[Sentinel] = At(1)
  BY <1>1 DEF ListInv, At
<1>3. Len(fifo) > 0
  BY <1>1, <1>2 DEF Get, Empty, At
<1>4. /\ fifo # <<>>
      /\ fifo' = Tail(fifo) /\ fifo' \in Seq(Nodes)
      /\ Len(fifo') = Len(fifo) - 1
      /\ DOMAIN fifo' = 1 .. Len(fifo) - 1
      /\ \A i \in 1 .. Len(fifo) - 1 : fifo'[i] = fifo[i + 1]
      /\ Head(fifo) = fifo[1]
  BY <1>1, <1>3 DEF Get
<1>5. \A i \in 1 .. Len(fifo) : fifo[i] \in Nodes /\ fifo[i] # Sentinel
  BY <1>1
<1>6. /\ \A i \in 1 .. Len(fifo) : At(i)' = At(i + 1)
      /\ At(0)' = Sentinel
      /\ \A i \in 0 .. Len(fifo) + 1 : At(i) \in Places
      /\ At(1) \in Nodes /\ At(1) = fifo[1]
  BY <1>1, <1>3, <1>4, <1>5 DEF At
<1>7. prev[At(1)] = At(2)
  BY <1>1, <1>3 DEF ListInv
<1>8. /\ next' = [next EXCEPT ![At(2)] = Sentinel, ![At(1)] = At(1)]
      /\ prev' = [prev EXCEPT ![Sentinel] = At(2), ![At(1)] = At(1)]
  BY <1>2, <1>7 DEF Get, DelBack
<1>9. TypeOK'
  <2>1. size \in Nat /\ size - 1 \in Nat
    BY <1>1, <1>3 DEF ListInv
  <2>2. At(1) \in Places /\ At(2) \in Places
    BY <1>1, <1>3, <1>6
  <2>3. next' \in [Places -> Places] /\ prev' \in [Places -> Places]
    BY <1>8, <2>2
  <2>4. result' \in [Threads -> Nodes \cup {NULL} \cup BOOLEAN]
    BY <1>2, <1>6 DEF Get
  <2> QED BY <1>4, <2>1, <2>3, <2>4 DEF Get
<1>10. \A i, j \in DOMAIN fifo : fifo[i] = fifo[j] => i = j
  BY DEF ListInv
<1>11. /\ \A i \in 2 .. Len(fifo) : fifo[i] # fifo[1]
       /\ \A i, j \in 1 .. Len(fifo) + 1 : At(i) = At(j) => i = j
  BY <1>1, <1>3, <1>5, <1>10 DEF At
<1>12. ASSUME NEW i \in 0 .. Len(fifo')
       PROVE  prev'[At(i)'] = At(i + 1)' /\ next'[At(i + 1)'] = At(i)'
  <2>1. i + 1 \in 1 .. Len(fifo) /\ At(i + 1)' = At(i + 2)
    BY <1>1, <1>3, <1>4, <1>6
  <2>2. prev[At(i + 1)] = At(i + 2) /\ next[At(i + 2)] = At(i + 1)
    BY <2>1, <1>1 DEF ListInv
  <2>3. CASE i = 0
    <3>1. At(1) # At(2) /\ At(1) # Sentinel /\ At(i + 2) = At(2)
      BY <1>1, <1>3, <1>5, <1>6, <1>11, <2>3
    <3> QED BY <1>6, <1>8, <2>1, <2>3, <3>1, <1>1, <1>3
  <2>4. CASE i > 0
    <3>1. i \in 1 .. Len(fifo) /\ i + 2 \in 1 .. Len(fifo) + 1 /\ i + 2 # 2
          /\ i + 2 # 1 /\ i + 1 # 1 /\ 2 \in 1 .. Len(fifo) + 1
      BY <1>1, <1>3, <1>4, <2>1, <2>4
    <3>2. At(i)' = At(i + 1)
      BY <1>6, <3>1
    <3>3. /\ At(i + 1) # At(1) /\ At(i + 2) # At(1) /\ At(i + 2) # At(2)
          /\ At(i + 1) # Sentinel
      BY <1>1, <1>5, <1>11, <2>1, <3>1 DEF At
    <3>4. At(i + 1) \in Places /\ At(i + 2) \in Places
      BY <1>6, <1>1, <2>1
    <3> QED BY <1>6, <1>8, <2>1, <2>2, <3>2, <3>3, <3>4
  <2> QED BY <1>1, <1>4, <2>3, <2>4
<1>13. \A i, j \in DOMAIN fifo' : fifo'[i] = fifo'[j] => i = j
  BY <1>1, <1>3, <1>4, <1>10
<1>14. size' = Len(fifo')
  BY <1>1, <1>3, <1>4 DEF Get, ListInv
<1>15. ASSUME NEW m \in Nodes \ Queued'
       PROVE  next'[m] = m /\ prev'[m] = m
  <2>1. CASE m = At(1)
    BY <1>6, <1>8, <2>1, <1>5, <1>1, <1>3
  <2>2. CASE m # At(1)
    <3>1. m \notin Queued
      <4>1. SUFFICES ASSUME NEW i \in 1 .. Len(fifo), fifo[i] = m
                     PROVE  FALSE
        BY <1>1 DEF Queued
      <4>2. i - 1 \in 1 .. Len(fifo) - 1 /\ fifo'[i - 1] = fifo[(i - 1) + 1]
        BY <1>1, <1>4, <1>6, <2>2, <4>1
      <4> QED BY <1>1, <1>4, <4>1, <4>2 DEF Queued
    <3>2. m # Sentinel /\ m # At(2)
      BY <3>1, <1>1 DEF At, Queued
    <3> QED BY <1>8, <2>2, <3>1, <3>2 DEF ListInv
  <2> QED BY <2>1, <2>2
<1> QED
  BY <1>2, <1>4, <1>6, <1>9, <1>12, <1>13, <1>14, <1>15 DEF ListInv

-------------------------------------------------------------------------------
\* The test head->prev == head says whether the queue holds nothing.
LEMMA EmptyMeansNone ==
  ASSUME IndInv
  PROVE  Empty <=> fifo = <<>>
<1> USE QueueAssumption DEF IndInv, TypeOK, ListInv, Places
<1>1. Len(fifo) \in Nat /\ DOMAIN fifo = 1 .. Len(fifo) /\ prev[Sentinel] = At(1)
  BY DEF At
<1>2. CASE fifo = <<>>
  BY <1>1, <1>2 DEF Empty, At
<1>3. CASE fifo # <<>>
  BY <1>1, <1>3 DEF Empty, At
<1> QED BY <1>2, <1>3

\* mq_init makes a well-formed empty list.
LEMMA InitInv == Init => IndInv
<1> SUFFICES ASSUME Init PROVE IndInv
  OBVIOUS
<1> QED
  BY QueueAssumption DEF Init, IndInv, TypeOK, ListInv, At, Places, Queued

\* Every call keeps the list well formed.
LEMMA StepInv == IndInv /\ [Next]_vars => IndInv'
<1> SUFFICES ASSUME IndInv, [Next]_vars PROVE IndInv'
  OBVIOUS
<1>1. CASE UNCHANGED vars
  BY <1>1 DEF vars, IndInv, TypeOK, ListInv, At, Places, Queued
<1>2. ASSUME NEW t \in Threads, GetNothing(t) \/ IsEmpty(t) PROVE IndInv'
  <2>1. UNCHANGED <<next, prev, size, fifo>>
    BY <1>2 DEF GetNothing, IsEmpty, links
  <2>2. TypeOK'
    BY <1>2, <2>1 DEF GetNothing, IsEmpty, IndInv, TypeOK, Empty
  <2> QED BY <2>1, <2>2 DEF IndInv, ListInv, At, Places, Queued
<1> QED
  BY <1>1, <1>2, PutKeepsList, GetKeepsList DEF Next

\* What is queued after each call.
LEMMA NodesMove ==
  ASSUME IndInv, NEW t \in Threads
  PROVE  /\ \A n \in Nodes : Put(t, n) => n \notin Queued /\ Queued' = Queued \cup {n}
         /\ Get(t) => prev[Sentinel] \in Queued /\ Queued' = Queued \ {prev[Sentinel]}
<1>1. ASSUME NEW n \in Nodes, Put(t, n) PROVE n \notin Queued /\ Queued' = Queued \cup {n}
  <2>1. /\ fifo \in Seq(Nodes) /\ fifo' = Append(fifo, n) /\ n \notin Queued
    BY <1>1 DEF Put, IndInv, TypeOK
  <2>2. /\ Len(fifo) \in Nat /\ DOMAIN fifo = 1 .. Len(fifo)
        /\ DOMAIN fifo' = 1 .. Len(fifo) + 1 /\ fifo'[Len(fifo) + 1] = n
        /\ \A i \in 1 .. Len(fifo) : fifo'[i] = fifo[i]
    BY <2>1
  <2>. QED
    BY <2>1, <2>2 DEF Queued
<1>2. ASSUME Get(t) PROVE prev[Sentinel] \in Queued /\ Queued' = Queued \ {prev[Sentinel]}
  <2>1. fifo # <<>> /\ prev[Sentinel] = Head(fifo) /\ fifo' = Tail(fifo) /\ fifo \in Seq(Nodes)
    BY <1>2, GetKeepsList DEF Get, IndInv, TypeOK
  <2>2. /\ Len(fifo) \in Nat \ {0} /\ DOMAIN fifo = 1 .. Len(fifo) /\ prev[Sentinel] = fifo[1]
        /\ DOMAIN fifo' = 1 .. Len(fifo) - 1 /\ \A i \in 1 .. Len(fifo) - 1 : fifo'[i] = fifo[i + 1]
    BY <2>1
  <2>3. \A i, j \in DOMAIN fifo : fifo[i] = fifo[j] => i = j
    BY DEF IndInv, ListInv
  <2>4. Queued' \subseteq Queued \ {fifo[1]}
    BY <2>2, <2>3 DEF Queued
  <2>5. ASSUME NEW n \in Queued \ {fifo[1]} PROVE n \in Queued'
    <3>1. PICK i \in 1 .. Len(fifo) : n = fifo[i]
      BY <2>2 DEF Queued
    <3>2. i - 1 \in 1 .. Len(fifo) - 1 /\ (i - 1) + 1 = i
      BY <2>2, <3>1
    <3>. QED
      BY <2>2, <3>1, <3>2 DEF Queued
  <2>6. fifo[1] \in Queued
    BY <2>2 DEF Queued
  <2>7. Queued' = Queued \ {fifo[1]}
    BY <2>4, <2>5, Zenon
  <2>. QED
    BY <2>2, <2>6, <2>7
<1>. QED
  BY <1>1, <1>2

\* In every reachable state the list of the queue is well formed.
THEOREM Invariance == Spec => []IndInv
  BY InitInv, StepInv, PTL DEF Spec

\* The two directions of the list, size and the order of the puts always agree.
THEOREM ListWellFormed == Spec => []ListInv
<1>1. IndInv => ListInv
  BY DEF IndInv
<1> QED BY <1>1, Invariance, PTL

\* Every call has its type-correct effect; size never goes below zero.
THEOREM TypeCorrect == Spec => []TypeOK
<1>1. IndInv => TypeOK
  BY DEF IndInv
<1> QED BY <1>1, Invariance, PTL

\* Each call does what the pointer-free FIFO does, or changes nothing it shows.
LEMMA StepImplements == IndInv /\ [Next]_vars => [Fifo!Next]_(Fifo!vars)
<1> SUFFICES ASSUME IndInv, [Next]_vars PROVE [Fifo!Next]_(Fifo!vars)
  OBVIOUS
<1>1. CASE UNCHANGED vars
  BY <1>1 DEF vars, Fifo!vars
<1>2. ASSUME NEW t \in Threads, NEW n \in Nodes, Put(t, n) PROVE Fifo!Next
  BY <1>2 DEF Put, Queued, Fifo!Next, Fifo!Put, Fifo!Queued
<1>3. ASSUME NEW t \in Threads, Get(t) PROVE Fifo!Next
  <2>1. fifo # <<>> /\ prev[Sentinel] = Head(fifo)
    BY <1>3, GetKeepsList
  <2>2. Fifo!Get(t)
    BY <1>3, <2>1 DEF Get, Fifo!Get
  <2> QED BY <2>2 DEF Fifo!Next
<1>4. ASSUME NEW t \in Threads, GetNothing(t) PROVE Fifo!Next
  BY <1>4, EmptyMeansNone DEF GetNothing, Fifo!Next, Fifo!GetNothing
<1>5. ASSUME NEW t \in Threads, IsEmpty(t) PROVE Fifo!Next
  <2>1. Empty = (fifo = <<>>)
    BY EmptyMeansNone DEF Empty
  <2>2. result' = [result EXCEPT ![t] = (fifo = <<>>)] /\ fifo' = fifo
    BY <1>5, <2>1, Zenon DEF IsEmpty
  <2> QED BY <2>2 DEF Fifo!Next, Fifo!AskEmpty
<1> QED
  BY <1>1, <1>2, <1>3, <1>4, <1>5 DEF Next

\* The linked list under its mutex implements the FIFO: every behaviour of the
\* queue is one of MessageFifo.
THEOREM Refinement == Spec => ImplementsFifo
<1>1. Init => Fifo!Init
  BY DEF Init, Fifo!Init
<1> QED
  BY <1>1, StepImplements, Invariance, PTL DEF Spec, ImplementsFifo, Fifo!Spec
===============================================================================
