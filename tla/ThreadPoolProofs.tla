---------------------------- MODULE ThreadPoolProofs ----------------------------
(***************************************************************************)
(* Proofs about ThreadPool for every number of workers, every queue size   *)
(* and every set of tasks.  IndInv (defined in ThreadPool) is inductive;   *)
(* the safety properties follow from it.                                   *)
(***************************************************************************)
EXTENDS ThreadPool, SequenceTheorems, FiniteSetTheorems, TLAPS

\* Workers is finite, and so is every set of workers.
LEMMA WorkersFinite ==
  /\ IsFiniteSet(Workers)
  /\ \A S \in SUBSET Workers : IsFiniteSet(S) /\ Cardinality(S) \in Nat
                               /\ Cardinality(S) <= ThreadCount
<1>1. 0 \in Int /\ ThreadCount - 1 \in Int
  BY PoolAssumption
<1>2. IsFiniteSet(Workers) /\ Cardinality(Workers) = ThreadCount
  BY <1>1, FS_Interval, PoolAssumption DEF Workers
<1>. QED
  BY <1>2, FS_Subset, FS_CardinalityType

\* Moving one worker into a set of workers or out of it changes the count by one.
LEMMA OneMore ==
  ASSUME NEW S \in SUBSET Workers, NEW w \in Workers, w \notin S
  PROVE  Cardinality(S \cup {w}) = Cardinality(S) + 1
BY WorkersFinite, FS_AddElement

\* Taking one worker out of a set of workers.
LEMMA OneLess ==
  ASSUME NEW S \in SUBSET Workers, NEW w \in S
  PROVE  Cardinality(S \ {w}) = Cardinality(S) - 1
BY WorkersFinite, FS_RemoveElement

\* The k-th place after the head is a slot, and different places of a ring that
\* is not over-full are different slots.
LEMMA SlotFacts ==
  ASSUME TypeOK
  PROVE  /\ \A k \in 0 .. QueueSize : Slot(k) \in Slots
         /\ \A j, k \in 0 .. QueueSize - 1 : Slot(j) = Slot(k) => j = k
         /\ Slot(0) = head
BY PoolAssumption DEF TypeOK, Slot, Slots

-------------------------------------------------------------------------------
(* TypeOK.  Only Exit needs more than the types: started counts the workers *)
(* that have not exited, so it is positive when one of them exits.          *)

\* Every step keeps the fields of the pool in their ranges.
LEMMA TypeStep ==
  ASSUME IndInv, [Next]_vars
  PROVE  TypeOK'
<1>. USE PoolAssumption DEF IndInv, TypeOK, ring, owner, Slots, Wrap
<1>1. CASE CreateWorker
  <2>1. threadCount \in Workers /\ threadCount \notin Started
    BY <1>1 DEF CreateWorker, PhaseInv, Started, Workers
  <2>2. Started \in SUBSET Workers /\ Started \cup {threadCount} \in SUBSET Workers
    BY <2>1 DEF Started
  <2>3. started + 1 \in 0 .. ThreadCount
    <3>1. Cardinality(Started \cup {threadCount}) = Cardinality(Started) + 1
      BY <2>1, <2>2, OneMore
    <3>2. Cardinality(Started \cup {threadCount}) <= ThreadCount
      BY <2>2, WorkersFinite
    <3>. QED
      BY <3>1, <3>2 DEF PhaseInv
  <2>4. threadCount + 1 \in 0 .. ThreadCount
    BY <2>1 DEF Workers
  <2>. QED
    BY <1>1, <2>1, <2>3, <2>4 DEF CreateWorker
<1>2. CASE CreateFails \/ \E kind \in {"graceful", "immediate"} : Destroy(kind)
  BY <1>2 DEF CreateFails, Destroy, BeginDestroy, CondBroadcast
<1>3. CASE Join
  BY <1>3 DEF Join
<1>4. CASE Free
  BY <1>4 DEF Free
<1>5. ASSUME NEW t \in Tasks, Add(t)
      PROVE  TypeOK'
  BY <1>5 DEF Add, Accepts, CondSignal, Sleeping
<1>6. ASSUME NEW w \in Workers, Wait(w) \/ Finish(w) \/ SpuriousWakeup(w)
      PROVE  TypeOK'
  BY <1>6 DEF Wait, Finish, SpuriousWakeup
<1>7. ASSUME NEW w \in Workers, Grab(w)
      PROVE  TypeOK'
  BY <1>7 DEF Grab, MustWait, MustExit
<1>8. ASSUME NEW w \in Workers, Exit(w)
      PROVE  TypeOK'
  <2>1. w \in Started /\ Started \in SUBSET Workers
    BY <1>8 DEF Exit, Started
  <2>2. Cardinality(Started) > 0
    <3>1. Started \ {w} \in SUBSET Workers
      BY <2>1
    <3>2. Cardinality(Started \ {w}) = Cardinality(Started) - 1
      BY <2>1, OneLess
    <3>. QED
      BY <2>1, <3>1, <3>2, WorkersFinite
  <2>3. started - 1 \in 0 .. ThreadCount
    BY <2>2 DEF PhaseInv
  <2>. QED
    BY <1>8, <2>3 DEF Exit
<1>9. CASE UNCHANGED vars
  BY <1>9 DEF vars
<1>. QED
  BY <1>1, <1>2, <1>3, <1>4, <1>5, <1>6, <1>7, <1>8, <1>9 DEF Next
-------------------------------------------------------------------------------
(* RingInv and EachTaskOnce: the two actions that move an index, then the   *)
(* actions that only move a worker.                                         *)

\* After add, the places before count hold what they held and the new last
\* place holds the task.
LEMMA AddRing ==
  ASSUME IndInv, NEW t \in Tasks, Add(t)
  PROVE  /\ tail' = Slot(count + 1)
         /\ \A k \in 0 .. QueueSize : Slot(k)' = Slot(k)
         /\ \A k \in 0 .. count - 1 : queue'[Slot(k)] = queue[Slot(k)]
         /\ queue'[Slot(count)] = t
<1>1. TypeOK /\ tail = Slot(count) /\ count < QueueSize /\ count \in Nat
  BY PoolAssumption DEF IndInv, RingInv, TypeOK, Add, Accepts
<1>2. \A k \in 0 .. QueueSize : Slot(k)' = Slot(k)
  BY DEF Add, Slot
<1>3. tail' = Slot(count + 1)
  BY <1>1, PoolAssumption DEF Add, Wrap, Slot, TypeOK, Slots
<1>4. \A k \in 0 .. count - 1 : Slot(k) # tail /\ Slot(k) \in Slots
  BY <1>1, SlotFacts, PoolAssumption
<1>. QED
  BY <1>1, <1>2, <1>3, <1>4 DEF Add, TypeOK

\* After a worker took the head, the k-th place is what was the k+1-st.
LEMMA GrabRing ==
  ASSUME IndInv, NEW w \in Workers, Grab(w)
  PROVE  /\ count > 0 /\ count' = count - 1 /\ queue' = queue
         /\ \A k \in 0 .. QueueSize - 1 : Slot(k)' = Slot(k + 1)
         /\ task' = [task EXCEPT ![w] = queue[Slot(0)]]
         /\ tail' = Slot(count)'
<1>1. TypeOK /\ tail = Slot(count) /\ count \in 0 .. QueueSize
  BY DEF IndInv, RingInv, TypeOK
<1>2. count > 0
  BY <1>1 DEF Grab, MustWait, MustExit, TypeOK
<1>3. \A k \in 0 .. QueueSize - 1 : Slot(k)' = Slot(k + 1)
  BY <1>1, PoolAssumption DEF Grab, Wrap, Slot, TypeOK, Slots
<1>4. queue[head] = queue[Slot(0)]
  BY <1>1, SlotFacts
<1>5. Slot(count)' = Slot(count)
  BY <1>1, <1>2, <1>3, PoolAssumption DEF Grab
<1>. QED
  BY <1>1, <1>2, <1>3, <1>4, <1>5 DEF Grab

\* The steps that leave the ring and the tasks of the workers as they are.
WorkerMoves ==
  \/ CreateWorker \/ CreateFails \/ Join \/ Free
  \/ \E kind \in {"graceful", "immediate"} : Destroy(kind)
  \/ \E w \in Workers : Wait(w) \/ Exit(w) \/ SpuriousWakeup(w)
  \/ UNCHANGED vars

\* Such a step changes neither the ring nor which workers are running a task.
LEMMA WorkerMovesRing ==
  ASSUME IndInv, WorkerMoves
  PROVE  /\ UNCHANGED <<queue, head, tail, count, task>>
         /\ \A w \in Workers : pc'[w] = "work" <=> pc[w] = "work"
<1>1. TypeOK /\ PhaseInv
  BY DEF IndInv
<1>2. CASE CreateWorker
  <2>1. threadCount \in Workers /\ pc[threadCount] = "absent"
    <3>1. threadCount \in Nat /\ threadCount < ThreadCount
      BY <1>1, <1>2, PoolAssumption DEF CreateWorker, PhaseInv, TypeOK
    <3>2. threadCount \in Workers
      BY <3>1, PoolAssumption DEF Workers
    <3>. QED
      BY <1>1, <3>1, <3>2 DEF PhaseInv
  <2>. QED
    BY <1>1, <1>2, <2>1 DEF CreateWorker, ring, TypeOK
<1>3. CASE CreateFails \/ \E kind \in {"graceful", "immediate"} : Destroy(kind)
  BY <1>1, <1>3 DEF CreateFails, Destroy, BeginDestroy, CondBroadcast, Sleeping,
                    ring, TypeOK
<1>4. CASE Join \/ Free \/ UNCHANGED vars
  BY <1>4 DEF Join, Free, vars, ring
<1>5. CASE \E w \in Workers : Wait(w) \/ Exit(w) \/ SpuriousWakeup(w)
  BY <1>1, <1>5 DEF Wait, Exit, SpuriousWakeup, ring, TypeOK
<1>. QED
  BY <1>2, <1>3, <1>4, <1>5 DEF WorkerMoves

\* Every step keeps head, tail and count consistent with what the ring holds.
LEMMA RingStep ==
  ASSUME IndInv, [Next]_vars
  PROVE  RingInv'
<1>1. TypeOK /\ RingInv
  BY DEF IndInv
<1>2. CASE WorkerMoves
  BY <1>1, <1>2, WorkerMovesRing DEF RingInv, Slot
<1>3. ASSUME NEW t \in Tasks, Add(t)
      PROVE  RingInv'
  <2>0. count' = count + 1 /\ count \in Nat /\ count < QueueSize
    BY <1>1, <1>3, PoolAssumption DEF Add, Accepts, TypeOK
  <2>1. tail' = Slot(count)'
    <3>1. Slot(count)' = IF head' + count' < QueueSize THEN head' + count'
                         ELSE head' + count' - QueueSize
      BY DEF Slot
    <3>2. Slot(count)' = Slot(count + 1)
      BY <1>3, <2>0, <3>1 DEF Slot, Add
    <3>. QED
      BY <1>3, <3>2, AddRing
  <2>2. ASSUME NEW k \in 0 .. count' - 1
        PROVE  queue'[Slot(k)'] \in Tasks
    <3>1. Slot(k)' = Slot(k)
      BY <1>3, <2>0, <2>2, AddRing, PoolAssumption
    <3>2. CASE k = count
      BY <1>3, <3>1, <3>2, AddRing
    <3>3. CASE k \in 0 .. count - 1
      BY <1>1, <1>3, <3>1, <3>3, AddRing DEF RingInv
    <3>. QED
      BY <2>0, <2>2, <3>2, <3>3
  <2>3. \A w \in Workers : task'[w] # NoTask <=> pc'[w] = "work"
    BY <1>1, <1>3 DEF Add, CondSignal, Sleeping, TypeOK, RingInv
  <2>. QED
    BY <2>1, <2>2, <2>3 DEF RingInv
<1>4. ASSUME NEW w \in Workers, Grab(w)
      PROVE  RingInv'
  <2>1. ASSUME NEW k \in 0 .. count' - 1
        PROVE  queue'[Slot(k)'] \in Tasks
    BY <1>1, <1>4, <2>1, GrabRing, PoolAssumption DEF TypeOK, RingInv
  <2>2. queue[Slot(0)] \in Tasks
    BY <1>1, <1>4, GrabRing, PoolAssumption DEF TypeOK, RingInv
  <2>3. \A v \in Workers : task'[v] # NoTask <=> pc'[v] = "work"
    BY <1>1, <1>4, <2>2, GrabRing, PoolAssumption DEF Grab, TypeOK, RingInv
  <2>. QED
    BY <1>4, <2>1, <2>3, GrabRing DEF RingInv
<1>5. ASSUME NEW w \in Workers, Finish(w)
      PROVE  RingInv'
  BY <1>1, <1>5 DEF Finish, TypeOK, RingInv, Slot, ring
<1>. QED
  BY <1>2, <1>3, <1>4, <1>5 DEF Next, WorkerMoves

\* Every step keeps each task in one place of the pool.
LEMMA EachTaskOnceStep ==
  ASSUME IndInv, [Next]_vars
  PROVE  EachTaskOnce'
<1>1. TypeOK /\ RingInv /\ EachTaskOnce
  BY DEF IndInv
<1>2. CASE WorkerMoves
  BY <1>1, <1>2, WorkerMovesRing DEF EachTaskOnce, Queued, Running, Slot
<1>3. ASSUME NEW t \in Tasks, Add(t)
      PROVE  EachTaskOnce'
  <2>0. /\ count' = count + 1 /\ count \in Nat /\ count < QueueSize
        /\ task' = task /\ t \notin Queued /\ t \notin Running
    BY <1>1, <1>3, PoolAssumption DEF Add, Accepts, TypeOK
  <2>1. \A k \in 0 .. count' - 1 :
          \/ k = count /\ queue'[Slot(k)'] = t
          \/ k \in 0 .. count - 1 /\ queue'[Slot(k)'] = queue[Slot(k)]
    BY <1>3, <2>0, AddRing, PoolAssumption
  <2>2. Queued' \subseteq Queued \cup {t}
    BY <2>1 DEF Queued
  <2>3. Running' = Running
    BY <2>0 DEF Running
  <2>4. \A j \in 0 .. count - 1 : queue[Slot(j)] # t
    BY <2>0 DEF Queued
  <2>5. \A j, k \in 0 .. count' - 1 : queue'[Slot(j)'] = queue'[Slot(k)'] => j = k
    BY <1>1, <2>1, <2>4 DEF EachTaskOnce
  <2>. QED
    BY <1>1, <2>0, <2>2, <2>3, <2>5 DEF EachTaskOnce
<1>4. ASSUME NEW w \in Workers, Grab(w)
      PROVE  EachTaskOnce'
  <2>. DEFINE first == queue[Slot(0)]
  <2>0. count \in 1 .. QueueSize /\ count' = count - 1
    BY <1>1, <1>4, GrabRing DEF TypeOK
  <2>1. first \in Queued /\ first \notin Running /\ first \in Tasks
    BY <1>1, <2>0 DEF Queued, EachTaskOnce, RingInv
  <2>2. \A k \in 0 .. count' - 1 :
          k + 1 \in 0 .. count - 1 /\ queue'[Slot(k)'] = queue[Slot(k + 1)]
    BY <1>4, <2>0, GrabRing, PoolAssumption
  <2>3. Queued' \subseteq Queued \ {first}
    BY <1>1, <2>0, <2>2 DEF Queued, EachTaskOnce
  <2>4. task' = [task EXCEPT ![w] = first]
    BY <1>4, GrabRing
  <2>5. Running' \subseteq Running \cup {first}
    BY <1>1, <2>4 DEF Running, TypeOK
  <2>6. \A u, v \in Workers : task'[u] = task'[v] /\ task'[u] # NoTask => u = v
    BY <1>1, <2>1, <2>4 DEF EachTaskOnce, Running, TypeOK
  <2>7. \A j, k \in 0 .. count' - 1 : queue'[Slot(j)'] = queue'[Slot(k)'] => j = k
    BY <1>1, <2>0, <2>2 DEF EachTaskOnce
  <2>. QED
    BY <1>1, <2>3, <2>5, <2>6, <2>7 DEF EachTaskOnce
<1>5. ASSUME NEW w \in Workers, Finish(w)
      PROVE  EachTaskOnce'
  BY <1>1, <1>5 DEF Finish, TypeOK, EachTaskOnce, Queued, Running, Slot, ring
<1>. QED
  BY <1>2, <1>3, <1>4, <1>5 DEF Next, WorkerMoves

\* Where a task is after each step, as a caller of the pool sees it: in the ring,
\* with a worker, or in neither.
LEMMA TasksMove ==
  ASSUME IndInv
  PROVE  /\ WorkerMoves => Queued' = Queued /\ Running' = Running
         /\ \A t \in Tasks : Add(t) =>
              t \notin Queued /\ Queued' = Queued \cup {t} /\ Running' = Running
         /\ \A w \in Workers : Grab(w) =>
              \E t \in Queued : Queued' = Queued \ {t} /\ Running' = Running \cup {t}
         /\ \A w \in Workers : Finish(w) =>
              task[w] \in Running /\ Queued' = Queued /\ Running' = Running \ {task[w]}
<1>1. TypeOK /\ RingInv /\ EachTaskOnce
  BY DEF IndInv
<1>2. ASSUME WorkerMoves PROVE Queued' = Queued /\ Running' = Running
  BY <1>2, WorkerMovesRing DEF Queued, Running, Slot
<1>3. ASSUME NEW t \in Tasks, Add(t)
      PROVE  t \notin Queued /\ Queued' = Queued \cup {t} /\ Running' = Running
  <2>1. /\ count' = count + 1 /\ count \in Nat /\ count < QueueSize
        /\ task' = task /\ t \notin Queued
    BY <1>1, <1>3, PoolAssumption DEF Add, Accepts, TypeOK
  <2>2. \A k \in 0 .. count' - 1 :
          queue'[Slot(k)'] = IF k = count THEN t ELSE queue[Slot(k)]
    BY <1>3, <2>1, AddRing, PoolAssumption
  <2>3. \A k \in 0 .. count' - 1 : k = count \/ k \in 0 .. count - 1
    BY <2>1
  <2>4. Queued' = Queued \cup {t}
    <3>1. Queued' \subseteq Queued \cup {t}
      BY <2>2, <2>3 DEF Queued
    <3>2. Queued \subseteq Queued'
      <4>1. ASSUME NEW k \in 0 .. count - 1 PROVE queue[Slot(k)] \in Queued'
        <5>1. k \in 0 .. count' - 1 /\ k # count
          BY <2>1
        <5>. QED
          BY <2>2, <5>1 DEF Queued
      <4>. QED
        BY <4>1 DEF Queued
    <3>3. t \in Queued'
      <4>1. PICK k \in 0 .. count' - 1 : k = count
        BY <2>1
      <4>. QED
        BY <2>2, <4>1 DEF Queued
    <3>. QED
      BY <3>1, <3>2, <3>3
  <2>. QED
    BY <2>1, <2>4 DEF Running
<1>4. ASSUME NEW w \in Workers, Grab(w)
      PROVE  \E t \in Queued : Queued' = Queued \ {t} /\ Running' = Running \cup {t}
  <2>. DEFINE first == queue[Slot(0)]
  <2>1. count \in 1 .. QueueSize /\ count' = count - 1
    BY <1>1, <1>4, GrabRing DEF TypeOK
  <2>2. first \in Queued /\ first \in Tasks
    BY <1>1, <2>1 DEF Queued, RingInv
  <2>3. \A k \in 0 .. count' - 1 :
          k + 1 \in 0 .. count - 1 /\ queue'[Slot(k)'] = queue[Slot(k + 1)]
    BY <1>4, <2>1, GrabRing, PoolAssumption
  <2>4. Queued' \subseteq Queued \ {first}
    BY <1>1, <2>1, <2>3 DEF Queued, EachTaskOnce
  <2>5. ASSUME NEW t \in Queued \ {first} PROVE t \in Queued'
    <3>1. PICK k \in 0 .. count - 1 : t = queue[Slot(k)]
      BY DEF Queued
    <3>2. k # 0 /\ k - 1 \in 0 .. count' - 1 /\ (k - 1) + 1 = k
      BY <2>1, <3>1
    <3>3. queue'[Slot(k - 1)'] = t
      BY <2>3, <3>1, <3>2
    <3>. QED
      BY <3>2, <3>3 DEF Queued
  <2>6. task' = [task EXCEPT ![w] = first] /\ task[w] = NoTask
    BY <1>1, <1>4, GrabRing DEF Grab, RingInv
  <2>7. Running' = Running \cup {first}
    <3>1. \A v \in Workers : task'[v] = IF v = w THEN first ELSE task[v]
      BY <1>1, <2>6 DEF TypeOK
    <3>2. first # NoTask
      BY <2>2, PoolAssumption
    <3>. QED
      BY <2>6, <3>1, <3>2 DEF Running
  <2>. QED
    BY <2>2, <2>4, <2>5, <2>7
<1>5. ASSUME NEW w \in Workers, Finish(w)
      PROVE  task[w] \in Running /\ Queued' = Queued /\ Running' = Running \ {task[w]}
  <2>1. /\ task[w] # NoTask /\ UNCHANGED <<queue, head, count>>
        /\ \A v \in Workers : task'[v] = IF v = w THEN NoTask ELSE task[v]
    BY <1>1, <1>5 DEF Finish, RingInv, TypeOK, ring
  <2>2. \A v \in Workers : task[v] = task[w] => v = w
    BY <1>1, <2>1 DEF EachTaskOnce
  <2>3. task[w] \in Running
    BY <2>1 DEF Running
  <2>4. Running' = Running \ {task[w]}
    BY <2>1, <2>2 DEF Running
  <2>. QED
    BY <2>1, <2>3, <2>4 DEF Queued, Slot
<1>. QED
  BY <1>2, <1>3, <1>4, <1>5

-------------------------------------------------------------------------------
(* The life of the pool. *)

\* Every step keeps creation, shutdown and release consistent with the workers.
LEMMA PhaseStep ==
  ASSUME IndInv, [Next]_vars
  PROVE  PhaseInv'
<1>1. TypeOK /\ PhaseInv /\ ThreadCount \in Nat \ {0}
  BY PoolAssumption DEF IndInv
<1>2. CASE CreateWorker
  <2>1. /\ threadCount \in Workers /\ pc[threadCount] = "absent"
        /\ threadCount' = threadCount + 1 /\ threadCount' <= ThreadCount
        /\ pc' = [pc EXCEPT ![threadCount] = "lock"]
    BY <1>1, <1>2 DEF CreateWorker, PhaseInv, TypeOK, Workers
  <2>2. Started' = Started \cup {threadCount} /\ threadCount \notin Started
    BY <1>1, <2>1 DEF Started, TypeOK
  <2>3. started' = Cardinality(Started)'
    BY <1>1, <1>2, <2>1, <2>2, OneMore DEF CreateWorker, PhaseInv, Started
  <2>4. \A w \in Workers : pc'[w] = "absent" <=> w >= threadCount'
    BY <1>1, <2>1 DEF PhaseInv, TypeOK, Workers
  <2>5. \A w \in Workers : w >= joined' /\ pc'[w] # "exited"
    BY <1>1, <1>2, <2>1 DEF CreateWorker, PhaseInv, TypeOK, Workers, MustExit
  <2>. QED
    BY <1>1, <1>2, <2>1, <2>3, <2>4, <2>5 DEF CreateWorker, PhaseInv, TypeOK, Workers
<1>3. CASE CreateFails \/ \E kind \in {"graceful", "immediate"} : Destroy(kind)
  <2>1. /\ shutdown' \in {"graceful", "immediate"} /\ phase' = "joining"
        /\ shutdown = "no"
        /\ UNCHANGED <<started, threadCount, joined>>
        /\ shutdown' = "graceful" => phase = "ready"
    BY <1>3 DEF CreateFails, Destroy, BeginDestroy
  <2>2. \A w \in Workers : /\ pc'[w] = "absent" <=> pc[w] = "absent"
                           /\ pc'[w] = "exited" <=> pc[w] = "exited"
                           /\ pc'[w] \in {"lock", "wait", "work"} <=>
                                pc[w] \in {"lock", "wait", "work"}
    BY <1>1, <1>3 DEF CreateFails, Destroy, BeginDestroy, CondBroadcast, Sleeping,
                      TypeOK
  <2>3. Started' = Started
    BY <2>2 DEF Started
  <2>4. \A w \in Workers : pc[w] # "exited"
    BY <1>1, <2>1 DEF PhaseInv, MustExit
  <2>. QED
    BY <1>1, <2>1, <2>2, <2>3, <2>4 DEF PhaseInv
<1>4. CASE Join
  BY <1>1, <1>4 DEF Join, PhaseInv, Started, TypeOK, Workers, MustExit, ring
<1>5. CASE Free
  BY <1>1, <1>5 DEF Free, PhaseInv, Started, MustExit, ring
<1>6. ASSUME NEW t \in Tasks, Add(t)
      PROVE  PhaseInv'
  <2>1. /\ shutdown = "no"
        /\ UNCHANGED <<shutdown, started, threadCount, phase, joined>>
    BY <1>6 DEF Add, Accepts, owner
  <2>2. \A w \in Workers : /\ pc'[w] = "absent" <=> pc[w] = "absent"
                           /\ pc'[w] = "exited" <=> pc[w] = "exited"
                           /\ pc'[w] \in {"lock", "wait", "work"} <=>
                                pc[w] \in {"lock", "wait", "work"}
    BY <1>1, <1>6 DEF Add, CondSignal, Sleeping, TypeOK
  <2>3. Started' = Started
    BY <2>2 DEF Started
  <2>4. \A w \in Workers : pc[w] # "exited"
    BY <1>1, <2>1 DEF PhaseInv, MustExit
  <2>. QED
    BY <1>1, <2>1, <2>2, <2>3, <2>4 DEF PhaseInv
<1>7. ASSUME NEW w \in Workers, Wait(w) \/ Grab(w) \/ Finish(w) \/ SpuriousWakeup(w)
      PROVE  PhaseInv'
  <2>1. UNCHANGED <<shutdown, started, threadCount, phase, joined>>
    BY <1>7 DEF Wait, Grab, Finish, SpuriousWakeup, owner
  <2>2. \A v \in Workers : /\ pc'[v] = "absent" <=> pc[v] = "absent"
                           /\ pc'[v] = "exited" <=> pc[v] = "exited"
                           /\ pc'[v] \in {"lock", "wait", "work"} <=>
                                pc[v] \in {"lock", "wait", "work"}
    BY <1>1, <1>7 DEF Wait, Grab, Finish, SpuriousWakeup, TypeOK
  <2>3. Started' = Started
    BY <2>2 DEF Started
  <2>4. MustExit => MustExit'
    BY <1>1, <1>7, <2>1
       DEF Wait, Grab, Finish, SpuriousWakeup, MustExit, MustWait, ring
  <2>. QED
    BY <1>1, <2>1, <2>2, <2>3, <2>4 DEF PhaseInv
<1>8. ASSUME NEW w \in Workers, Exit(w)
      PROVE  PhaseInv'
  <2>1. /\ UNCHANGED <<shutdown, count, threadCount, phase, joined>>
        /\ pc[w] = "lock" /\ pc' = [pc EXCEPT ![w] = "exited"]
        /\ started' = started - 1 /\ MustExit
    BY <1>8 DEF Exit, owner, ring
  <2>2. Started' = Started \ {w} /\ w \in Started /\ Started \in SUBSET Workers
    BY <1>1, <2>1 DEF Started, TypeOK
  <2>3. started' = Cardinality(Started')
    BY <1>1, <2>1, <2>2, OneLess DEF PhaseInv
  <2>4. MustExit'
    BY <2>1 DEF MustExit
  <2>. QED
    BY <1>1, <2>1, <2>3, <2>4 DEF PhaseInv, TypeOK
<1>9. CASE UNCHANGED vars
  BY <1>1, <1>9 DEF vars, PhaseInv, Started, MustExit
<1>. QED
  BY <1>2, <1>3, <1>4, <1>5, <1>6, <1>7, <1>8, <1>9 DEF Next

-------------------------------------------------------------------------------
(* Wake-ups. *)

\* No step puts a worker to sleep after shutdown is set, and setting it wakes all.
LEMMA NoSleeperStep ==
  ASSUME IndInv, [Next]_vars
  PROVE  NobodySleepsThroughShutdown'
<1>1. TypeOK /\ PhaseInv /\ NobodySleepsThroughShutdown
  BY DEF IndInv
<1>. USE DEF NobodySleepsThroughShutdown, Sleeping, TypeOK
<1>2. CASE CreateWorker
  BY <1>1, <1>2 DEF CreateWorker, PhaseInv
<1>3. CASE CreateFails \/ \E kind \in {"graceful", "immediate"} : Destroy(kind)
  BY <1>1, <1>3 DEF CreateFails, Destroy, BeginDestroy, CondBroadcast
<1>4. CASE Join \/ Free \/ UNCHANGED vars
  BY <1>1, <1>4 DEF Join, Free, vars
<1>5. ASSUME NEW t \in Tasks, Add(t)
      PROVE  NobodySleepsThroughShutdown'
  BY <1>5 DEF Add, Accepts
<1>6. ASSUME NEW w \in Workers, Wait(w)
      PROVE  NobodySleepsThroughShutdown'
  BY <1>6 DEF Wait, MustWait
<1>7. ASSUME NEW w \in Workers, Grab(w) \/ Exit(w) \/ Finish(w) \/ SpuriousWakeup(w)
      PROVE  NobodySleepsThroughShutdown'
  BY <1>1, <1>7 DEF Grab, Exit, Finish, SpuriousWakeup
<1>. QED
  BY <1>2, <1>3, <1>4, <1>5, <1>6, <1>7 DEF Next

\* The workers NoTaskWaitsForASleeper counts.
AtLock == {w \in Workers : pc[w] = "lock"}

\* A worker that arrives at the lock keeps the balance of tasks and awake workers.
LEMMA WokenKeepsBalance ==
  ASSUME IndInv, NEW w \in Workers, pc[w] # "lock", pc' = [pc EXCEPT ![w] = "lock"]
  PROVE  /\ Cardinality(AtLock)' = Cardinality(AtLock) + 1
         /\ Cardinality(AtLock) \in Nat
<1>1. AtLock' = AtLock \cup {w} /\ w \notin AtLock /\ AtLock \in SUBSET Workers
  BY DEF AtLock, IndInv, TypeOK
<1>2. Cardinality(AtLock') = Cardinality(AtLock) + 1
  BY <1>1, OneMore
<1>. QED
  BY <1>1, <1>2, WorkersFinite

\* No step leaves more waiting tasks than awake workers while one sleeps.
LEMMA NoStrandedTaskStep ==
  ASSUME IndInv, [Next]_vars
  PROVE  NoTaskWaitsForASleeper'
<1>1. /\ TypeOK /\ PhaseInv /\ NobodySleepsThroughShutdown /\ count \in Nat
      /\ shutdown = "no" /\ Sleeping # {} => count <= Cardinality(AtLock)
      /\ AtLock \in SUBSET Workers
  BY PoolAssumption
  DEF IndInv, TypeOK, NoTaskWaitsForASleeper, AtLock
<1>2. SUFFICES ASSUME shutdown' = "no", Sleeping' # {}
               PROVE  count' <= Cardinality(AtLock)'
  BY DEF NoTaskWaitsForASleeper, AtLock
<1>3. CASE CreateWorker
  <2>1. /\ threadCount \in Workers /\ pc[threadCount] = "absent"
        /\ pc' = [pc EXCEPT ![threadCount] = "lock"]
        /\ UNCHANGED <<count, shutdown>>
    <3>1. threadCount \in Workers
      BY <1>1, <1>3, PoolAssumption DEF CreateWorker, PhaseInv, TypeOK, Workers
    <3>. QED
      BY <1>1, <1>3, <3>1, PoolAssumption
      DEF CreateWorker, PhaseInv, TypeOK, Workers, ring
  <2>2. Sleeping' = Sleeping
    BY <1>1, <2>1 DEF Sleeping, TypeOK
  <2>3. Cardinality(AtLock)' = Cardinality(AtLock) + 1 /\ Cardinality(AtLock) \in Nat
    BY <2>1, WokenKeepsBalance
  <2>. QED
    BY <1>1, <1>2, <2>1, <2>2, <2>3
<1>4. CASE CreateFails \/ \E kind \in {"graceful", "immediate"} : Destroy(kind)
  BY <1>2, <1>4 DEF CreateFails, Destroy, BeginDestroy
<1>5. CASE Join \/ Free \/ UNCHANGED vars
  BY <1>1, <1>2, <1>5 DEF Join, Free, vars, ring, Sleeping, AtLock
<1>6. ASSUME NEW t \in Tasks, Add(t)
      PROVE  count' <= Cardinality(AtLock)'
  <2>1. count' = count + 1 /\ shutdown = "no"
    BY <1>6 DEF Add, Accepts
  <2>2. PICK w \in Sleeping : pc' = [pc EXCEPT ![w] = "lock"]
    BY <1>2, <1>6 DEF Add, CondSignal, Sleeping
  <2>3. Cardinality(AtLock)' = Cardinality(AtLock) + 1 /\ Cardinality(AtLock) \in Nat
    BY <2>2, WokenKeepsBalance DEF Sleeping
  <2>. QED
    BY <1>1, <2>1, <2>2, <2>3
<1>7. ASSUME NEW w \in Workers, Wait(w)
      PROVE  count' <= Cardinality(AtLock)'
  <2>1. count' = 0
    BY <1>1, <1>2, <1>7, PoolAssumption DEF Wait, MustWait, ring
  <2>2. AtLock' \in SUBSET Workers
    BY DEF AtLock
  <2>. QED
    BY <2>1, <2>2, WorkersFinite
<1>8. ASSUME NEW w \in Workers, Grab(w)
      PROVE  count' <= Cardinality(AtLock)'
  <2>1. /\ count' = count - 1 /\ shutdown' = shutdown
        /\ pc[w] = "lock" /\ pc' = [pc EXCEPT ![w] = "work"]
    BY <1>8 DEF Grab
  <2>2. AtLock' = AtLock \ {w} /\ w \in AtLock /\ Sleeping' = Sleeping
    BY <1>1, <2>1 DEF AtLock, Sleeping, TypeOK
  <2>3. Cardinality(AtLock') = Cardinality(AtLock) - 1
    BY <1>1, <2>2, OneLess
  <2>. QED
    BY <1>1, <1>2, <2>1, <2>2, <2>3, WorkersFinite
<1>9. ASSUME NEW w \in Workers, Exit(w)
      PROVE  count' <= Cardinality(AtLock)'
  BY <1>2, <1>9 DEF Exit, MustExit
<1>10. ASSUME NEW w \in Workers, Finish(w) \/ SpuriousWakeup(w)
       PROVE  count' <= Cardinality(AtLock)'
  <2>1. /\ UNCHANGED <<count, shutdown>>
        /\ pc[w] # "lock" /\ pc' = [pc EXCEPT ![w] = "lock"]
    BY <1>10 DEF Finish, SpuriousWakeup, ring
  <2>2. Sleeping # {}
    BY <1>1, <1>2, <2>1 DEF Sleeping, TypeOK
  <2>3. Cardinality(AtLock)' = Cardinality(AtLock) + 1 /\ Cardinality(AtLock) \in Nat
    BY <2>1, WokenKeepsBalance
  <2>. QED
    BY <1>1, <1>2, <2>1, <2>2, <2>3
<1>. QED
  BY <1>3, <1>4, <1>5, <1>6, <1>7, <1>8, <1>9, <1>10 DEF Next

-------------------------------------------------------------------------------
(* Release. *)

\* threadpool_free finds no started worker, and nothing moves after it.
LEMMA QuietStep ==
  ASSUME IndInv, [Next]_vars
  PROVE  PoolReleasedWhenQuiet'
<1>1. TypeOK /\ PhaseInv /\ PoolReleasedWhenQuiet
  BY DEF IndInv
<1>2. CASE Free
  <2>1. \A w \in Workers : pc[w] \in {"absent", "exited"}
    BY <1>1, <1>2 DEF Free, PhaseInv, TypeOK, Workers
  <2>2. Started = {}
    BY <2>1 DEF Started
  <2>3. started = 0
    BY <1>1, <2>2, FS_EmptySet DEF PhaseInv
  <2>. QED
    BY <1>2, <2>1, <2>3 DEF Free, PoolReleasedWhenQuiet
<1>3. CASE CreateWorker \/ CreateFails \/ Join
           \/ \E kind \in {"graceful", "immediate"} : Destroy(kind)
  BY <1>1, <1>3 DEF CreateWorker, CreateFails, Join, Destroy, BeginDestroy,
                    PoolReleasedWhenQuiet
<1>4. CASE \E t \in Tasks : Add(t)
  BY <1>1, <1>4 DEF Add, owner, PoolReleasedWhenQuiet
<1>5. ASSUME NEW w \in Workers,
             Wait(w) \/ Grab(w) \/ Exit(w) \/ Finish(w) \/ SpuriousWakeup(w)
      PROVE  PoolReleasedWhenQuiet'
  <2>1. phase' = phase /\ pc[w] \in {"lock", "wait", "work"}
    BY <1>5 DEF Wait, Grab, Exit, Finish, SpuriousWakeup, owner
  <2>. QED
    BY <1>1, <2>1 DEF PoolReleasedWhenQuiet
<1>6. CASE UNCHANGED vars
  BY <1>1, <1>6 DEF vars, PoolReleasedWhenQuiet
<1>. QED
  BY <1>2, <1>3, <1>4, <1>5, <1>6 DEF Next

-------------------------------------------------------------------------------
(* The invariant, and the properties that follow from it. *)

\* threadpool_create sets the pool up consistently.
LEMMA InitInv == Init => IndInv
<1>. SUFFICES ASSUME Init PROVE IndInv
  OBVIOUS
<1>1. TypeOK /\ RingInv
  BY PoolAssumption DEF Init, TypeOK, RingInv, Slot, Slots, Workers
<1>2. Started = {} /\ Sleeping = {}
  BY DEF Init, Started, Sleeping
<1>3. PhaseInv
  BY <1>2, FS_EmptySet, PoolAssumption DEF Init, PhaseInv, Workers
<1>4. EachTaskOnce
  BY DEF Init, EachTaskOnce, Queued
<1>. QED
  BY <1>1, <1>2, <1>3, <1>4
  DEF Init, IndInv, NoTaskWaitsForASleeper, NobodySleepsThroughShutdown,
      PoolReleasedWhenQuiet

\* Every step of the pool keeps the invariant.
LEMMA StepInv == IndInv /\ [Next]_vars => IndInv'
BY TypeStep, RingStep, PhaseStep, EachTaskOnceStep, NoStrandedTaskStep,
   NoSleeperStep, QuietStep
DEF IndInv

\* The inductive invariant holds of every reachable state of the pool, for every
\* thread count, queue size and set of tasks.
THEOREM Invariance == Spec => []IndInv
BY InitInv, StepInv, PTL DEF Spec

\* The pool's fields keep their ranges: indices inside the ring, count at most
\* queue_size, started at most thread_count.
THEOREM TypeCorrect == Spec => []TypeOK
<1>1. IndInv => TypeOK
  BY DEF IndInv
<1>. QED
  BY <1>1, Invariance, PTL

\* No task is run twice, and none is overwritten in the ring.
THEOREM TasksOnce == Spec => []EachTaskOnce
<1>1. IndInv => EachTaskOnce
  BY DEF IndInv
<1>. QED
  BY <1>1, Invariance, PTL

\* No wake-up is lost by threadpool_add.
THEOREM NoLostWakeup == Spec => []NoTaskWaitsForASleeper
<1>1. IndInv => NoTaskWaitsForASleeper
  BY DEF IndInv
<1>. QED
  BY <1>1, Invariance, PTL

\* No wake-up is lost by threadpool_destroy.
THEOREM NoSleeperAtShutdown == Spec => []NobodySleepsThroughShutdown
<1>1. IndInv => NobodySleepsThroughShutdown
  BY DEF IndInv
<1>. QED
  BY <1>1, Invariance, PTL

\* The pool is freed, never leaked by a refused threadpool_free, and only once
\* no worker can touch it.
THEOREM SafeRelease == Spec => []PoolReleasedWhenQuiet
<1>1. IndInv => PoolReleasedWhenQuiet
  BY DEF IndInv
<1>. QED
  BY <1>1, Invariance, PTL

\* A graceful shutdown has run every task by the time the pool is freed: the
\* first worker was allowed to exit, so the ring was empty then, and nothing
\* was accepted since.
THEOREM GracefulShutdown == Spec => []GracefulRunsEverything
<1>1. IndInv => GracefulRunsEverything
  <2>. SUFFICES ASSUME IndInv, phase = "freed", shutdown = "graceful"
                PROVE  count = 0 /\ Running = {}
    BY DEF GracefulRunsEverything
  <2>1. \A w \in Workers : pc[w] = "exited"
    BY DEF IndInv, TypeOK, PhaseInv, Workers
  <2>2. 0 \in Workers
    BY PoolAssumption DEF Workers
  <2>3. count = 0
    BY <2>1, <2>2 DEF IndInv, PhaseInv, MustExit
  <2>4. Running = {}
    BY <2>1 DEF IndInv, RingInv, Running
  <2>. QED
    BY <2>3, <2>4
<1>. QED
  BY <1>1, Invariance, PTL

-------------------------------------------------------------------------------
(* The ring under its mutex implements the bounded FIFO of TaskPool. *)

\* What the ring holds, oldest task first: the refinement mapping of pending.
Pend == [i \in 1 .. count |-> queue[Slot(i - 1)]]

\* The mapping is a sequence of tasks as long as count.
LEMMA PendFacts ==
  ASSUME IndInv
  PROVE  /\ Pend \in Seq(Tasks) /\ Len(Pend) = count /\ DOMAIN Pend = 1 .. count
         /\ \A i \in 1 .. count : Pend[i] = queue[Slot(i - 1)]
<1>1. count \in Nat
  BY PoolAssumption DEF IndInv, TypeOK
<1>2. \A i \in 1 .. count : i - 1 \in 0 .. count - 1
  BY <1>1
<1>3. \A i \in 1 .. count : queue[Slot(i - 1)] \in Tasks
  BY <1>2 DEF IndInv, RingInv
<1> QED
  BY <1>1, <1>3 DEF Pend

\* A step that touches neither the ring nor shutdown leaves the mapping alone.
LEMMA PendUnchanged == UNCHANGED <<queue, head, count>> => UNCHANGED Pend
  BY DEF Pend, Slot

\* threadpool_add appends its task to what the ring holds.
LEMMA AddAppends ==
  ASSUME IndInv, IndInv', NEW t \in Tasks, Add(t)
  PROVE  Pend' = Append(Pend, t) /\ Len(Pend) < QueueSize
<1>1. count \in Nat /\ count' = count + 1 /\ count < QueueSize
  BY PoolAssumption DEF IndInv, TypeOK, Add, Accepts
<1>2. /\ Pend \in Seq(Tasks) /\ Len(Pend) = count
      /\ \A i \in 1 .. count : Pend[i] = queue[Slot(i - 1)]
  BY PendFacts
<1>3. Pend' = [i \in 1 .. count + 1 |-> queue'[Slot(i - 1)']]
  BY <1>1 DEF Pend
<1>4. ASSUME NEW i \in 1 .. count + 1
      PROVE  queue'[Slot(i - 1)'] = Append(Pend, t)[i]
  <2>1. i - 1 \in 0 .. QueueSize /\ Slot(i - 1)' = Slot(i - 1)
    BY <1>1, AddRing, PoolAssumption
  <2>2. CASE i = count + 1
    <3>1. i - 1 = count
      BY <1>1, <2>2
    <3>2. queue'[Slot(i - 1)'] = t
      BY <2>1, <3>1, AddRing
    <3>3. Append(Pend, t)[i] = t
      BY <1>2, <2>2
    <3> QED BY <3>2, <3>3
  <2>3. CASE i \in 1 .. count
    <3>1. i - 1 \in 0 .. count - 1
      BY <1>1, <2>3
    <3>2. queue'[Slot(i - 1)'] = queue[Slot(i - 1)]
      BY <2>1, <3>1, AddRing
    <3>3. Append(Pend, t)[i] = Pend[i]
      BY <1>2, <2>3
    <3> QED BY <1>2, <2>3, <3>2, <3>3
  <2>4. i = count + 1 \/ i \in 1 .. count
    BY <1>1
  <2> QED BY <2>2, <2>3, <2>4
<1>5. Append(Pend, t) = [i \in 1 .. count + 1 |-> Append(Pend, t)[i]]
  <2>1. Append(Pend, t) \in Seq(Tasks) /\ Len(Append(Pend, t)) = count + 1
    BY <1>2, AppendProperties
  <2>2. Append(Pend, t) \in [1 .. count + 1 -> Tasks]
    BY <2>1, LenProperties
  <2> QED BY <2>2
<1> QED
  BY <1>1, <1>2, <1>3, <1>4, <1>5

\* A worker takes the first of what the ring holds.
LEMMA GrabTakesFirst ==
  ASSUME IndInv, NEW w \in Workers, Grab(w)
  PROVE  /\ Pend # <<>>
         /\ task' = [task EXCEPT ![w] = Head(Pend)]
         /\ Pend' = Tail(Pend)
<1>1. count \in Nat /\ count > 0 /\ count' = count - 1 /\ queue' = queue
      /\ count <= QueueSize
  BY GrabRing, PoolAssumption DEF IndInv, TypeOK
<1>2. /\ Pend \in Seq(Tasks) /\ Len(Pend) = count
      /\ \A i \in 1 .. count : Pend[i] = queue[Slot(i - 1)]
  BY PendFacts
<1>3. Pend[1] = queue[Slot(0)]
  BY <1>1, <1>2
<1>4. Pend # <<>> /\ Head(Pend) = Pend[1]
  BY <1>1, <1>2
<1>5. Pend' = [i \in 1 .. count - 1 |-> queue[Slot(i - 1)']]
  BY <1>1 DEF Pend
<1>6. ASSUME NEW i \in 1 .. count - 1
      PROVE  queue[Slot(i - 1)'] = Pend[i + 1]
  <2>1. /\ i - 1 \in 0 .. QueueSize - 1 /\ (i - 1) + 1 = i /\ i + 1 \in 1 .. count
        /\ (i + 1) - 1 = i
    BY <1>1, PoolAssumption
  <2>2. Slot(i - 1)' = Slot((i - 1) + 1)
    BY <2>1, GrabRing
  <2> QED BY <1>2, <2>1, <2>2
<1>7. Tail(Pend) = [i \in 1 .. count - 1 |-> Pend[i + 1]]
  <2>1. /\ Tail(Pend) \in Seq(Tasks) /\ Len(Tail(Pend)) = count - 1
        /\ \A i \in 1 .. count - 1 : Tail(Pend)[i] = Pend[i + 1]
    BY <1>1, <1>2, <1>4, HeadTailProperties
  <2>2. Tail(Pend) \in [1 .. count - 1 -> Tasks]
    BY <2>1, LenProperties
  <2>3. Tail(Pend) = [i \in 1 .. count - 1 |-> Tail(Pend)[i]]
    BY <2>2
  <2> QED BY <2>1, <2>3
<1>8. task' = [task EXCEPT ![w] = queue[Slot(0)]]
  BY GrabRing
<1> QED
  BY <1>3, <1>4, <1>5, <1>6, <1>7, <1>8

\* The refinement mapping of mode.
Mode == IF phase = "freed" THEN "closed"
        ELSE IF shutdown = "no" THEN "open" ELSE shutdown

\* A worker that can still move belongs to a pool that is not freed.
LEMMA MovesBeforeFree ==
  ASSUME IndInv, NEW w \in Workers, pc[w] \in {"lock", "wait", "work"}
  PROVE  phase # "freed"
  BY DEF IndInv, PoolReleasedWhenQuiet

\* When the pool is freed it runs nothing, and owes nothing if it was graceful.
LEMMA FreeOwesNothing ==
  ASSUME IndInv, Free
  PROVE  /\ phase' = "freed" /\ phase = "joining"
         /\ shutdown \in {"graceful", "immediate"}
         /\ \A w \in Workers : task[w] = NoTask
         /\ shutdown = "graceful" => count = 0
<1>1. TypeOK /\ RingInv /\ PhaseInv
  BY DEF IndInv
<1>2. phase = "joining" /\ joined = threadCount
  BY DEF Free
<1>3. \A w \in Workers : pc[w] \in {"absent", "exited"}
  BY <1>1, <1>2 DEF PhaseInv, TypeOK, Workers
<1>4. Started = {}
  BY <1>3 DEF Started
<1>5. started = 0
  BY <1>1, <1>4, FS_EmptySet DEF PhaseInv
<1>6. shutdown \in {"graceful", "immediate"}
  BY <1>1, <1>2 DEF PhaseInv, TypeOK
<1>7. \A w \in Workers : task[w] = NoTask
  BY <1>1, <1>3 DEF RingInv
<1>8. ASSUME shutdown = "graceful" PROVE count = 0
  <2>1. 0 \in Workers /\ threadCount = ThreadCount
    BY <1>1, <1>8, PoolAssumption DEF Workers, PhaseInv
  <2>2. pc[0] = "exited"
    BY <1>1, <1>2, <2>1, PoolAssumption DEF PhaseInv
  <2> QED BY <1>1, <1>8, <2>1, <2>2 DEF PhaseInv, MustExit
<1> QED
  BY <1>2, <1>5, <1>6, <1>7, <1>8 DEF Free

\* Every step of the pool is a step of TaskPool or changes nothing TaskPool has.
LEMMA StepImplements ==
  ASSUME IndInv, IndInv', [Next]_vars
  PROVE  [Abstract!Next]_(Abstract!vars)
<1> USE DEF Mode, Pend
<1>1. TypeOK /\ RingInv /\ PhaseInv
  BY DEF IndInv
<1>2. CASE CreateWorker
  <2>1. UNCHANGED <<queue, head, count, shutdown, task>>
        /\ phase # "freed" /\ phase' # "freed"
    BY <1>2 DEF CreateWorker, ring
  <2>2. UNCHANGED Pend /\ UNCHANGED Mode
    BY <2>1, PendUnchanged
  <2> QED BY <2>1, <2>2 DEF Abstract!vars
<1>3. ASSUME NEW kind \in {"graceful", "immediate"}, BeginDestroy(kind), phase # "freed"
      PROVE  Abstract!Next
  <2>1. UNCHANGED <<queue, head, count, task>> /\ shutdown = "no"
        /\ shutdown' = kind /\ phase' = "joining"
    BY <1>3 DEF BeginDestroy, ring
  <2>2. UNCHANGED Pend /\ Mode = "open" /\ Mode' = kind
    BY <1>3, <2>1, PendUnchanged
  <2>3. Abstract!Shutdown(kind)
    BY <2>1, <2>2 DEF Abstract!Shutdown
  <2> QED BY <2>3 DEF Abstract!Next
<1>4. CASE Join
  <2>1. UNCHANGED <<queue, head, count, shutdown, task, phase>>
    BY <1>4 DEF Join, ring
  <2>2. UNCHANGED Pend /\ UNCHANGED Mode
    BY <2>1, PendUnchanged
  <2> QED BY <2>1, <2>2 DEF Abstract!vars
<1>5. CASE Free
  <2>1. UNCHANGED <<queue, head, count, shutdown, task>>
    BY <1>5 DEF Free, ring
  <2>2. UNCHANGED Pend /\ Mode = shutdown /\ Mode' = "closed"
    BY <1>5, <2>1, PendUnchanged, FreeOwesNothing
  <2>3. shutdown = "graceful" => Pend = <<>>
    BY <1>5, FreeOwesNothing
  <2>4. Abstract!Close
    BY <1>5, <2>1, <2>2, <2>3, FreeOwesNothing DEF Abstract!Close
  <2> QED BY <2>4 DEF Abstract!Next
<1>6. ASSUME NEW t \in Tasks, Add(t) PROVE Abstract!Next
  <2>1. UNCHANGED <<shutdown, task, phase>> /\ shutdown = "no" /\ phase # "freed"
    BY <1>6 DEF Add, Accepts, owner
  <2>2. Mode = "open" /\ Mode' = "open"
    BY <2>1
  <2>3. Pend' = Append(Pend, t) /\ Len(Pend) < QueueSize
    BY <1>6, AddAppends
  <2>4. Abstract!Submit(t)
    BY <2>1, <2>2, <2>3 DEF Abstract!Submit
  <2> QED BY <2>4 DEF Abstract!Next
<1>7. ASSUME NEW w \in Workers, Grab(w) PROVE Abstract!Next
  <2>1. UNCHANGED <<shutdown, phase>> /\ pc[w] = "lock" /\ shutdown # "immediate"
    BY <1>7 DEF Grab, MustExit, owner
  <2>2. phase # "freed" /\ task[w] = NoTask
    BY <1>1, <2>1, MovesBeforeFree DEF RingInv
  <2>3. Mode \in {"open", "graceful"} /\ Mode' = Mode
    BY <1>1, <2>1, <2>2 DEF TypeOK
  <2>4. Pend # <<>> /\ task' = [task EXCEPT ![w] = Head(Pend)] /\ Pend' = Tail(Pend)
    BY <1>7, GrabTakesFirst
  <2>5. Abstract!Start(w)
    BY <2>2, <2>3, <2>4 DEF Abstract!Start
  <2> QED BY <2>5 DEF Abstract!Next
<1>8. ASSUME NEW w \in Workers, Finish(w) PROVE Abstract!Next
  <2>1. UNCHANGED <<queue, head, count, shutdown, phase>> /\ pc[w] = "work"
        /\ task' = [task EXCEPT ![w] = NoTask]
    BY <1>8 DEF Finish, ring, owner
  <2>2. UNCHANGED Pend /\ UNCHANGED Mode /\ task[w] # NoTask
    BY <1>1, <2>1, PendUnchanged DEF RingInv
  <2>3. Abstract!Finish(w)
    BY <2>1, <2>2 DEF Abstract!Finish
  <2> QED BY <2>3 DEF Abstract!Next
<1>9. ASSUME NEW w \in Workers, Wait(w) \/ Exit(w) \/ SpuriousWakeup(w)
      PROVE  UNCHANGED Abstract!vars
  <2>1. UNCHANGED <<queue, head, count, shutdown, task, phase>>
    BY <1>9 DEF Wait, Exit, SpuriousWakeup, ring, owner
  <2>2. UNCHANGED Pend /\ UNCHANGED Mode
    BY <2>1, PendUnchanged
  <2> QED BY <2>1, <2>2 DEF Abstract!vars
<1>10. CASE UNCHANGED vars
  <2>1. UNCHANGED <<queue, head, count, shutdown, task, phase>>
    BY <1>10 DEF vars
  <2>2. UNCHANGED Pend /\ UNCHANGED Mode
    BY <2>1, PendUnchanged
  <2> QED BY <2>1, <2>2 DEF Abstract!vars
<1>11. CASE CreateFails
  BY <1>3, <1>11 DEF CreateFails
<1>12. ASSUME NEW kind \in {"graceful", "immediate"}, Destroy(kind)
       PROVE  Abstract!Next
  BY <1>3, <1>12 DEF Destroy
<1> QED
  BY <1>2, <1>4, <1>5, <1>6, <1>7, <1>8, <1>9, <1>10, <1>11, <1>12 DEF Next

\* The pool implements TaskPool: whatever the workers and the callers do, tasks
\* start in the order they were accepted, within the capacity, and shutdown
\* keeps the promise of its kind.
THEOREM Refinement == Spec => ImplementsTaskPool
<1>1. Init => Abstract!Init
  <2> SUFFICES ASSUME Init PROVE Abstract!Init
    OBVIOUS
  <2>1. Pend = <<>>
    BY DEF Init, Pend
  <2> QED BY <2>1 DEF Init, Abstract!Init, Pend
<1>2. IndInv /\ IndInv' /\ [Next]_vars => [Abstract!Next]_(Abstract!vars)
  BY StepImplements
<1> QED
  BY <1>1, <1>2, Invariance, PTL DEF Spec, ImplementsTaskPool, Abstract!Spec
===============================================================================
