------------------------------ MODULE ThreadPool ------------------------------
(***************************************************************************)
(* threadpool/threadpool.c: a ring of tasks, one mutex, one condition      *)
(* variable and a fixed number of worker threads.                          *)
(*                                                                         *)
(* Every access to the shared fields between the creation of the pool and  *)
(* its release happens with pool->lock held, so one stretch from taking    *)
(* the lock to releasing it (or to waiting, which releases it) is one      *)
(* action.  A worker is at "lock" when it must take the lock next: at the  *)
(* top of its loop, or on its way out of pthread_cond_wait; either way it  *)
(* re-evaluates the condition of the while loop first.                     *)
(*                                                                         *)
(* Left out: the error returns of pthread_mutex_* and pthread_cond_* on    *)
(* initialised objects, and the failures of malloc before the first thread *)
(* is started.                                                             *)
(***************************************************************************)
EXTENDS Integers, FiniteSets

CONSTANTS
  ThreadCount,   \* thread_count: how many workers threadpool_create starts
  QueueSize,     \* queue_size: slots of the ring
  Tasks,         \* the arguments callers add
  NoTask         \* an unused slot; a worker that runs nothing

ASSUME PoolAssumption ==
  /\ ThreadCount \in Nat \ {0}
  /\ QueueSize \in Nat \ {0}
  /\ NoTask \notin Tasks

VARIABLES
  queue,         \* pool->queue; a slot keeps its old content when it is freed
  head,          \* pool->head
  tail,          \* pool->tail
  count,         \* pool->count
  shutdown,      \* pool->shutdown
  started,       \* pool->started
  threadCount,   \* pool->thread_count
  pc,            \* where each worker thread is
  task,          \* the task each worker runs
  phase,         \* where the thread that creates and destroys the pool is
  joined         \* i of the join loop in threadpool_destroy

ring == <<queue, head, tail, count>>
owner == <<threadCount, phase, joined>>
vars == <<queue, head, tail, count, shutdown, started, threadCount, pc, task,
          phase, joined>>

Workers == 0 .. ThreadCount - 1
Slots == 0 .. QueueSize - 1

\* The slot k places after the head.
Slot(k) == IF head + k < QueueSize THEN head + k ELSE head + k - QueueSize

Wrap(i) == IF i = QueueSize THEN 0 ELSE i

Queued == {queue[Slot(k)] : k \in 0 .. count - 1}
Running == {task[w] : w \in Workers} \ {NoTask}
Sleeping == {w \in Workers : pc[w] = "wait"}

-------------------------------------------------------------------------------
Init ==
  /\ queue = [s \in Slots |-> NoTask]
  /\ head = 0 /\ tail = 0 /\ count = 0
  /\ shutdown = "no"
  /\ started = 0 /\ threadCount = 0
  /\ pc = [w \in Workers |-> "absent"]
  /\ task = [w \in Workers |-> NoTask]
  /\ phase = "creating"
  /\ joined = 0

SignalNobody == UNCHANGED pc                               \* mutant

\* pthread_cond_signal wakes one thread that waits, if there is one.
CondSignal ==
  \/ Sleeping = {} /\ UNCHANGED pc
  \/ \E w \in Sleeping : pc' = [pc EXCEPT ![w] = "lock"]

BroadcastToOne == CondSignal                               \* mutant

CondBroadcast ==
  pc' = [w \in Workers |-> IF w \in Sleeping THEN "lock" ELSE pc[w]]

\* One turn of the loop that starts the workers; the last one returns the pool.
CreateWorker ==
  /\ phase = "creating"
  /\ pc' = [pc EXCEPT ![threadCount] = "lock"]
  /\ threadCount' = threadCount + 1
  /\ started' = started + 1
  /\ phase' = IF threadCount' = ThreadCount THEN "ready" ELSE "creating"
  /\ UNCHANGED <<ring, shutdown, task, joined>>

\* threadpool_destroy up to the join loop.
BeginDestroy(kind) ==
  /\ shutdown = "no"
  /\ shutdown' = kind
  /\ CondBroadcast
  /\ phase' = "joining"
  /\ UNCHANGED <<ring, started, threadCount, task, joined>>

\* pthread_create fails: threadpool_create destroys what it has and returns NULL.
CreateFails ==
  /\ phase = "creating"
  /\ BeginDestroy("immediate")

Destroy(kind) ==
  /\ phase = "ready"
  /\ BeginDestroy(kind)

JoinWithoutWaiting ==                                      \* mutant
  /\ phase = "joining"
  /\ joined < threadCount
  /\ joined' = joined + 1
  /\ UNCHANGED <<ring, shutdown, started, threadCount, pc, task, phase>>

Join ==
  /\ phase = "joining"
  /\ joined < threadCount
  /\ pc[joined] = "exited"
  /\ joined' = joined + 1
  /\ UNCHANGED <<ring, shutdown, started, threadCount, pc, task, phase>>

\* threadpool_free, which refuses while a worker counts as started.
Free ==
  /\ phase = "joining"
  /\ joined = threadCount
  /\ phase' = IF started > 0 THEN "refused" ELSE "freed"
  /\ UNCHANGED <<ring, shutdown, started, threadCount, pc, task, joined>>

-------------------------------------------------------------------------------
AcceptsInShutdown == count # QueueSize                     \* mutant

\* threadpool_add stores the task unless the ring is full or the pool shuts down.
Accepts == count # QueueSize /\ shutdown = "no"

\* A call needs the pool threadpool_create returned, not yet freed.  A caller
\* does not add an argument again before the pool is done with it.  The calls
\* that return an error change nothing.
Add(t) ==
  /\ phase \in {"ready", "joining"}
  /\ t \notin Queued \cup Running
  /\ Accepts
  /\ queue' = [queue EXCEPT ![tail] = t]
  /\ tail' = Wrap(tail + 1)
  /\ count' = count + 1
  /\ CondSignal
  /\ UNCHANGED <<head, shutdown, started, task, owner>>

-------------------------------------------------------------------------------
(* The worker thread: what it does each time it gets the lock. *)

MustWait == count = 0 /\ shutdown = "no"

MustExit ==
  \/ shutdown = "immediate"
  \/ shutdown = "graceful" /\ count = 0

Wait(w) ==
  /\ pc[w] = "lock"
  /\ MustWait
  /\ pc' = [pc EXCEPT ![w] = "wait"]
  /\ UNCHANGED <<ring, shutdown, started, task, owner>>

Grab(w) ==
  /\ pc[w] = "lock"
  /\ ~MustWait /\ ~MustExit
  /\ task' = [task EXCEPT ![w] = queue[head]]
  /\ head' = Wrap(head + 1)
  /\ count' = count - 1
  /\ pc' = [pc EXCEPT ![w] = "work"]
  /\ UNCHANGED <<queue, tail, shutdown, started, owner>>

Exit(w) ==
  /\ pc[w] = "lock"
  /\ MustExit
  /\ started' = started - 1
  /\ pc' = [pc EXCEPT ![w] = "exited"]
  /\ UNCHANGED <<ring, shutdown, task, owner>>

\* The task's function returns.
Finish(w) ==
  /\ pc[w] = "work"
  /\ pc' = [pc EXCEPT ![w] = "lock"]
  /\ task' = [task EXCEPT ![w] = NoTask]
  /\ UNCHANGED <<ring, shutdown, started, owner>>

\* pthread_cond_wait may return with nobody having signalled.
SpuriousWakeup(w) ==
  /\ pc[w] = "wait"
  /\ pc' = [pc EXCEPT ![w] = "lock"]
  /\ UNCHANGED <<ring, shutdown, started, task, owner>>

TakeLock(w) == Wait(w) \/ Grab(w) \/ Exit(w)

-------------------------------------------------------------------------------
Next ==
  \/ CreateWorker \/ CreateFails \/ Join \/ Free
  \/ \E kind \in {"graceful", "immediate"} : Destroy(kind)
  \/ \E t \in Tasks : Add(t)
  \/ \E w \in Workers :
       Wait(w) \/ Grab(w) \/ Exit(w) \/ Finish(w) \/ SpuriousWakeup(w)

Spec == Init /\ [][Next]_vars

(* Some worker that can take the lock does, in no promised order; each     *)
(* task's function returns; the owner goes on with its loops.  Nobody has  *)
(* to add a task or to destroy the pool.                                   *)
FairSpec ==
  /\ Spec
  /\ WF_vars(\E w \in Workers : TakeLock(w))
  /\ \A w \in Workers : WF_vars(Finish(w))
  /\ WF_vars(CreateWorker \/ Join \/ Free)

-------------------------------------------------------------------------------
(***************************************************************************)
(* Properties                                                              *)
(***************************************************************************)

TypeOK ==
  /\ queue \in [Slots -> Tasks \cup {NoTask}]
  /\ head \in Slots /\ tail \in Slots
  /\ count \in 0 .. QueueSize
  /\ shutdown \in {"no", "immediate", "graceful"}
  /\ started \in 0 .. ThreadCount
  /\ threadCount \in 0 .. ThreadCount
  /\ pc \in [Workers -> {"absent", "lock", "wait", "work", "exited"}]
  /\ task \in [Workers -> Tasks \cup {NoTask}]
  /\ phase \in {"creating", "ready", "joining", "freed", "refused"}
  /\ joined \in 0 .. ThreadCount

\* The ring arithmetic: tail is where the head and the count say it is, every
\* live slot holds a task, and a worker holds a task exactly while it works.
RingInv ==
  /\ tail = Slot(count)
  /\ \A k \in 0 .. count - 1 : queue[Slot(k)] \in Tasks
  /\ \A w \in Workers : task[w] # NoTask <=> pc[w] = "work"

\* The life of the pool: which threads exist, what the join loop has seen, and
\* why a worker may be gone.
Started == {w \in Workers : pc[w] \in {"lock", "wait", "work"}}

PhaseInv ==
  /\ \A w \in Workers : pc[w] = "absent" <=> w >= threadCount
  /\ started = Cardinality(Started)
  /\ phase \in {"creating", "ready"} <=> shutdown = "no"
  /\ phase = "ready" => threadCount = ThreadCount
  /\ shutdown = "graceful" => threadCount = ThreadCount
  /\ phase = "creating" => threadCount < ThreadCount
  /\ joined <= threadCount
  /\ phase \in {"freed", "refused"} => joined = threadCount
  /\ \A w \in Workers : w < joined => pc[w] = "exited"
  /\ \A w \in Workers : pc[w] = "exited" => MustExit

\* A task is in the pool once: two workers never run the same one, a task that
\* runs is not also waiting in the ring, and no two live slots hold the same
\* task.  The head and tail arithmetic of add and of the worker loop, wrapping
\* apart, must never let a slot be read twice or overwritten while it is live.
EachTaskOnce ==
  /\ \A v, w \in Workers : task[v] = task[w] /\ task[v] # NoTask => v = w
  /\ Queued \cap Running = {}
  /\ \A j, k \in 0 .. count - 1 : queue[Slot(j)] = queue[Slot(k)] => j = k

\* threadpool_add signals one thread per task, and a worker that wakes re-checks
\* count: while some worker sleeps, there are at least as many workers awake and
\* on their way to the lock as there are tasks waiting.  A signal that is
\* dropped, or one that is taken by a worker that goes back to sleep with a task
\* in the ring, would strand a task.
NoTaskWaitsForASleeper ==
  shutdown = "no" /\ Sleeping # {} =>
    count <= Cardinality({w \in Workers : pc[w] = "lock"})

\* threadpool_destroy wakes every waiter after it sets shutdown, and the loop
\* condition keeps a woken worker from waiting again: no worker the destroying
\* thread will join is ever asleep.
NobodySleepsThroughShutdown == shutdown # "no" => Sleeping = {}

\* threadpool_free is reached only after every worker has made its last access
\* to the pool, and it then really frees it: `started` has come back to 0, so
\* the call is not refused and the pool does not leak.
PoolReleasedWhenQuiet ==
  /\ phase # "refused"
  /\ phase = "freed" => \A w \in Workers : pc[w] \in {"absent", "exited"}

\* The invariant the proofs in ThreadPoolProofs carry through every step: the
\* ring stays consistent with its indices and the phases of creation, shutdown
\* and release stay consistent with what the workers are doing.
IndInv ==
  /\ TypeOK
  /\ RingInv
  /\ PhaseInv
  /\ EachTaskOnce
  /\ NoTaskWaitsForASleeper
  /\ NobodySleepsThroughShutdown
  /\ PoolReleasedWhenQuiet

\* threadpool.h:81: a graceful shutdown "processes all pending tasks".
GracefulRunsEverything ==
  phase = "freed" /\ shutdown = "graceful" => count = 0 /\ Running = {}

\* The ring with its mutex and condition variable implements the bounded FIFO
\* of TaskPool: tasks start in the order they were accepted, none is accepted
\* once the pool shuts down, and the pool is freed when it owes nothing.
Abstract == INSTANCE TaskPool WITH
  Executors <- Workers,
  Capacity  <- QueueSize,
  pending   <- [i \in 1 .. count |-> queue[Slot(i - 1)]],
  executing <- task,
  mode      <- IF phase = "freed" THEN "closed"
               ELSE IF shutdown = "no" THEN "open" ELSE shutdown

ImplementsTaskPool == Abstract!Spec

\* A task that was accepted is started, unless the pool is destroyed with the
\* immediate flag first, although a worker may lose every race for the lock.
AcceptedTaskStarts ==
  \A t \in Tasks : t \in Queued ~> t \in Running \/ shutdown = "immediate"

\* threadpool_destroy returns (the join loop ends, the pool is freed) whatever
\* the workers were doing when it was called, also out of a failed create.
DestroyReturns == shutdown # "no" ~> phase = "freed"
===============================================================================
