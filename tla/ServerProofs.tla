----------------------------- MODULE ServerProofs ------------------------------
(***************************************************************************)
(* Proofs about the whole server, for any number of requests and workers:   *)
(* no OBD_t is in two places or disappears in a hand-over, and main destroys *)
(* what the other threads use only after them.  What is proved about the     *)
(* queue and the pool alone is used here through the two instances below.    *)
(* Then the codec: a frame comes out as the bytes it stands for, for every    *)
(* buffer size and text, and only a text that is overlong is never done with. *)
(***************************************************************************)
EXTENDS Server, ObdCodec, WellFoundedInduction, TLAPS

MQP == INSTANCE MessageQueueProofs WITH Threads <- {Loop, Dispatcher}, Nodes <- Requests
PoolP == INSTANCE ThreadPoolProofs WITH Tasks <- Requests, NoTask <- NoRequest

TypeOK ==
  /\ main \in {"starting", "loop", "broken", "joinDispatcher", "destroyPool", "done"}
  /\ mqFlag \in BOOLEAN /\ pending \in 0 .. MaxBatch
  /\ dispatcher \in {"absent", "top", "ask", "get", "add", "exited"}
  /\ reading \in Requests \cup {NoRequest} /\ hand \in Requests \cup {NoRequest}
  /\ answering \in BOOLEAN
  /\ free \subseteq Requests /\ lost \subseteq Requests /\ overlong \subseteq Requests

\* How far main, the dispatcher and the pool can be apart.
InStep ==
  /\ main = "starting" <=> dispatcher = "absent"
  /\ main = "starting" => reading = NoRequest
  /\ dispatcher = "add" <=> hand # NoRequest
  /\ mqFlag <=> main \in {"joinDispatcher", "destroyPool", "done"}
  /\ mqFlag => reading = NoRequest
  /\ answering => reading # NoRequest
  /\ dispatcher \in {"ask", "exited"} => mqFlag
  /\ dispatcher = "exited" => fifo = <<>>
  /\ main \in {"destroyPool", "done"} => dispatcher = "exited"
  /\ main \in {"loop", "broken", "joinDispatcher"} => phase \in {"ready", "freed"}
  /\ main = "done" => phase = "freed"

IndInv == TypeOK /\ InStep /\ OnePlace /\ MQP!IndInv /\ PoolP!IndInv

-------------------------------------------------------------------------------
(* The queue and the pool inside the server *)

\* What their modules assume of their constants holds of those of the server.
LEMMA Constants == MQP!QueueAssumption /\ PoolP!PoolAssumption
BY ServerAssumption DEF MQP!QueueAssumption, PoolP!PoolAssumption

LEMMA SameSets ==
  InQueue = MQP!Queued /\ InRing = PoolP!Queued /\ Pool!Running = PoolP!Running /\ Workers = PoolP!Workers
BY DEF InQueue, InRing, MQ!Queued, MQP!Queued, Pool!Queued, PoolP!Queued, Pool!Slot, PoolP!Slot,
       Pool!Running, PoolP!Running, Workers, Pool!Workers, PoolP!Workers

\* The calls of the server are calls of the queue.
LEMMA QueueCalls ==
  ASSUME NEW t
  PROVE  /\ \A n : MQ!Put(t, n) <=> MQP!Put(t, n)
         /\ MQ!Get(t) <=> MQP!Get(t)
         /\ MQ!GetNothing(t) <=> MQP!GetNothing(t)
         /\ MQ!IsEmpty(t) <=> MQP!IsEmpty(t)
         /\ MQ!Empty <=> MQP!Empty
BY DEF MQ!Put, MQP!Put, MQ!Get, MQP!Get, MQ!GetNothing, MQP!GetNothing, MQ!IsEmpty, MQP!IsEmpty,
       MQ!Empty, MQP!Empty, MQ!AddFront, MQP!AddFront, MQ!DelBack, MQP!DelBack, MQ!Queued, MQP!Queued,
       MQ!links, MQP!links

\* The calls of the server, and the turns of its workers, are steps of the pool.
LEMMA PoolCalls ==
  /\ Pool!CreateWorker \/ Pool!CreateFails \/ Pool!Join \/ Pool!Free \/ Pool!Destroy("immediate") =>
       PoolP!WorkerMoves /\ PoolP!Next
  /\ \A r \in Requests : Pool!Add(r) => PoolP!Add(r) /\ PoolP!Next
  /\ \A w \in Workers : Pool!TakeLock(w) \/ Pool!SpuriousWakeup(w) =>
       (PoolP!Grab(w) \/ PoolP!WorkerMoves) /\ PoolP!Next
  /\ \A w \in Workers : Pool!Finish(w) => PoolP!Finish(w) /\ PoolP!Next
<1>. USE DEF Pool!ring, PoolP!ring, Pool!owner, PoolP!owner, Pool!Sleeping, PoolP!Sleeping,
             Pool!Workers, PoolP!Workers, Workers, PoolP!Next, PoolP!WorkerMoves
<1>1. ASSUME Pool!CreateWorker \/ Pool!CreateFails \/ Pool!Join \/ Pool!Free \/ Pool!Destroy("immediate")
      PROVE  \/ PoolP!CreateWorker \/ PoolP!CreateFails \/ PoolP!Join \/ PoolP!Free
             \/ PoolP!Destroy("immediate")
  BY <1>1 DEF Pool!CreateWorker, PoolP!CreateWorker, Pool!CreateFails, PoolP!CreateFails, Pool!Join, PoolP!Join,
     Pool!Free, PoolP!Free, Pool!Destroy, PoolP!Destroy, Pool!BeginDestroy, PoolP!BeginDestroy,
     Pool!CondBroadcast, PoolP!CondBroadcast
<1>2. ASSUME NEW r \in Requests, Pool!Add(r) PROVE PoolP!Add(r)
  BY <1>2 DEF Pool!Add, PoolP!Add, Pool!Queued, PoolP!Queued, Pool!Slot, PoolP!Slot, Pool!Running, PoolP!Running,
     Pool!Accepts, PoolP!Accepts, Pool!Wrap, PoolP!Wrap, Pool!CondSignal, PoolP!CondSignal
<1>3. ASSUME NEW w \in Workers, Pool!TakeLock(w) \/ Pool!SpuriousWakeup(w)
      PROVE  PoolP!Grab(w) \/ PoolP!Wait(w) \/ PoolP!Exit(w) \/ PoolP!SpuriousWakeup(w)
  BY <1>3 DEF Pool!TakeLock, Pool!Wait, PoolP!Wait, Pool!Grab, PoolP!Grab, Pool!Exit, PoolP!Exit,
     Pool!SpuriousWakeup, PoolP!SpuriousWakeup, Pool!MustWait, PoolP!MustWait, Pool!MustExit, PoolP!MustExit,
     Pool!Wrap, PoolP!Wrap
<1>4. ASSUME NEW w \in Workers, Pool!Finish(w) PROVE PoolP!Finish(w)
  BY <1>4 DEF Pool!Finish, PoolP!Finish
<1>. QED
  BY <1>1, <1>2, <1>3, <1>4

LEMMA InitHolds == Init => IndInv
<1>. SUFFICES ASSUME Init PROVE IndInv
  OBVIOUS
<1>1. MQP!IndInv
  BY Constants, MQP!InitInv DEF Init, MQ!Init, MQP!Init, MQ!Places, MQP!Places
<1>2. PoolP!IndInv
  BY Constants, PoolP!InitInv DEF Init, Pool!Init, PoolP!Init, Pool!Slots, PoolP!Slots, Pool!Workers, PoolP!Workers
<1>3. TypeOK /\ InStep
  <2>1. 0 \in 0 .. MaxBatch
    BY ServerAssumption
  <2>2. TypeOK
    BY <2>1 DEF Init, TypeOK
  <2>3. InStep
    BY DEF Init, InStep
  <2>. QED
    BY <2>2, <2>3
<1>4. Held = {} /\ InQueue = {} /\ InRing = {} /\ Pool!Running = {}
  <2>1. Held = {}
    BY DEF Init, Held
  <2>2. InQueue = {}
    BY DEF Init, MQ!Init, InQueue, MQ!Queued
  <2>3. count = 0 /\ 0 .. count - 1 = {}
    BY DEF Init, Pool!Init
  <2>4. InRing = {}
    BY <2>3 DEF InRing, Pool!Queued
  <2>5. \A w \in Workers : task[w] = NoRequest
    BY DEF Init, Pool!Init, Pool!Workers, Workers
  <2>6. Pool!Running = {}
    BY <2>5 DEF Pool!Running, Pool!Workers, Workers
  <2>. QED
    BY <2>1, <2>2, <2>4, <2>6
<1>5. OnePlace
  BY <1>4 DEF OnePlace, Init
<1>. QED
  BY <1>1, <1>2, <1>3, <1>5 DEF IndInv

-------------------------------------------------------------------------------
(* The queue and the pool stay sound *)

\* Every step of the server is a step of the queue or leaves it alone.
LEMMA QueueStep ==
  ASSUME IndInv, [Next]_vars
  PROVE  MQP!IndInv'
<1>1. [MQP!Next]_(MQP!vars)
  <2>. USE DEF mqVars, MQP!vars
  <2>1. CASE Put
    <3>1. MQP!Put(Loop, reading) /\ reading \in Requests
      BY <2>1, QueueCalls DEF Put, IndInv, TypeOK
    <3>. QED
      BY <3>1 DEF MQP!Next
  <2>2. CASE AskEmpty
    BY <2>2, QueueCalls DEF AskEmpty, MQP!Next
  <2>3. CASE Take
    BY <2>3, QueueCalls DEF Take, MQP!Next
  <2>4. CASE ~(Put \/ AskEmpty \/ Take)
    BY <2>4 DEF Next, vars, CreatePool, StartLoop, Receive, Answer, Signal, LeaveLoop, JoinDispatcher, DestroyPool, End,
       ReadFlag, Dispatch, Turn, Decode
  <2>. QED
    BY <2>1, <2>2, <2>3, <2>4
<1>. QED
  BY <1>1, Constants, MQP!StepInv DEF IndInv

\* The same of the pool.
LEMMA PoolStep ==
  ASSUME IndInv, [Next]_vars
  PROVE  PoolP!IndInv'
<1>1. [PoolP!Next]_(PoolP!vars)
  <2>. USE DEF poolVars, PoolP!vars
  <2>1. CASE CreatePool \/ DestroyPool
    BY <2>1, PoolCalls DEF CreatePool, DestroyPool
  <2>2. CASE Dispatch
    <3>1. hand \in Requests
      BY <2>2 DEF Dispatch, IndInv, TypeOK, InStep
    <3>. QED
      BY <2>2, <3>1, PoolCalls DEF Dispatch
  <2>3. CASE \E w \in Workers : Turn(w) \/ Decode(w)
    BY <2>3, PoolCalls DEF Turn, Decode
  <2>4. CASE ~(CreatePool \/ DestroyPool \/ Dispatch \/ \E w \in Workers : Turn(w) \/ Decode(w))
    BY <2>4 DEF Next, vars, StartLoop, Receive, Answer, Put, Signal, LeaveLoop, JoinDispatcher, End,
       ReadFlag, AskEmpty, Take
  <2>. QED
    BY <2>1, <2>2, <2>3, <2>4
<1>. QED
  BY <1>1, Constants, PoolP!StepInv DEF IndInv

-------------------------------------------------------------------------------
(* Where the requests are *)

\* OnePlace without the tuple
Split(a, b, c, d, e, f) ==
  /\ Requests = a \cup b \cup c \cup d \cup e \cup f
  /\ a \cap (b \cup c \cup d \cup e \cup f) = {} /\ b \cap (c \cup d \cup e \cup f) = {}
  /\ c \cap (d \cup e \cup f) = {} /\ d \cap (e \cup f) = {} /\ e \cap f = {}

LEMMA OnePlaceMeans ==
  OnePlace <=> /\ Split(free, Held, InQueue, InRing, Pool!Running, lost)
               /\ reading = hand => reading = NoRequest
<1>1. ASSUME NEW a, NEW b, NEW c, NEW d, NEW e, NEW f
      PROVE  LET p == <<a, b, c, d, e, f>>
             IN  (/\ Requests = UNION {p[k] : k \in DOMAIN p}
                  /\ \A k, l \in DOMAIN p : k # l => p[k] \cap p[l] = {}) <=> Split(a, b, c, d, e, f)
  <2>. DEFINE p == <<a, b, c, d, e, f>>
  <2>1. /\ DOMAIN p = 1 .. 6 /\ p[1] = a /\ p[2] = b /\ p[3] = c /\ p[4] = d /\ p[5] = e /\ p[6] = f
        /\ \A k \in DOMAIN p : k \in {1, 2, 3, 4, 5, 6}
    OBVIOUS
  <2>. HIDE DEF p
  <2>2. UNION {p[k] : k \in DOMAIN p} = a \cup b \cup c \cup d \cup e \cup f
    <3>1. {p[k] : k \in DOMAIN p} = {a, b, c, d, e, f}
      BY <2>1
    <3>. QED
      BY <3>1
  <2>3. (\A k, l \in DOMAIN p : k # l => p[k] \cap p[l] = {}) <=>
          /\ a \cap b = {} /\ a \cap c = {} /\ a \cap d = {} /\ a \cap e = {} /\ a \cap f = {}
          /\ b \cap c = {} /\ b \cap d = {} /\ b \cap e = {} /\ b \cap f = {}
          /\ c \cap d = {} /\ c \cap e = {} /\ c \cap f = {}
          /\ d \cap e = {} /\ d \cap f = {} /\ e \cap f = {}
    <3>1. ASSUME \A k, l \in DOMAIN p : k # l => p[k] \cap p[l] = {}
          PROVE  /\ a \cap b = {} /\ a \cap c = {} /\ a \cap d = {} /\ a \cap e = {} /\ a \cap f = {}
                 /\ b \cap c = {} /\ b \cap d = {} /\ b \cap e = {} /\ b \cap f = {}
                 /\ c \cap d = {} /\ c \cap e = {} /\ c \cap f = {}
                 /\ d \cap e = {} /\ d \cap f = {} /\ e \cap f = {}
      BY <2>1, <3>1
    <3>2. ASSUME /\ a \cap b = {} /\ a \cap c = {} /\ a \cap d = {} /\ a \cap e = {} /\ a \cap f = {}
                 /\ b \cap c = {} /\ b \cap d = {} /\ b \cap e = {} /\ b \cap f = {}
                 /\ c \cap d = {} /\ c \cap e = {} /\ c \cap f = {}
                 /\ d \cap e = {} /\ d \cap f = {} /\ e \cap f = {},
                 NEW k \in DOMAIN p, NEW l \in DOMAIN p, k # l
          PROVE  p[k] \cap p[l] = {}
      BY <2>1, <3>2
    <3>. QED
      BY <3>1, <3>2
  <2>4. Split(a, b, c, d, e, f) <=>
          /\ Requests = a \cup b \cup c \cup d \cup e \cup f
          /\ a \cap b = {} /\ a \cap c = {} /\ a \cap d = {} /\ a \cap e = {} /\ a \cap f = {}
          /\ b \cap c = {} /\ b \cap d = {} /\ b \cap e = {} /\ b \cap f = {}
          /\ c \cap d = {} /\ c \cap e = {} /\ c \cap f = {}
          /\ d \cap e = {} /\ d \cap f = {} /\ e \cap f = {}
    BY Zenon DEF Split
  <2>. QED
    BY <2>2, <2>3, <2>4 DEF p
<1>. QED
  BY <1>1 DEF OnePlace

\* A step that touches neither the queue nor the pool moves nothing there.
LEMMA Unmoved ==
  /\ UNCHANGED fifo => InQueue' = InQueue
  /\ UNCHANGED poolVars => InRing' = InRing /\ Pool!Running' = Pool!Running
BY DEF InQueue, InRing, MQ!Queued, Pool!Queued, Pool!Running, Pool!Slot, Pool!Workers, poolVars

\* How the queue and the pool move requests, in the words of the server.
LEMMA RequestsMove ==
  ASSUME IndInv
  PROVE  /\ \A r \in Requests : MQ!Put(Loop, r) => InQueue' = InQueue \cup {r}
         /\ MQ!Get(Dispatcher) => prev[Sentinel] \in InQueue /\ InQueue' = InQueue \ {prev[Sentinel]}
         /\ PoolP!WorkerMoves => InRing' = InRing /\ Pool!Running' = Pool!Running
         /\ \A r \in Requests : Pool!Add(r) => InRing' = InRing \cup {r} /\ Pool!Running' = Pool!Running
         /\ \A w \in Workers : PoolP!Grab(w) =>
              \E r \in InRing : InRing' = InRing \ {r} /\ Pool!Running' = Pool!Running \cup {r}
         /\ \A w \in Workers : Pool!Finish(w) =>
              /\ task[w] \in Pool!Running /\ InRing' = InRing
              /\ Pool!Running' = Pool!Running \ {task[w]}
<1>1. /\ InQueue = MQP!Queued /\ InRing = PoolP!Queued
      /\ Pool!Running = PoolP!Running /\ Workers = PoolP!Workers
  BY SameSets
<1>2. InQueue' = MQP!Queued' /\ InRing' = PoolP!Queued' /\ Pool!Running' = PoolP!Running'
  BY DEF InQueue, InRing, MQ!Queued, MQP!Queued, Pool!Queued, PoolP!Queued, Pool!Slot, PoolP!Slot,
         Pool!Running, PoolP!Running, Pool!Workers, PoolP!Workers
<1>3. MQP!IndInv /\ PoolP!IndInv
  BY DEF IndInv
<1>4. /\ \A r \in Requests : MQP!Put(Loop, r) => MQP!Queued' = MQP!Queued \cup {r}
      /\ MQP!Get(Dispatcher) => prev[Sentinel] \in MQP!Queued /\ MQP!Queued' = MQP!Queued \ {prev[Sentinel]}
  BY <1>3, Constants, MQP!NodesMove
<1>5. /\ PoolP!WorkerMoves => PoolP!Queued' = PoolP!Queued /\ PoolP!Running' = PoolP!Running
      /\ \A r \in Requests : PoolP!Add(r) =>
           PoolP!Queued' = PoolP!Queued \cup {r} /\ PoolP!Running' = PoolP!Running
      /\ \A w \in PoolP!Workers : PoolP!Grab(w) =>
           \E r \in PoolP!Queued : PoolP!Queued' = PoolP!Queued \ {r} /\ PoolP!Running' = PoolP!Running \cup {r}
      /\ \A w \in PoolP!Workers : PoolP!Finish(w) =>
           /\ task[w] \in PoolP!Running /\ PoolP!Queued' = PoolP!Queued
           /\ PoolP!Running' = PoolP!Running \ {task[w]}
  BY <1>3, Constants, PoolP!TasksMove
<1>6. /\ \A r \in Requests : MQ!Put(Loop, r) => InQueue' = InQueue \cup {r}
      /\ MQ!Get(Dispatcher) => prev[Sentinel] \in InQueue /\ InQueue' = InQueue \ {prev[Sentinel]}
  BY <1>1, <1>2, <1>4, QueueCalls
<1>7. PoolP!WorkerMoves => InRing' = InRing /\ Pool!Running' = Pool!Running
  BY <1>1, <1>2, <1>5
<1>8. ASSUME NEW r \in Requests, Pool!Add(r)
      PROVE  InRing' = InRing \cup {r} /\ Pool!Running' = Pool!Running
  BY <1>1, <1>2, <1>5, <1>8, PoolCalls
<1>9. ASSUME NEW w \in Workers, PoolP!Grab(w)
      PROVE  \E r \in InRing : InRing' = InRing \ {r} /\ Pool!Running' = Pool!Running \cup {r}
  BY <1>1, <1>2, <1>5, <1>9
<1>10. ASSUME NEW w \in Workers, Pool!Finish(w)
       PROVE  task[w] \in Pool!Running /\ InRing' = InRing /\ Pool!Running' = Pool!Running \ {task[w]}
  BY <1>1, <1>2, <1>5, <1>10, PoolCalls
<1>. QED
  BY <1>6, <1>7, <1>8, <1>9, <1>10

\* Each hand-over takes a request from one place to another.
LEMMA OnePlaceStep ==
  ASSUME IndInv, [Next]_vars
  PROVE  OnePlace'
<1>. DEFINE Sound == /\ Split(free, Held, InQueue, InRing, Pool!Running, lost)
                     /\ reading = hand => reading = NoRequest
<1>. SUFFICES Sound'
  <2>1. OnePlace' <=> Sound'
    BY OnePlaceMeans, PTL
  <2>. QED
    BY <2>1
<1>1. Sound
  BY OnePlaceMeans DEF IndInv
<1>2. TypeOK /\ InStep
  BY DEF IndInv
<1>3. NoRequest \notin Requests /\ \A r \in Held : r \in Requests
  BY <1>2, ServerAssumption DEF Held, TypeOK
<1>4. CASE UNCHANGED <<free, reading, hand, lost, fifo, poolVars>>
  BY <1>1, <1>4, Unmoved DEF Split, Held
<1>5. CASE CreatePool \/ DestroyPool
  <2>1. UNCHANGED <<free, reading, hand, lost, fifo>>
    BY <1>5 DEF CreatePool, DestroyPool, mainVars, dispatcherVars, requestVars, mqVars
  <2>2. InRing' = InRing /\ Pool!Running' = Pool!Running
    BY <1>5, PoolCalls, RequestsMove DEF CreatePool, DestroyPool
  <2>. QED
    BY <1>1, <2>1, <2>2, Unmoved DEF Split, Held
<1>6. ASSUME NEW r \in Requests, Receive(r) PROVE Sound'
  <2>1. /\ r \in free /\ free' = free \ {r} /\ Held' = Held \cup {r} /\ hand # r
        /\ UNCHANGED <<lost, fifo, poolVars>> /\ reading' = r /\ hand' = hand
    BY <1>1, <1>3, <1>6 DEF Receive, dispatcherVars, mqVars, Held, Split
  <2>. QED
    BY <1>1, <2>1, Unmoved DEF Split
<1>7. CASE Put
  <2>1. /\ reading \in Held /\ Held' = Held \ {reading} /\ InQueue' = InQueue \cup {reading}
        /\ UNCHANGED <<free, lost, poolVars, hand>> /\ reading' = NoRequest
    BY <1>1, <1>2, <1>7, RequestsMove DEF Put, dispatcherVars, requestVars, Held, TypeOK
  <2>. QED
    BY <1>1, <1>2, <2>1, Unmoved DEF Split
<1>8. CASE Take
  <2>1. hand = NoRequest /\ UNCHANGED <<free, lost, poolVars, reading>>
    BY <1>2, <1>8 DEF Take, InStep, mainVars, requestVars
  <2>2. CASE MQ!Get(Dispatcher) /\ hand' = prev[Sentinel]
    <3>1. /\ hand' \in InQueue /\ InQueue' = InQueue \ {hand'} /\ hand' \notin Held
      BY <1>1, <2>2, RequestsMove DEF Split
    <3>2. hand' # NoRequest /\ Held' = Held \cup {hand'} /\ (reading = hand' => reading = NoRequest)
      BY <1>1, <1>3, <2>1, <3>1 DEF Split, Held
    <3>. QED
      BY <1>1, <2>1, <3>1, <3>2, Unmoved DEF Split
  <2>3. CASE MQ!GetNothing(Dispatcher) /\ UNCHANGED hand
    BY <1>1, <2>1, <2>3, Unmoved DEF Split, Held, MQ!GetNothing
  <2>. QED
    BY <1>8, <2>2, <2>3 DEF Take
<1>9. CASE Dispatch
  <2>1. /\ hand \in Requests /\ hand \in Held /\ Held' = Held \ {hand} /\ hand' = NoRequest
        /\ UNCHANGED <<free, fifo, reading>>
    BY <1>1, <1>2, <1>9 DEF Dispatch, InStep, TypeOK, Held, mainVars, mqVars
  <2>2. CASE Pool!Add(hand) /\ UNCHANGED lost
    <3>1. InRing' = InRing \cup {hand} /\ Pool!Running' = Pool!Running
      BY <2>1, <2>2, RequestsMove
    <3>. QED
      BY <1>1, <2>1, <2>2, <3>1, Unmoved DEF Split
  <2>3. CASE lost' = lost \cup {hand} /\ UNCHANGED poolVars
    BY <1>1, <2>1, <2>3, Unmoved DEF Split
  <2>. QED
    BY <1>9, <2>2, <2>3 DEF Dispatch
<1>10. ASSUME NEW w \in Workers, Turn(w) PROVE Sound'
  <2>1. UNCHANGED <<free, reading, hand, lost, fifo>>
    BY <1>10 DEF Turn, mainVars, dispatcherVars, requestVars, mqVars
  <2>2. CASE PoolP!WorkerMoves
    BY <1>1, <2>1, <2>2, RequestsMove, Unmoved DEF Split, Held
  <2>3. CASE PoolP!Grab(w)
    <3>1. PICK r \in InRing : InRing' = InRing \ {r} /\ Pool!Running' = Pool!Running \cup {r}
      BY <2>3, RequestsMove
    <3>. QED
      BY <1>1, <2>1, <3>1, Unmoved DEF Split, Held
  <2>. QED
    BY <1>10, <2>2, <2>3, PoolCalls DEF Turn
<1>11. ASSUME NEW w \in Workers, Decode(w) PROVE Sound'
  <2>1. /\ UNCHANGED <<reading, hand, lost, fifo>> /\ free' = free \cup {task[w]}
        /\ task[w] \in Pool!Running /\ InRing' = InRing /\ Pool!Running' = Pool!Running \ {task[w]}
    BY <1>11, RequestsMove DEF Decode, Release, mainVars, dispatcherVars, mqVars
  <2>. QED
    BY <1>1, <2>1, Unmoved DEF Split, Held
<1>12. CASE UNCHANGED vars \/ StartLoop \/ Answer \/ Signal \/ LeaveLoop \/ JoinDispatcher \/ End \/ ReadFlag \/ AskEmpty
  <2>1. UNCHANGED <<free, reading, hand, lost, fifo, poolVars>>
    BY <1>12 DEF vars, mqVars, mainVars, dispatcherVars, requestVars, StartLoop, Answer, Signal, LeaveLoop,
       JoinDispatcher, End, ReadFlag, AskEmpty, MQ!IsEmpty
  <2>. QED
    BY <1>4, <2>1
<1>. QED
  BY <1>5, <1>6, <1>7, <1>8, <1>9, <1>10, <1>11, <1>12 DEF Next

-------------------------------------------------------------------------------
(* main, the dispatcher and the pool *)

LEMMA TypeStep ==
  ASSUME IndInv, [Next]_vars
  PROVE  TypeOK'
<1>. USE DEF vars, mqVars, mainVars, dispatcherVars, requestVars
<1>1. TypeOK /\ InStep /\ OnePlace
  BY DEF IndInv
<1>2. CASE UNCHANGED vars
  BY <1>1, <1>2 DEF TypeOK
<1>3. CASE CreatePool \/ StartLoop \/ DestroyPool \/ End \/ JoinDispatcher
  BY <1>1, <1>3 DEF CreatePool, StartLoop, DestroyPool, End, JoinDispatcher, TypeOK
<1>4. CASE \E r \in Requests : Receive(r)
  BY <1>1, <1>4, ServerAssumption DEF Receive, TypeOK
<1>5. CASE Answer \/ Put \/ Signal \/ LeaveLoop \/ ReadFlag \/ AskEmpty
  BY <1>1, <1>5 DEF Answer, Put, Signal, LeaveLoop, ReadFlag, AskEmpty, TypeOK
<1>6. CASE Take
  <2>1. hand' \in Requests \cup {NoRequest}
    <3>1. MQ!Get(Dispatcher) => prev[Sentinel] \in InQueue
      BY RequestsMove
    <3>2. InQueue \subseteq Requests
      BY <1>1, OnePlaceMeans DEF Split
    <3>. QED
      BY <1>1, <1>6, <3>1, <3>2 DEF Take, TypeOK
  <2>. QED
    BY <1>1, <1>6, <2>1 DEF Take, TypeOK
<1>7. CASE Dispatch
  BY <1>1, <1>7 DEF Dispatch, InStep, TypeOK
<1>8. ASSUME NEW w \in Workers, Turn(w) PROVE TypeOK'
  BY <1>1, <1>8 DEF Turn, TypeOK
<1>9. ASSUME NEW w \in Workers, Decode(w) PROVE TypeOK'
  <2>1. task[w] \in Requests
    <3>1. task[w] \in Pool!Running
      BY <1>9, RequestsMove DEF Decode
    <3>. QED
      BY <1>1, <3>1, OnePlaceMeans DEF Split
  <2>. QED
    BY <1>1, <1>9, <2>1 DEF Decode, Release, TypeOK
<1>. QED
  BY <1>2, <1>3, <1>4, <1>5, <1>6, <1>7, <1>8, <1>9 DEF Next

\* The phase of the pool changes only in threadpool_create and threadpool_destroy.
LEMMA PhaseChanges ==
  /\ \A r : Pool!Add(r) => phase' = phase
  /\ \A w : Pool!TakeLock(w) \/ Pool!SpuriousWakeup(w) \/ Pool!Finish(w) => phase' = phase
BY DEF Pool!Add, Pool!TakeLock, Pool!Wait, Pool!Grab, Pool!Exit, Pool!SpuriousWakeup, Pool!Finish, Pool!owner

LEMMA InStepStep ==
  ASSUME IndInv, [Next]_vars
  PROVE  InStep'
<1>. USE DEF vars, mqVars, mainVars, dispatcherVars, requestVars
<1>1. TypeOK /\ InStep /\ NoRequest \notin Requests
  BY ServerAssumption DEF IndInv
<1>2. CASE UNCHANGED vars
  BY <1>1, <1>2 DEF InStep, poolVars
<1>3. CASE CreatePool
  BY <1>1, <1>3 DEF CreatePool, InStep
<1>4. CASE StartLoop \/ Answer \/ Signal \/ LeaveLoop \/ JoinDispatcher \/ End \/ ReadFlag
  BY <1>1, <1>4 DEF StartLoop, Answer, Signal, LeaveLoop, JoinDispatcher, End, ReadFlag, InStep, TypeOK, poolVars
<1>5. CASE \E r \in Requests : Receive(r)
  BY <1>1, <1>5 DEF Receive, InStep, TypeOK, poolVars
<1>6. CASE Put
  <2>1. dispatcher # "exited" /\ main # "starting"
    BY <1>1, <1>6 DEF Put, InStep
  <2>. QED
    BY <1>1, <1>6, <2>1 DEF Put, InStep, poolVars
<1>7. CASE AskEmpty
  <2>1. MQ!Empty => fifo = <<>>
    BY QueueCalls, Constants, MQP!EmptyMeansNone DEF IndInv
  <2>. QED
    BY <1>1, <1>7, <2>1 DEF AskEmpty, MQ!IsEmpty, InStep, poolVars
<1>8. CASE Take
  <2>1. MQ!Get(Dispatcher) => prev[Sentinel] # NoRequest
    <3>1. MQ!Get(Dispatcher) => prev[Sentinel] \in InQueue
      BY RequestsMove
    <3>2. InQueue \subseteq Requests
      BY OnePlaceMeans DEF Split, IndInv
    <3>. QED
      BY <1>1, <3>1, <3>2
  <2>. QED
    BY <1>1, <1>8, <2>1 DEF Take, InStep, poolVars
<1>9. CASE Dispatch
  <2>1. phase' = phase
    BY <1>9, PhaseChanges DEF Dispatch, poolVars
  <2>. QED
    BY <1>1, <1>9, <2>1 DEF Dispatch, InStep
<1>10. CASE DestroyPool
  <2>1. main = "destroyPool"
    BY <1>10 DEF DestroyPool
  <2>. QED
    BY <1>1, <1>10, <2>1 DEF DestroyPool, InStep
<1>11. CASE \E w \in Workers : Turn(w) \/ Decode(w)
  <2>1. phase' = phase
    BY <1>11, PhaseChanges DEF Turn, Decode
  <2>. QED
    BY <1>1, <1>11, <2>1 DEF Turn, Decode, InStep
<1>. QED
  BY <1>2, <1>3, <1>4, <1>5, <1>6, <1>7, <1>8, <1>9, <1>10, <1>11 DEF Next

-------------------------------------------------------------------------------
(* The theorems *)

\* Every state the server reaches satisfies the invariant, and in it the queue
\* and the pool satisfy theirs.
THEOREM Invariance == Spec => []IndInv
<1>1. IndInv /\ [Next]_vars => IndInv'
  BY TypeStep, InStepStep, OnePlaceStep, QueueStep, PoolStep DEF IndInv
<1>. QED
  BY <1>1, InitHolds, PTL DEF Spec

\* No OBD_t is with two threads at once, and none disappears between the event
\* loop, the queue, the dispatcher, the pool and its workers.
THEOREM RequestsAreInOnePlace == Spec => []OnePlace
BY Invariance, PTL DEF IndInv

\* main joins the dispatcher before it destroys the pool, the queue is empty by
\* then, and no worker has an OBD_t when obd_pool is destroyed.
THEOREM ShutdownIsOrdered == Spec => []ShutdownOrder
<1>1. IndInv => ShutdownOrder
  <2>. SUFFICES ASSUME IndInv PROVE ShutdownOrder
    OBVIOUS
  <2>1. TypeOK /\ InStep /\ PoolP!IndInv
    BY DEF IndInv
  <2>2. ASSUME phase = "joining", main # "starting"
        PROVE  dispatcher = "exited" /\ Held = {} /\ InQueue = {}
    <3>1. dispatcher = "exited" /\ mqFlag /\ hand = NoRequest /\ reading = NoRequest /\ fifo = <<>>
      BY <2>1, <2>2 DEF TypeOK, InStep
    <3>. QED
      BY <3>1 DEF Held, InQueue, MQ!Queued
  <2>3. ASSUME main = "done" PROVE Pool!Running = {}
    <3>1. phase = "freed"
      BY <2>1, <2>3 DEF InStep
    <3>2. \A w \in PoolP!Workers : task[w] = NoRequest
      BY <2>1, <3>1 DEF PoolP!IndInv, PoolP!PoolReleasedWhenQuiet, PoolP!RingInv
    <3>. QED
      BY <3>2, SameSets DEF PoolP!Running
  <2>. QED
    BY <2>2, <2>3 DEF ShutdownOrder
<1>. QED
  BY <1>1, Invariance, PTL

--------------------------------------------------------------------------------
(* The codec, which a worker runs on the request it took (ObdCodec). *)

\* What holds of 0 and of every successor holds up to a bound.
LEMMA UpTo ==
  ASSUME NEW n \in Nat, NEW T, 0 \in T, \A k \in 0 .. n - 1 : k \in T => k + 1 \in T
  PROVE  0 .. n \subseteq T
<1> DEFINE Left == {k \in 0 .. n : k \notin T}
<1> SUFFICES ASSUME Left # {} PROVE FALSE
  OBVIOUS
<1>1. \E k \in Left : \A m \in Left : ~(<<m, k>> \in OpToRel(<, Nat))
  <2>1. Left \subseteq Nat
    OBVIOUS
  <2> HIDE DEF Left
  <2> QED
    BY <2>1, NatLessThanWellFounded, WFMin
<1>2. \A k, m \in Nat : <<m, k>> \in OpToRel(<, Nat) <=> m < k
  BY DEF OpToRel
<1>3. PICK k \in Left : \A m \in Left : ~(m < k)
  <2>1. Left \subseteq Nat
    OBVIOUS
  <2> HIDE DEF Left
  <2> QED
    BY <1>1, <1>2, <2>1
<1>4. k # 0 /\ k - 1 \in 0 .. n - 1
  OBVIOUS
<1>5. k - 1 \in T
  BY <1>3, <1>4
<1>6. (k - 1) + 1 \in T
  BY <1>4, <1>5
<1> QED
  BY <1>6

\* What a sequence over a set gives.
LEMMA OfASequence ==
  ASSUME NEW S, NEW s \in Seq(S)
  PROVE  Len(s) \in Nat /\ \A p \in 1 .. Len(s) : s[p] \in S
OBVIOUS

Stepping(g, n, S, first, step) ==
  /\ g \in [0 .. n -> S]
  /\ g[0] = first
  /\ \A k \in 1 .. n : g[k] = step[k][g[k - 1]]

\* A function on 0 .. n may be given by its first value and by how each value
\* follows from the one before.
LEMMA StepByStep ==
  ASSUME NEW n \in Nat, NEW S, NEW first \in S, NEW step \in [0 .. n -> [S -> S]]
  PROVE  \E g : Stepping(g, n, S, first, step)
<1> DEFINE Is(g, m) ==
             g[0] = first /\ \A k \in 1 .. m : g[k] = step[k][g[k - 1]]
           Done == {m \in 0 .. n : \E g \in [0 .. m -> S] : Is(g, m)}
<1>1. 0 \in Done
  <2>1. [k \in 0 .. 0 |-> first] \in [0 .. 0 -> S]
    OBVIOUS
  <2>2. Is([k \in 0 .. 0 |-> first], 0)
    OBVIOUS
  <2>3. \E g \in [0 .. 0 -> S] : Is(g, 0)
    <3> HIDE DEF Is
    <3> QED
      BY <2>1, <2>2
  <2> QED
    BY <2>3
<1>2. ASSUME NEW m \in 0 .. n - 1, m \in Done
      PROVE  m + 1 \in Done
  <2>1. PICK g \in [0 .. m -> S] : Is(g, m)
    BY <1>2
  <2> DEFINE longer == [k \in 0 .. m + 1 |-> IF k <= m THEN g[k] ELSE step[m + 1][g[m]]]
  <2>2. step[m + 1][g[m]] \in S
    <3>1. m + 1 \in 0 .. n /\ g[m] \in S
      OBVIOUS
    <3>2. step[m + 1] \in [S -> S]
      BY <3>1
    <3> QED
      BY <3>1, <3>2
  <2>3. longer \in [0 .. m + 1 -> S]
    BY <2>2
  <2>4. Is(longer, m + 1)
    <3>1. longer[0] = first
      BY <2>1
    <3>2. ASSUME NEW k \in 1 .. m + 1
          PROVE  longer[k] = step[k][longer[k - 1]]
      <4>1. longer[k - 1] = g[k - 1]
        OBVIOUS
      <4>2. CASE k <= m
        <5>1. longer[k] = g[k] /\ k \in 1 .. m
          BY <4>2
        <5> QED
          BY <4>1, <5>1, <2>1
      <4>3. CASE k = m + 1
        <5>1. longer[k] = step[m + 1][g[m]] /\ k - 1 = m
          BY <4>3
        <5> QED
          BY <4>1, <4>3, <5>1
      <4> QED
        BY <4>2, <4>3
    <3> QED
      BY <3>1, <3>2
  <2>5. \E h \in [0 .. m + 1 -> S] : Is(h, m + 1)
    <3> HIDE DEF Is, longer
    <3> QED
      BY <2>3, <2>4
  <2> QED
    BY <2>5
<1>3. n \in Done
  <2>1. \A m \in 0 .. n - 1 : m \in Done => m + 1 \in Done
    BY <1>2
  <2> HIDE DEF Done
  <2>2. 0 .. n \subseteq Done
    BY <1>1, <2>1, UpTo
  <2> QED
    BY <2>2
<1>4. PICK g \in [0 .. n -> S] : Is(g, n)
  BY <1>3
<1>5. Stepping(g, n, S, first, step)
  BY <1>4 DEF Stepping
<1> QED
  BY <1>5

--------------------------------------------------------------------------------
\* One turn of Decoding, as the provers use it.
Byte(k, escaped) ==
  Str2Hex(IF escaped THEN Data(begin + 2 * k - 1) ELSE Data(begin + 2 * k - 2),
          Data(begin + 2 * k - 1))

AfterPair(k, before) ==
  IF ~before.escaped /\ Byte(k, before.escaped) = Escape
  THEN [bytes |-> before.bytes, escaped |-> TRUE]
  ELSE [bytes |-> Append(before.bytes, Byte(k, before.escaped)), escaped |-> FALSE]

Nothing == [bytes |-> <<>>, escaped |-> FALSE]

DecodedBytes == {Str2Hex(m, n) : m, n \in 0 .. 127}
Partial == [bytes : Seq(DecodedBytes), escaped : BOOLEAN]

TextIs == text \in Seq(1 .. 127)

LEMMA TurnStays ==
  ASSUME TextIs, begin \in Nat, NEW k \in Nat, k # 0, NEW before \in Partial
  PROVE  AfterPair(k, before) \in Partial
<1> DEFINE m == IF before.escaped THEN Data(begin + 2 * k - 1) ELSE Data(begin + 2 * k - 2)
           n == Data(begin + 2 * k - 1)
<1>1. m \in 0 .. 127 /\ n \in 0 .. 127
  <2>1. \A a \in Nat : Data(a) \in 0 .. 127
    <3>1. Len(text) \in Nat /\ \A p \in 1 .. Len(text) : text[p] \in 1 .. 127
      <4> DEFINE Chars == 1 .. 127
      <4>1. text \in Seq(Chars)
        BY DEF TextIs
      <4> HIDE DEF Chars
      <4>2. Len(text) \in Nat /\ \A p \in 1 .. Len(text) : text[p] \in Chars
        BY <4>1, OfASequence
      <4> QED
        BY <4>2 DEF Chars
    <3>2. ASSUME NEW a \in Nat
          PROVE  Data(a) \in 0 .. 127
      <4>1. CASE a < Len(text)
        <5>1. a + 1 \in 1 .. Len(text)
          BY <3>1, <4>1
        <5> QED
          BY <3>1, <4>1, <5>1 DEF Data
      <4>2. CASE ~(a < Len(text))
        BY <4>2 DEF Data
      <4> QED
        BY <4>1, <4>2
    <3> QED
      BY <3>2
  <2>2. begin + 2 * k - 1 \in Nat /\ begin + 2 * k - 2 \in Nat
    OBVIOUS
  <2> QED
    BY <2>1, <2>2
<1>2. Byte(k, before.escaped) = Str2Hex(m, n)
  BY SMTT(60) DEF Byte
<1> HIDE DEF m, n
<1>3. Byte(k, before.escaped) \in DecodedBytes
  BY SMTT(60), <1>1, <1>2 DEF DecodedBytes
<1>4. before.bytes \in Seq(DecodedBytes)
  BY DEF Partial
<1>5. Append(before.bytes, Byte(k, before.escaped)) \in Seq(DecodedBytes)
  BY <1>3, <1>4
<1> QED
  BY <1>4, <1>5 DEF AfterPair, Partial

Decodes ==
  /\ Decoding \in [0 .. BufSize -> Partial]
  /\ Decoding[0] = Nothing
  /\ \A k \in 1 .. BufSize : Decoding[k] = AfterPair(k, Decoding[k - 1])

\* The recursion of Decoding has a solution, so that Decoding is one.
LEMMA DecodingIs == TextIs /\ begin \in Nat => Decodes
<1> SUFFICES ASSUME TextIs, begin \in Nat PROVE Decodes
  OBVIOUS
<1> USE CodecAssumption
<1> DEFINE step == [k \in 0 .. BufSize |-> [before \in Partial |->
                      IF k = 0 THEN before ELSE AfterPair(k, before)]]
           Body(d) == [k \in 0 .. BufSize |->
                         IF k = 0 THEN Nothing ELSE AfterPair(k, d[k - 1])]
<1>1. BufSize \in Nat
  BY DEF CodecAssumption
<1>2. step \in [0 .. BufSize -> [Partial -> Partial]]
  <2>1. ASSUME NEW k \in 0 .. BufSize, NEW before \in Partial
        PROVE  (IF k = 0 THEN before ELSE AfterPair(k, before)) \in Partial
    <3>1. k \in Nat
      BY <1>1
    <3> QED
      BY <3>1, TurnStays
  <2> QED
    BY <2>1
<1>3. Nothing \in Partial
  BY DEF Nothing, Partial
<1>4. PICK g : /\ g \in [0 .. BufSize -> Partial]
               /\ g[0] = Nothing
               /\ \A k \in 1 .. BufSize : g[k] = step[k][g[k - 1]]
  <2>1. \E g : Stepping(g, BufSize, Partial, Nothing, step)
    <3> HIDE DEF step
    <3> QED
      BY <1>1, <1>2, <1>3, StepByStep
  <2> QED
    BY <2>1 DEF Stepping
<1>5. \A k \in 1 .. BufSize : g[k] = AfterPair(k, g[k - 1])
  <2> SUFFICES ASSUME NEW k \in 1 .. BufSize
               PROVE  g[k] = AfterPair(k, g[k - 1])
    OBVIOUS
  <2>1. g[k - 1] \in Partial
    <3>1. k - 1 \in 0 .. BufSize
      BY <1>1
    <3> QED
      BY <1>4, <3>1
  <2>2. k \in 0 .. BufSize /\ k # 0
    BY <1>1
  <2>3. step[k][g[k - 1]] = AfterPair(k, g[k - 1])
    BY <2>1, <2>2
  <2> QED
    BY <1>4, <2>3
<1>6. g = Body(g)
  <2>1. ASSUME NEW k \in 0 .. BufSize
        PROVE  g[k] = Body(g)[k]
    <3>1. CASE k = 0
      BY <1>1, <1>4, <3>1
    <3>2. CASE k # 0
      <4>1. k \in 1 .. BufSize
        BY <1>1, <3>2
      <4>2. g[k] = AfterPair(k, g[k - 1])
        BY <1>5, <4>1
      <4> QED
        BY <3>2, <4>2
    <3> QED
      BY <3>1, <3>2
  <2> QED
    BY <1>4, <2>1
<1>7. Decoding = CHOOSE d : d = Body(d)
  BY DEF Decoding, AfterPair, Byte, Nothing
<1>8. Decoding = Body(Decoding)
  <2> HIDE DEF Body
  <2> QED
    BY <1>6, <1>7
<1>9. /\ DOMAIN Decoding = 0 .. BufSize
      /\ Decoding[0] = Nothing
      /\ \A k \in 1 .. BufSize : Decoding[k] = AfterPair(k, Decoding[k - 1])
  <2>1. ASSUME NEW d, NEW e, e = Body(d)
        PROVE  DOMAIN e = 0 .. BufSize /\ \A k \in 0 .. BufSize : e[k] = Body(d)[k]
    BY <2>1
  <2>2. DOMAIN Decoding = 0 .. BufSize
    BY <1>8, <2>1
  <2>3. \A k \in 0 .. BufSize : Decoding[k] = Body(Decoding)[k]
    <3> HIDE DEF Body
    <3> QED
      BY <1>8, <2>1
  <2>4. Decoding[0] = Nothing
    BY <1>1, <2>3
  <2>5. ASSUME NEW k \in 1 .. BufSize
        PROVE  Decoding[k] = AfterPair(k, Decoding[k - 1])
    <3>1. k \in 0 .. BufSize /\ k # 0
      BY <1>1
    <3> QED
      BY <2>3, <3>1
  <2> QED
    BY <2>2, <2>4, <2>5
<1>10. \A k \in 0 .. BufSize : Decoding[k] \in Partial
  <2> DEFINE T == {k \in 0 .. BufSize : Decoding[k] \in Partial}
  <2>1. 0 \in T
    BY <1>1, <1>3, <1>9
  <2>2. ASSUME NEW k \in 0 .. BufSize - 1, k \in T
        PROVE  k + 1 \in T
    <3>1. k + 1 \in 1 .. BufSize /\ k + 1 \in Nat /\ k + 1 # 0 /\ (k + 1) - 1 = k
      BY <1>1
    <3>2. Decoding[k + 1] = AfterPair(k + 1, Decoding[k])
      BY <1>9, <3>1
    <3>3. AfterPair(k + 1, Decoding[k]) \in Partial
      BY <2>2, <3>1, TurnStays
    <3> QED
      BY <3>1, <3>2, <3>3
  <2>3. 0 .. BufSize \subseteq T
    <3> HIDE DEF T
    <3> QED
      BY <1>1, <2>1, <2>2, UpTo
  <2> QED
    BY <2>3
<1> QED
  BY <1>8, <1>9, <1>10 DEF Decodes

--------------------------------------------------------------------------------
Turns == i \div 2
Working == stage \in {"loop", "decoded"}
Zeroed == \A k \in 0 .. BufSize - 1 : hex[k] = 0

CodecTypeOK ==
  /\ text \in Texts
  /\ stage \in {"recv", "dropped", "queued", "loop", "rejected", "decoded"}
  /\ dataLength \in 0 .. BufSize - 1
  /\ i \in 0 .. BufSize - 1 /\ j \in 0 .. BufSize - 1 /\ flag \in BOOLEAN
  /\ hex = [k \in 0 .. BufSize - 1 |-> hex[k]]

\* What is decoded was measured, is not longer than a u8_t says, and has its
\* "BB" inside.
FrameInText ==
  /\ stage \notin {"recv", "dropped"} => dataLength = Len(text)
  /\ Working => begin \in Nat /\ begin + 2 <= Len(text)

\* The counters do not come round, but for a text that is overlong.
CountersInStep ==
  /\ i = 2 * Turns
  /\ ~Working => i = 0 /\ j = 0 /\ ~flag /\ Zeroed
  /\ Working /\ ~Overlong => i <= dataLength + 1 /\ 2 * j <= i
  /\ stage = "decoded" => ~Overlong /\ dataLength <= i

HexIs(bytes) == \A k \in 0 .. BufSize - 1 : hex[k] = IF k < j THEN bytes[k + 1] ELSE 0

DecodedSoFar ==
  Working /\ ~Overlong /\ Turns <= Room =>
    /\ j = Len(Decoding[Turns].bytes)
    /\ flag = Decoding[Turns].escaped
    /\ HexIs(Decoding[Turns].bytes)

\* From the last pair in data on, its bytes stay as they are.
HexBegins(bytes) ==
  /\ Len(bytes) <= j
  /\ \A k \in 0 .. BufSize - 1 :
       /\ k < Len(bytes) => hex[k] = bytes[k + 1]
       /\ k >= j => hex[k] = 0

DecodedBehind ==
  Working /\ ~Overlong /\ Room <= Turns => HexBegins(Decoding[Room].bytes)

CleanSoFar ==
  Working /\ Clean =>
    /\ ~flag /\ 2 * j = i
    /\ \A k \in 0 .. BufSize - 1 :
         hex[k] = IF k < j THEN Str2Hex(text[2 * k + 1], text[2 * k + 2]) ELSE 0

CodecIndInv ==
  CodecTypeOK /\ FrameInText /\ CountersInStep /\ DecodedSoFar /\ DecodedBehind /\ CleanSoFar

LEMMA TextFacts ==
  ASSUME text \in Texts
  PROVE  TextIs /\ Len(text) \in 0 .. BufSize
BY CodecAssumption DEF CodecAssumption, TextIs

LEMMA SizeFacts == BufSize \in Nat /\ BufSize >= 4 /\ BufSize % 2 = 0
BY CodecAssumption DEF CodecAssumption

LEMMA U8Facts ==
  ASSUME NEW n \in Nat
  PROVE  /\ U8(n) \in 0 .. BufSize - 1
         /\ n < BufSize => U8(n) = n
         /\ n = BufSize => U8(n) = 0
BY SizeFacts DEF U8

LEMMA CodecInitInv == CodecInit => CodecIndInv
<1> SUFFICES ASSUME CodecInit PROVE CodecIndInv
  OBVIOUS
<1> USE SizeFacts DEF CodecInit
<1>1. CodecTypeOK
  <2>1. hex = [k \in 0 .. BufSize - 1 |-> hex[k]]
    OBVIOUS
  <2>2. /\ text \in Texts /\ stage = "recv"
        /\ dataLength = 0 /\ i = 0 /\ j = 0 /\ flag = FALSE
    OBVIOUS
  <2>3. 0 \in 0 .. BufSize - 1
    BY ONLY SizeFacts
  <2> QED
    BY ONLY <2>1, <2>2, <2>3 DEF CodecTypeOK
<1>2. FrameInText
  BY DEF FrameInText, Working
<1>3. CountersInStep
  BY DEF CountersInStep, Working, Zeroed, Turns
<1>4. DecodedSoFar /\ DecodedBehind /\ CleanSoFar
  BY DEF DecodedSoFar, DecodedBehind, CleanSoFar, Working
<1> QED
  BY <1>1, <1>2, <1>3, <1>4 DEF CodecIndInv

\* Before the loop nothing is decoded.
LEMMA MeasureKeepsInv ==
  ASSUME CodecIndInv, Measure PROVE CodecIndInv'
<1> USE SizeFacts DEF CodecIndInv, Measure
<1>1. Len(text) \in 0 .. BufSize
  BY TextFacts DEF CodecTypeOK
<1>2. /\ dataLength' \in 0 .. BufSize - 1
      /\ stage' \in {"dropped", "queued"} /\ ~Working
      /\ stage' = "queued" => dataLength' = Len(text)
  <2>1. stage' = "queued" => dataLength' # 0
    OBVIOUS
  <2> QED
    BY <1>1, <2>1, U8Facts DEF Working
<1>3. CodecTypeOK'
  BY SMTT(60), <1>2 DEF CodecTypeOK
<1>4. ~Working'
  BY <1>2 DEF Working
<1>5. FrameInText'
  BY <1>2, <1>4 DEF FrameInText
<1>6. CountersInStep'
  BY <1>2, <1>4 DEF CountersInStep, locals, Zeroed, Turns, Working
<1>7. DecodedSoFar' /\ DecodedBehind' /\ CleanSoFar'
  BY <1>4 DEF DecodedSoFar, DecodedBehind, CleanSoFar
<1> QED
  BY <1>3, <1>5, <1>6, <1>7

LEMMA RejectKeepsInv ==
  ASSUME CodecIndInv, Reject PROVE CodecIndInv'
<1> USE DEF CodecIndInv, Reject, locals
<1>1. ~Working /\ ~Working' /\ stage = "queued" /\ stage' = "rejected"
  BY DEF Working
<1>2. CodecTypeOK'
  BY DEF CodecTypeOK
<1>3. FrameInText'
  BY <1>1 DEF FrameInText
<1>4. CountersInStep'
  BY <1>1 DEF CountersInStep, Zeroed, Turns
<1>5. DecodedSoFar' /\ DecodedBehind' /\ CleanSoFar'
  BY <1>1 DEF DecodedSoFar, DecodedBehind, CleanSoFar
<1> QED
  BY <1>2, <1>3, <1>4, <1>5

LEMMA EnterKeepsInv ==
  ASSUME CodecIndInv, Enter PROVE CodecIndInv'
<1> USE SizeFacts DEF CodecIndInv, Enter, locals
<1>1. ~Working /\ Working' /\ stage = "queued" /\ stage' = "loop"
  BY DEF Working
<1>2. dataLength = Len(text) /\ i = 0 /\ j = 0 /\ ~flag /\ Zeroed
  BY <1>1 DEF FrameInText, CountersInStep
<1>3. begin' \in Nat /\ begin' + 2 <= Len(text)
  BY <1>2 DEF FirstAt, Occurrences, CodecTypeOK
<1>4. CodecTypeOK'
  BY DEF CodecTypeOK
<1>5. FrameInText'
  BY <1>2, <1>3 DEF FrameInText
<1>6. CountersInStep'
  BY <1>1, <1>2 DEF CountersInStep, Turns, CodecTypeOK
<1>7. DecodedSoFar'
  <2>1. TextIs'
    BY TextFacts DEF CodecTypeOK, TextIs
  <2>2. (TextIs /\ begin \in Nat => Decodes)'
    BY DecodingIs, PTL
  <2>a. Decodes'
    BY <1>3, <2>1, <2>2
  <2>3. (Decoding[Turns] = Nothing)'
    BY <1>2, <2>a DEF Decodes, Turns
  <2>4. (Decoding[Turns].bytes)' = <<>> /\ (Decoding[Turns].escaped)' = FALSE
    BY <2>3 DEF Nothing
  <2>5. HexIs(<<>>)'
    BY <1>2 DEF HexIs, Zeroed
  <2>6. j' = 0 /\ flag' = FALSE /\ Len(<<>>) = 0
    BY <1>2
  <2> QED
    BY <2>4, <2>5, <2>6 DEF DecodedSoFar
<1>a. DecodedBehind'
  <2>1. Room' \in Nat \ {0}
    BY <1>2, <1>3 DEF Room, CodecTypeOK
  <2>2. Turns' = 0
    BY <1>2 DEF Turns
  <2> QED
    BY <2>1, <2>2 DEF DecodedBehind
<1>8. CleanSoFar'
  BY <1>2 DEF CleanSoFar, Zeroed
<1> QED
  BY <1>4, <1>5, <1>6, <1>7, <1>a, <1>8

LEMMA LeaveKeepsInv ==
  ASSUME CodecIndInv, Leave PROVE CodecIndInv'
<1> USE SizeFacts DEF CodecIndInv, Leave, locals
<1>1. Working /\ Working' /\ stage = "loop" /\ stage' = "decoded" /\ dataLength <= i
  BY DEF Working, InLoop, CodecTypeOK
<1>2. ~Overlong
  BY <1>1 DEF Overlong, CodecTypeOK, CountersInStep, Turns
<1>3. CodecTypeOK'
  BY DEF CodecTypeOK
<1>4. FrameInText'
  BY <1>1 DEF FrameInText
<1>5. CountersInStep'
  BY <1>1, <1>2 DEF CountersInStep, Overlong, Turns
<1>6. Decoding' = Decoding
  BY DEF Decoding, Data
<1>7. DecodedSoFar' /\ DecodedBehind'
  BY <1>1, <1>6 DEF DecodedSoFar, DecodedBehind, HexIs, HexBegins, Overlong, Room, Turns
<1>8. CleanSoFar'
  BY <1>1 DEF CleanSoFar, Clean
<1> QED
  BY <1>3, <1>4, <1>5, <1>7, <1>8

--------------------------------------------------------------------------------
\* What every turn of the loop needs to know.
LEMMA LoopFacts ==
  ASSUME CodecIndInv, InLoop
  PROVE  /\ Working /\ stage = "loop" /\ TextIs
         /\ dataLength = Len(text) /\ dataLength \in 1 .. BufSize - 1
         /\ begin \in Nat /\ begin + 2 <= dataLength
         /\ Turns \in Nat /\ i = 2 * Turns /\ i < dataLength
<1> USE DEF CodecIndInv, InLoop
<1>1. Working /\ stage = "loop" /\ TextIs
  BY TextFacts DEF Working, CodecTypeOK
<1>2. dataLength = Len(text) /\ begin \in Nat /\ begin + 2 <= dataLength
  BY <1>1 DEF FrameInText
<1>3. i = 2 * Turns /\ i \in Nat /\ dataLength \in 1 .. BufSize - 1
  BY SizeFacts DEF CountersInStep, CodecTypeOK
<1>4. Turns \in Nat
  BY <1>3 DEF Turns
<1> QED
  BY <1>1, <1>2, <1>3, <1>4

\* i goes on by one turn and does not come round, and there is room for a byte.
LEMMA LoopAdvances ==
  ASSUME CodecIndInv, InLoop, ~Overlong
  PROVE  /\ U8(i + 2) = i + 2 /\ i + 2 <= dataLength + 1
         /\ U8(j + 1) = j + 1 /\ 2 * (j + 1) <= i + 2
         /\ (i + 2) \div 2 = Turns + 1
<1>1. /\ dataLength \in 1 .. BufSize - 1 /\ Turns \in Nat /\ i = 2 * Turns /\ i < dataLength
      /\ Working
  BY LoopFacts
<1>2. j \in Nat /\ 2 * j <= i
  BY <1>1, SizeFacts DEF CodecIndInv, CodecTypeOK, CountersInStep
<1>3. i + 2 < BufSize
  BY <1>1, SizeFacts DEF Overlong
<1>4. j + 1 < BufSize
  BY <1>1, <1>2, <1>3, SizeFacts
<1>5. U8(i + 2) = i + 2 /\ U8(j + 1) = j + 1
  BY <1>1, <1>2, <1>3, <1>4, U8Facts
<1> QED
  BY <1>1, <1>2, <1>5

LEMMA RoomFacts ==
  ASSUME begin \in Nat, begin < BufSize
  PROVE  Room \in 0 .. BufSize /\ begin + 2 * Room <= BufSize
BY SizeFacts DEF Room

LEMMA RoomInLoop ==
  ASSUME CodecIndInv, InLoop
  PROVE  Room \in 0 .. BufSize /\ Room \in Nat /\ begin + 2 * Room <= BufSize
<1>1. begin \in Nat /\ begin < BufSize
  BY LoopFacts, SizeFacts
<1> QED
  BY <1>1, RoomFacts, SizeFacts

\* A pair of a frame that is in data is read from data.
LEMMA PairInData ==
  ASSUME CodecIndInv, InLoop, Turns + 1 <= Room
  PROVE  /\ Turns + 1 \in 1 .. BufSize
         /\ Cell(begin + i) = Data(begin + 2 * (Turns + 1) - 2)
         /\ Cell(begin + i + 1) = Data(begin + 2 * (Turns + 1) - 1)
<1>1. /\ dataLength \in 1 .. BufSize - 1 /\ Turns \in Nat /\ i = 2 * Turns /\ i < dataLength
      /\ begin \in Nat /\ dataLength = Len(text)
  BY LoopFacts
<1>2. begin + 2 * Room <= BufSize /\ Room \in Nat
  BY RoomInLoop
<1>3. begin + 2 * (Turns + 1) <= BufSize
  BY <1>1, <1>2, SizeFacts
<1>4. Turns + 1 \in 1 .. BufSize
  BY <1>1, <1>3, SizeFacts
<1>5. \A a \in Nat : a < BufSize => Cell(a) = Data(a)
  BY SizeFacts DEF Cell, Data
<1>6. /\ begin + i \in Nat /\ begin + i < BufSize /\ begin + i = begin + 2 * (Turns + 1) - 2
      /\ begin + i + 1 \in Nat /\ begin + i + 1 < BufSize
      /\ begin + i + 1 = begin + 2 * (Turns + 1) - 1
  BY <1>1, <1>3, SizeFacts
<1> QED
  BY <1>4, <1>5, <1>6

\* The next turn of Decoding.
LEMMA NextTurn ==
  ASSUME CodecIndInv, InLoop, Turns + 1 <= Room
  PROVE  /\ Decoding[Turns] \in Partial
         /\ Decoding[Turns + 1] = AfterPair(Turns + 1, Decoding[Turns])
<1>1. Turns \in Nat /\ TextIs /\ begin \in Nat
  BY LoopFacts
<1>2. Turns + 1 \in 1 .. BufSize /\ Turns \in 0 .. BufSize /\ (Turns + 1) - 1 = Turns
  BY <1>1, PairInData, SizeFacts
<1>3. Decodes
  BY <1>1, DecodingIs
<1>4. Decoding[Turns + 1] = AfterPair(Turns + 1, Decoding[(Turns + 1) - 1])
  BY <1>2, <1>3 DEF Decodes
<1>5. Decoding[Turns] \in Partial
  BY <1>2, <1>3 DEF Decodes
<1> QED
  BY <1>2, <1>4, <1>5

\* A pair of a clean frame is no escape.
LEMMA CleanPair ==
  ASSUME CodecIndInv, InLoop, Clean
  PROVE  /\ Pair = Str2Hex(text[2 * Turns + 1], text[2 * Turns + 2])
         /\ Pair # Escape /\ ~flag /\ 2 * j = i /\ j = Turns
         /\ ~Overlong
<1>1. /\ dataLength \in 1 .. BufSize - 1 /\ Turns \in Nat /\ i = 2 * Turns /\ i < dataLength
      /\ dataLength = Len(text) /\ Working
  BY LoopFacts
<1>2. dataLength % 2 = 0 /\ begin = 0
  BY DEF Clean
<1>3. i + 1 < Len(text)
  BY <1>1, <1>2
<1>4. Cell(begin + i) = text[2 * Turns + 1] /\ Cell(begin + i + 1) = text[2 * Turns + 2]
  <2>1. begin + i < Len(text) /\ begin + i + 1 < Len(text)
    BY <1>1, <1>2, <1>3
  <2>2. (begin + i) + 1 = 2 * Turns + 1 /\ (begin + i + 1) + 1 = 2 * Turns + 2
    BY <1>1, <1>2
  <2> QED
    BY <2>1, <2>2 DEF Cell
<1>5. Pair = Str2Hex(text[2 * Turns + 1], text[2 * Turns + 2])
  BY <1>4 DEF Pair
<1>6. Turns \in 0 .. (dataLength \div 2) - 1
  BY <1>1, <1>2
<1>7. Pair # Escape
  BY <1>5, <1>6 DEF Clean
<1>8. ~flag /\ 2 * j = i /\ j \in Nat
  BY <1>1, SizeFacts DEF CodecIndInv, CleanSoFar, CodecTypeOK
<1>9. ~Overlong
  BY <1>1, <1>2, SizeFacts DEF Overlong
<1> QED
  BY <1>1, <1>5, <1>7, <1>8, <1>9

\* What a turn leaves alone.
LEMMA TurnKeeps ==
  ASSUME CodecIndInv, InLoop,
         UNCHANGED <<text, dataLength, id, begin, stage>>
  PROVE  /\ FrameInText' /\ Working' /\ stage' = "loop"
         /\ Overlong' = Overlong /\ Room' = Room /\ Clean' = Clean
         /\ Decoding' = Decoding
<1>1. Working /\ stage = "loop"
  BY LoopFacts
<1>2. FrameInText'
  BY <1>1 DEF CodecIndInv, FrameInText, Working
<1>3. Working' /\ stage' = "loop"
  BY <1>1 DEF Working
<1>4. Overlong' = Overlong /\ Room' = Room /\ Clean' = Clean
  BY DEF Overlong, Room, Clean
<1>5. Decoding' = Decoding
  BY DEF Decoding, Data
<1> QED
  BY <1>2, <1>3, <1>4, <1>5

\* A turn that stores a byte at j.
LEMMA StoreTyped ==
  ASSUME CodecIndInv, InLoop, NEW STATE byte, Store(byte), flag' \in BOOLEAN
  PROVE  /\ CodecTypeOK'
         /\ \A k \in 0 .. BufSize - 1 : hex'[k] = IF k = j THEN byte ELSE hex[k]
         /\ i' = 2 * Turns'
<1>1. /\ text \in Texts /\ dataLength \in 0 .. BufSize - 1
      /\ i \in 0 .. BufSize - 1 /\ j \in 0 .. BufSize - 1 /\ stage = "loop"
      /\ hex = [k \in 0 .. BufSize - 1 |-> hex[k]]
  BY LoopFacts DEF CodecIndInv, CodecTypeOK
<1>2. i' \in 0 .. BufSize - 1 /\ j' \in 0 .. BufSize - 1
  BY <1>1, SizeFacts, U8Facts DEF Store, AtNext
<1>3. /\ DOMAIN hex' = 0 .. BufSize - 1
      /\ hex' = [k \in 0 .. BufSize - 1 |-> hex'[k]]
      /\ \A k \in 0 .. BufSize - 1 : hex'[k] = IF k = j THEN byte ELSE hex[k]
  <2>1. hex' = [hex EXCEPT ![j] = byte]
    BY DEF Store
  <2>2. DOMAIN hex = 0 .. BufSize - 1
    BY <1>1
  <2> QED
    BY <2>1, <2>2
<1>4. CodecTypeOK'
  BY <1>1, <1>2, <1>3 DEF CodecTypeOK, Store
<1>5. i' = 2 * Turns'
  <2>1. i = 2 * Turns /\ Turns \in Nat
    BY LoopFacts
  <2>2. i' = (i + 2) % BufSize
    BY DEF Store, AtNext, U8
  <2>3. i + 2 = BufSize \/ i + 2 < BufSize
    BY <1>1, <2>1, SizeFacts
  <2>4. i' = 0 \/ i' = i + 2
    BY <1>1, <2>3, SizeFacts, U8Facts DEF Store, AtNext
  <2> QED
    BY <2>1, <2>4 DEF Turns
<1> QED
  BY <1>3, <1>4, <1>5

\* A byte that the next turn of Decoding appends is stored where it belongs.
LEMMA StoreDecoded ==
  ASSUME CodecIndInv, InLoop, ~Overlong, Turns + 1 <= Room,
         NEW STATE byte, Store(byte), flag' = FALSE,
         Decoding[Turns + 1] = [bytes |-> Append(Decoding[Turns].bytes, byte), escaped |-> FALSE]
  PROVE  (/\ j = Len(Decoding[Turns].bytes)
          /\ flag = Decoding[Turns].escaped
          /\ HexIs(Decoding[Turns].bytes))'
<1> DEFINE bytes == Decoding[Turns].bytes
<1>1. UNCHANGED <<text, dataLength, id, begin, stage>> /\ j' = j + 1 /\ Turns' = Turns + 1
  BY LoopAdvances DEF Store, AtNext, Turns
<1>2. Decoding' = Decoding
  BY <1>1, TurnKeeps
<1>3. Working /\ Turns \in Nat /\ Turns <= Room
  BY LoopFacts, RoomInLoop
<1>4. j = Len(bytes) /\ HexIs(bytes)
  BY <1>3 DEF CodecIndInv, DecodedSoFar
<1>5. bytes \in Seq(DecodedBytes)
  BY NextTurn DEF Partial
<1>6. \A k \in 0 .. BufSize - 1 : hex'[k] = IF k = j THEN byte ELSE hex[k]
  BY StoreTyped
<1>7. /\ Decoding'[Turns'].bytes = Append(bytes, byte)
      /\ Decoding'[Turns'].escaped = FALSE
  BY <1>1, <1>2
<1> HIDE DEF bytes
<1>8. /\ Len(Append(bytes, byte)) = j + 1
      /\ Append(bytes, byte)[j + 1] = byte
      /\ \A k \in 1 .. j : Append(bytes, byte)[k] = bytes[k]
  BY <1>4, <1>5
<1>9. ASSUME NEW k \in 0 .. BufSize - 1
      PROVE  hex'[k] = IF k < j' THEN Append(bytes, byte)[k + 1] ELSE 0
  <2>1. hex[k] = IF k < j THEN bytes[k + 1] ELSE 0
    BY <1>4 DEF HexIs
  <2>2. k \in Nat /\ j \in Nat
    BY SizeFacts DEF CodecIndInv, CodecTypeOK
  <2>3. CASE k < j
    <3>1. k + 1 \in 1 .. j /\ k # j /\ k < j'
      BY <1>1, <2>2, <2>3
    <3>2. Append(bytes, byte)[k + 1] = bytes[k + 1]
      BY <1>8, <3>1
    <3> QED
      BY <1>6, <2>1, <2>3, <3>1, <3>2
  <2>4. CASE k = j
    <3>1. k < j'
      BY <1>1, <2>2, <2>4
    <3> QED
      BY <1>6, <1>8, <2>4, <3>1
  <2>5. CASE k > j
    <3>1. ~(k < j) /\ ~(k < j') /\ k # j
      BY <1>1, <2>2, <2>5
    <3> QED
      BY <1>6, <2>1, <3>1
  <2>6. k < j \/ k = j \/ k > j
    BY ONLY <2>2
  <2> QED
    BY ONLY <2>3, <2>4, <2>5, <2>6
<1>10. HexIs(Decoding[Turns].bytes)'
  BY <1>7, <1>9 DEF HexIs
<1> QED
  BY <1>1, <1>7, <1>8, <1>10

\* What a turn behind data stores goes behind the bytes of the pairs in data.
LEMMA TurnBehind ==
  ASSUME CodecIndInv, InLoop, ~Overlong, DecodedSoFar', Turns' = Turns + 1,
         UNCHANGED <<text, dataLength, id, begin, stage>>,
         \/ UNCHANGED <<hex, j>>
         \/ j' = j + 1 /\ \A k \in 0 .. BufSize - 1 : k # j => hex'[k] = hex[k]
  PROVE  DecodedBehind'
<1> DEFINE bytes == Decoding[Room].bytes
<1>1. /\ Working /\ Working' /\ Overlong' = Overlong
      /\ Room' = Room /\ Decoding' = Decoding
  BY LoopFacts, TurnKeeps
<1>2. /\ Turns \in Nat /\ Room \in 0 .. BufSize /\ begin \in Nat /\ TextIs
      /\ j \in Nat /\ \A k \in 0 .. BufSize - 1 : k \in Nat
  BY LoopFacts, RoomInLoop, SizeFacts DEF CodecIndInv, CodecTypeOK
<1>3. Len(bytes) \in Nat
  <2>1. Decoding[Room] \in Partial
    BY <1>2, DecodingIs DEF Decodes
  <2> QED
    BY <2>1 DEF Partial
<1>4. bytes' = bytes
  BY <1>1
<1> HIDE DEF bytes
<1>5. ASSUME Room = Turns + 1
      PROVE  HexBegins(bytes)'
  <2>1. j' = Len(bytes') /\ HexIs(bytes)'
    BY <1>1, <1>2, <1>5 DEF DecodedSoFar, bytes
  <2>2. \A k \in 0 .. BufSize - 1 : hex'[k] = IF k < j' THEN bytes'[k + 1] ELSE 0
    BY <2>1 DEF HexIs
  <2>3. j' \in Nat
    BY <1>3, <1>4, <2>1
  <2> QED
    BY <1>2, <2>1, <2>2, <2>3 DEF HexBegins
<1>6. ASSUME Room <= Turns
      PROVE  HexBegins(bytes)'
  <2>1. /\ Len(bytes) <= j
        /\ \A k \in 0 .. BufSize - 1 :
             /\ k < Len(bytes) => hex[k] = bytes[k + 1]
             /\ k >= j => hex[k] = 0
    BY <1>1, <1>6 DEF CodecIndInv, DecodedBehind, HexBegins, bytes
  <2>2. CASE UNCHANGED <<hex, j>>
    BY <1>4, <2>1, <2>2 DEF HexBegins
  <2>3. CASE j' = j + 1 /\ \A k \in 0 .. BufSize - 1 : k # j => hex'[k] = hex[k]
    <3>1. ASSUME NEW k \in 0 .. BufSize - 1
          PROVE  /\ k < Len(bytes) => hex'[k] = bytes[k + 1]
                 /\ k >= j' => hex'[k] = 0
      <4>1. k \in Nat
        BY <1>2
      <4>2. k < Len(bytes) => k # j /\ hex'[k] = hex[k]
        BY <1>2, <1>3, <2>1, <2>3, <4>1
      <4>3. k >= j' => k # j /\ k >= j /\ hex'[k] = hex[k]
        BY <1>2, <2>3, <4>1
      <4> QED
        BY <2>1, <4>2, <4>3
    <3>2. Len(bytes') <= j'
      BY <1>2, <1>3, <1>4, <2>1, <2>3
    <3> QED
      BY <1>4, <3>1, <3>2 DEF HexBegins
  <2> QED
    BY <2>2, <2>3
<1>7. Room <= Turns + 1 => Room = Turns + 1 \/ Room <= Turns
  BY <1>2
<1> QED
  BY <1>1, <1>5, <1>6, <1>7 DEF DecodedBehind, bytes

LEMMA PlainPairKeepsInv ==
  ASSUME CodecIndInv, PlainPair PROVE CodecIndInv'
<1>1. InLoop /\ ~flag /\ Pair # Escape /\ Store(Pair) /\ flag' = FALSE
  BY DEF PlainPair, CodecIndInv, CodecTypeOK
<1>2. UNCHANGED <<text, dataLength, id, begin, stage>>
  BY <1>1 DEF Store
<1>3. /\ FrameInText' /\ Working' /\ stage' = "loop"
      /\ Overlong' = Overlong /\ Room' = Room /\ Clean' = Clean
      /\ Decoding' = Decoding
  BY <1>1, <1>2, TurnKeeps
<1>4. /\ CodecTypeOK' /\ i' = 2 * Turns'
      /\ \A k \in 0 .. BufSize - 1 : hex'[k] = IF k = j THEN Pair ELSE hex[k]
  BY <1>1, StoreTyped
<1>5. ASSUME ~Overlong
      PROVE  /\ i' = i + 2 /\ j' = j + 1 /\ Turns' = Turns + 1
             /\ i' <= dataLength' + 1 /\ 2 * j' <= i'
  BY <1>1, <1>2, <1>5, LoopAdvances DEF Store, AtNext, Turns
<1>6. CountersInStep'
  BY <1>3, <1>4, <1>5 DEF CountersInStep
<1>7. DecodedSoFar'
  <2> SUFFICES ASSUME ~Overlong, Turns + 1 <= Room
               PROVE  (/\ j = Len(Decoding[Turns].bytes)
                       /\ flag = Decoding[Turns].escaped
                       /\ HexIs(Decoding[Turns].bytes))'
    BY <1>3, <1>5 DEF DecodedSoFar
  <2> DEFINE before == Decoding[Turns]
  <2>1. Working /\ Turns \in Nat /\ Turns <= Room
    BY <1>1, LoopFacts, RoomInLoop
  <2>2. j = Len(before.bytes) /\ flag = before.escaped /\ HexIs(before.bytes)
    BY <2>1 DEF CodecIndInv, DecodedSoFar
  <2>3. before \in Partial /\ Decoding[Turns + 1] = AfterPair(Turns + 1, before)
    BY <1>1, NextTurn
  <2>4. ~before.escaped
    BY <1>1, <2>2
  <2>5. Byte(Turns + 1, before.escaped) = Pair
    BY <1>1, <2>4, PairInData DEF Byte, Pair
  <2>6. Decoding[Turns + 1] = [bytes |-> Append(before.bytes, Pair), escaped |-> FALSE]
    BY <1>1, <2>3, <2>4, <2>5 DEF AfterPair
  <2> QED
    BY <1>1, <2>2, <2>6, StoreDecoded
<1>a. DecodedBehind'
  <2> SUFFICES ASSUME ~Overlong PROVE DecodedBehind'
    BY <1>3 DEF DecodedBehind
  <2>1. j' = j + 1 /\ Turns' = Turns + 1 /\ \A k \in 0 .. BufSize - 1 : k # j => hex'[k] = hex[k]
    BY <1>4, <1>5
  <2> QED
    BY <1>1, <1>2, <1>7, <2>1, TurnBehind
<1>8. CleanSoFar'
  <2> SUFFICES ASSUME Clean
               PROVE  (/\ ~flag /\ 2 * j = i
                       /\ \A k \in 0 .. BufSize - 1 :
                            hex[k] = IF k < j THEN Str2Hex(text[2 * k + 1], text[2 * k + 2]) ELSE 0)'
    BY <1>3 DEF CleanSoFar
  <2>1. /\ Pair = Str2Hex(text[2 * j + 1], text[2 * j + 2])
        /\ 2 * j = i /\ ~Overlong
    BY <1>1, CleanPair
  <2>2. \A k \in 0 .. BufSize - 1 :
           hex[k] = IF k < j THEN Str2Hex(text[2 * k + 1], text[2 * k + 2]) ELSE 0
    BY <1>1, LoopFacts DEF CodecIndInv, CleanSoFar
  <2>3. i' = i + 2 /\ j' = j + 1 /\ j \in Nat
    BY <1>5, <2>1, SizeFacts DEF CodecIndInv, CodecTypeOK
  <2>4. ASSUME NEW k \in 0 .. BufSize - 1
        PROVE  hex'[k] = IF k < j' THEN Str2Hex(text[2 * k + 1], text[2 * k + 2]) ELSE 0
    <3>1. k \in Nat
      BY SizeFacts
    <3>2. CASE k = j
      BY <1>4, <2>1, <2>3, <3>2
    <3>3. CASE k # j
      <4>1. hex'[k] = hex[k] /\ (k < j' <=> k < j)
        BY <1>4, <2>3, <3>1, <3>3
      <4> QED
        BY <2>2, <4>1
    <3> QED
      BY <3>2, <3>3
  <2> QED
    BY <1>1, <1>2, <2>1, <2>3, <2>4
<1> QED
  BY <1>3, <1>4, <1>6, <1>7, <1>a, <1>8 DEF CodecIndInv

LEMMA EscapePairKeepsInv ==
  ASSUME CodecIndInv, EscapePair PROVE CodecIndInv'
<1>1. InLoop /\ ~flag /\ Pair = Escape /\ flag' = TRUE /\ i' = AtNext(i)
  BY DEF EscapePair
<1>2. UNCHANGED <<text, dataLength, id, begin, stage>> /\ UNCHANGED <<hex, j>>
  BY DEF EscapePair
<1>3. /\ FrameInText' /\ Working' /\ stage' = "loop"
      /\ Overlong' = Overlong /\ Room' = Room /\ Clean' = Clean
      /\ Decoding' = Decoding
  BY <1>1, <1>2, TurnKeeps
<1>4. i \in 0 .. BufSize - 1 /\ i' \in 0 .. BufSize - 1 /\ i' = 2 * Turns'
  <2>1. i = 2 * Turns /\ Turns \in Nat /\ i \in 0 .. BufSize - 1
    BY <1>1, LoopFacts DEF CodecIndInv, CodecTypeOK
  <2>2. i + 2 = BufSize \/ i + 2 < BufSize
    BY <2>1, SizeFacts
  <2>3. i' = 0 \/ i' = i + 2
    BY <1>1, <2>1, <2>2, SizeFacts, U8Facts DEF AtNext
  <2>4. i' \in 0 .. BufSize - 1
    BY <1>1, <2>1, SizeFacts, U8Facts DEF AtNext
  <2>5. i' = 2 * Turns'
    <3>1. CASE i' = 0
      BY <3>1 DEF Turns
    <3>2. CASE i' = 2 * (Turns + 1)
      <4>1. Turns' = Turns + 1
        BY <2>1, <3>2 DEF Turns
      <4> QED
        BY <3>2, <4>1
    <3> QED
      BY <2>1, <2>3, <3>1, <3>2
  <2> QED
    BY <2>1, <2>4, <2>5
<1>5. CodecTypeOK'
  BY <1>1, <1>2, <1>4 DEF CodecIndInv, CodecTypeOK
<1>6. ASSUME ~Overlong
      PROVE  /\ i' = i + 2 /\ j' = j /\ Turns' = Turns + 1
             /\ i' <= dataLength' + 1 /\ 2 * j' <= i'
  <2>1. 2 * j <= i /\ j \in Nat /\ i \in Nat
    BY <1>1, <1>6, LoopFacts, SizeFacts DEF CodecIndInv, CountersInStep, CodecTypeOK
  <2> QED
    BY <1>1, <1>2, <1>6, <2>1, LoopAdvances DEF AtNext, Turns
<1>7. CountersInStep'
  BY <1>3, <1>4, <1>6 DEF CountersInStep
<1>8. DecodedSoFar'
  <2> SUFFICES ASSUME ~Overlong, Turns + 1 <= Room
               PROVE  (/\ j = Len(Decoding[Turns].bytes)
                       /\ flag = Decoding[Turns].escaped
                       /\ HexIs(Decoding[Turns].bytes))'
    BY <1>3, <1>6 DEF DecodedSoFar
  <2>1. Working /\ Turns \in Nat /\ Turns <= Room
    BY <1>1, LoopFacts, RoomInLoop
  <2>2. /\ j = Len(Decoding[Turns].bytes) /\ flag = Decoding[Turns].escaped
        /\ HexIs(Decoding[Turns].bytes)
    BY <2>1 DEF CodecIndInv, DecodedSoFar
  <2>3. Decoding[Turns + 1] = AfterPair(Turns + 1, Decoding[Turns])
    BY <1>1, NextTurn
  <2>4. ~Decoding[Turns].escaped
    BY <1>1, <2>2
  <2>5. Byte(Turns + 1, Decoding[Turns].escaped) = Escape
    BY <1>1, <2>4, PairInData DEF Byte, Pair
  <2>6. Decoding[Turns + 1] = [bytes |-> Decoding[Turns].bytes, escaped |-> TRUE]
    BY <2>3, <2>4, <2>5 DEF AfterPair
  <2>7. /\ Decoding'[Turns'].bytes = Decoding[Turns].bytes
        /\ Decoding'[Turns'].escaped = TRUE
    BY <1>3, <1>6, <2>6
  <2> QED
    BY <1>1, <1>2, <2>2, <2>7 DEF HexIs
<1>a. DecodedBehind'
  <2> SUFFICES ASSUME ~Overlong PROVE DecodedBehind'
    BY <1>3 DEF DecodedBehind
  <2> QED
    BY <1>1, <1>2, <1>6, <1>8, TurnBehind
<1>9. CleanSoFar'
  BY <1>1, <1>3, CleanPair DEF CleanSoFar
<1> QED
  BY <1>3, <1>5, <1>7, <1>8, <1>a, <1>9 DEF CodecIndInv

LEMMA EscapedPairKeepsInv ==
  ASSUME CodecIndInv, EscapedPair PROVE CodecIndInv'
<1> DEFINE byte == Str2Hex(Cell(begin + i + 1), Cell(begin + i + 1))
<1>1. InLoop /\ flag /\ Store(byte) /\ flag' = FALSE
  BY DEF EscapedPair
<1>2. UNCHANGED <<text, dataLength, id, begin, stage>>
  BY <1>1 DEF Store
<1>3. /\ FrameInText' /\ Working' /\ stage' = "loop"
      /\ Overlong' = Overlong /\ Room' = Room /\ Clean' = Clean
      /\ Decoding' = Decoding
  BY <1>1, <1>2, TurnKeeps
<1>4. /\ CodecTypeOK' /\ i' = 2 * Turns'
      /\ \A k \in 0 .. BufSize - 1 : k # j => hex'[k] = hex[k]
  BY <1>1, StoreTyped
<1>5. ASSUME ~Overlong
      PROVE  i' <= dataLength' + 1 /\ 2 * j' <= i' /\ j' = j + 1 /\ Turns' = Turns + 1
  BY <1>1, <1>2, <1>5, LoopAdvances DEF Store, AtNext, Turns
<1>6. CountersInStep'
  BY <1>3, <1>4, <1>5 DEF CountersInStep
<1>7. DecodedSoFar'
  <2> SUFFICES ASSUME ~Overlong, Turns + 1 <= Room
               PROVE  (/\ j = Len(Decoding[Turns].bytes)
                       /\ flag = Decoding[Turns].escaped
                       /\ HexIs(Decoding[Turns].bytes))'
    BY <1>3, <1>5 DEF DecodedSoFar
  <2>1. Decoding[Turns].escaped = flag
    <3>1. Working /\ Turns \in Nat /\ Turns <= Room
      BY <1>1, LoopFacts, RoomInLoop
    <3> QED
      BY <3>1 DEF CodecIndInv, DecodedSoFar
  <2>2. Decoding[Turns + 1] = AfterPair(Turns + 1, Decoding[Turns])
    BY <1>1, NextTurn
  <2>3. Byte(Turns + 1, Decoding[Turns].escaped) = byte
    BY <1>1, <2>1, PairInData DEF Byte
  <2>4. Decoding[Turns + 1] = [bytes |-> Append(Decoding[Turns].bytes, byte), escaped |-> FALSE]
    BY <1>1, <2>1, <2>2, <2>3 DEF AfterPair
  <2> HIDE DEF byte
  <2> QED
    BY <1>1, <2>4, StoreDecoded
<1>a. DecodedBehind'
  <2> SUFFICES ASSUME ~Overlong PROVE DecodedBehind'
    BY <1>3 DEF DecodedBehind
  <2> QED
    BY <1>1, <1>2, <1>4, <1>5, <1>7, TurnBehind
<1>8. CleanSoFar'
  BY <1>1, <1>3, CleanPair DEF CleanSoFar
<1> QED
  BY <1>3, <1>4, <1>6, <1>7, <1>a, <1>8 DEF CodecIndInv

LEMMA CodecStepInv == CodecIndInv /\ [CodecNext]_codecVars => CodecIndInv'
<1> SUFFICES ASSUME CodecIndInv, [CodecNext]_codecVars PROVE CodecIndInv'
  OBVIOUS
<1>1. CASE Measure
  BY <1>1, MeasureKeepsInv
<1>2. CASE Reject
  BY <1>2, RejectKeepsInv
<1>3. CASE Enter
  BY <1>3, EnterKeepsInv
<1>4. CASE PlainPair
  BY <1>4, PlainPairKeepsInv
<1>5. CASE EscapePair
  BY <1>5, EscapePairKeepsInv
<1>6. CASE EscapedPair
  BY <1>6, EscapedPairKeepsInv
<1>7. CASE Leave
  BY <1>7, LeaveKeepsInv
<1>8. CASE UNCHANGED codecVars
  <2> USE <1>8 DEF codecVars
  <2>1. CodecTypeOK'
    BY DEF CodecIndInv, CodecTypeOK
  <2>2. FrameInText'
    BY DEF CodecIndInv, FrameInText, Working
  <2>3. CountersInStep'
    BY DEF CodecIndInv, CountersInStep, Working, Turns, Zeroed, Overlong
  <2>4. Decoding' = Decoding
    BY DEF Decoding, Data
  <2>5. DecodedSoFar' /\ DecodedBehind'
    BY <2>4 DEF CodecIndInv, DecodedSoFar, DecodedBehind, Working, Turns, Overlong, Room, HexIs, HexBegins
  <2>6. CleanSoFar'
    BY DEF CodecIndInv, CleanSoFar, Working, Clean
  <2> QED
    BY <2>1, <2>2, <2>3, <2>5, <2>6 DEF CodecIndInv
<1> QED
  BY <1>1, <1>2, <1>3, <1>4, <1>5, <1>6, <1>7, <1>8 DEF CodecNext

\* The loop of OBD_filter_escape_and_transfer_to_hex keeps its counters, hex and
\* the escape flag in step with what the frame's first pairs stand for, for every
\* buffer size and every text recv returns.
THEOREM CodecIndInvHolds == CodecSpec => []CodecIndInv
<1>1. CodecInit => CodecIndInv
  BY CodecInitInv
<1>2. CodecIndInv /\ [CodecNext]_codecVars => CodecIndInv'
  BY CodecStepInv
<1> QED
  BY <1>1, <1>2, PTL DEF CodecSpec

\* At the end i has just come to the end of the frame: all its pairs are read.
LEMMA AllPairsRead ==
  ASSUME CodecIndInv, stage = "decoded"
  PROVE  Working /\ ~Overlong /\ Turns = Pairs
<1>1. Working /\ ~Overlong /\ dataLength <= i
  BY DEF CodecIndInv, CountersInStep, Working
<1>2. i <= dataLength + 1 /\ i = 2 * Turns /\ i \in Nat /\ dataLength \in Nat
  BY <1>1, SizeFacts DEF CodecIndInv, CountersInStep, CodecTypeOK
<1>3. Turns \in Nat
  BY <1>2 DEF Turns
<1>4. Turns = Pairs
  BY <1>1, <1>2, <1>3 DEF Pairs
<1> QED
  BY <1>1, <1>4

\* FrameDecoded: the pairs of a frame that are in data come out as the bytes they
\* stand for, escapes included; nothing follows them when these are all its pairs,
\* and when they are not, the bytes read behind data follow.
THEOREM FramesAreDecoded == CodecSpec => []FrameDecoded
<1>1. CodecIndInv => FrameDecoded
  <2> SUFFICES ASSUME CodecIndInv, stage = "decoded"
               PROVE  LET bytes == Decoding[PairsInData].bytes
                      IN HexBegins(bytes) /\ (Pairs <= Room => j = Len(bytes))
    BY DEF FrameDecoded, HexBegins
  <2>1. Working /\ ~Overlong /\ Turns = Pairs
    BY AllPairsRead
  <2>2. j \in Nat /\ Pairs \in Nat /\ Room \in Nat /\ \A k \in 0 .. BufSize - 1 : k \in Nat
    <3>1. begin \in Nat /\ begin < BufSize /\ dataLength \in Nat
      BY <2>1, TextFacts, SizeFacts DEF CodecIndInv, FrameInText, CodecTypeOK
    <3>. QED
      BY SMTT(60), <3>1, RoomFacts, SizeFacts DEF CodecIndInv, CodecTypeOK, Pairs
  <2>3. CASE Pairs <= Room
    <3>1. j = Len(Decoding[Pairs].bytes) /\ HexIs(Decoding[Pairs].bytes)
      BY <2>1, <2>3 DEF CodecIndInv, DecodedSoFar
    <3>2. HexBegins(Decoding[Pairs].bytes)
      BY <2>2, <3>1 DEF HexIs, HexBegins
    <3> QED
      BY <2>3, <3>1, <3>2 DEF PairsInData
  <2>4. CASE ~(Pairs <= Room)
    <3>1. HexBegins(Decoding[Room].bytes)
      BY <2>1, <2>2, <2>4 DEF CodecIndInv, DecodedBehind
    <3> QED
      BY <2>4, <3>1 DEF PairsInData
  <2> QED
    BY <2>3, <2>4
<1> QED
  BY <1>1, CodecIndInvHolds, PTL

\* CleanFrameDecoded: a frame without escapes that fills its text comes out as its
\* pairs of characters, one byte each.
THEOREM CleanFramesAreDecoded == CodecSpec => []CleanFrameDecoded
<1>1. CodecIndInv => CleanFrameDecoded
  <2> SUFFICES ASSUME CodecIndInv, stage = "decoded", Clean
               PROVE  /\ 2 * j = dataLength
                      /\ \A k \in 0 .. BufSize - 1 :
                           hex[k] = IF k < j THEN Str2Hex(text[2 * k + 1], text[2 * k + 2]) ELSE 0
    BY DEF CleanFrameDecoded
  <2>1. Working /\ Turns = Pairs
    BY AllPairsRead
  <2>2. i = 2 * Turns /\ dataLength \in Nat /\ dataLength % 2 = 0
    BY SizeFacts DEF CodecIndInv, CountersInStep, CodecTypeOK, Clean
  <2>3. i = dataLength
    BY <2>1, <2>2 DEF Pairs
  <2> QED
    BY <2>1, <2>3 DEF CodecIndInv, CleanSoFar
<1> QED
  BY <1>1, CodecIndInvHolds, PTL

\* A frame that begins late is read out of data, through data_length and into hex,
\* but never past hex: its last cell is 2 * BufSize places after the first of data.
THEOREM ReadsStayInRequest == CodecSpec => [](InLoop => begin + i + 1 < 2 * BufSize)
<1>1. CodecIndInv => (InLoop => begin + i + 1 < 2 * BufSize)
  BY LoopFacts, SizeFacts
<1> QED
  BY <1>1, CodecIndInvHolds, PTL

\* A text of BufSize - 1 characters with a frame in it is never done with: i comes
\* round to 0 and the loop goes on (the overlong requests of Server).
THEOREM OverlongNeverEnds == CodecSpec => [](stage = "decoded" => ~Overlong)
<1>1. CodecIndInv => (stage = "decoded" => ~Overlong)
  BY AllPairsRead
<1> QED
  BY <1>1, CodecIndInvHolds, PTL

\* The decoder cannot turn for ever on a text that is not overlong: every step it
\* takes in the loop brings i, which stays below BufSize, nearer to the end.
THEOREM EveryTurnAdvances ==
  CodecSpec => [][stage = "loop" /\ ~Overlong => i' = i + 2 \/ stage' = "decoded"]_codecVars
<1> DEFINE Advances == stage = "loop" /\ ~Overlong => i' = i + 2 \/ stage' = "decoded"
<1>1. CodecIndInv /\ [CodecNext]_codecVars => [Advances]_codecVars
  <2> SUFFICES ASSUME CodecIndInv, CodecNext, stage = "loop", ~Overlong, stage' # "decoded"
               PROVE  i' = i + 2
    OBVIOUS
  <2>1. PlainPair \/ EscapePair \/ EscapedPair
    BY DEF CodecNext, Measure, Reject, Enter, Leave
  <2>2. InLoop /\ i' = AtNext(i)
    BY <2>1 DEF PlainPair, EscapePair, EscapedPair, Store
  <2> QED
    BY <2>2, LoopAdvances DEF AtNext
<1> QED
  BY <1>1, CodecIndInvHolds, PTL DEF CodecSpec
================================================================================
