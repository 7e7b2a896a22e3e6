-------------------------------- MODULE Server --------------------------------
(***************************************************************************)
(* main-ev.c: the whole server.  The event loop (the main thread) receives *)
(* requests, answers OK and puts them in the message queue; the dispatcher *)
(* takes them out and adds them to the thread pool; the workers decode and *)
(* release them.  SIGINT breaks the loop, and main then shuts down.        *)
(*                                                                         *)
(* The queue and the pool are the modules MessageQueue and ThreadPool,     *)
(* with their pointers, mutex and condition variable.  Here a request is   *)
(* the OBD_t that carries it, so that a request is free again when its     *)
(* OBD_t is back in obd_pool; the calls of that pool are atomic here       *)
(* (MemoryPool has them step by step).  A request that the codec never     *)
(* finishes with is overlong (ObdCodec has the reason).  The send that     *)
(* answers a request returns when its client lets it (Connections has the  *)
(* reason, and what SIGPIPE does to the process).                          *)
(***************************************************************************)
EXTENDS Integers, FiniteSets, Sequences

CONSTANTS
  Requests,      \* the OBD_t blocks
  NoRequest,
  Loop, Dispatcher, Nobody,   \* threads, as holders of mq_mutex
  Sentinel, NULL,
  ThreadCount, QueueSize,     \* threadpool_create(8, 8, 0)
  MaxBatch       \* how many callbacks are still pending when the loop is broken

ASSUME ServerAssumption ==
  /\ ThreadCount \in Nat \ {0} /\ QueueSize \in Nat \ {0} /\ MaxBatch \in Nat
  /\ {NoRequest, Sentinel, NULL} \cap Requests = {}
  /\ Nobody \notin {Loop, Dispatcher} /\ Loop # Dispatcher

VARIABLES
  next, prev, size, mutex, result, fifo,                  \* obd_mq
  queue, head, tail, count, shutdown, started,            \* thread_pool
  threadCount, pc, task, phase, joined,
  main,          \* where main is
  mqFlag,        \* mq_flag
  pending,       \* callbacks the event loop still runs before ev_run returns
  reading,       \* the request the read callback is working on
  answering,     \* whether it is still in the send of its OK
  dispatcher,    \* where the dispatcher thread is
  hand,          \* the request the dispatcher took out of the queue
  free,          \* the OBD_t blocks in obd_pool, or never allocated
  lost,          \* those nobody will ever release
  overlong       \* the requests in flight that the codec never finishes with

mqVars == <<next, prev, size, mutex, result, fifo>>
poolVars == <<queue, head, tail, count, shutdown, started, threadCount, pc, task,
              phase, joined>>
mainVars == <<main, mqFlag, pending, reading, answering>>
dispatcherVars == <<dispatcher, hand>>
requestVars == <<free, lost, overlong>>
vars == <<mqVars, poolVars, mainVars, dispatcherVars, requestVars>>

MQ == INSTANCE MessageQueue WITH Threads <- {Loop, Dispatcher}, Nodes <- Requests
Pool == INSTANCE ThreadPool WITH Tasks <- Requests, NoTask <- NoRequest

Workers == 0 .. ThreadCount - 1

Init ==
  /\ MQ!Init /\ Pool!Init
  /\ main = "starting" /\ mqFlag = FALSE /\ pending = 0
  /\ reading = NoRequest /\ answering = FALSE
  /\ dispatcher = "absent" /\ hand = NoRequest
  /\ free = Requests /\ lost = {} /\ overlong = {}

\* Back to obd_pool.
Release(r) ==
  /\ free' = free \cup {r}
  /\ overlong' = overlong \ {r}
  /\ UNCHANGED lost

-------------------------------------------------------------------------------
(* main, before and in the event loop *)

CreatePool ==
  /\ main = "starting"
  /\ \/ Pool!CreateWorker
     \/ Pool!CreateFails
     \/ Pool!Join \/ Pool!Free        \* inside the threadpool_create that failed
  /\ UNCHANGED <<mqVars, mainVars, dispatcherVars, requestVars>>

\* pthread_create of the dispatcher, ev_run; main goes on when threadpool_create
\* returned NULL.
StartLoop ==
  /\ main = "starting"
  /\ phase \in {"ready", "freed"}
  /\ main' = "loop" /\ dispatcher' = "top"
  /\ UNCHANGED <<mqVars, poolVars, mqFlag, pending, reading, answering, hand, requestVars>>

\* The part of read_func_cb before send, for a request that is answered.  The
\* other ways out release the OBD_t at once.
Receive(r) ==
  /\ main = "loop" \/ (main = "broken" /\ pending > 0)
  /\ reading = NoRequest
  /\ r \in free
  /\ free' = free \ {r}
  /\ reading' = r /\ answering' = TRUE
  /\ overlong' \in {overlong, overlong \cup {r}}
  /\ pending' = IF main = "broken" THEN pending - 1 ELSE pending
  /\ UNCHANGED <<mqVars, poolVars, main, mqFlag, dispatcherVars, lost>>

\* send has put its "OK" into the buffer of a socket that blocks.
Answer ==
  /\ answering
  /\ answering' = FALSE
  /\ UNCHANGED <<mqVars, poolVars, main, mqFlag, pending, reading, dispatcherVars, requestVars>>

Put ==
  /\ reading # NoRequest /\ ~answering
  /\ MQ!Put(Loop, reading)
  /\ reading' = NoRequest
  /\ UNCHANGED <<poolVars, main, mqFlag, pending, answering, dispatcherVars, requestVars>>

\* ev_signal_cb: ev_break.  The callbacks of the same batch still run.
Signal ==
  /\ main = "loop" /\ reading = NoRequest
  /\ main' = "broken"
  /\ pending' \in 0 .. MaxBatch
  /\ UNCHANGED <<mqVars, poolVars, mqFlag, reading, answering, dispatcherVars, requestVars>>

LeaveLoopUnflagged ==                                      \* mutant
  /\ main = "broken" /\ reading = NoRequest
  /\ main' = "joinDispatcher"
  /\ UNCHANGED <<mqVars, poolVars, mqFlag, pending, reading, answering, dispatcherVars, requestVars>>

\* ev_run returns (callbacks that found nothing to read are over too).
LeaveLoop ==
  /\ main = "broken" /\ reading = NoRequest
  /\ mqFlag' = TRUE
  /\ main' = "joinDispatcher"
  /\ UNCHANGED <<mqVars, poolVars, pending, reading, answering, dispatcherVars, requestVars>>

-------------------------------------------------------------------------------
(* main, after the event loop *)

JoinNobody ==                                              \* mutant
  /\ main = "joinDispatcher"
  /\ main' = "destroyPool"
  /\ UNCHANGED <<mqVars, poolVars, mqFlag, pending, reading, answering, dispatcherVars, requestVars>>

JoinDispatcher ==
  /\ main = "joinDispatcher"
  /\ dispatcher = "exited"
  /\ main' = "destroyPool"
  /\ UNCHANGED <<mqVars, poolVars, mqFlag, pending, reading, answering, dispatcherVars, requestVars>>

\* threadpool_destroy(thread_pool, 0)
DestroyPool ==
  /\ main = "destroyPool"
  /\ Pool!Destroy("immediate") \/ Pool!Join \/ Pool!Free
  /\ UNCHANGED <<mqVars, mainVars, dispatcherVars, requestVars>>

\* The pool is freed, or there never was one: DestroyMemoryPool(&obd_pool), and
\* the rest of main.
End ==
  /\ main = "destroyPool"
  /\ phase = "freed"
  /\ main' = "done"
  /\ UNCHANGED <<mqVars, poolVars, mqFlag, pending, reading, answering, dispatcherVars, requestVars>>

-------------------------------------------------------------------------------
(* The dispatcher: thread_func_cb *)

\* mq_flag == TRUE &&
ReadFlag ==
  /\ dispatcher = "top"
  /\ dispatcher' = IF mqFlag THEN "ask" ELSE "get"
  /\ UNCHANGED <<mqVars, poolVars, mainVars, hand, requestVars>>

\* mq_is_empty(&obd_mq)
AskEmpty ==
  /\ dispatcher = "ask"
  /\ MQ!IsEmpty(Dispatcher)
  /\ dispatcher' = IF MQ!Empty THEN "exited" ELSE "get"
  /\ UNCHANGED <<poolVars, mainVars, hand, requestVars>>

Take ==
  /\ dispatcher = "get"
  /\ \/ MQ!Get(Dispatcher) /\ hand' = prev[Sentinel] /\ dispatcher' = "add"
     \/ MQ!GetNothing(Dispatcher) /\ dispatcher' = "top" /\ UNCHANGED hand
  /\ UNCHANGED <<poolVars, mainVars, requestVars>>

\* threadpool_add; what it returns is ignored
Dispatch ==
  /\ dispatcher = "add"
  /\ \/ Pool!Add(hand) /\ UNCHANGED lost
     \/ /\ phase = "freed" \/ ~Pool!Accepts
        /\ lost' = lost \cup {hand}
        /\ UNCHANGED poolVars
  /\ hand' = NoRequest
  /\ dispatcher' = "top"
  /\ UNCHANGED <<mqVars, mainVars, free, overlong>>

-------------------------------------------------------------------------------
(* The workers: threadpool_thread and OBD_decode_thread *)

Turn(w) ==
  /\ Pool!TakeLock(w) \/ Pool!SpuriousWakeup(w)
  /\ UNCHANGED <<mqVars, mainVars, dispatcherVars, requestVars>>

DecodeUnreleased(w) ==                                     \* mutant
  /\ task[w] \notin overlong
  /\ Pool!Finish(w)
  /\ UNCHANGED <<mqVars, mainVars, dispatcherVars, requestVars>>

Decode(w) ==
  /\ task[w] \notin overlong
  /\ Pool!Finish(w)
  /\ Release(task[w])
  /\ UNCHANGED <<mqVars, mainVars, dispatcherVars>>

Next ==
  \/ CreatePool \/ StartLoop
  \/ \E r \in Requests : Receive(r)
  \/ Answer \/ Put \/ Signal \/ LeaveLoop
  \/ JoinDispatcher \/ DestroyPool \/ End
  \/ ReadFlag \/ AskEmpty \/ Take \/ Dispatch
  \/ \E w \in Workers : Turn(w) \/ Decode(w)

Spec == Init /\ [][Next]_vars

\* Each thread that can run does; among the workers some one of those that can
\* take the lock does.  No request has to come, no signal, and no client has to
\* take its answer.
FairSpec ==
  /\ Spec
  /\ WF_vars(CreatePool \/ StartLoop \/ Put \/ LeaveLoop \/ JoinDispatcher
             \/ DestroyPool \/ End)
  /\ WF_vars(ReadFlag \/ AskEmpty \/ Take \/ Dispatch)
  /\ WF_vars(\E w \in Workers : Pool!TakeLock(w) /\ Turn(w))
  /\ \A w \in Workers : WF_vars(Decode(w))

-------------------------------------------------------------------------------
(***************************************************************************)
(* Properties                                                              *)
(***************************************************************************)

\* Where the requests in flight are.  What is in the ring when the pool is freed
\* stays counted there.
InQueue == MQ!Queued
InRing == Pool!Queued
Held == {reading, hand} \ {NoRequest}

\* Each OBD_t is in one place: in obd_pool, with the event loop, in the queue,
\* with the dispatcher, in the ring, with a worker, or lost.  So no thread works
\* on a request another one still has, and no OBD_t disappears in a hand-over.
OnePlace ==
  LET places == <<free, Held, InQueue, InRing, Pool!Running, lost>> IN
  /\ Requests = UNION {places[k] : k \in DOMAIN places}
  /\ \A k, l \in DOMAIN places : k # l => places[k] \cap places[l] = {}
  /\ reading = hand => reading = NoRequest

\* The dispatcher has exited, and no request is in its hands or in the queue,
\* when main destroys the pool it adds to; when main destroys obd_pool no worker
\* has a request of it.
ShutdownOrder ==
  /\ phase = "joining" /\ main # "starting" =>
       dispatcher = "exited" /\ Held = {} /\ InQueue = {}
  /\ main = "done" => Pool!Running = {}

\* The dispatcher has found the queue not empty and waits for the mutex that it
\* holds itself.
SelfDeadlock == dispatcher = "get" /\ mutex = Dispatcher

\* SIGINT ends the server, unless the dispatcher locks itself out, a worker has
\* an overlong request, or a callback of the last batch stays in its send for
\* ever.
SignalEndsServer ==
  []<>~answering =>
    (main = "broken" ~> main = "done" \/ SelfDeadlock \/ Pool!Running \cap overlong # {})
===============================================================================
