------------------------------- MODULE EvWakeup -------------------------------
(***************************************************************************)
(* How libev is woken: ev_async_send from other threads and signal handlers  *)
(* against ev_run, through pipe_write_wanted, pipe_write_skipped and evpipe; *)
(* pipecb, which finds what was sent; and the signal SIGCHLD, for which      *)
(* childcb waits for children and tells the ev_child watchers.               *)
(*                                                                          *)
(* evpipe is an eventfd; signalfd is not used, as in the default loop.       *)
(* Every load and store that two threads share is a step; the fences of the *)
(* code order them.  After a fork the model is that of the child.            *)
(***************************************************************************)
EXTENDS Integers, Sequences, FiniteSets

CONSTANTS
  Asyncs,       \* ev_async watchers
  Usr, Chld,    \* two signals: one with a watcher of the user, and SIGCHLD
  ChildWatchers,
  WaitsFor,     \* of a child watcher: the process, or AnyPid
  AnyPid, Pids, \* child processes
  Traced,       \* child watchers that want to know of stopped processes too
  Senders,      \* threads, and the contexts signal handlers run in
  Scenarios,    \* sets of watchers, and of processes, that take part
  MaxSends, MaxOps,
  PipeW, PendingW,  \* watchers of the loop itself
  NoOne

Signals == {Usr, Chld}
Users == Asyncs \cup {Usr} \cup ChildWatchers
Statuses == {"stopped", "exited"}

ASSUME EvWakeupAssumption ==
  /\ WaitsFor \in [ChildWatchers -> Pids \cup {AnyPid}] /\ AnyPid \notin Pids
  /\ Traced \subseteq ChildWatchers /\ IsFiniteSet(ChildWatchers)
  /\ Usr # Chld /\ Chld \notin Users
  /\ {PipeW, PendingW} \cap (Users \cup {Chld}) = {} /\ PipeW # PendingW
  /\ ChildWatchers \cap (Asyncs \cup {Usr}) = {} /\ Usr \notin Asyncs
  /\ Scenarios \subseteq SUBSET (Users \cup Pids)
  /\ MaxSends \in Nat /\ MaxOps \in Nat

VARIABLES
  pipe_write_wanted, pipe_write_skipped, sig_pending, async_pending,
  evpipe,       \* its counter is not 0
  sent,         \* of each ev_async
  sigpend,      \* signals[signum].pending
  active,       \* active ev_async, ev_signal and ev_child watchers
  pendings,     \* the queues of EV_MAXPRI and of priority 0: "max", "low"
  piperead,     \* the pending event of pipe_w has EV_READ
  pc, scan,     \* ev_run and pipecb; what pipecb still has to look at
  blocking,     \* the poll may wait
  postfork,
  sender,       \* of each sender: what it does
  status,       \* of each process: what waitpid would return, or "none"
  raised,       \* signals that the kernel has yet to deliver
  may,          \* the scenario
  sends, ops

flags == <<pipe_write_wanted, pipe_write_skipped, sig_pending, async_pending, evpipe>>
marks == <<sent, sigpend>>
queue == <<pendings, piperead>>
loop == <<pc, scan, blocking, postfork>>
processes == <<status, raised, may>>
vars == <<flags, marks, active, queue, loop, sender, processes, sends, ops>>

\* signals[signum].loop, while a watcher is on its list
Listening(s) == s \in active
Idle == [at |-> "idle", what |-> NoOne]

Init ==
  /\ pipe_write_wanted = FALSE /\ pipe_write_skipped = FALSE
  /\ sig_pending = FALSE /\ async_pending = FALSE /\ evpipe = FALSE
  /\ sent = [w \in Asyncs |-> FALSE] /\ sigpend = [s \in Signals |-> FALSE]
  /\ may \in Scenarios
  /\ \E on \in SUBSET (may \cap Users) : active = on \cup {Chld}
  /\ pendings = [max |-> <<>>, low |-> <<>>] /\ piperead = FALSE
  /\ pc = "invoke" /\ scan = {} /\ blocking = FALSE /\ postfork = FALSE
  /\ sender = [t \in Senders |-> Idle]
  /\ status = [p \in Pids |-> "none"] /\ raised = {} /\ sends = 0 /\ ops = 0

-------------------------------------------------------------------------------
(* ev_feed_event and clear_pending, as in EvLoop *)

IsPending(q, w) == \E pri \in {"max", "low"} : \E i \in DOMAIN q[pri] : q[pri][i] = w
Fed(q, pri, w) == IF IsPending(q, w) THEN q ELSE [q EXCEPT ![pri] = Append(@, w)]

\* The entry stays, for pending_w.
Dummied(ws, w) == [i \in DOMAIN ws |-> IF ws[i] = w THEN PendingW ELSE ws[i]]
Cleared(q, w) == [max |-> Dummied(q.max, w), low |-> Dummied(q.low, w)]

\* In some order, that of a list
Listed(ws) ==
  CHOOSE f \in [1 .. Cardinality(ws) -> ws] : \A w \in ws : \E i \in DOMAIN f : f[i] = w
FedAll(q, pri, ws) == [q EXCEPT ![pri] = @ \o Listed({w \in ws : ~IsPending(q, w)})]

-------------------------------------------------------------------------------
(* ev_async_send, and ev_feed_signal in a signal handler *)

At(t, at) == sender[t].at = at
Goto(t, at) == sender' = [sender EXCEPT ![t] = IF at = "idle" THEN Idle ELSE [@ EXCEPT !.at = at]]
IsAsync(t) == sender[t].what \in Asyncs

Send(t, w) ==
  /\ At(t, "idle") /\ w \in may /\ sends < MaxSends /\ sends' = sends + 1
  /\ sent' = [sent EXCEPT ![w] = TRUE]
  /\ sender' = [sender EXCEPT ![t] = [at |-> "test", what |-> w]]
  /\ UNCHANGED <<flags, sigpend, active, queue, loop, processes, ops>>

\* The handler: without a loop it returns.
Handle(t, s) ==
  /\ At(t, "idle") /\ s \in raised /\ raised' = raised \ {s}
  /\ IF Listening(s)
     THEN sigpend' = [sigpend EXCEPT ![s] = TRUE] /\ sender' = [sender EXCEPT ![t] = [at |-> "test", what |-> s]]
     ELSE UNCHANGED <<sigpend, sender>>
  /\ UNCHANGED <<flags, sent, active, queue, loop, status, may, sends, ops>>

(* evpipe_write *)

Flag(t) == IF IsAsync(t) THEN async_pending ELSE sig_pending

TestFlag(t) ==
  /\ At(t, "test")
  /\ Goto(t, IF Flag(t) THEN "idle" ELSE "flag")
  /\ UNCHANGED <<flags, marks, active, queue, loop, processes, sends, ops>>

SetFlag(t) ==
  /\ At(t, "flag")
  /\ IF IsAsync(t) THEN async_pending' = TRUE /\ UNCHANGED sig_pending
     ELSE sig_pending' = TRUE /\ UNCHANGED async_pending
  /\ Goto(t, "skip")
  /\ UNCHANGED <<pipe_write_wanted, pipe_write_skipped, evpipe, marks, active, queue, loop, processes, sends, ops>>

Skip(t) ==
  /\ At(t, "skip")
  /\ pipe_write_skipped' = TRUE
  /\ Goto(t, "wanted")
  /\ UNCHANGED <<pipe_write_wanted, sig_pending, async_pending, evpipe, marks, active, queue, loop, processes, sends, ops>>

TestWanted(t) ==
  /\ At(t, "wanted")
  /\ Goto(t, IF pipe_write_wanted THEN "unskip" ELSE "idle")
  /\ UNCHANGED <<flags, marks, active, queue, loop, processes, sends, ops>>

Unskip(t) ==
  /\ At(t, "unskip")
  /\ pipe_write_skipped' = FALSE
  /\ Goto(t, "write")
  /\ UNCHANGED <<pipe_write_wanted, sig_pending, async_pending, evpipe, marks, active, queue, loop, processes, sends, ops>>

Write(t) ==
  /\ At(t, "write")
  /\ evpipe' = TRUE
  /\ sender' = [sender EXCEPT ![t] = Idle]
  /\ UNCHANGED <<pipe_write_wanted, pipe_write_skipped, sig_pending, async_pending, marks, active, queue, loop, processes, sends, ops>>

EvpipeWrite(t) == TestFlag(t) \/ SetFlag(t) \/ Skip(t) \/ TestWanted(t) \/ Unskip(t) \/ Write(t)

-------------------------------------------------------------------------------
(* ev_run, from the callbacks of one iteration to those of the next *)

Quiet == pendings.max = <<>> /\ pendings.low = <<>>

\* loop_fork: a new eventfd, and pipe_w fed, in case something was missed
LoopFork ==
  /\ pc = "invoke" /\ Quiet /\ postfork
  /\ evpipe' = FALSE /\ postfork' = FALSE
  /\ pendings' = Fed(pendings, "max", PipeW) /\ piperead' = FALSE
  /\ pc' = "want"
  /\ UNCHANGED <<pipe_write_wanted, pipe_write_skipped, sig_pending, async_pending, marks, active, scan, blocking, sender, processes, sends, ops>>

NoFork ==
  /\ pc = "invoke" /\ Quiet /\ ~postfork /\ pc' = "want"
  /\ UNCHANGED <<flags, marks, active, queue, scan, blocking, postfork, sender, processes, sends, ops>>

Want ==
  /\ pc = "want" /\ pc' = "decide"
  /\ pipe_write_wanted' = TRUE
  /\ UNCHANGED <<pipe_write_skipped, sig_pending, async_pending, evpipe, marks, active, queue, scan, blocking, postfork, sender, processes, sends, ops>>

DecidesBlindly == TRUE                                           \* mutant

\* Whether the poll may wait
Decides == ~pipe_write_skipped

Decide ==
  /\ pc = "decide" /\ pc' = "poll"
  /\ blocking' = Decides
  /\ UNCHANGED <<flags, marks, active, queue, scan, postfork, sender, processes, sends, ops>>

\* backend_poll returns with pipe_w ready, or at the end of its time or for another event
Poll(ready) ==
  /\ pc = "poll" /\ pc' = "unwant"
  /\ IF ready THEN evpipe /\ pendings' = Fed(pendings, "max", PipeW) /\ piperead' = TRUE
     ELSE ~evpipe /\ UNCHANGED queue
  /\ blocking' = FALSE
  /\ UNCHANGED <<flags, marks, active, scan, postfork, sender, processes, sends, ops>>

Unwant ==
  /\ pc = "unwant" /\ pc' = "skipped"
  /\ pipe_write_wanted' = FALSE
  /\ UNCHANGED <<pipe_write_skipped, sig_pending, async_pending, evpipe, marks, active, queue, scan, blocking, postfork, sender, processes, sends, ops>>

FeedSkipped ==
  /\ pc = "skipped" /\ pc' = "invoke"
  /\ pendings' = IF pipe_write_skipped THEN Fed(pendings, "max", PipeW) ELSE pendings
  /\ UNCHANGED <<flags, marks, active, piperead, scan, blocking, postfork, sender, processes, sends, ops>>

-------------------------------------------------------------------------------
(* ev_invoke_pending: the last event of the highest priority *)

NextPri == IF pendings.max # <<>> THEN "max" ELSE "low"
Last == pendings[NextPri][Len(pendings[NextPri])]
Popped == [pendings EXCEPT ![NextPri] = SubSeq(@, 1, Len(@) - 1)]
Invokes(w) == pc = "invoke" /\ ~Quiet /\ Last = w

\* pipecb, which reads the pipe and goes on in Look
PipeCb ==
  /\ Invokes(PipeW)
  /\ pendings' = Popped /\ piperead' = FALSE /\ pc' = "unskip"
  /\ evpipe' = IF piperead THEN FALSE ELSE evpipe
  /\ UNCHANGED <<pipe_write_wanted, pipe_write_skipped, sig_pending, async_pending, marks, active, scan, blocking, postfork, sender, processes, sends, ops>>

\* A callback of the user, or the empty one of pending_w
UserCb ==
  /\ \E w \in Users \cup {PendingW} : Invokes(w)
  /\ pendings' = Popped
  /\ UNCHANGED <<flags, marks, active, piperead, loop, sender, processes, sends, ops>>

\* child_reap: the watchers of this process and those of any
Reaps(p, w) ==
  /\ w \in active /\ WaitsFor[w] \in {p, AnyPid}
  /\ status[p] = "stopped" => w \in Traced

FedOnce(q, ws) == FedAll(q, "max", ws)                           \* mutant
FedAfterwards(q, ws) == Fed(FedAll(q, "max", ws), "max", Chld)   \* mutant

\* childcb feeds its signal again first, so that the watchers are called before
\* it waits for the next process.
FedToReap(q, ws) == FedAll(Fed(q, "max", Chld), "max", ws)

ChildCb ==
  /\ Invokes(Chld)
  /\ IF \A p \in Pids : status[p] = "none" THEN pendings' = Popped /\ UNCHANGED status
     ELSE \E p \in Pids :
            LET told == {w \in ChildWatchers : Reaps(p, w)}
            IN  /\ status[p] # "none" /\ status' = [status EXCEPT ![p] = "none"]
                /\ pendings' = FedToReap(Popped, told)
  /\ UNCHANGED <<flags, marks, active, piperead, loop, sender, raised, may, sends, ops>>

-------------------------------------------------------------------------------
(* pipecb after the read *)

UnskipInCb ==
  /\ pc = "unskip" /\ pc' = "signals"
  /\ pipe_write_skipped' = FALSE
  /\ UNCHANGED <<pipe_write_wanted, sig_pending, async_pending, evpipe, marks, active, queue, scan, blocking, postfork, sender, processes, sends, ops>>

ResetAfterwards(flag) == FALSE                                   \* mutant

\* The flag after pipecb has looked: what was sent meanwhile.
Kept(flag) == flag

ScanSignals ==
  /\ pc = "signals"
  /\ IF sig_pending THEN pc' = "signal" /\ scan' = Signals /\ sig_pending' = FALSE
     ELSE pc' = "asyncs" /\ UNCHANGED <<scan, sig_pending>>
  /\ UNCHANGED <<pipe_write_wanted, pipe_write_skipped, async_pending, evpipe, marks, active, queue, blocking, postfork, sender, processes, sends, ops>>

\* ev_feed_signal_event: nothing for a signal without a loop, not even its reset
LookAtSignal ==
  /\ pc = "signal" /\ scan # {}
  /\ LET s == CHOOSE v \in scan : TRUE
         feeds == sigpend[s] /\ Listening(s)
     IN  /\ scan' = scan \ {s}
         /\ sigpend' = IF feeds THEN [sigpend EXCEPT ![s] = FALSE] ELSE sigpend
         /\ pendings' = IF feeds THEN Fed(pendings, IF s = Chld THEN "max" ELSE "low", s) ELSE pendings
  /\ UNCHANGED <<flags, sent, active, piperead, pc, blocking, postfork, sender, processes, sends, ops>>

SignalsSeen ==
  /\ pc = "signal" /\ scan = {} /\ pc' = "asyncs"
  /\ sig_pending' = Kept(sig_pending)
  /\ UNCHANGED <<pipe_write_wanted, pipe_write_skipped, async_pending, evpipe, marks, active, queue, scan, blocking, postfork, sender, processes, sends, ops>>

ScanAsyncs ==
  /\ pc = "asyncs"
  /\ IF async_pending THEN pc' = "async" /\ scan' = active \cap Asyncs /\ async_pending' = FALSE
     ELSE pc' = "invoke" /\ UNCHANGED <<scan, async_pending>>
  /\ UNCHANGED <<pipe_write_wanted, pipe_write_skipped, sig_pending, evpipe, marks, active, queue, blocking, postfork, sender, processes, sends, ops>>

LookAtAsync ==
  /\ pc = "async" /\ scan # {}
  /\ LET w == CHOOSE v \in scan : TRUE
     IN  /\ scan' = scan \ {w}
         /\ sent' = [sent EXCEPT ![w] = FALSE]
         /\ pendings' = IF sent[w] THEN Fed(pendings, "low", w) ELSE pendings
  /\ UNCHANGED <<flags, sigpend, active, piperead, pc, blocking, postfork, sender, processes, sends, ops>>

AsyncsSeen ==
  /\ pc = "async" /\ scan = {} /\ pc' = "invoke"
  /\ async_pending' = Kept(async_pending)
  /\ UNCHANGED <<pipe_write_wanted, pipe_write_skipped, sig_pending, evpipe, marks, active, queue, scan, blocking, postfork, sender, processes, sends, ops>>

PipeCbGoesOn == UnskipInCb \/ ScanSignals \/ LookAtSignal \/ SignalsSeen \/ ScanAsyncs \/ LookAtAsync \/ AsyncsSeen

-------------------------------------------------------------------------------
(* The user, in callbacks, and the processes *)

Acts == pc = "invoke" /\ ops < MaxOps /\ ops' = ops + 1

Stopped(w) ==
  /\ Acts /\ w \in active
  /\ active' = active \ {w} /\ pendings' = Cleared(pendings, w)
  /\ UNCHANGED <<flags, marks, piperead, loop, sender, processes, sends>>

Started(w) ==
  /\ Acts /\ w \in (Users \cap may) \ active
  /\ active' = active \cup {w}
  /\ UNCHANGED <<flags, sigpend, queue, loop, sender, processes, sends>>

AsyncStop(w) == w \in Asyncs /\ Stopped(w)
ChildStop(w) == w \in ChildWatchers /\ Stopped(w)

\* The last watcher of the signal: signals[signum].loop is 0 from here on.
SignalStop(w) == w = Usr /\ Stopped(w)

\* ev_async_start forgets what was sent before.
AsyncStart(w) == w \in Asyncs /\ Started(w) /\ sent' = [sent EXCEPT ![w] = FALSE]

\* ev_signal_start does not: what is pending from an earlier watcher stays.
SignalStart(w) == w = Usr /\ Started(w) /\ UNCHANGED sent
ChildStart(w) == w \in ChildWatchers /\ Started(w) /\ UNCHANGED sent

\* fork by the thread of the loop: the child has no other thread, no child
\* process and no raised signal.
Fork ==
  /\ Acts /\ ~postfork /\ postfork' = TRUE
  /\ sender' = [t \in Senders |-> Idle]
  /\ status' = [p \in Pids |-> "none"] /\ raised' = {}
  /\ UNCHANGED <<flags, marks, active, queue, pc, scan, blocking, may, sends>>

Raise(s) ==
  /\ sends < MaxSends /\ sends' = sends + 1 /\ s \in may \ raised
  /\ raised' = raised \cup {s}
  /\ UNCHANGED <<flags, marks, active, queue, loop, sender, status, may, ops>>

\* A process stops or ends: the kernel raises SIGCHLD.
ProcessChanges(p, how) ==
  /\ sends < MaxSends /\ sends' = sends + 1 /\ p \in may /\ status[p] # "exited"
  /\ status' = [status EXCEPT ![p] = how] /\ raised' = raised \cup {Chld}
  /\ UNCHANGED <<flags, marks, active, queue, loop, sender, may, ops>>

LoopNext ==
  \/ LoopFork \/ NoFork \/ Want \/ Decide \/ (\E ready \in BOOLEAN : Poll(ready)) \/ Unwant \/ FeedSkipped
  \/ PipeCb \/ UserCb \/ ChildCb \/ PipeCbGoesOn

Next ==
  \/ LoopNext
  \/ \E t \in Senders : EvpipeWrite(t) \/ (\E w \in Asyncs : Send(t, w)) \/ (\E s \in Signals : Handle(t, s))
  \/ \E w \in Users : AsyncStop(w) \/ SignalStop(w) \/ ChildStop(w) \/ AsyncStart(w) \/ SignalStart(w) \/ ChildStart(w)
  \/ Fork \/ Raise(Usr) \/ \E p \in Pids, how \in Statuses : ProcessChanges(p, how)

Fairness ==
  /\ WF_vars(LoopNext)
  /\ \A t \in Senders : WF_vars(EvpipeWrite(t))
  /\ \A s \in Signals : WF_vars(\E t \in Senders : Handle(t, s))

Spec == Init /\ [][Next]_vars /\ Fairness

-------------------------------------------------------------------------------
(* Properties *)

\* The loop never waits for the whole block time with something flagged: the
\* eventfd is ready, or a sender is on its way to write to it.  Only after a fork,
\* when loop_fork has fed pipe_w, that event waits for the poll to end.
NoLostWakeup ==
  pc = "poll" /\ blocking /\ (sig_pending \/ async_pending) =>
    evpipe \/ IsPending(pendings, PipeW) \/ \E t \in Senders : sender[t].at \in {"skip", "wanted", "unskip", "write"}

\* Its mark is set, and evpipe_write called
BeingSent(w) ==
  /\ IF w \in Asyncs THEN sent[w] ELSE sigpend[w]
  /\ \E t \in Senders : sender[t] = [at |-> "test", what |-> w]

\* What is sent to an ev_async, or noted by the handler of a signal, is delivered,
\* unless the watcher is stopped or the process forks: none is taken for one that
\* pipecb has looked for already, and none is left for a flag that stays set.
SentIsDelivered ==
  \A w \in Asyncs \cup {Usr} : BeingSent(w) ~> (IsPending(pendings, w) \/ w \notin active \/ postfork)

\* Every child process is waited for, although SIGCHLDs merge.
EveryChildIsReaped == \A p \in Pids : (status[p] = "exited") ~> (status[p] = "none")

\* A child watcher is called for each status before child_reap tells it the next:
\* rpid and rstatus are not overwritten while it is pending.
EachStatusIsTold ==
  [][\A p \in Pids : status[p] # "none" /\ status'[p] = "none" /\ postfork' = postfork =>
       \A w \in ChildWatchers : Reaps(p, w) => ~IsPending(pendings, w)]_vars
=============================================================================
