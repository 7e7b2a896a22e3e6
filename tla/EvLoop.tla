-------------------------------- MODULE EvLoop --------------------------------
(***************************************************************************)
(* The core of libev: the queues of pending watchers, the arrays of prepare, *)
(* check, idle, fork and cleanup watchers, and ev_run, which callbacks may  *)
(* enter again, with ev_break, ev_ref, ev_unref and ev_loop_destroy.        *)
(*                                                                          *)
(* Watchers of the kinds "io" and "timer" are those whose events            *)
(* backend_poll and the timer heaps find (EvBackends and EvTimers have       *)
(* them), "signal" those that pipecb feeds (EvWakeup), and "stat" those of   *)
(* EvStat.  LibEvent and EvStat are built on this module, and EvPrograms     *)
(* puts them together.                                                      *)
(***************************************************************************)
EXTENDS Integers, Sequences, FiniteSets

CONSTANTS
  Watchers,
  Kind,          \* of each
  Pri,           \* its priority, ABSPRI
  NumPri,        \* NUMPRI
  Library,       \* watchers with a callback of the library
  Unreferenced,  \* of those: the ones it takes out of activecnt with ev_unref
  Programs,      \* programs: the watchers one has, and those on at first, the calls
                 \* it makes, the flags it gives ev_run, and bounds on its calls, on
                 \* the nesting of ev_run and on the changes of files
  Dummy          \* pending_w

Found == {"io", "timer", "signal"}
Arrays == {"prepare", "check", "idle", "fork", "cleanup"}

EvRunFlags == {"", "once", "nowait"}

ASSUME EvLoopAssumption ==
  /\ IsFiniteSet(Watchers)
  /\ Kind \in [Watchers -> Found \cup Arrays \cup {"stat"}]
  /\ NumPri \in Nat \ {0} /\ Pri \in [Watchers -> 0 .. NumPri - 1]
  /\ Unreferenced \subseteq Library /\ Library \subseteq Watchers
  /\ \A p \in Programs :
       /\ p.has \subseteq Watchers
       /\ p.on \subseteq p.has \ Library /\ \A w \in p.on : Kind[w] # "stat"
       /\ p.runs \subseteq EvRunFlags /\ {p.ops, p.depth, p.changes} \subseteq Nat
  /\ Dummy \notin Watchers

VARIABLES
  pendings,    \* per priority: the queue
  pending,     \* w->pending: its place in the queue, 0 if not pending
  pendingpri,
  refused,     \* pending watchers whose event has EV_ERROR
  silenced,    \* history: watchers stopped or cleared since they were fed last
  arrays,      \* prepares, checks, forks, cleanups, and idles per priority
  active,      \* w->active: its place in the array, 1 for one without an array
  activecnt, idleall, loop_done, postfork,
  stack,       \* the calls of ev_run, ev_invoke_pending and callbacks
  refs,        \* history: the user's calls of ev_ref less those of ev_unref
  leave,       \* history: the depths of the ev_runs that ev_break told to return
  program, ops

watchers == <<pendings, pending, pendingpri, refused, silenced, arrays, active, activecnt, idleall>>
history == <<refs, leave>>
loopvars == <<watchers, loop_done, postfork, stack, history, program, ops>>

Pris == 0 .. NumPri - 1
KeyOf(kind, pri) == IF kind = "idle" THEN <<kind, pri>> ELSE <<kind, 0>>
Keys == {KeyOf(kind, pri) : kind \in Arrays, pri \in Pris}
Key(w) == KeyOf(Kind[w], Pri[w])
IsActive(w) == active[w] # 0

\* A cleanup watcher does not keep ev_run going.
KeepsAlive(w) == Kind[w] # "cleanup"

\* The watchers as a record, for the functions below that change it in turn
Ws == [pendings |-> pendings, pending |-> pending, pendingpri |-> pendingpri, refused |-> refused, silenced |-> silenced,
       arrays |-> arrays, active |-> active, activecnt |-> activecnt, idleall |-> idleall]
SetWs(l) ==
  /\ pendings' = l.pendings /\ pending' = l.pending /\ pendingpri' = l.pendingpri
  /\ refused' = l.refused /\ silenced' = l.silenced
  /\ arrays' = l.arrays /\ active' = l.active /\ activecnt' = l.activecnt /\ idleall' = l.idleall

\* The members of a finite set, each once
InSomeOrder(S) == CHOOSE f \in [1 .. Cardinality(S) -> S] : {f[i] : i \in DOMAIN f} = S

-------------------------------------------------------------------------------
(* Pending watchers *)

Lowered(l) == l.pendingpri                                       \* mutant

\* ev_feed_event sets pendingpri to the top: an invocation under way looks again.
Raised(l) == NumPri - 1

\* ev_feed_event
Fed(l, w) ==
  [l EXCEPT !.pendings[Pri[w]] = IF l.pending[w] = 0 THEN Append(@, w) ELSE @,
            !.pending[w] = IF @ = 0 THEN Len(l.pendings[Pri[w]]) + 1 ELSE @,
            !.pendingpri = Raised(l),
            !.silenced = @ \ {w}]

\* queue_events
FedAll(l, ws) ==
  LET fed[i \in 0 .. Len(ws)] == IF i = 0 THEN l ELSE Fed(fed[i - 1], ws[i])
  IN  fed[Len(ws)]

ClearedLate(l, w) == [l EXCEPT !.pending[w] = 0, !.silenced = @ \cup {w}]  \* mutant

\* clear_pending: the entry stays, for a dummy
Cleared(l, w) ==
  [l EXCEPT !.pendings[Pri[w]] = IF l.pending[w] = 0 THEN @ ELSE [@ EXCEPT ![l.pending[w]] = Dummy],
            !.pending[w] = 0, !.refused = @ \ {w}, !.silenced = @ \cup {w}]

\* idle_reify: the idle watchers of the first priority that has some, unless
\* that priority or a higher one has something pending.
IdleReified(l) ==
  LET quiet == {p \in Pris : \A r \in p .. NumPri - 1 : l.pendings[r] = <<>>}
      some == {p \in quiet : l.arrays[<<"idle", p>>] # <<>>}
  IN  IF l.idleall = 0 \/ some = {} THEN l
      ELSE FedAll(l, l.arrays[<<"idle", CHOOSE p \in some : \A r \in some : r <= p>>])

-------------------------------------------------------------------------------
(* Starting and stopping *)

Unmoved(ws, k) == [k |-> k, moved |-> Dummy]                     \* mutant

\* The last watcher of an array takes the place of one that stops.
Moved(ws, k) == [k |-> k, moved |-> ws[Len(ws)]]

Counted(l, w, n) ==
  [l EXCEPT !.activecnt = IF KeepsAlive(w) THEN @ + n ELSE @, !.idleall = IF Kind[w] = "idle" THEN @ + n ELSE @]

\* ev_xxx_start of an inactive watcher
Started(l, w) ==
  IF Kind[w] \notin Arrays THEN [Counted(l, w, 1) EXCEPT !.active[w] = 1]
  ELSE [Counted(l, w, 1) EXCEPT !.arrays[Key(w)] = Append(@, w), !.active[w] = Len(l.arrays[Key(w)]) + 1]

Removed(l, w) ==
  LET ws == l.arrays[Key(w)]
      m == Moved(ws, l.active[w])
      shorter == SubSeq([ws EXCEPT ![m.k] = ws[Len(ws)]], 1, Len(ws) - 1)
      actives == [v \in Watchers |-> IF v = w THEN 0 ELSE IF v = m.moved THEN m.k ELSE l.active[v]]
  IN  IF Kind[w] \notin Arrays THEN [Counted(l, w, -1) EXCEPT !.active[w] = 0]
      ELSE [Counted(l, w, -1) EXCEPT !.arrays[Key(w)] = shorter, !.active = actives]

\* ev_xxx_stop: the event of an inactive watcher is dropped too.
Stopped(l, w) == IF l.active[w] = 0 THEN Cleared(l, w) ELSE Removed(Cleared(l, w), w)

NoWatcher ==
  [pendings |-> [p \in Pris |-> <<>>], pending |-> [w \in Watchers |-> 0], pendingpri |-> 0, refused |-> {}, silenced |-> {},
   arrays |-> [k \in Keys |-> <<>>], active |-> [w \in Watchers |-> 0], activecnt |-> 0, idleall |-> 0]

WatchersOn(ws) ==
  LET order == InSomeOrder(ws)
      on[i \in 0 .. Len(order)] == IF i = 0 THEN NoWatcher ELSE Started(on[i - 1], order[i])
  IN  on[Len(order)]

-------------------------------------------------------------------------------
LoopInit ==
  /\ program \in Programs
  /\ LET l == WatchersOn(program.on)
     IN  /\ pendings = l.pendings /\ pending = l.pending /\ pendingpri = l.pendingpri
         /\ refused = l.refused /\ silenced = l.silenced
         /\ arrays = l.arrays /\ active = l.active /\ activecnt = l.activecnt /\ idleall = l.idleall
  /\ loop_done = "cancel" /\ postfork = FALSE /\ stack = <<>>
  /\ refs = 0 /\ leave = {} /\ ops = 0

-------------------------------------------------------------------------------
(* Calls on the stack *)

Top == stack[Len(stack)]
TopIs(at) == stack # <<>> /\ Top.at = at
InRun(pc) == TopIs("run") /\ Top.pc = pc
Depth == Len(stack)
Goto(pc) == [stack EXCEPT ![Depth].pc = pc]
Return == SubSeq(stack, 1, Depth - 1)

Frame(at, pc, flags, w) == [at |-> at, pc |-> pc, flags |-> flags, w |-> w]
InvokeFrame == Frame("invoke", "", "", Dummy)
CallFrame(w) ==
  Frame("call", IF w \in Library THEN "library" ELSE "user", IF w \in refused THEN "error" ELSE "", w)

\* EV_INVOKE_PENDING, with the watchers as they are then
Invoking(s, l) == stack' = Append(s, InvokeFrame) /\ SetWs([l EXCEPT !.pendingpri = NumPri - 1])

-------------------------------------------------------------------------------
(* ev_invoke_pending *)

Waiting == {p \in 0 .. pendingpri : pendings[p] # <<>>}

InvokePending ==
  /\ TopIs("invoke") /\ Waiting # {}
  /\ LET p == CHOOSE n \in Waiting : \A m \in Waiting : m <= n
         w == pendings[p][Len(pendings[p])]
         popped == [Ws EXCEPT !.pendings[p] = SubSeq(@, 1, Len(@) - 1), !.pendingpri = p]
     IN  IF w = Dummy THEN SetWs(popped) /\ UNCHANGED stack
         ELSE /\ SetWs([popped EXCEPT !.pending[w] = 0, !.refused = @ \ {w}])
              /\ stack' = Append(stack, CallFrame(w))
  /\ UNCHANGED <<loop_done, postfork, history, program, ops>>

InvokeReturns ==
  /\ TopIs("invoke") /\ Waiting = {}
  /\ SetWs([Ws EXCEPT !.pendingpri = 0]) /\ stack' = Return
  /\ UNCHANGED <<loop_done, postfork, history, program, ops>>

InUser == TopIs("call") /\ Top.pc = "user"

CallReturns ==
  /\ InUser
  /\ stack' = Return
  /\ UNCHANGED <<watchers, loop_done, postfork, history, program, ops>>

-------------------------------------------------------------------------------
(* ev_run *)

\* fork watchers first, if this may be a child
QueueForks ==
  /\ InRun("fork")
  /\ LET forks == arrays[<<"fork", 0>>]
     IN  IF postfork /\ forks # <<>> THEN Invoking(Goto("prepare"), FedAll(Ws, forks))
         ELSE stack' = Goto("prepare") /\ UNCHANGED watchers
  /\ UNCHANGED <<loop_done, postfork, history, program, ops>>

QueuePrepares ==
  /\ InRun("prepare")
  /\ LET prepares == arrays[<<"prepare", 0>>]
     IN  IF prepares # <<>> THEN Invoking(Goto("decide"), FedAll(Ws, prepares))
         ELSE stack' = Goto("decide") /\ UNCHANGED watchers
  /\ UNCHANGED <<loop_done, postfork, history, program, ops>>

ForgottenOne == loop_done                                        \* mutant

\* The end of ev_run: an EVBREAK_ONE is used up
AfterRun == IF loop_done = "one" THEN "cancel" ELSE loop_done

Leave ==
  /\ loop_done' = AfterRun
  /\ stack' = Return
  /\ leave' = leave \ {Depth}
  /\ UNCHANGED <<watchers, postfork, refs, program, ops>>

\* A break before the poll
BreakOff == InRun("decide") /\ loop_done # "cancel" /\ Leave

GoOn ==
  /\ InRun("decide") /\ loop_done = "cancel"
  /\ stack' = Goto(IF postfork THEN "loop_fork" ELSE "fd_reify")
  /\ UNCHANGED <<watchers, loop_done, postfork, history, program, ops>>

\* loop_fork; EvStat says what it does to the watchers.
LoopFork ==
  /\ InRun("loop_fork")
  /\ postfork' = FALSE /\ stack' = Goto("fd_reify")
  /\ UNCHANGED <<loop_done, history, program, ops>>

\* fd_kill: its watcher is stopped and fed EV_ERROR
Killed(l, w) == [Fed(Stopped(l, w), w) EXCEPT !.refused = @ \cup {w}]

\* fd_reify, where the backend may refuse a descriptor.  The EV_ERROR waits until
\* after the poll.
FdReify ==
  /\ InRun("fd_reify") /\ stack' = Goto("poll")
  /\ \/ UNCHANGED watchers
     \/ \E w \in Watchers \ Unreferenced : Kind[w] = "io" /\ IsActive(w) /\ SetWs(Killed(Ws, w))
  /\ UNCHANGED <<loop_done, postfork, history, program, ops>>

\* The poll may take its time.
Blocks == Top.flags # "nowait" /\ idleall = 0 /\ activecnt > 0

MayHappen == {w \in Watchers : Kind[w] \in Found /\ IsActive(w)}

\* backend_poll and the timers feed some watchers; then idle and check watchers
\* are queued, and all is invoked.  A signal is counted here, as pipecb is called
\* before any callback of the user.
Poll(happened) ==
  /\ InRun("poll")
  /\ LET events == FedAll(Ws, InSomeOrder(happened))
     IN  Invoking(Goto("tail"), FedAll(IdleReified(events), arrays[<<"check", 0>>]))
  /\ UNCHANGED <<loop_done, postfork, history, program, ops>>

GoesOn == activecnt # 0 /\ loop_done = "cancel" /\ Top.flags = ""

NextIteration ==
  /\ InRun("tail") /\ GoesOn
  /\ stack' = Goto("fork")
  /\ UNCHANGED <<watchers, loop_done, postfork, history, program, ops>>

RunReturns == InRun("tail") /\ ~GoesOn /\ Leave

\* ev_loop_destroy, after the cleanup watchers
Destroyed ==
  /\ TopIs("destroy")
  /\ stack' = <<Frame("destroyed", "", "", Dummy)>>
  /\ UNCHANGED <<watchers, loop_done, postfork, history, program, ops>>

-------------------------------------------------------------------------------
(* The user, outside ev_run or in a callback *)

Acts(call) ==
  /\ stack = <<>> \/ InUser
  /\ call \in program.calls /\ ops < program.ops /\ ops' = ops + 1 /\ UNCHANGED program

Mine == program.has \ Library
Startable == {w \in Mine : Kind[w] # "stat"}   \* EvStat starts and stops its own
RunDepths == {i \in DOMAIN stack : stack[i].at = "run"}

Run(flags) ==
  /\ Acts("run") /\ flags \in program.runs /\ Cardinality(RunDepths) < program.depth
  /\ loop_done' = "cancel" /\ leave' = {}
  /\ Invoking(Append(stack, Frame("run", "fork", flags, Dummy)), Ws)
  /\ UNCHANGED <<postfork, refs>>

Start(w) ==
  /\ Acts("start") /\ ~IsActive(w)
  /\ SetWs(Started(Ws, w))
  /\ UNCHANGED <<loop_done, postfork, stack, history>>

Stop(w) ==
  /\ Acts("stop") /\ (IsActive(w) \/ pending[w] # 0)
  /\ SetWs(Stopped(Ws, w))
  /\ UNCHANGED <<loop_done, postfork, stack, history>>

\* ev_feed_event by the user
Feed(w) ==
  /\ Acts("feed")
  /\ SetWs(Fed(Ws, w))
  /\ UNCHANGED <<loop_done, postfork, stack, history>>

\* ev_clear_pending
ClearPending(w) ==
  /\ Acts("clear") /\ pending[w] # 0
  /\ SetWs(Cleared(Ws, w))
  /\ UNCHANGED <<loop_done, postfork, stack, history>>

\* What ev_break(how) tells the ev_runs
Told(how) ==
  CASE how = "all" -> RunDepths
    [] how = "one" -> {i \in RunDepths : \A j \in RunDepths : j <= i}
    [] how = "cancel" -> {}

Break(how) ==
  /\ Acts("break")
  /\ loop_done' = how /\ leave' = Told(how)
  /\ UNCHANGED <<watchers, postfork, stack, refs>>

Ref ==
  /\ Acts("ref") /\ activecnt' = activecnt + 1 /\ refs' = refs + 1
  /\ UNCHANGED <<pendings, pending, pendingpri, refused, silenced, arrays, active, idleall, loop_done, postfork, stack, leave>>

Unref ==
  /\ Acts("ref") /\ activecnt > 0 /\ activecnt' = activecnt - 1 /\ refs' = refs - 1
  /\ UNCHANGED <<pendings, pending, pendingpri, refused, silenced, arrays, active, idleall, loop_done, postfork, stack, leave>>

\* fork, in the child: ev_loop_fork
Fork ==
  /\ Acts("fork") /\ ~postfork /\ postfork' = TRUE
  /\ UNCHANGED <<watchers, loop_done, stack, history>>

Destroy ==
  /\ stack = <<>> /\ "destroy" \in program.calls
  /\ LET cleanups == arrays[<<"cleanup", 0>>]
         s == <<Frame("destroy", "", "", Dummy)>>
     IN  IF cleanups # <<>> THEN Invoking(s, FedAll(Ws, cleanups)) ELSE stack' = s /\ UNCHANGED watchers
  /\ UNCHANGED <<loop_done, postfork, history, program, ops>>

\* All steps of the loop but LoopFork and Poll, to which other modules add
LoopStep ==
  \/ InvokePending \/ InvokeReturns \/ CallReturns
  \/ QueueForks \/ QueuePrepares \/ BreakOff \/ GoOn \/ FdReify \/ NextIteration \/ RunReturns \/ Destroyed

UserStep ==
  \/ \E flags \in EvRunFlags : Run(flags)
  \/ \E w \in Startable : Start(w) \/ Stop(w)
  \/ \E w \in Mine : Feed(w) \/ ClearPending(w)
  \/ \E how \in {"one", "all", "cancel"} : Break(how)
  \/ Ref \/ Unref \/ Fork \/ Destroy

-------------------------------------------------------------------------------
(* Properties *)

\* What ev_verify asserts, and the counts: every active watcher is in its array
\* at its place, every pending one in its queue at its place, and activecnt,
\* which decides whether ev_run goes on, counts the active watchers but cleanup
\* watchers and those of the library itself, and the references of the user.
LoopSound ==
  /\ \A k \in Keys : \A i \in DOMAIN arrays[k] : Key(arrays[k][i]) = k /\ active[arrays[k][i]] = i
  /\ \A w \in Watchers : IsActive(w) /\ Kind[w] \in Arrays => \E i \in DOMAIN arrays[Key(w)] : arrays[Key(w)][i] = w
  /\ \A w \in Watchers : pending[w] # 0 => pending[w] <= Len(pendings[Pri[w]]) /\ pendings[Pri[w]][pending[w]] = w
  /\ \A p \in Pris : \A i \in DOMAIN pendings[p] : pendings[p][i] # Dummy => pending[pendings[p][i]] = i
  /\ activecnt = Cardinality({w \in Watchers \ Unreferenced : IsActive(w) /\ KeepsAlive(w)}) + refs
  /\ idleall = Cardinality({w \in Watchers : IsActive(w) /\ Kind[w] = "idle"})

\* A watcher that was stopped, or whose event was cleared, is not called for an
\* event from before (clear_pending), whatever else the callbacks do.
SilencedIsNotCalled == [][TopIs("invoke") /\ Depth' > Depth => Top'.w \notin silenced]_loopvars

\* ev_break ends the ev_runs it is meant for, without another poll, and no other:
\* one that was not told to return goes on while watchers are active.
BreaksAsTold ==
  [][/\ InRun("poll") => Depth \notin leave
     /\ InRun("tail") /\ Depth' < Depth => Depth \in leave \/ activecnt = 0 \/ Top.flags # ""
     /\ InRun("decide") /\ Depth' < Depth => Depth \in leave]_loopvars

\* ev_run never waits while a callback is due or an idle watcher active, but for
\* the EV_ERROR of a watcher that fd_reify kills right before the poll.
WaitsWhenQuiet ==
  InRun("poll") /\ Blocks =>
    \A w \in Watchers : (pending[w] = 0 \/ w \in refused) /\ (Kind[w] = "idle" => ~IsActive(w))
=============================================================================
