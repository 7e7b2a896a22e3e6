------------------------------- MODULE EvTimers -------------------------------
(***************************************************************************)
(* ev_timer and ev_periodic watchers, the two clocks of a loop, and the part *)
(* of ev_run that computes how long to wait and then finds who is due.       *)
(*                                                                          *)
(* Time is counted in units; wall is what the real time clock says when the *)
(* monotonic clock says 0, and jumps when someone sets it.  Of the watchers' *)
(* fields at is ev_at, a time of the loop while the watcher is active.      *)
(***************************************************************************)
EXTENDS EvHeap, FiniteSetsExt

CONSTANTS
  Timers, Periodics,
  PendingW,      \* pending_w, the watcher that stands in for one that was stopped while pending
  FirstFields,   \* the fields of all watchers at the start, some functions on them
  Afters,        \* the delays timers are started with
  Repeats,       \* their repeat values, and the intervals of periodics
  Jumps,         \* how far the real time clock is set
  MinTimejump,   \* MIN_TIMEJUMP
  MaxBlocktime,  \* MAX_BLOCKTIME
  MaxClock,      \* bound of the monotonic clock
  MaxOps         \* bound on the calls of the user and the settings of the clock

Kinds == {"once", "interval", "callback"}

ASSUME TimersAssumption ==
  /\ IsFiniteSet(Timers) /\ IsFiniteSet(Periodics)
  /\ Timers \cap Periodics = {} /\ PendingW \notin Timers \cup Periodics
  /\ \A first \in FirstFields :
       /\ \A w \in Timers : first[w].after \in Nat /\ first[w].repeat \in Nat
       /\ \A w \in Periodics : first[w].kind \in Kinds /\ first[w].offset \in Nat /\ first[w].interval \in Nat \ {0}
  /\ Afters \subseteq Nat /\ Repeats \subseteq Nat /\ Jumps \subseteq Int
  /\ MinTimejump \in Nat \ {0} /\ MaxBlocktime \in Nat /\ MaxClock \in Nat /\ MaxOps \in Nat
  /\ \A j \in Jumps : j >= MinTimejump \/ -j >= MinTimejump

VARIABLES
  dheap,      \* DHEAP of the build
  monotonic,  \* have_monotonic
  timers,     \* the heap of timers
  periodics,  \* the heap of periodics
  watcher,    \* at and repeat of a timer; at, kind, offset and interval of a periodic
  pendings,   \* the watchers to be invoked, from the last to the first
  mn_now, ev_rt_now, now_floor, rtmn_diff,
  phase,      \* where ev_run is
  wait,       \* waittime
  until,      \* the monotonic time the wait ends at
  clock, wall,
  ops

now == <<mn_now, ev_rt_now, now_floor, rtmn_diff>>
heaps == <<timers, periodics, watcher>>
build == <<dheap, monotonic>>
run == <<phase, wait, until>>
vars == <<build, heaps, pendings, now, run, clock, wall, ops>>

Active(w) == IF w \in Timers THEN timers.active[w] # 0 ELSE periodics.active[w] # 0
At == [w \in Timers \cup Periodics |-> watcher[w].at]

-------------------------------------------------------------------------------
(* Times of periodics *)

\* periodic_recalc: the first time after now that the interval allows
Recalc(p, rt) == p.offset + p.interval * ((rt - p.offset) \div p.interval + 1)

\* The time of a periodic as of rt; a reschedule callback answers a time after
\* now, here interval later.
NextAt(p, rt) ==
  CASE p.kind = "callback" -> rt + p.interval
    [] p.kind = "interval" -> Recalc(p, rt)
    [] p.kind = "once"     -> p.offset

-------------------------------------------------------------------------------
(* Clocks *)

Distance(a, b) == IF a < b THEN b - a ELSE a - b

JumpedForward(diff) == diff - rtmn_diff >= MinTimejump            \* mutant

\* Whether the two clocks drifted apart by more than MIN_TIMEJUMP
Jumped(diff) == Distance(rtmn_diff, diff) >= MinTimejump

\* What one time_update reads and concludes: adjust is added to all timers,
\* rescheduled tells whether the periodics are computed again.
TimeUpdate(max_block) ==
  LET rt == clock + wall
      fresh == 2 * (clock - now_floor) >= MinTimejump
      jumped == mn_now > rt \/ rt > mn_now + max_block + MinTimejump
  IN  CASE monotonic /\ ~fresh ->            \* interpolated
             [mn |-> clock, rt |-> rtmn_diff + clock, floor |-> now_floor, diff |-> rtmn_diff,
              adjust |-> 0, rescheduled |-> FALSE]
        [] monotonic /\ fresh ->
             [mn |-> clock, rt |-> rt, floor |-> clock, diff |-> rt - clock,
              adjust |-> 0, rescheduled |-> Jumped(rt - clock)]
        [] ~monotonic ->
             [mn |-> rt, rt |-> rt, floor |-> now_floor, diff |-> rtmn_diff,
              adjust |-> IF jumped THEN rt - mn_now ELSE 0, rescheduled |-> jumped]

Forever == 1000      \* the 1e100 of a time_update that follows no wait

\* The watchers' times and the heaps after its reschedulings
Rescheduled(u, adjust, again) ==
  LET at == [w \in Timers \cup Periodics |->
               IF w \in HeapWatchers(timers) THEN At[w] + adjust
               ELSE IF again /\ w \in HeapWatchers(periodics) THEN NextAt(watcher[w], u.rt) ELSE At[w]]
  IN  [watcher   |-> [w \in Timers \cup Periodics |-> [watcher[w] EXCEPT !.at = at[w]]],
       timers    |-> AllCached(timers, at),
       periodics |-> IF again THEN Reheap(dheap, AllCached(periodics, at)) ELSE periodics]

SetNow(u, r) ==
  /\ mn_now' = u.mn /\ ev_rt_now' = u.rt /\ now_floor' = u.floor /\ rtmn_diff' = u.diff
  /\ watcher' = r.watcher /\ timers' = r.timers /\ periodics' = r.periodics

Update(max_block) ==
  LET u == TimeUpdate(max_block) IN SetNow(u, Rescheduled(u, u.adjust, u.rescheduled))

-------------------------------------------------------------------------------
(* Timers that are due *)

\* A turn of the loop of timers_reify: the earliest timer is moved on or stopped, and fed.
TimerTurn(s) ==
  LET w == Top(s.heap).w
      later == Max({s.watcher[w].at + s.watcher[w].repeat, s.mn})
      rfeeds == Append(s.rfeeds, [w |-> w, due |-> Top(s.heap).at])
  IN  IF s.heap.heap = <<>> \/ Top(s.heap).at >= s.mn THEN s
      ELSE IF s.watcher[w].repeat > 0
      THEN [heap |-> Sunk(dheap, s.heap, w, later), watcher |-> [s.watcher EXCEPT ![w].at = later],
            rfeeds |-> rfeeds, mn |-> s.mn]
      ELSE [heap |-> Delete(dheap, s.heap, w), watcher |-> [s.watcher EXCEPT ![w].at = @ - s.mn],
            rfeeds |-> rfeeds, mn |-> s.mn]

\* Nobody has a second turn: who is moved on is not due any more.
TimersDue(s) ==
  LET turn[i \in 0 .. Cardinality(Timers)] == IF i = 0 THEN s ELSE TimerTurn(turn[i - 1])
  IN  turn[Cardinality(Timers)]

\* A turn of that of periodics_reify
PeriodicTurn(s) ==
  LET w == Top(s.heap).w
      at == NextAt(watcher[w], s.rt)
      rfeeds == Append(s.rfeeds, [w |-> w, due |-> Top(s.heap).at])
  IN  IF s.heap.heap = <<>> \/ Top(s.heap).at >= s.rt THEN s
      ELSE IF watcher[w].kind # "once"
      THEN [heap |-> Sunk(dheap, s.heap, w, at), at |-> [s.at EXCEPT ![w] = at], rfeeds |-> rfeeds, rt |-> s.rt]
      ELSE [heap |-> Delete(dheap, s.heap, w), at |-> s.at, rfeeds |-> rfeeds, rt |-> s.rt]

PeriodicsDue(s) ==
  LET turn[i \in 0 .. Cardinality(Periodics)] == IF i = 0 THEN s ELSE PeriodicTurn(turn[i - 1])
  IN  turn[Cardinality(Periodics)]

FedInOrder(rfeeds) == rfeeds                                     \* mutant

\* feed_reverse_done: the last one is fed first, to be invoked last
FedReverse(rfeeds) == [i \in 1 .. Len(rfeeds) |-> rfeeds[Len(rfeeds) + 1 - i]]

\* clear_pending: its place is left to pending_w, which does nothing
ClearPending(w) == [i \in 1 .. Len(pendings) |-> IF pendings[i].w = w THEN [pendings[i] EXCEPT !.w = PendingW] ELSE pendings[i]]

-------------------------------------------------------------------------------
\* The members of a finite set, each once
InSomeOrder(S) ==
  LET order[i \in 1 .. Cardinality(S)] == CHOOSE w \in S : \A j \in 1 .. i - 1 : order[j] # w
  IN  order

\* A heap with the watchers ws, started one after the other
Started(ws, at) ==
  LET order == InSomeOrder(ws)
      heap[i \in 0 .. Cardinality(ws)] ==
        IF i = 0 THEN [heap |-> <<>>, active |-> [w \in ws |-> 0]]
        ELSE Insert(dheap, heap[i - 1], order[i], at[order[i]])
  IN  heap[Cardinality(ws)]

\* A loop whose watchers were started at time 0.
Init ==
  /\ dheap \in {2, 4} /\ monotonic \in BOOLEAN
  /\ clock = 0 /\ wall = 3 /\ ops = 0
  /\ phase = "user" /\ until = 0 /\ wait = 0 /\ pendings = <<>>
  /\ now_floor = 0 /\ rtmn_diff = 3 /\ ev_rt_now = 3
  /\ mn_now = IF monotonic THEN 0 ELSE 3
  /\ \E first \in FirstFields :
       LET at == [w \in Timers \cup Periodics |->
                    IF w \in Timers THEN first[w].after + mn_now ELSE NextAt(first[w], 3)]
       IN  /\ watcher = [w \in Timers \cup Periodics |->
                IF w \in Timers THEN [at |-> at[w], repeat |-> first[w].repeat] ELSE [at |-> at[w], kind |-> first[w].kind, offset |-> first[w].offset, interval |-> first[w].interval]]
           /\ timers = Started(Timers, at) /\ periodics = Started(Periodics, at)

-------------------------------------------------------------------------------
(* ev_run *)

\* How long the earliest of a heap may be waited for
Waits(h, at_now) == IF h.heap = <<>> THEN {} ELSE {Top(h).at - at_now}

\* time_update before the wait, and waittime
Block ==
  /\ phase = "user" /\ pendings = <<>>
  /\ LET u == TimeUpdate(Forever)
         r == Rescheduled(u, u.adjust, u.rescheduled)
         waittime == Max({Min({MaxBlocktime} \cup Waits(r.timers, u.mn) \cup Waits(r.periodics, u.rt)), 0})
     IN  SetNow(u, r) /\ wait' = waittime /\ until' = clock + waittime
  /\ phase' = "blocked"
  /\ UNCHANGED <<build, pendings, clock, wall, ops>>

\* The wait is over, or another event ends it: time_update
Wake ==
  /\ phase = "blocked"
  /\ Update(wait)
  /\ phase' = "reify"
  /\ UNCHANGED <<build, pendings, wait, until, clock, wall, ops>>

\* timers_reify and periodics_reify
Reify ==
  /\ phase = "reify"
  /\ LET t == TimersDue([heap |-> timers, watcher |-> watcher, rfeeds |-> <<>>, mn |-> mn_now])
         p == PeriodicsDue([heap |-> periodics, at |-> At, rfeeds |-> <<>>, rt |-> ev_rt_now])
     IN  /\ timers' = t.heap /\ periodics' = p.heap
         /\ watcher' = [w \in Timers \cup Periodics |->
              IF w \in Timers THEN t.watcher[w] ELSE [watcher[w] EXCEPT !.at = p.at[w]]]
         /\ pendings' = FedReverse(t.rfeeds) \o FedReverse(p.rfeeds)
  /\ phase' = "user"
  /\ UNCHANGED <<build, now, wait, until, clock, wall, ops>>

Invoke ==
  /\ phase = "user" /\ pendings # <<>>
  /\ pendings' = SubSeq(pendings, 1, Len(pendings) - 1)
  /\ UNCHANGED <<build, heaps, now, run, clock, wall, ops>>

-------------------------------------------------------------------------------
(* The user, in callbacks and between runs *)

Acts == phase = "user" /\ ops < MaxOps /\ ops' = ops + 1

TimerStarted(w, after, repeat) ==
  /\ watcher' = [watcher EXCEPT ![w] = [at |-> after + mn_now, repeat |-> repeat]]
  /\ timers' = Insert(dheap, timers, w, after + mn_now)

TimerStopped(w) ==
  /\ watcher' = [watcher EXCEPT ![w].at = @ - mn_now]
  /\ timers' = Delete(dheap, timers, w)

\* ev_timer_set and ev_timer_start; without the former at is what remained
TimerStart(w) ==
  /\ Acts /\ ~Active(w)
  /\ \/ \E after \in Afters, repeat \in Repeats : TimerStarted(w, after, repeat)
     \/ TimerStarted(w, watcher[w].at, watcher[w].repeat)
  /\ UNCHANGED <<build, periodics, pendings, now, run, clock, wall>>

TimerStop(w) ==
  /\ Acts
  /\ pendings' = ClearPending(w)
  /\ IF Active(w) THEN TimerStopped(w) ELSE UNCHANGED <<watcher, timers>>
  /\ UNCHANGED <<build, periodics, now, run, clock, wall>>

\* ev_timer_again
TimerAgain(w) ==
  /\ Acts
  /\ pendings' = ClearPending(w)
  /\ LET repeat == watcher[w].repeat
     IN  \/ /\ Active(w) /\ repeat > 0
            /\ watcher' = [watcher EXCEPT ![w].at = mn_now + repeat]
            /\ timers' = Adjusted(dheap, timers, w, mn_now + repeat)
         \/ Active(w) /\ repeat = 0 /\ TimerStopped(w)
         \/ ~Active(w) /\ repeat > 0 /\ TimerStarted(w, repeat, repeat)
         \/ ~Active(w) /\ repeat = 0 /\ UNCHANGED <<watcher, timers>>
  /\ UNCHANGED <<build, periodics, now, run, clock, wall>>

\* ev_periodic_set and ev_periodic_start
PeriodicStart(w) ==
  /\ Acts /\ ~Active(w)
  /\ \E kind \in Kinds, offset \in Afters, interval \in Repeats \ {0} :
       LET at == NextAt([kind |-> kind, offset |-> offset, interval |-> interval], ev_rt_now)
       IN  /\ watcher' = [watcher EXCEPT ![w] = [at |-> at, kind |-> kind, offset |-> offset, interval |-> interval]]
           /\ periodics' = Insert(dheap, periodics, w, at)
  /\ UNCHANGED <<build, timers, pendings, now, run, clock, wall>>

PeriodicStop(w) ==
  /\ Acts
  /\ pendings' = ClearPending(w)
  /\ periodics' = IF Active(w) THEN Delete(dheap, periodics, w) ELSE periodics
  /\ UNCHANGED <<build, timers, watcher, now, run, clock, wall>>

\* ev_periodic_again of one that was set before: stop and start
PeriodicAgain(w) ==
  /\ Acts /\ watcher[w].interval > 0
  /\ pendings' = ClearPending(w)
  /\ LET stopped == IF Active(w) THEN Delete(dheap, periodics, w) ELSE periodics
         at == NextAt(watcher[w], ev_rt_now)
     IN  watcher' = [watcher EXCEPT ![w].at = at] /\ periodics' = Insert(dheap, stopped, w, at)
  /\ UNCHANGED <<build, timers, now, run, clock, wall>>

NowUpdate ==
  /\ Acts /\ Update(Forever)
  /\ UNCHANGED <<build, pendings, run, clock, wall>>

Suspend ==
  /\ Acts /\ Update(Forever)
  /\ phase' = "suspended"
  /\ UNCHANGED <<build, pendings, wait, until, clock, wall>>

PassedOnTheWall(u) == u.rt - ev_rt_now                            \* mutant

\* The time spent between ev_suspend and ev_resume
Passed(u) == u.mn - mn_now

\* ev_resume: an update, then all timers again, by the time that has passed
Resume ==
  /\ phase = "suspended"
  /\ LET u == TimeUpdate(Forever) IN SetNow(u, Rescheduled(u, u.adjust + Passed(u), TRUE))
  /\ phase' = "user"
  /\ UNCHANGED <<build, pendings, wait, until, clock, wall, ops>>

-------------------------------------------------------------------------------
(* Time passes, and someone sets the real time clock *)

Tick ==
  /\ phase # "reify" /\ clock < MaxClock
  /\ clock' = clock + 1
  /\ UNCHANGED <<build, heaps, pendings, now, run, wall, ops>>

SetClock ==
  /\ phase # "reify" /\ ops < MaxOps /\ ops' = ops + 1
  /\ \E j \in Jumps : wall' = wall + j
  /\ UNCHANGED <<build, heaps, pendings, now, run, clock>>

Next ==
  \/ Block \/ Wake \/ Reify \/ Invoke \/ Tick \/ SetClock
  \/ \E w \in Timers : TimerStart(w) \/ TimerStop(w) \/ TimerAgain(w)
  \/ \E w \in Periodics : PeriodicStart(w) \/ PeriodicStop(w) \/ PeriodicAgain(w)
  \/ NowUpdate \/ Suspend \/ Resume

Spec == Init /\ [][Next]_vars

-------------------------------------------------------------------------------
(* Properties *)

\* Both heaps pass ev_verify's verify_heap: order, the watchers' places in
\* active, and the cached times, which a stop in the middle, timer_again, a
\* repeat and a rescheduling of all have to keep.
HeapsSound ==
  /\ phase \in {"user", "blocked", "reify", "suspended"} /\ dheap \in {2, 4}
  /\ HeapSound(dheap, timers, At)
  /\ HeapSound(dheap, periodics, At)

\* Of the watchers that became due in one iteration those with earlier time-out
\* values are invoked first, and periodics before timers (ev.pod:1787 and 2225;
\* feed_reverse).  pendings is invoked from its end.
EarlierFirst ==
  \A i, j \in DOMAIN pendings : i < j /\ PendingW \notin {pendings[i].w, pendings[j].w} =>
    \/ pendings[i].w \in Timers /\ pendings[j].w \in Periodics
    \/ ((pendings[i].w \in Timers) = (pendings[j].w \in Timers)) /\ pendings[i].due >= pendings[j].due

\* The loop never waits past the time of any active watcher (waittime, which
\* looks at the top of each heap only).
NobodyOverslept ==
  phase = "blocked" =>
    /\ \A w \in HeapWatchers(timers) : wait <= Max({watcher[w].at - mn_now, 0})
    /\ \A w \in HeapWatchers(periodics) : wait <= Max({watcher[w].at - ev_rt_now, 0})

\* A periodic is due at a time its offset and interval allow, and the next of
\* them, whatever is done to the real time clock: a jump that time_update is to
\* notice (MIN_TIMEJUMP) leaves none of them far in the future.
PeriodicsInReach ==
  \A w \in HeapWatchers(periodics) :
    LET p == watcher[w]
    IN  /\ p.kind = "interval" => (p.at - p.offset) % p.interval = 0
        /\ p.kind # "once" => p.at <= ev_rt_now + p.interval
        /\ p.kind = "once" => p.at = p.offset

\* With a monotonic clock, a timer has as long to go after ev_resume as it had
\* at ev_suspend (ev_resume, timers_reschedule).
TimersOutliveSuspend ==
  [][monotonic /\ phase = "suspended" =>
       \A w \in HeapWatchers(timers) : (watcher[w].at - mn_now)' = watcher[w].at - mn_now]_<<watcher, now>>
=============================================================================
