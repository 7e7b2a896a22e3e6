------------------------------- MODULE LibEvent -------------------------------
(***************************************************************************)
(* ev_once, and event.c: libevent's events on libev.  An event has an ev_io  *)
(* or ev_signal and an ev_timer; an ev_once has an ev_io and an ev_timer and *)
(* frees itself when it is called.                                          *)
(*                                                                          *)
(* A time is left out but for its presence: event_add sets to.repeat to more *)
(* than 0, so that the timer stays active when it expires.                  *)
(***************************************************************************)
EXTENDS EvLoop

CONSTANTS
  Events, IoSig, To,   \* an event's watchers (ev->iosig, ev->to)
  Persist,             \* events with EV_PERSIST
  Onces, OnceIo, OnceTo

IsSignal(e) == Kind[IoSig[e]] = "signal"

ASSUME LibEventAssumption ==
  /\ {IoSig, To} \subseteq [Events -> Library \ Unreferenced] /\ Persist \subseteq Events
  /\ {OnceIo, OnceTo} \subseteq [Onces -> Library \ Unreferenced]
  /\ \A e \in Events : Kind[IoSig[e]] \in {"io", "signal"} /\ Kind[To[e]] = "timer"
  /\ \A o \in Onces : Kind[OnceIo[o]] = "io" /\ Kind[OnceTo[o]] = "timer"
  /\ \A e, f \in Events : e # f => IoSig[e] # IoSig[f] /\ To[e] # To[f]
  /\ \A o, n \in Onces : o # n => OnceIo[o] # OnceIo[n] /\ OnceTo[o] # OnceTo[n]
  /\ \A e \in Events, o \in Onces : IoSig[e] # OnceIo[o] /\ To[e] # OnceTo[o]

VARIABLES
  once,      \* of each ev_once: "free", or its callback: "user", or "exit", ev_x_loopexit_cb
  deleted    \* history: events that event_del took back since they were added or made active

libevent == <<once, deleted>>

LibEventInit == once = [o \in Onces |-> "free"] /\ deleted = {}

\* The events and onces whose watchers the program has
MyEvents == {e \in Events : IoSig[e] \in program.has}
MyOnces == {o \in Onces : OnceIo[o] \in program.has}

-------------------------------------------------------------------------------
(* event.c *)

StartedOnce(l, w) == IF l.active[w] = 0 THEN Started(l, w) ELSE l

\* ev_timer_again
TimerAgain(l, w, repeat) == IF repeat THEN StartedOnce(Cleared(l, w), w) ELSE Stopped(l, w)

EventAdd(e, tv) ==
  /\ Acts("event")
  /\ SetWs(TimerAgain(StartedOnce(Ws, IoSig[e]), To[e], tv))
  /\ deleted' = deleted \ {e}
  /\ UNCHANGED <<loop_done, postfork, stack, history, once>>

DeletedIo(l, e) == Stopped(l, IoSig[e])                          \* mutant

\* event_del: the timer only if it is active
Deleted(l, e) ==
  LET ios == Stopped(l, IoSig[e]) IN IF l.active[To[e]] = 0 THEN ios ELSE Stopped(ios, To[e])

\* What event_active made pending stays, if it is EV_TIMEOUT and no timer is set.
Forgets(e) == {v \in {e} : IsActive(To[v]) \/ pending[To[v]] = 0}

EventDel(e) ==
  /\ Acts("event")
  /\ SetWs(Deleted(Ws, e)) /\ deleted' = deleted \cup Forgets(e)
  /\ UNCHANGED <<loop_done, postfork, stack, history, once>>

EventActive(e, w) ==
  /\ Acts("active") /\ w \in {IoSig[e], To[e]}
  /\ SetWs(Fed(Ws, w))
  /\ deleted' = deleted \ {e}
  /\ UNCHANGED <<loop_done, postfork, stack, history, once>>

InLibrary(w) == TopIs("call") /\ Top.pc = "library" /\ Top.w = w

\* ev_x_cb: the callback of the user
EvXCb == stack' = Goto("user")

EvXCbIoSig(e) ==
  /\ InLibrary(IoSig[e])
  /\ IF Top.flags = "error" \/ (~IsSignal(e) /\ e \notin Persist)
     THEN SetWs(Deleted(Ws, e)) /\ deleted' = deleted \cup Forgets(e)
     ELSE UNCHANGED <<watchers, deleted>>
  /\ EvXCb
  /\ UNCHANGED <<loop_done, postfork, history, program, ops, once>>

EvXCbTo(e) ==
  /\ InLibrary(To[e])
  /\ SetWs(Deleted(Ws, e)) /\ deleted' = deleted \cup Forgets(e)
  /\ EvXCb
  /\ UNCHANGED <<loop_done, postfork, history, program, ops, once>>

-------------------------------------------------------------------------------
(* ev_once, and event_base_once and event_base_loopexit, which call it *)

Once(o, cb, ws) ==
  /\ Acts("once") /\ once[o] = "free"
  /\ once' = [once EXCEPT ![o] = cb]
  /\ ws # {} /\ SetWs(LET io == IF OnceIo[o] \in ws THEN Started(Ws, OnceIo[o]) ELSE Ws
                      IN  IF OnceTo[o] \in ws THEN Started(io, OnceTo[o]) ELSE io)
  /\ UNCHANGED <<loop_done, postfork, stack, history, deleted>>

EventBaseOnce(o) == \E ws \in SUBSET {OnceIo[o], OnceTo[o]} : Once(o, "user", ws)
EventBaseLoopexit(o) == Once(o, "exit", {OnceTo[o]})

OnlyCalled(l, o, w) == Stopped(l, w)                             \* mutant

\* once_cb stops both watchers.
OnceStopped(l, o, w) == Stopped(Stopped(l, OnceIo[o]), OnceTo[o])

OnceCb(o, w) ==
  /\ w \in {OnceIo[o], OnceTo[o]} /\ InLibrary(w)
  /\ SetWs(OnceStopped(Ws, o, w))
  /\ once' = [once EXCEPT ![o] = "free"]
  /\ IF once[o] = "exit" THEN loop_done' = "one" /\ leave' = Told("one") /\ stack' = Return
     ELSE EvXCb /\ UNCHANGED <<loop_done, leave>>
  /\ UNCHANGED <<postfork, refs, program, ops, deleted>>

LibEventCallbacks ==
  \/ \E e \in Events : EvXCbIoSig(e) \/ EvXCbTo(e)
  \/ \E o \in Onces : \E w \in {OnceIo[o], OnceTo[o]} : OnceCb(o, w)

LibEventCalls ==
  \/ \E e \in MyEvents : (\E tv \in BOOLEAN : EventAdd(e, tv)) \/ EventDel(e) \/ \E w \in {IoSig[e], To[e]} : EventActive(e, w)
  \/ \E o \in MyOnces : EventBaseOnce(o) \/ EventBaseLoopexit(o)

-------------------------------------------------------------------------------
(* Properties *)

\* An event is not called after event_del, by the user or before the callback of
\* an event that is due only once, until it is added or made active again: also
\* if its descriptor and its timer became due together.
DeletedIsNotCalled ==
  [][TopIs("invoke") /\ Depth' > Depth =>
       \A e \in Events : Top'.w \in {IoSig[e], To[e]} => e \notin deleted]_<<loopvars, libevent>>

\* An ev_once that was called is freed: libev has neither of its watchers active
\* or pending any more, whichever was called and whatever was due with it.
FreedOnceIsGone ==
  \A o \in Onces : once[o] = "free" =>
    \A w \in {OnceIo[o], OnceTo[o]} : ~IsActive(w) /\ pending[w] = 0
=============================================================================
