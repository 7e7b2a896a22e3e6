------------------------------- MODULE MCEvLoop -------------------------------
(***************************************************************************)
(* Programs on two priorities: watchers of every kind, two of which share an *)
(* array; an event that is due once and a persistent one, with timers; an    *)
(* event of a signal, and ev_onces; and two ev_stats of the same path.       *)
(***************************************************************************)
EXTENDS EvPrograms, TLC

Kinds == "io1" :> "io" @@ "io2" :> "io" @@ "idle" :> "idle" @@ "prep" :> "prepare" @@ "prep2" :> "prepare"
         @@ "check" :> "check" @@ "fork" :> "fork" @@ "clean" :> "cleanup"
         @@ "e1.io" :> "io" @@ "e1.to" :> "timer" @@ "e2.io" :> "io" @@ "e2.to" :> "timer"
         @@ "e3.sig" :> "signal" @@ "e3.to" :> "timer" @@ "o1.io" :> "io" @@ "o1.to" :> "timer"
         @@ "s1" :> "stat" @@ "s1.timer" :> "timer" @@ "s2" :> "stat" @@ "s2.timer" :> "timer" @@ "fs_w" :> "io"
All == DOMAIN Kinds
Pris2 == [w \in All |-> IF w \in {"io2", "check", "fs_w"} THEN 1 ELSE 0]

Ios == "e1" :> "e1.io" @@ "e2" :> "e2.io" @@ "e3" :> "e3.sig"
Tos == "e1" :> "e1.to" @@ "e2" :> "e2.to" @@ "e3" :> "e3.to"
OnceIos == "o1" :> "o1.io"
OnceTos == "o1" :> "o1.to"
Timers == "s1" :> "s1.timer" @@ "s2" :> "s2.timer"

Calls1 == {"run", "start", "stop", "feed", "clear", "break"}
Calls2 == {"run", "start", "stop", "break", "ref", "fork", "destroy"}
Program(has, on, calls, runs, n, depth, k) ==
  [has |-> has, on |-> on, calls |-> calls, runs |-> runs, ops |-> n, depth |-> depth, changes |-> k]
Plain == {"io1", "io2", "idle", "prep", "prep2", "check", "fork", "clean"}
TwoStats == {"s1", "s1.timer", "s2", "s2.timer", "fs_w"}
Programs1 == {
  Program(Plain, {"io1", "io2", "prep", "prep2"}, Calls1, EvRunFlags, 3, 2, 0),
  Program(Plain, {"io1", "idle", "check", "fork", "clean"}, Calls2, EvRunFlags, 3, 2, 0),
  Program({"e1.io", "e1.to", "e2.io", "e2.to"}, {}, {"run", "event", "active"}, {""}, 5, 2, 0),
  Program({"e3.sig", "e3.to", "o1.io", "o1.to", "io1"}, {"io1"}, {"run", "stop", "event", "once"}, {"", "once"}, 4, 2, 0),
  Program(TwoStats, {}, {"run", "stat"}, {""}, 4, 1, 1),
  Program(TwoStats, {}, {"run", "stat"}, {""}, 3, 1, 2),
  Program({"s1", "s1.timer", "fs_w"}, {}, {"run", "stat", "fork"}, {""}, 3, 1, 2),
  Program({"s1", "s1.timer", "fs_w"}, {}, {"run", "stat"}, {""}, 2, 1, 3)}
=============================================================================
