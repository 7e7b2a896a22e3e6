------------------------------ MODULE MCEvTimers ------------------------------
(***************************************************************************)
(* Ten timers, some of them repeating, and two periodics.  Ten are the      *)
(* fewest for which the last one of a heap with four children, put in the   *)
(* place of another, may have to go up.  The real time clock is set back    *)
(* and forth by more than MIN_TIMEJUMP.                                     *)
(***************************************************************************)
EXTENDS EvTimers

BackAndForth == {-5, 5}

Fields(afters, kinds) ==
  [w \in Timers \cup Periodics |->
     CASE w \in Timers -> [after |-> afters[w], repeat |-> (w - 1) % 3]
       [] w = 11       -> [kind |-> kinds[1], offset |-> 4, interval |-> 2]
       [] w = 12       -> [kind |-> kinds[2], offset |-> 0, interval |-> 3]]

\* The timers are started in the order of their numbers.  With DHEAP 4 timers 6 to 9
\* are then below timer 2 and the last one, timer 10, is earlier than that; with
\* DHEAP 2 timers 8 and 9 are below timer 4 and the last one, timer 2, is earlier.
TwoBranches == {Fields(<<2, 3, 2, 4, 2, 4, 4, 4, 4, 2>>, <<"callback", "interval">>)}
=============================================================================
