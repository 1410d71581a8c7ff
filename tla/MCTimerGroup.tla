---------------------------- MODULE MCTimerGroup ----------------------------
(* TimerGroup on small instances. *)
EXTENDS TimerGroup, TLC

Symmetry == Permutations(Timers)
==============================================================================
