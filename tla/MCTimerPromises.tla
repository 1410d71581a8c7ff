--------------------------- MODULE MCTimerPromises ---------------------------
(* TimerPromises on small instances. *)
EXTENDS TimerPromises
==============================================================================
