-------------------------------- MODULE MCSpsc --------------------------------
(* Spsc with four-bit counters, so that they wrap. *)
EXTENDS Spsc, TLC

Symmetry == Permutations(Items)
==============================================================================
