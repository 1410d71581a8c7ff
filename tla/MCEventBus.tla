----------------------------- MODULE MCEventBus -----------------------------
(* EventBus on small instances. *)
EXTENDS EventBus, TLC

Symmetry == Permutations(Subs) \cup Permutations(Owners) \cup Permutations(Names)
            \cup Permutations(Keys)
==============================================================================
