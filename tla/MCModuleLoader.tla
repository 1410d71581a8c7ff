--------------------------- MODULE MCModuleLoader ---------------------------
(* ModuleLoader on small instances. *)
EXTENDS ModuleLoader, TLC

Symmetry == Permutations(HasStop \ {Root}) \cup Permutations(Modules \ (HasStop \cup {Root}))
==============================================================================
