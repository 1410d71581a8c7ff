------------------------------ MODULE MCExecLoop ------------------------------
(* ExecLoop on small instances. *)
EXTENDS ExecLoop, TLC
==============================================================================
