----------------------------- MODULE MCExecThread -----------------------------
(* ExecThread on small instances. *)
EXTENDS ExecThread
==============================================================================
