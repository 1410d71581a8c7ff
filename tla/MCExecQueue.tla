----------------------------- MODULE MCExecQueue -----------------------------
(* ExecQueue on small instances. *)
EXTENDS ExecQueue
==============================================================================
