---------------------------- MODULE MCThreadGroup ----------------------------
(* ThreadGroup on small instances. *)
EXTENDS ThreadGroup
==============================================================================
