------------------------------ MODULE MCWebHost ------------------------------
(* WebHost on small instances. *)
EXTENDS WebHost
==============================================================================
