---------------------------- MODULE MCLoggerQueue ----------------------------
(* LoggerQueue on small instances. *)
EXTENDS LoggerQueue
==============================================================================
