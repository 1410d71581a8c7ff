------------------------------- MODULE TaskLife -------------------------------
(***************************************************************************)
(* The laws of a task (include/lh/exec/task.h, lh/exec/stop/kind.h): an    *)
(* accepted task is worked on once, one at a time on the executor's        *)
(* thread, or cancelled by a cancelling stop; then it is completed unless  *)
(* it was cancelled; then it is destroyed, once, and is its caller's       *)
(* again.  ExecThread is shown to implement this specification.            *)
(***************************************************************************)
CONSTANTS Tasks

VARIABLES phase,   \* how far every task has come
          mode     \* the stop asked of the thread executor

lifeVars == <<phase, mode>>

Phases == {"caller", "accepted", "working", "inline", "finished", "cancelled", "completed"}

Init == phase = [t \in Tasks |-> "caller"] /\ mode = "none"

Move(t, from, to) ==
    /\ phase[t] = from
    /\ phase' = [phase EXCEPT ![t] = to]
    /\ UNCHANGED mode

Accept(t) == mode = "none" /\ Move(t, "caller", "accepted")

\* One at a time on the executor's thread.
Begin(t) == (\A u \in Tasks : phase[u] # "working") /\ Move(t, "accepted", "working")

\* The inline executor works on the submitter's thread.
BeginInline(t) == Move(t, "caller", "inline")

Finish(t) == Move(t, "working", "finished") \/ Move(t, "inline", "finished")

Cancel(t) == mode = "cancel" /\ Move(t, "accepted", "cancelled")

Complete(t) == Move(t, "finished", "completed")

Destroy(t) == Move(t, "completed", "caller") \/ Move(t, "cancelled", "caller")

\* A stop only gets stricter.
Stop ==
    /\ \/ mode = "none" /\ mode' \in {"drain", "cancel"}
       \/ mode = "drain" /\ mode' = "cancel"
    /\ UNCHANGED phase

\* A new executor: nothing of the old one is left to run.
Restart ==
    /\ \A t \in Tasks : phase[t] \notin {"accepted", "working"}
    /\ mode' = "none"
    /\ UNCHANGED phase

Next ==
    \/ \E t \in Tasks : \/ Accept(t) \/ Begin(t) \/ BeginInline(t) \/ Finish(t)
                        \/ Cancel(t) \/ Complete(t) \/ Destroy(t)
    \/ Stop \/ Restart

Spec == Init /\ [][Next]_lifeVars
==============================================================================
