------------------------------ MODULE FifoQueue ------------------------------
(***************************************************************************)
(* What a first-in, first-out queue of tasks with one consumer promises:   *)
(* a task put in is held by the queue alone, the consumer takes the oldest *)
(* one, and a task may be put in again only after the consumer has let it  *)
(* go.  ExecQueue is shown to implement this specification.                *)
(***************************************************************************)
EXTENDS Sequences, SequencesExt

CONSTANTS Tasks,    \* the task records
          Null      \* no task

VARIABLES queue,    \* the tasks in the queue, oldest first
          held      \* the task the consumer took and still works on, or Null

fifoVars == <<queue, held>>

Init == queue = <<>> /\ held = Null

\* Append a task that is in no queue and that the consumer does not hold.
Put(t) ==
    /\ t # held
    /\ ~ Contains(queue, t)
    /\ queue' = Append(queue, t)
    /\ UNCHANGED held

\* Take the oldest task.
Take ==
    /\ held = Null
    /\ queue # <<>>
    /\ held' = Head(queue)
    /\ queue' = Tail(queue)

\* The consumer is done with the task it holds.
LetGo ==
    /\ held # Null
    /\ held' = Null
    /\ UNCHANGED queue

Next == (\E t \in Tasks : Put(t)) \/ Take \/ LetGo

Spec == Init /\ [][Next]_fifoVars
==============================================================================
