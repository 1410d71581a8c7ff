------------------------------ MODULE ExecQueue ------------------------------
(***************************************************************************)
(* lh_exec_queue_t: tasks from many producer threads to one consumer,      *)
(* linked through their own `next`, without a lock (src/lh/exec/queue.c).  *)
(*                                                                         *)
(* Every access to a word another thread may touch is a step of its own: a *)
(* push is three steps (clear the task's link, exchange the back, link the *)
(* task that was there), a pop is up to seven.  `front` is the consumer's  *)
(* alone, so a read of a link and the move of `front` that follows it are  *)
(* one step.  Task records are reused: what the consumer has let go may be *)
(* pushed again by anybody, so a stale pointer would be seen.              *)
(***************************************************************************)
EXTENDS Naturals, Sequences, SequencesExt

CONSTANTS Producers,   \* the threads that push
          Consumer,    \* the one thread that pops
          Tasks,       \* the task records
          Stub,        \* the queue's own placeholder task
          Null         \* no task

Nodes == Tasks \cup {Stub}
Procs == Producers \cup {Consumer}

ASSUME QueueAssumption ==
    /\ Stub \notin Tasks
    /\ Null \notin Nodes
    /\ Consumer \notin Producers

VARIABLES
    next,    \* the queue link of every node
    back,    \* the producers' end
    front,   \* the consumer's end
    push,    \* per thread: where it is inside lh_exec_queue_push
    pop,     \* where the consumer is inside lh_exec_queue_try_pop
    held,    \* the task the last pop returned, until the consumer lets it go
    order,   \* history: the nodes from `front` on, in the order of exchanges
    quiet    \* history: no push overlapped the pop under way

vars == <<next, back, front, push, pop, held, order, quiet>>

------------------------------------------------------------------------------
(* State. *)

Idle == [at |-> "idle", node |-> Null, prev |-> Null]

PushStates ==
    [at : {"idle", "exchange", "link"}, node : Nodes \cup {Null}, prev : Nodes \cup {Null}]

PopStates == {"idle", "first", "second", "back", "stub", "pushing", "reread"}

\* Nobody owns the record: it may be handed to a push.
IsFree(t) ==
    /\ t # held
    /\ ~ Contains(order, t)
    /\ \A p \in Procs : push[p].node # t

ProducerActive == \E p \in Producers : push[p].at # "idle"

\* lh_exec_queue_init: an empty queue is its stub.
Init ==
    /\ next = [n \in Nodes |-> Null]
    /\ back = Stub
    /\ front = Stub
    /\ push = [p \in Procs |-> Idle]
    /\ pop = "idle"
    /\ held = Null
    /\ order = <<Stub>>
    /\ quiet = FALSE

------------------------------------------------------------------------------
(* lh_exec_queue_push, by a producer or, for the stub, by the consumer. *)

\* Mutant: the link of a reused task is not cleared.
PushClearKeepsLink(p, n) ==
    /\ push[p].at = "idle"
    /\ push' = [push EXCEPT ![p] = [at |-> "exchange", node |-> n, prev |-> Null]]
    /\ UNCHANGED next

\* The link of the node to push is cleared, before anybody can reach the node.
PushClear(p, n) ==
    /\ push[p].at = "idle"
    /\ next' = [next EXCEPT ![n] = Null]
    /\ push' = [push EXCEPT ![p] = [at |-> "exchange", node |-> n, prev |-> Null]]

\* One atomic exchange claims the back and fixes the place in the order.
PushExchange(p) ==
    /\ push[p].at = "exchange"
    /\ push' = [push EXCEPT ![p] = [at |-> "link", node |-> push[p].node, prev |-> back]]
    /\ back' = push[p].node
    /\ order' = Append(order, push[p].node)
    /\ UNCHANGED next

\* The node that was the back links to the new one.
PushLink(p) ==
    /\ push[p].at = "link"
    /\ next' = [next EXCEPT ![push[p].prev] = push[p].node]
    /\ push' = [push EXCEPT ![p] = Idle]
    /\ UNCHANGED <<back, order>>

StartPush(p) ==
    \E t \in Tasks :
        /\ IsFree(t)
        /\ PushClear(p, t)
        /\ quiet' = FALSE
        /\ UNCHANGED <<back, front, pop, held, order>>

Exchange(p) ==
    /\ PushExchange(p)
    /\ quiet' = FALSE
    /\ UNCHANGED <<front, pop, held>>

Link(p) ==
    /\ PushLink(p)
    /\ quiet' = FALSE
    /\ UNCHANGED <<front, pop, held>>

------------------------------------------------------------------------------
(* lh_exec_queue_try_pop. *)

\* The consumer calls try_pop; it works on one task at a time.
PopCall ==
    /\ pop = "idle"
    /\ held = Null
    /\ pop' = "first"
    /\ quiet' = ~ ProducerActive
    /\ UNCHANGED <<next, back, front, push, held, order>>

\* front := next; the node left behind is no longer the queue's.
StepFront ==
    /\ front' = next[front]
    /\ order' = Tail(order)
    /\ UNCHANGED <<next, back, push, quiet>>

\* Mutant: the node behind the front is returned.
HandOutNext ==
    /\ next[front] # Null
    /\ StepFront
    /\ held' = next[front]
    /\ pop' = "idle"

\* The front is handed out once the node behind it is known.
HandOut ==
    /\ next[front] # Null
    /\ StepFront
    /\ held' = front
    /\ pop' = "idle"

ReturnNull ==
    /\ pop' = "idle"
    /\ UNCHANGED <<next, back, front, push, held, order, quiet>>

GoOn(at) ==
    /\ pop' = at
    /\ UNCHANGED <<next, back, front, push, held, order, quiet>>

\* First read of front->next: empty, the stub to step over, or a task.
PopFirst ==
    /\ pop = "first"
    /\ \/ front = Stub /\ next[front] = Null /\ ReturnNull
       \/ /\ front = Stub /\ next[front] # Null
          /\ StepFront
          /\ pop' = "second"
          /\ UNCHANGED held
       \/ front # Stub /\ HandOut
       \/ front # Stub /\ next[front] = Null /\ GoOn("back")

\* The read again after the stub was stepped over.
PopSecond ==
    /\ pop = "second"
    /\ HandOut \/ (next[front] = Null /\ GoOn("back"))

\* Mutant: the last task is left in the queue.
PopBackNoStub == pop = "back" /\ ReturnNull

\* The front is the last linked node; is it the back?
PopBack ==
    /\ pop = "back"
    /\ \/ front # back /\ ReturnNull
       \/ front = back /\ GoOn("stub")

\* lh_exec_queue_push(self, stub), on the consumer.
PopStubClear ==
    /\ pop = "stub"
    /\ PushClear(Consumer, Stub)
    /\ pop' = "pushing"
    /\ UNCHANGED <<back, front, held, order, quiet>>

PopStubExchange ==
    /\ pop = "pushing"
    /\ PushExchange(Consumer)
    /\ UNCHANGED <<front, pop, held, quiet>>

PopStubLink ==
    /\ pop = "pushing"
    /\ PushLink(Consumer)
    /\ pop' = "reread"
    /\ UNCHANGED <<front, held, quiet>>

\* The last read: set unless a producer slipped in before the stub.
PopReread ==
    /\ pop = "reread"
    /\ HandOut \/ (next[front] = Null /\ ReturnNull)

\* The consumer has dealt with the task: the record is its owner's again.
LetGo ==
    /\ pop = "idle"
    /\ held # Null
    /\ held' = Null
    /\ UNCHANGED <<next, back, front, push, pop, order, quiet>>

PopStep ==
    \/ PopFirst \/ PopSecond \/ PopBack
    \/ PopStubClear \/ PopStubExchange \/ PopStubLink \/ PopReread

------------------------------------------------------------------------------

Produce(p) == StartPush(p) \/ Exchange(p) \/ Link(p)

Consume == PopCall \/ PopStep \/ LetGo

Next == (\E p \in Producers : Produce(p)) \/ Consume

Spec == Init /\ [][Next]_vars

\* The consumer keeps polling, and a producer that began a push runs on.
Fairness ==
    /\ WF_vars(Consume)
    /\ \A p \in Producers : WF_vars(Exchange(p) \/ Link(p))

FairSpec == Spec /\ Fairness

------------------------------------------------------------------------------
(* Properties. *)

\* Types of the queue's words, of the threads' places and of the history.
TypeOK ==
    /\ next \in [Nodes -> Nodes \cup {Null}]
    /\ back \in Nodes
    /\ front \in Nodes
    /\ push \in [Procs -> PushStates]
    /\ pop \in PopStates
    /\ held \in Tasks \cup {Null}
    /\ order \in Seq(Nodes)
    /\ quiet \in BOOLEAN

\* From front to back the nodes are distinct and linked in the order of their
\* exchanges, except where the one thread whose link is still to come leaves a
\* gap: no push is lost, no link leads out of the queue and the stub is in it at
\* most once (queue.c:41-50, 81).
ChainIntact ==
    /\ order # <<>>
    /\ order[1] = front
    /\ order[Len(order)] = back
    /\ next[back] = Null
    /\ \A i, j \in 1 .. Len(order) : order[i] = order[j] => i = j
    /\ \A i \in 1 .. Len(order) - 1 :
          \/ next[order[i]] = order[i + 1]
          \/ /\ next[order[i]] = Null
             /\ \E p \in Procs : /\ push[p].at = "link"
                                 /\ push[p].prev = order[i]
                                 /\ push[p].node = order[i + 1]

\* A thread that has yet to link writes into a node the queue still owns, never
\* into a task that was handed out and perhaps freed (queue.c:49).
LinksStayInside ==
    \A p \in Procs : push[p].at = "link" => Contains(order, push[p].prev)

\* A pop that no push overlapped returns null only when the queue holds no
\* task (queue.c:53-89).
NullIsHonest ==
    [][ (pop # "idle" /\ pop' = "idle" /\ held' = Null /\ quiet)
          => \A t \in Tasks : ~ Contains(order, t) ]_vars

\* Every task whose exchange happened is handed out in the end.
EveryTaskComesOut ==
    \A t \in Tasks : Contains(order, t) ~> held = t

\* The tasks in the queue: its nodes without the stub, which is there at most once.
Content == RemoveFirst(order, Stub)

\* The queue implements a first-in, first-out queue: a task is put in at its
\* exchange, and what try_pop returns is the oldest task there.
Fifo == INSTANCE FifoQueue WITH queue <- Content

ImplementsFifo == Fifo!Spec
==============================================================================
