----------------------------- MODULE BoundedFifo -----------------------------
(***************************************************************************)
(* What a bounded queue of records promises: at most Capacity records, put *)
(* in at one end and taken out, oldest first, at the other.  Spsc is shown *)
(* to implement this specification.                                        *)
(***************************************************************************)
EXTENDS Naturals, Sequences

CONSTANTS Items, Capacity

VARIABLE queue    \* the records in the queue, oldest first

Init == queue = <<>>

Put(x) ==
    /\ Len(queue) < Capacity
    /\ queue' = Append(queue, x)

Take ==
    /\ queue # <<>>
    /\ queue' = Tail(queue)

Next == (\E x \in Items : Put(x)) \/ Take

Spec == Init /\ [][Next]_queue
==============================================================================
