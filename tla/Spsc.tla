--------------------------------- MODULE Spsc ---------------------------------
(***************************************************************************)
(* lh_spsc_t: a ring of fixed-size records between one producer and one    *)
(* consumer (src/lh/core/spsc.c).  The two counters only grow and wrap at  *)
(* the width of lh_uint_t, here Modulus; a counter is shared by its one    *)
(* writer with release and its reader with acquire order, so a step is the *)
(* load of the other side's counter or the store of one's own.  The copy   *)
(* of a record is not atomic: between its first and its last byte the slot *)
(* holds neither record (Torn).  Names that every module has begin with    *)
(* Ring: LoggerQueue_proofs extends this module and LoggerQueue, whose     *)
(* records are in such a ring.                                             *)
(***************************************************************************)
EXTENDS Naturals, Sequences

CONSTANTS Items,      \* records
          Torn,       \* a slot that is being written
          Size,       \* slots of the ring
          Modulus     \* 2^width of the counters

\* Why the counters may wrap: both numbers are powers of two, and the ring takes
\* at most half of the counters' range.
IsValidShape(capacity) ==
    /\ capacity > 0
    /\ \E n \in 0 .. capacity : capacity = 2^n
    /\ capacity <= (Modulus - 1) \div 2

\* That the ring divides the range of the counters follows from the powers.
Shape ==
    /\ Torn \notin Items
    /\ Size \in Nat /\ Modulus \in Nat
    /\ \E w \in 1 .. 32 : Modulus = 2^w
    /\ IsValidShape(Size)
    /\ Modulus % Size = 0

ASSUME SpscAssumption == Shape

VARIABLES
    written,    \* records pushed so far, wrapping
    read,       \* records released so far, wrapping
    slots,      \* the borrowed storage
    producer,   \* where the producer is, and the record it pushes
    consumer    \* where the consumer is

ringVars == <<written, read, slots, producer, consumer>>

------------------------------------------------------------------------------

\* lh_spsc_get_slot.
Slot(position) == position % Size

\* Unsigned subtraction at the width of the counters.
Difference(a, b) == (a + Modulus - b) % Modulus

\* The storage is the caller's: nothing is known of its first content.
RingInit ==
    /\ written = 0
    /\ read = 0
    /\ slots = [i \in 0 .. Size - 1 |-> Torn]
    /\ producer = [at |-> "idle", item |-> Torn]
    /\ consumer = "idle"

\* Mutant: the records are counted without wrapping.
IsFullNoWrap == written >= read + Size

IsFull == Difference(written, read) >= Size

\* lh_spsc_push: the load of the consumer's counter decides.
PushLoad(x) ==
    /\ producer.at \in {"idle", "refused"}
    /\ producer' = [at |-> IF IsFull THEN "refused" ELSE "copy", item |-> x]
    /\ UNCHANGED <<written, read, slots, consumer>>

\* The copy begins ...
PushCopy ==
    /\ producer.at = "copy"
    /\ slots' = [slots EXCEPT ![Slot(written)] = Torn]
    /\ producer' = [producer EXCEPT !.at = "copying"]
    /\ UNCHANGED <<written, read, consumer>>

\* Mutant: the count is published before the copy is complete.
PushCopiedEarly ==
    /\ producer.at = "copying"
    /\ written' = (written + 1) % Modulus
    /\ producer' = [producer EXCEPT !.at = "publish"]
    /\ UNCHANGED <<read, slots, consumer>>

\* ... and ends.
PushCopied ==
    /\ producer.at = "copying"
    /\ slots' = [slots EXCEPT ![Slot(written)] = producer.item]
    /\ producer' = [producer EXCEPT !.at = "publish"]
    /\ UNCHANGED <<written, read, consumer>>

\* The new count is published.
PushPublish ==
    /\ producer.at = "publish"
    /\ written' = (written + 1) % Modulus
    /\ producer' = [producer EXCEPT !.at = "idle"]
    /\ UNCHANGED <<read, slots, consumer>>

\* lh_spsc_peek: null, or the slot of the oldest record.
Peek ==
    /\ consumer # "holding"
    /\ consumer' = IF read = written THEN "empty" ELSE "holding"
    /\ UNCHANGED <<written, read, slots, producer>>

\* lh_spsc_release, after a successful peek.
Release ==
    /\ consumer = "holding"
    /\ read' = (read + 1) % Modulus
    /\ consumer' = "idle"
    /\ UNCHANGED <<written, slots, producer>>

RingNext ==
    \/ \E x \in Items : PushLoad(x)
    \/ PushCopy \/ PushCopied \/ PushPublish
    \/ Peek \/ Release

RingSpec == RingInit /\ [][RingNext]_ringVars

------------------------------------------------------------------------------
(* Properties. *)

\* Types of the counters, the storage and the two sides.
RingTypeOK ==
    /\ written \in 0 .. Modulus - 1
    /\ read \in 0 .. Modulus - 1
    /\ slots \in [0 .. Size - 1 -> Items \cup {Torn}]
    /\ producer \in [at : {"idle", "refused", "copy", "copying", "publish"},
                     item : Items \cup {Torn}]
    /\ consumer \in {"idle", "empty", "holding"}

\* The records between the two counters, oldest first.
Content == [i \in 1 .. Difference(written, read) |-> slots[Slot(read + i - 1)]]

\* "a peek pointer remains valid until release": what the consumer may read
\* through its pointer never changes while it holds it (spsc.c:187-215).
PeekStays ==
    [][ consumer = "holding" /\ consumer' = "holding"
          => slots'[Slot(read)] = slots[Slot(read)] ]_ringVars

\* A push is refused only by a full ring and a peek is null only on an empty one,
\* whatever the counters have wrapped to (spsc.c:193, 205).
AnswersExact ==
    [][ /\ producer'.at = "refused" /\ producer.at # "refused" => Len(Content) = Size
        /\ consumer' = "empty" /\ consumer # "empty" => Content = <<>> ]_ringVars

\* The ring's answers and its pointers can be relied on across every wrap of the
\* counters: types, stable peeks, exact refusals (spsc.c:187-215).
RingExact == []RingTypeOK /\ PeekStays /\ AnswersExact

\* The ring implements a bounded first-in, first-out queue: a record enters when
\* its count is published, whole, and leaves when it is released.
Fifo == INSTANCE BoundedFifo WITH queue <- Content, Capacity <- Size

ImplementsFifo == Fifo!Spec
==============================================================================
