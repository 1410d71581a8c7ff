--------------------------- MODULE TimerGroup_proofs ---------------------------
(***************************************************************************)
(* Proofs about TimerGroup for any set of timers, any periods shorter than *)
(* the range of the ticks, any priorities and any range of the ticks.      *)
(***************************************************************************)
EXTENDS TimerGroup, WellFoundedInduction, TLAPS

------------------------------------------------------------------------------
(* The inductive invariant. *)

\* One timer comes before another in a list.
Before(l, a, b) == \E i, j \in 1 .. Len(l) : i < j /\ l[i] = a /\ l[j] = b

\* Where the walk goes on: at its node, or at the saved next of a callback.
Cursor == IF InCallback THEN walk.next ELSE walk.node

\* The walk has still to come to this timer.
Ahead(t) == Cursor # Null /\ IsRunning(t) /\ (t = Cursor \/ Before(list, Cursor, t))

Active(t) == IsRunning(t) /\ ~ timer[t].paused

\* The places of the handler.  A callback's own timer is not the saved next.
PlaceInv ==
    /\ Outside => walk.node = Null /\ walk.next = Null /\ due = {} /\ fired = {}
    /\ walk.at = "walk" => walk.next = Null
    /\ InCallback => walk.node \in fired /\ walk.next # walk.node

\* A timer in the list was started with a period.
PeriodInv == \A t \in Timers : IsRunning(t) => timer[t].period \in Periods

\* What was fired has no lower priority than what comes next.
OrderInv == fired # {} /\ Cursor # Null => timer[Cursor].priority <= shot.priority

\* A due timer that was not fired is still ahead of the walk and still due.
DueInv == ~ Outside => \A t \in due \ fired : Ahead(t) /\ IsDue(t, walk.now)

\* Nothing else is due to the walk, but what has a later tick.
CalmInv ==
    ~ Outside =>
        \A t \in Timers :
            Active(t) /\ t \notin walk.fresh /\ (t \notin due \/ t \in fired)
                => Minus(walk.now, timer[t].last) < timer[t].period

\* The age of a timer that counts is what the ticks say, and it is at least as
\* old as the walk unless it has a later tick.
AgeInv ==
    \A t \in Timers :
        Active(t) =>
            /\ age[t] = Minus(clock, timer[t].last)
            /\ ~ Outside /\ t \notin walk.fresh => Minus(clock, walk.now) <= age[t]

IInv ==
    /\ TypeOK /\ ListOrdered /\ WalkExact /\ InTime
    /\ PlaceInv /\ PeriodInv /\ OrderInv /\ DueInv /\ CalmInv /\ AgeInv

------------------------------------------------------------------------------
(* Ticks that wrap. *)

\* A wrapped difference, without the remainder.
LEMMA MinusDef ==
  ASSUME NEW a \in 0 .. TickMax, NEW b \in 0 .. TickMax
  PROVE  Minus(a, b) = IF b <= a THEN a - b ELSE a + Modulus - b
<1>1. /\ Modulus \in Nat \ {0} /\ a \in Nat /\ b \in Nat
      /\ a < Modulus /\ b < Modulus
  BY TimerAssumption DEF TickMax
<1>2. /\ \A x \in Nat : x < Modulus => (x + Modulus) % Modulus = x
      /\ \A x \in Nat : x < Modulus => x % Modulus = x
  BY <1>1
<1>3. CASE b <= a
  <2>1. a - b \in Nat /\ a - b < Modulus /\ a + Modulus - b = (a - b) + Modulus
    BY <1>1, <1>3
  <2> QED BY <1>2, <1>3, <2>1 DEF Minus
<1>4. CASE ~ (b <= a)
  <2>1. a + Modulus - b \in Nat /\ a + Modulus - b < Modulus
    BY <1>1, <1>4
  <2> QED BY <1>2, <1>4, <2>1 DEF Minus
<1> QED BY <1>3, <1>4

\* Differences are ticks, grow with the clock, and can be taken in two parts.
LEMMA MinusFacts ==
  ASSUME NEW a \in 0 .. TickMax, NEW b \in 0 .. TickMax
  PROVE  /\ Minus(a, b) \in 0 .. TickMax
         /\ Minus(a, a) = 0
         /\ b <= a => Minus(a, b) = a - b
         /\ \A c \in 0 .. TickMax :
               Minus(a, b) <= Minus(a, c) => Minus(b, c) = Minus(a, c) - Minus(a, b)
<1>1. /\ Modulus \in Nat \ {0} /\ a \in Nat /\ b \in Nat
      /\ a < Modulus /\ b < Modulus /\ TickMax = Modulus - 1
  BY TimerAssumption DEF TickMax
<1>2. Minus(a, b) = IF b <= a THEN a - b ELSE a + Modulus - b
  BY MinusDef
<1>3. Minus(a, a) = IF a <= a THEN a - a ELSE a + Modulus - a
  BY MinusDef
<1>4. ASSUME NEW c \in 0 .. TickMax, Minus(a, b) <= Minus(a, c)
      PROVE  Minus(b, c) = Minus(a, c) - Minus(a, b)
  <2>1. /\ Minus(a, c) = IF c <= a THEN a - c ELSE a + Modulus - c
        /\ Minus(b, c) = IF c <= b THEN b - c ELSE b + Modulus - c
    BY MinusDef
  <2>2. c \in Nat /\ c < Modulus
    BY <1>1
  <2> QED BY <1>1, <1>2, <1>4, <2>1, <2>2
<1> QED BY <1>1, <1>2, <1>3, <1>4

LEMMA MinusNat ==
  ASSUME NEW a \in 0 .. TickMax, NEW b \in 0 .. TickMax
  PROVE  Minus(a, b) \in Nat
<1>1. Minus(a, b) \in 0 .. TickMax
  BY MinusFacts
<1> QED BY <1>1

LEMMA MinusSplit ==
  ASSUME NEW a \in 0 .. TickMax, NEW b \in 0 .. TickMax, NEW c \in 0 .. TickMax,
         Minus(a, b) <= Minus(a, c)
  PROVE  Minus(b, c) = Minus(a, c) - Minus(a, b)
BY MinusFacts

LEMMA MinusTick ==
  ASSUME NEW a \in 0 .. TickMax, NEW b \in 0 .. TickMax
  PROVE  /\ (a + 1) % Modulus \in 0 .. TickMax
         /\ Minus(a, b) < TickMax => Minus((a + 1) % Modulus, b) = Minus(a, b) + 1
<1>1. /\ Modulus \in Nat \ {0} /\ a \in Nat /\ b \in Nat
      /\ a < Modulus /\ b < Modulus /\ TickMax = Modulus - 1
  BY TimerAssumption DEF TickMax
<1>2. (a + 1) % Modulus = IF a + 1 = Modulus THEN 0 ELSE a + 1
  <2>1. \A x \in Nat : x < Modulus => x % Modulus = x
    BY <1>1
  <2>2. \A x \in Nat : x < Modulus => (x + Modulus) % Modulus = x
    BY <1>1
  <2>3. CASE a + 1 = Modulus
    BY <1>1, <2>2, <2>3
  <2>4. CASE a + 1 # Modulus
    BY <1>1, <2>1, <2>4
  <2> QED BY <2>3, <2>4
<1>3. (a + 1) % Modulus \in 0 .. TickMax
  BY <1>1, <1>2
<1>4. Minus(a, b) = IF b <= a THEN a - b ELSE a + Modulus - b
  BY MinusDef
<1>5. PICK next \in 0 .. TickMax : next = (a + 1) % Modulus
  BY <1>3
<1>6. Minus(next, b) = IF b <= next THEN next - b ELSE next + Modulus - b
  BY MinusDef
<1> QED BY <1>1, <1>2, <1>3, <1>4, <1>5, <1>6

\* A set of numbers has a least one.
LEMMA MinFacts ==
  ASSUME NEW S \in SUBSET Nat, S # {}
  PROVE  Min(S) \in S /\ \A y \in S : Min(S) <= y
<1> DEFINE R == OpToRel(<, Nat)
<1>1. IsWellFoundedOn(R, Nat)
  BY NatLessThanWellFounded
<1>2. \A x, y \in Nat : x < y => <<x, y>> \in R
  BY DEF OpToRel
<1> HIDE DEF R
<1>3. PICK x \in S : \A y \in S : ~ (<<y, x>> \in R)
  BY <1>1, WFMin
<1>4. ASSUME NEW y \in S PROVE x <= y
  <2>1. x \in Nat /\ y \in Nat /\ ~ (y < x)
    BY <1>2, <1>3
  <2> QED BY <2>1
<1> QED BY <1>4 DEF Min

------------------------------------------------------------------------------
(* The list: which timers are in it, and which comes before which. *)

\* The parts of ListOrdered that are about the list alone.
Sorted(l, priority) == \A a, b : Before(l, a, b) => priority[a] >= priority[b]

\* What a list holds has a place, one comes before the other, and never both ways.
LEMMA BeforeFacts ==
  ASSUME NEW l \in Seq(Timers), IsInjective(l)
  PROVE  /\ \A a, b : Before(l, a, b) => Contains(l, a) /\ Contains(l, b) /\ a # b
         /\ \A a, b : Contains(l, a) /\ Contains(l, b) =>
                         a = b \/ Before(l, a, b) \/ Before(l, b, a)
         /\ \A a : Contains(l, a) => a \in Timers
<1>1. Len(l) \in Nat /\ DOMAIN l = 1 .. Len(l) /\ \A i \in 1 .. Len(l) : l[i] \in Timers
  OBVIOUS
<1>2. \A i, j \in 1 .. Len(l) : l[i] = l[j] => i = j
  BY <1>1 DEF IsInjective
<1>3. ASSUME NEW a, NEW b, Contains(l, a), Contains(l, b), a # b
      PROVE  Before(l, a, b) \/ Before(l, b, a)
  <2>1. PICK i \in 1 .. Len(l) : l[i] = a
    BY <1>3 DEF Contains
  <2>2. PICK j \in 1 .. Len(l) : l[j] = b
    BY <1>3 DEF Contains
  <2>3. i < j \/ j < i
    BY <1>1, <1>3, <2>1, <2>2
  <2> QED BY <2>1, <2>2, <2>3 DEF Before
<1>4. ASSUME NEW a, NEW b, Before(l, a, b)
      PROVE  Contains(l, a) /\ Contains(l, b) /\ a # b
  <2>1. PICK i, j \in 1 .. Len(l) : i < j /\ l[i] = a /\ l[j] = b
    BY <1>4 DEF Before
  <2>2. i # j
    BY <2>1
  <2> QED BY <1>2, <2>1, <2>2 DEF Contains
<1>5. \A a : Contains(l, a) => a \in Timers
  BY <1>1 DEF Contains
<1> QED BY <1>3, <1>4, <1>5

\* The two places where a list is changed.
LEMMA RemoveAtFacts ==
  ASSUME NEW l \in Seq(Timers), NEW n \in 1 .. Len(l)
  PROVE  /\ RemoveAt(l, n) \in Seq(Timers) /\ Len(RemoveAt(l, n)) = Len(l) - 1
         /\ \A i \in 1 .. Len(l) - 1 : RemoveAt(l, n)[i] = IF i < n THEN l[i] ELSE l[i + 1]
<1> DEFINE before == SubSeq(l, 1, n - 1)
           after == SubSeq(l, n + 1, Len(l))
           q == RemoveAt(l, n)
<1>1. Len(l) \in Nat /\ \A i \in 1 .. Len(l) : l[i] \in Timers
  OBVIOUS
<1>2. /\ before \in Seq(Timers) /\ Len(before) = n - 1
      /\ \A i \in 1 .. n - 1 : before[i] = l[i]
  BY <1>1
<1>3. /\ after \in Seq(Timers) /\ Len(after) = Len(l) - n
      /\ \A i \in 1 .. Len(l) - n : after[i] = l[i + n]
  BY <1>1
<1>4. q = before \o after
  BY DEF RemoveAt
<1> HIDE DEF before, after, q
<1>5. q \in Seq(Timers) /\ Len(q) = Len(l) - 1
  BY <1>1, <1>2, <1>3, <1>4
<1>6. ASSUME NEW i \in 1 .. Len(l) - 1 PROVE q[i] = IF i < n THEN l[i] ELSE l[i + 1]
  <2>1. CASE i < n
    BY <1>1, <1>2, <1>3, <1>4, <2>1
  <2>2. CASE ~ (i < n)
    <3>1. i - (n - 1) \in 1 .. Len(l) - n /\ (i - (n - 1)) + n = i + 1
      BY <1>1, <2>2
    <3>2. q[i] = after[i - (n - 1)]
      BY <1>1, <1>2, <1>3, <1>4, <2>2
    <3> QED BY <1>3, <2>2, <3>1, <3>2
  <2> QED BY <2>1, <2>2
<1> QED BY <1>5, <1>6 DEF q

LEMMA InsertAtFacts ==
  ASSUME NEW l \in Seq(Timers), NEW n \in 1 .. Len(l) + 1, NEW t \in Timers
  PROVE  /\ InsertAt(l, n, t) \in Seq(Timers) /\ Len(InsertAt(l, n, t)) = Len(l) + 1
         /\ \A i \in 1 .. Len(l) + 1 :
               InsertAt(l, n, t)[i] = IF i < n THEN l[i] ELSE IF i = n THEN t ELSE l[i - 1]
<1> DEFINE before == SubSeq(l, 1, n - 1)
           middle == before \o <<t>>
           after == SubSeq(l, n, Len(l))
           q == InsertAt(l, n, t)
<1>1. Len(l) \in Nat /\ \A i \in 1 .. Len(l) : l[i] \in Timers
  OBVIOUS
<1>2. /\ before \in Seq(Timers) /\ Len(before) = n - 1
      /\ \A i \in 1 .. n - 1 : before[i] = l[i]
  BY <1>1
<1>3. /\ after \in Seq(Timers) /\ Len(after) = Len(l) - n + 1
      /\ \A i \in 1 .. Len(l) - n + 1 : after[i] = l[i + n - 1]
  BY <1>1
<1>4. q = middle \o after
  BY DEF InsertAt
<1> HIDE DEF before, after, q
<1>5. /\ middle \in Seq(Timers) /\ Len(middle) = n
      /\ \A i \in 1 .. n : middle[i] = IF i < n THEN l[i] ELSE t
  BY <1>2
<1> HIDE DEF middle
<1>6. q \in Seq(Timers) /\ Len(q) = Len(l) + 1
  <2>1. q \in Seq(Timers)
    BY <1>3, <1>4, <1>5
  <2>2. Len(q) = Len(middle) + Len(after)
    <3>1. \A u, v \in Seq(Timers) : Len(u \o v) = Len(u) + Len(v)
      OBVIOUS
    <3> QED BY ONLY <1>3, <1>4, <1>5, <3>1
  <2> QED BY <1>1, <1>3, <1>5, <2>1, <2>2
<1>7. ASSUME NEW i \in 1 .. Len(l) + 1
      PROVE  q[i] = IF i < n THEN l[i] ELSE IF i = n THEN t ELSE l[i - 1]
  <2>1. CASE i <= n
    <3>1. i \in 1 .. n /\ q[i] = middle[i]
      BY <1>1, <1>3, <1>4, <1>5, <2>1
    <3> QED BY <1>5, <2>1, <3>1
  <2>2. CASE ~ (i <= n)
    <3>1. i - n \in 1 .. Len(l) - n + 1 /\ (i - n) + n - 1 = i - 1
      BY <1>1, <2>2
    <3>2. q[i] = after[i - n]
      BY <1>1, <1>3, <1>4, <1>5, <2>2
    <3> QED BY <1>3, <2>2, <3>1, <3>2
  <2> QED BY <2>1, <2>2
<1> QED BY <1>6, <1>7 DEF q

\* The list without a timer.
LEMMA UnlinkFacts ==
  ASSUME NEW l \in Seq(Timers), NEW t, IsInjective(l)
  PROVE  /\ Unlinked(l, t) \in Seq(Timers) /\ IsInjective(Unlinked(l, t))
         /\ \A x : Contains(Unlinked(l, t), x) <=> Contains(l, x) /\ x # t
         /\ \A a, b : Before(Unlinked(l, t), a, b) <=> Before(l, a, b) /\ a # t /\ b # t
<1>1. CASE ~ Contains(l, t)
  <2>1. Unlinked(l, t) = l
    BY <1>1 DEF Unlinked, RemoveFirst, Contains
  <2> QED BY <1>1, <2>1, BeforeFacts
<1>2. CASE Contains(l, t)
  <2> DEFINE I == {i \in 1 .. Len(l) : l[i] = t}
  <2>1. I \in SUBSET Nat /\ I # {}
    BY <1>2 DEF Contains
  <2>2. Min(I) \in I
    BY <2>1, MinFacts
  <2>3. Unlinked(l, t) = RemoveAt(l, Min(I))
    BY <2>1 DEF Unlinked, RemoveFirst, SelectInSeq
  <2>4. PICK n \in 1 .. Len(l) : l[n] = t /\ Unlinked(l, t) = RemoveAt(l, n)
    BY <2>2, <2>3
  <2> HIDE DEF I
  <2> DEFINE q == Unlinked(l, t)
  <2>5. /\ Len(l) \in Nat /\ DOMAIN l = 1 .. Len(l)
        /\ \A i \in 1 .. Len(l) : l[i] \in Timers
        /\ \A i, j \in 1 .. Len(l) : l[i] = l[j] => i = j
    BY DEF IsInjective
  <2>6. q = RemoveAt(l, n)
    BY <2>4
  <2> HIDE DEF q
  <2>9. q \in Seq(Timers) /\ Len(q) = Len(l) - 1
    BY <2>6, RemoveAtFacts
  <2>10. \A i \in 1 .. Len(l) - 1 : q[i] = IF i < n THEN l[i] ELSE l[i + 1]
    BY <2>6, RemoveAtFacts
  <2>11. \A i, j \in 1 .. Len(q) : q[i] = q[j] => i = j
    BY <2>5, <2>9, <2>10
  <2>12. IsInjective(q)
    BY <2>9, <2>11 DEF IsInjective
  \* A place of the one list and of the other.
  <2>13. \A i \in 1 .. Len(l) : l[i] # t =>
            \E k \in 1 .. Len(q) : q[k] = l[i] /\ k = IF i < n THEN i ELSE i - 1
    <3>1. SUFFICES ASSUME NEW i \in 1 .. Len(l), l[i] # t
                   PROVE  \E k \in 1 .. Len(q) : q[k] = l[i] /\ k = IF i < n THEN i ELSE i - 1
      OBVIOUS
    <3>2. i # n
      BY <2>4, <3>1
    <3>3. CASE i < n
      BY <2>5, <2>9, <2>10, <3>3
    <3>4. CASE i > n
      <4>1. i - 1 \in 1 .. Len(l) - 1 /\ ~ (i - 1 < n) /\ (i - 1) + 1 = i /\ ~ (i < n)
        BY <2>5, <3>4
      <4>2. q[i - 1] = l[i]
        BY <2>10, <4>1
      <4> QED BY <2>9, <4>1, <4>2
    <3> QED BY <2>5, <3>2, <3>3, <3>4
  <2>14. \A k \in 1 .. Len(q) :
            \E i \in 1 .. Len(l) : q[k] = l[i] /\ l[i] # t /\ i = IF k < n THEN k ELSE k + 1
    <3>1. SUFFICES ASSUME NEW k \in 1 .. Len(q)
                   PROVE  \E i \in 1 .. Len(l) :
                             q[k] = l[i] /\ l[i] # t /\ i = IF k < n THEN k ELSE k + 1
      OBVIOUS
    <3>2. PICK i \in 1 .. Len(l) : i = IF k < n THEN k ELSE k + 1
      BY <2>5, <2>9
    <3>3. i # n
      BY <3>2
    <3> QED BY <2>4, <2>5, <2>9, <2>10, <3>2, <3>3
  <2>15. \A x : Contains(q, x) <=> Contains(l, x) /\ x # t
    BY <2>13, <2>14 DEF Contains
  <2>16. ASSUME NEW a, NEW b, Before(q, a, b) PROVE Before(l, a, b) /\ a # t /\ b # t
    <3>1. PICK k, m \in 1 .. Len(q) : k < m /\ q[k] = a /\ q[m] = b
      BY <2>16 DEF Before
    <3>2. PICK i \in 1 .. Len(l) : q[k] = l[i] /\ l[i] # t /\ i = IF k < n THEN k ELSE k + 1
      BY <2>14
    <3>3. PICK j \in 1 .. Len(l) : q[m] = l[j] /\ l[j] # t /\ j = IF m < n THEN m ELSE m + 1
      BY <2>14
    <3>4. i < j
      BY <3>1, <3>2, <3>3
    <3> QED BY <3>1, <3>2, <3>3, <3>4 DEF Before
  <2>17. ASSUME NEW a, NEW b, Before(l, a, b), a # t, b # t PROVE Before(q, a, b)
    <3>1. PICK i, j \in 1 .. Len(l) : i < j /\ l[i] = a /\ l[j] = b
      BY <2>17 DEF Before
    <3>2. i # n /\ j # n
      BY <2>4, <2>17, <3>1
    <3>3. PICK k \in 1 .. Len(q) : q[k] = l[i] /\ k = IF i < n THEN i ELSE i - 1
      BY <2>13, <2>17, <3>1
    <3>4. PICK m \in 1 .. Len(q) : q[m] = l[j] /\ m = IF j < n THEN j ELSE j - 1
      BY <2>13, <2>17, <3>1
    <3>5. k < m
      BY <3>1, <3>2, <3>3, <3>4
    <3> QED BY <3>1, <3>3, <3>4, <3>5 DEF Before
  <2> QED BY <2>9, <2>12, <2>15, <2>16, <2>17 DEF q
<1> QED BY <1>1, <1>2

\* The place where a timer is inserted: behind all of its priority or a higher one.
LEMMA InsertedAt ==
  ASSUME NEW l \in Seq(Timers), NEW priority \in [Timers -> Nat], NEW t \in Timers
  PROVE  \E n \in 1 .. Len(l) + 1 :
            /\ Inserted(l, priority, t) = InsertAt(l, n, t)
            /\ \A j \in 1 .. n - 1 : priority[l[j]] >= priority[t]
            /\ n <= Len(l) => priority[t] > priority[l[n]]
<1> DEFINE I == {i \in 1 .. Len(l) : priority[t] > priority[l[i]]}
<1>1. /\ Len(l) \in Nat /\ \A i \in 1 .. Len(l) : l[i] \in Timers /\ priority[l[i]] \in Nat
      /\ priority[t] \in Nat
  OBVIOUS
<1>2. CASE I = {}
  <2>1. Inserted(l, priority, t) = Append(l, t)
    BY <1>2 DEF Inserted, SelectInSeq
  <2>2. InsertAt(l, Len(l) + 1, t) = Append(l, t)
    <3>1. SubSeq(l, 1, (Len(l) + 1) - 1) = l
      BY <1>1
    <3>2. SubSeq(l, Len(l) + 1, Len(l)) = <<>>
      BY <1>1
    <3>3. l \o <<t>> \o <<>> = Append(l, t)
      OBVIOUS
    <3> QED BY <3>1, <3>2, <3>3 DEF InsertAt
  <2>3. Len(l) + 1 \in 1 .. Len(l) + 1 /\ ~ (Len(l) + 1 <= Len(l)) /\ (Len(l) + 1) - 1 = Len(l)
    BY <1>1
  <2>4. \A j \in 1 .. Len(l) : priority[l[j]] >= priority[t]
    BY <1>1, <1>2
  <2> QED BY <2>1, <2>2, <2>3, <2>4
<1>3. CASE I # {}
  <2>1. I \in SUBSET Nat
    OBVIOUS
  <2>2. Min(I) \in I /\ \A j \in I : Min(I) <= j
    BY <1>3, <2>1, MinFacts
  <2>3. PICK n : n = Min(I)
    OBVIOUS
  <2>4. Inserted(l, priority, t) = InsertAt(l, n, t)
    BY <1>3, <2>2, <2>3 DEF Inserted, SelectInSeq
  <2>5. n \in 1 .. Len(l) /\ priority[t] > priority[l[n]] /\ \A j \in I : n <= j
    BY <2>2, <2>3
  <2>6. ASSUME NEW j \in 1 .. n - 1 PROVE priority[l[j]] >= priority[t]
    <3>1. j \in 1 .. Len(l) /\ ~ (n <= j)
      BY <1>1, <2>5
    <3> QED BY <1>1, <2>5, <3>1
  <2>7. n \in 1 .. Len(l) + 1
    BY <1>1, <2>5
  <2> QED BY <2>4, <2>5, <2>6, <2>7
<1> QED BY <1>2, <1>3

\* The list with a timer inserted that was not in it.
LEMMA InsertFacts ==
  ASSUME NEW l \in Seq(Timers), NEW priority \in [Timers -> Nat], NEW t \in Timers,
         IsInjective(l), ~ Contains(l, t), Sorted(l, priority),
         NEW q, q = Inserted(l, priority, t)
  PROVE  /\ q \in Seq(Timers) /\ IsInjective(q)
         /\ \A x : Contains(q, x) <=> Contains(l, x) \/ x = t
         /\ \A a, b : a # t /\ b # t => (Before(q, a, b) <=> Before(l, a, b))
         /\ Sorted(q, priority)
<1>1. PICK n \in 1 .. Len(l) + 1 :
         /\ q = InsertAt(l, n, t)
         /\ \A j \in 1 .. n - 1 : priority[l[j]] >= priority[t]
         /\ n <= Len(l) => priority[t] > priority[l[n]]
  BY InsertedAt
<1>2. /\ Len(l) \in Nat /\ DOMAIN l = 1 .. Len(l)
      /\ \A i \in 1 .. Len(l) : l[i] \in Timers /\ l[i] # t /\ priority[l[i]] \in Nat
      /\ \A i, j \in 1 .. Len(l) : l[i] = l[j] => i = j
      /\ priority[t] \in Nat
  BY DEF IsInjective, Contains
<1>3. /\ q \in Seq(Timers) /\ Len(q) = Len(l) + 1
      /\ \A i \in 1 .. Len(l) + 1 :
            q[i] = IF i < n THEN l[i] ELSE IF i = n THEN t ELSE l[i - 1]
  <2>1. /\ InsertAt(l, n, t) \in Seq(Timers) /\ Len(InsertAt(l, n, t)) = Len(l) + 1
        /\ \A i \in 1 .. Len(l) + 1 :
              InsertAt(l, n, t)[i] = IF i < n THEN l[i] ELSE IF i = n THEN t ELSE l[i - 1]
    BY InsertAtFacts
  <2> QED BY ONLY <1>1, <2>1
\* A place of the one list and of the other.
<1>4. \A i \in 1 .. Len(l) :
         \E k \in 1 .. Len(q) : q[k] = l[i] /\ k = IF i < n THEN i ELSE i + 1
  <2>1. SUFFICES ASSUME NEW i \in 1 .. Len(l)
                 PROVE  \E k \in 1 .. Len(q) : q[k] = l[i] /\ k = IF i < n THEN i ELSE i + 1
    OBVIOUS
  <2>2. CASE i < n
    <3>1. i \in 1 .. Len(q) /\ q[i] = l[i]
      BY <1>2, <1>3, <2>2
    <3> QED BY <2>2, <3>1
  <2>3. CASE ~ (i < n)
    <3>1. /\ i + 1 \in 1 .. Len(l) + 1 /\ ~ (i + 1 < n) /\ i + 1 # n /\ (i + 1) - 1 = i
      BY <1>1, <1>2, <2>3
    <3>2. q[i + 1] = l[i]
      BY <1>3, <3>1
    <3> QED BY <1>3, <2>3, <3>1, <3>2
  <2> QED BY <2>2, <2>3
<1>5. \A k \in 1 .. Len(q) : k # n =>
         \E i \in 1 .. Len(l) : q[k] = l[i] /\ i = IF k < n THEN k ELSE k - 1
  <2>1. SUFFICES ASSUME NEW k \in 1 .. Len(q), k # n
                 PROVE  \E i \in 1 .. Len(l) : q[k] = l[i] /\ i = IF k < n THEN k ELSE k - 1
    OBVIOUS
  <2>2. PICK i \in 1 .. Len(l) : i = IF k < n THEN k ELSE k - 1
    BY <1>1, <1>2, <1>3, <2>1
  <2>3. k \in 1 .. Len(l) + 1
    BY <1>3
  <2>4. q[k] = IF k < n THEN l[k] ELSE l[k - 1]
    BY <1>3, <2>1, <2>3
  <2> QED BY <2>2, <2>4
<1>6. n \in 1 .. Len(q) /\ q[n] = t
  BY <1>1, <1>2, <1>3
<1>7. \A k \in 1 .. Len(q) : k # n => q[k] # t
  BY <1>2, <1>5
<1>8. IsInjective(q)
  <2>1. DOMAIN q = 1 .. Len(q)
    BY <1>3
  <2>2. ASSUME NEW k \in 1 .. Len(q), NEW m \in 1 .. Len(q), q[k] = q[m] PROVE k = m
    <3>1. CASE k = n \/ m = n
      BY <1>6, <1>7, <2>2, <3>1
    <3>2. CASE k # n /\ m # n
      <4>1. PICK i \in 1 .. Len(l) : q[k] = l[i] /\ i = IF k < n THEN k ELSE k - 1
        BY <1>5, <3>2
      <4>2. PICK j \in 1 .. Len(l) : q[m] = l[j] /\ j = IF m < n THEN m ELSE m - 1
        BY <1>5, <3>2
      <4>3. i = j
        BY <1>2, <2>2, <4>1, <4>2
      <4> QED BY <1>3, <3>2, <4>1, <4>2, <4>3
    <3> QED BY <3>1, <3>2
  <2> QED BY <2>1, <2>2 DEF IsInjective
<1>9. \A x : Contains(q, x) <=> Contains(l, x) \/ x = t
  <2>1. ASSUME NEW x, Contains(q, x), x # t PROVE Contains(l, x)
    <3>1. PICK k \in 1 .. Len(q) : q[k] = x
      BY <2>1 DEF Contains
    <3>2. k # n
      BY <1>6, <2>1, <3>1
    <3> QED BY <1>5, <3>1, <3>2 DEF Contains
  <2>2. ASSUME NEW x, Contains(l, x) PROVE Contains(q, x)
    BY <1>4, <2>2 DEF Contains
  <2>3. Contains(q, t)
    BY <1>6 DEF Contains
  <2> QED BY <2>1, <2>2, <2>3
<1>10. ASSUME NEW a, NEW b, a # t, b # t, Before(q, a, b) PROVE Before(l, a, b)
  <2>1. PICK k, m \in 1 .. Len(q) : k < m /\ q[k] = a /\ q[m] = b
    BY <1>10 DEF Before
  <2>2. k # n /\ m # n
    BY <1>6, <1>10, <2>1
  <2>3. PICK i \in 1 .. Len(l) : q[k] = l[i] /\ i = IF k < n THEN k ELSE k - 1
    BY <1>5, <2>2
  <2>4. PICK j \in 1 .. Len(l) : q[m] = l[j] /\ j = IF m < n THEN m ELSE m - 1
    BY <1>5, <2>2
  <2>5. i < j
    BY <1>3, <2>1, <2>2, <2>3, <2>4, SMTT(30)
  <2> QED BY <2>1, <2>3, <2>4, <2>5 DEF Before
<1>11. ASSUME NEW a, NEW b, Before(l, a, b) PROVE Before(q, a, b)
  <2>1. PICK i, j \in 1 .. Len(l) : i < j /\ l[i] = a /\ l[j] = b
    BY <1>11 DEF Before
  <2>2. PICK k \in 1 .. Len(q) : q[k] = l[i] /\ k = IF i < n THEN i ELSE i + 1
    BY <1>4
  <2>3. PICK m \in 1 .. Len(q) : q[m] = l[j] /\ m = IF j < n THEN j ELSE j + 1
    BY <1>4
  <2>4. k < m
    BY <2>1, <2>2, <2>3
  <2> QED BY <2>1, <2>2, <2>3, <2>4 DEF Before
<1>12. ASSUME NEW a, NEW b, Before(q, a, b) PROVE priority[a] >= priority[b]
  <2>1. CASE a # t /\ b # t
    BY <1>10, <1>12, <2>1 DEF Sorted
  <2>2. PICK k, m \in 1 .. Len(q) : k < m /\ q[k] = a /\ q[m] = b
    BY <1>12 DEF Before
  <2>3. CASE b = t
    <3>1. m = n
      BY <1>7, <2>2, <2>3
    <3>2. PICK i \in 1 .. Len(l) : q[k] = l[i] /\ i = IF k < n THEN k ELSE k - 1
      BY <1>5, <2>2, <3>1
    <3>3. i \in 1 .. n - 1
      BY <1>1, <2>2, <3>1, <3>2
    <3> QED BY <1>1, <2>2, <2>3, <3>2, <3>3
  <2>4. CASE a = t
    <3>1. k = n
      BY <1>7, <2>2, <2>4
    <3>2. PICK j \in 1 .. Len(l) : q[m] = l[j] /\ j = IF m < n THEN m ELSE m - 1
      BY <1>5, <2>2, <3>1
    <3>3. n <= j /\ n \in 1 .. Len(l)
      BY <1>2, <1>3, <2>2, <3>1, <3>2
    <3>4. priority[t] > priority[l[n]]
      BY <1>1, <3>3
    <3>5. priority[l[n]] >= priority[l[j]]
      <4>1. CASE n = j
        BY <1>2, <3>3, <4>1
      <4>2. CASE n # j
        <5>1. n < j
          BY <1>2, <3>2, <3>3, <4>2
        <5>2. Before(l, l[n], l[j])
          BY ONLY <3>2, <3>3, <5>1 DEF Before
        <5> QED BY <5>2 DEF Sorted
      <4> QED BY <4>1, <4>2
    <3> QED BY <1>2, <2>2, <2>4, <3>2, <3>3, <3>4, <3>5
  <2> QED BY <2>1, <2>3, <2>4
<1> QED BY <1>3, <1>8, <1>9, <1>10, <1>11, <1>12 DEF Sorted

\* The first of a list.
LEMMA FirstFacts ==
  ASSUME NEW l \in Seq(Timers)
  PROVE  /\ First(l) \in Timers \cup {Null}
         /\ First(l) # Null => Contains(l, First(l))
         /\ \A t : Contains(l, t) =>
                      First(l) # Null /\ (t = First(l) \/ Before(l, First(l), t))
<1>1. Len(l) \in Nat /\ \A i \in 1 .. Len(l) : l[i] \in Timers
  OBVIOUS
<1>2. CASE l = <<>>
  <2>1. Len(l) = 0 /\ First(l) = Null
    BY <1>2 DEF First
  <2>2. ~ \E i \in 1 .. Len(l) : TRUE
    BY <2>1
  <2> QED BY <2>1, <2>2 DEF Contains
<1>3. CASE l # <<>>
  <2>1. 1 \in 1 .. Len(l)
    BY <1>1, <1>3
  <2>2. First(l) = l[1]
    BY <1>3 DEF First
  <2>3. First(l) \in Timers /\ First(l) # Null /\ Contains(l, First(l))
    BY <1>1, <2>1, <2>2, TimerAssumption DEF Contains
  <2>4. ASSUME NEW t, Contains(l, t), t # First(l) PROVE Before(l, First(l), t)
    <3>1. PICK i \in 1 .. Len(l) : l[i] = t
      BY <2>4 DEF Contains
    <3>2. i # 1
      BY <2>2, <2>4, <3>1
    <3>3. 1 < i
      BY <1>1, <3>1, <3>2
    <3> QED BY <2>1, <2>2, <3>1, <3>3 DEF Before
  <2> QED BY <2>3, <2>4
<1> QED BY <1>2, <1>3

\* The one behind a timer.
LEMMA NextFacts ==
  ASSUME NEW l \in Seq(Timers), IsInjective(l), NEW t, Contains(l, t)
  PROVE  /\ NextOf(l, t) \in Timers \cup {Null}
         /\ NextOf(l, t) # Null =>
               Contains(l, NextOf(l, t)) /\ NextOf(l, t) # t /\ Before(l, t, NextOf(l, t))
         /\ \A u : Before(l, t, u) =>
                      NextOf(l, t) # Null /\ (u = NextOf(l, t) \/ Before(l, NextOf(l, t), u))
<1> DEFINE I == {i \in 1 .. Len(l) : l[i] = t}
<1>1. I \in SUBSET Nat /\ I # {}
  BY DEF Contains
<1>2. Min(I) \in I
  BY <1>1, MinFacts
<1>3. NextOf(l, t) = IF Min(I) = Len(l) THEN Null ELSE l[Min(I) + 1]
  BY <1>1 DEF NextOf, SelectInSeq
<1>4. PICK n : n = Min(I)
  OBVIOUS
<1>5. n \in 1 .. Len(l) /\ l[n] = t /\ NextOf(l, t) = IF n = Len(l) THEN Null ELSE l[n + 1]
  BY <1>2, <1>3, <1>4
<1> HIDE DEF I
<1>6. /\ Len(l) \in Nat /\ \A i \in 1 .. Len(l) : l[i] \in Timers /\ l[i] # Null
      /\ \A i, j \in 1 .. Len(l) : l[i] = l[j] => i = j
  BY TimerAssumption DEF IsInjective
<1>7. ASSUME NextOf(l, t) # Null
      PROVE  /\ NextOf(l, t) \in Timers
             /\ Contains(l, NextOf(l, t)) /\ NextOf(l, t) # t /\ Before(l, t, NextOf(l, t))
  <2>1. n # Len(l)
    BY <1>5, <1>7
  <2>2. n + 1 \in 1 .. Len(l) /\ n < n + 1 /\ n + 1 # n
    BY <1>5, <1>6, <2>1
  <2>3. NextOf(l, t) = l[n + 1]
    BY <1>5, <2>1
  <2>4. Before(l, t, l[n + 1])
    BY <1>5, <2>2 DEF Before
  <2>5. Contains(l, l[n + 1]) /\ l[n + 1] # t
    BY <1>5, <1>6, <2>2 DEF Contains
  <2> QED BY <1>6, <2>2, <2>3, <2>4, <2>5
<1>8. ASSUME NEW u, Before(l, t, u)
      PROVE  NextOf(l, t) # Null /\ (u = NextOf(l, t) \/ Before(l, NextOf(l, t), u))
  <2>1. PICK i, j \in 1 .. Len(l) : i < j /\ l[i] = t /\ l[j] = u
    BY <1>8 DEF Before
  <2>2. i = n
    BY <1>5, <1>6, <2>1
  <2>3. n # Len(l) /\ n + 1 \in 1 .. Len(l) /\ (j = n + 1 \/ n + 1 < j)
    BY <1>5, <1>6, <2>1, <2>2
  <2>4. NextOf(l, t) = l[n + 1] /\ NextOf(l, t) # Null
    BY <1>5, <1>6, <2>3
  <2> QED BY <2>1, <2>3, <2>4 DEF Before
<1> QED BY <1>7, <1>8

\* Order by places and order by timers.
LEMMA SortedDef ==
  ASSUME NEW l \in Seq(Timers), NEW f
  PROVE  Sorted(l, PriorityOf(f)) <=>
            \A i, j \in 1 .. Len(l) : i < j => f[l[i]].priority >= f[l[j]].priority
<1>1. \A i \in 1 .. Len(l) : l[i] \in Timers
  OBVIOUS
<1>2. \A i \in 1 .. Len(l) : PriorityOf(f)[l[i]] = f[l[i]].priority
  BY <1>1 DEF PriorityOf
<1>3. ASSUME Sorted(l, PriorityOf(f)), NEW i \in 1 .. Len(l), NEW j \in 1 .. Len(l), i < j
      PROVE  f[l[i]].priority >= f[l[j]].priority
  <2>1. Before(l, l[i], l[j])
    BY <1>3 DEF Before
  <2> QED BY <1>2, <1>3, <2>1 DEF Sorted
<1>4. ASSUME \A i, j \in 1 .. Len(l) : i < j => f[l[i]].priority >= f[l[j]].priority,
             NEW a, NEW b, Before(l, a, b)
      PROVE  PriorityOf(f)[a] >= PriorityOf(f)[b]
  BY <1>2, <1>4 DEF Before
<1> QED BY <1>3, <1>4 DEF Sorted

------------------------------------------------------------------------------
(* The walk. *)

\* The parts of the invariant that follow from the others, after a step.
LEMMA Derived ==
  ASSUME TypeOK', PlaceInv', DueInv', IsInjective(list'), Sorted(list, PriorityOf(timer))',
         (Cursor # Null => IsRunning(Cursor))',
         ~ shot'.late, shot'.again => shot'.fresh
  PROVE  ListOrdered' /\ WalkExact'
<1>1. list' \in Seq(Timers) /\ walk'.at \in {"idle", "walk", "callback"}
  BY DEF TypeOK, WalkType
<1>2. \A i, j \in 1 .. Len(list') :
         i < j => timer'[list'[i]].priority >= timer'[list'[j]].priority
  <2>1. PICK l \in Seq(Timers) : l = list'
    BY <1>1
  <2>2. PICK f : f = timer'
    OBVIOUS
  <2>3. Sorted(l, PriorityOf(f))
    BY <2>1, <2>2 DEF Sorted, PriorityOf
  <2>4. \A i, j \in 1 .. Len(l) : i < j => f[l[i]].priority >= f[l[j]].priority
    BY <2>3, SortedDef
  <2> QED BY <2>1, <2>2, <2>4
<1>3. walk'.at = "walk" /\ walk'.node # Null => IsRunning(walk.node)'
  BY DEF Cursor, InCallback
<1>4. walk'.next # Null => IsRunning(walk.next)'
  BY <1>1 DEF Cursor, InCallback, PlaceInv, Outside
<1>5. walk'.at = "walk" /\ walk'.node = Null => due' \subseteq fired'
  BY DEF DueInv, Ahead, Cursor, InCallback, Outside
<1> QED BY <1>2, <1>3, <1>4, <1>5 DEF ListOrdered, WalkExact

\* Priorities are numbers.
LEMMA PriorityFacts ==
  ASSUME IInv
  PROVE  shot.priority \in Nat /\ \A x \in Timers : timer[x].priority \in Nat
<1>1. /\ \A x \in Timers : timer[x].priority \in Priorities \cup {0}
      /\ shot.priority \in Priorities \cup {0}
  BY DEF IInv, TypeOK, TimerType, ShotType
<1>2. Priorities \cup {0} \subseteq Nat
  BY TimerAssumption
<1> QED BY <1>1, <1>2

\* What the invariant says of the list and the cursor.
LEMMA CursorFacts ==
  ASSUME IInv
  PROVE  /\ list \in Seq(Timers) /\ IsInjective(list) /\ Sorted(list, PriorityOf(timer))
         /\ \A x : IsRunning(x) => x \in Timers
         /\ Cursor \in Timers \cup {Null}
         /\ Cursor # Null => IsRunning(Cursor)
         /\ Outside => Cursor = Null
         /\ PriorityOf(timer) \in [Timers -> Nat]
         /\ \A x \in Timers : PriorityOf(timer)[x] = timer[x].priority
<1>1. list \in Seq(Timers) /\ IsInjective(list) /\ Sorted(list, PriorityOf(timer))
  BY SortedDef DEF IInv, TypeOK, ListOrdered
<1>2. \A x : IsRunning(x) => x \in Timers
  BY <1>1, BeforeFacts DEF IsRunning
<1>3. Cursor \in Timers \cup {Null}
  BY DEF IInv, TypeOK, Cursor, WalkType
<1>4. Outside => Cursor = Null
  BY DEF IInv, PlaceInv, Cursor, Outside, InCallback
<1>5. Cursor # Null => IsRunning(Cursor)
  BY DEF IInv, PlaceInv, TypeOK, WalkType, ListOrdered, Cursor, Outside, InCallback
<1>6. \A x \in Timers : timer[x].priority \in Nat
  BY PriorityFacts
<1> QED BY <1>1, <1>2, <1>3, <1>4, <1>5, <1>6 DEF PriorityOf

\* A step that changes one timer, which is no other than the host or the callback
\* may change: the walk loses sight of nothing.
LEMMA TouchStep ==
  ASSUME IInv, TypeOK', PlaceInv', NEW t \in Timers,
         MayStart(t),
         IsInjective(list'), Sorted(list, PriorityOf(timer))',
         \A x : x # t => (IsRunning(x)' <=> IsRunning(x)),
         \A a, b : a # t /\ b # t => (Before(list', a, b) <=> Before(list, a, b)),
         \A x \in Timers : x # t => timer'[x] = timer[x] /\ age'[x] = age[x],
         Outside' <=> Outside, Cursor' = Cursor, walk'.now = walk.now,
         \A x : x # t => (x \in walk'.fresh <=> x \in walk.fresh),
         UNCHANGED <<clock, due, fired, shot>>,
         IsRunning(t)' => timer'[t].period \in Periods,
         Active(t)' =>
            /\ age'[t] = Minus(clock, timer'[t].last)
            /\ ~ Outside /\ t \notin walk'.fresh =>
                  /\ Minus(clock, walk.now) <= age'[t]
                  /\ Minus(walk.now, timer'[t].last) < timer'[t].period
  PROVE  IInv'
<1>1. Cursor # t \/ Cursor = Null
  BY CursorFacts, TimerAssumption
     DEF MayStart, MayTouch, Cursor, InCallback, Outside, IInv, PlaceInv
<1>2. (Cursor # Null => IsRunning(Cursor))'
  BY <1>1, CursorFacts
<1>3. ~ Outside => t \notin due \ fired
  BY DEF MayStart, MayTouch, IInv, PlaceInv, DueInv, Ahead
<1>4. OrderInv'
  BY <1>1, CursorFacts, TimerAssumption DEF IInv, OrderInv
<1>5. DueInv'
  <2>1. SUFFICES ASSUME ~ Outside, NEW x \in due \ fired
                 PROVE  Ahead(x)' /\ IsDue(x, walk.now)'
    BY DEF DueInv
  <2>2. x # t /\ x \in Timers /\ Ahead(x) /\ IsDue(x, walk.now)
    BY <1>3, <2>1 DEF IInv, DueInv, TypeOK
  <2>3. Ahead(x)'
    BY <1>1, <2>2 DEF Ahead
  <2>4. IsDue(x, walk.now)'
    BY <2>2 DEF IsDue
  <2> QED BY <2>3, <2>4
<1>6. PeriodInv'
  BY DEF IInv, PeriodInv
<1>7. CalmInv'
  <2>1. SUFFICES ASSUME ~ Outside, NEW x \in Timers, x # t, Active(x)', x \notin walk'.fresh,
                        x \notin due \/ x \in fired
                 PROVE  Minus(walk.now, timer[x].last) < timer[x].period
    BY DEF CalmInv
  <2>2. Active(x) /\ x \notin walk.fresh
    BY <2>1 DEF Active
  <2> QED BY <2>1, <2>2 DEF IInv, CalmInv
<1>8. AgeInv'
  <2>1. SUFFICES ASSUME NEW x \in Timers, x # t, Active(x)'
                 PROVE  /\ age[x] = Minus(clock, timer[x].last)
                        /\ ~ Outside /\ x \notin walk.fresh => Minus(clock, walk.now) <= age[x]
    BY DEF AgeInv
  <2>2. Active(x)
    BY <2>1 DEF Active
  <2> QED BY <2>1, <2>2 DEF IInv, AgeInv
<1>9. (~ shot.late /\ (shot.again => shot.fresh) /\ InTime)'
  BY DEF IInv, WalkExact, InTime
<1>10. ListOrdered' /\ WalkExact'
  BY <1>2, <1>5, <1>9, Derived
<1> QED BY <1>4, <1>5, <1>6, <1>7, <1>8, <1>9, <1>10 DEF IInv

LEMMA Zero == 0 \in 0 .. TickMax /\ TickMax \in Nat /\ Null \notin Timers
BY TimerAssumption DEF TickMax

LEMMA PeriodFacts == \A p \in Periods : p \in Nat /\ p > 0 /\ p <= TickMax
<1>1. Periods \subseteq 1 .. Modulus - 1 /\ Modulus \in Nat \ {0}
  BY TimerAssumption
<1> QED BY <1>1 DEF TickMax

LEMMA InitStep == Init => IInv
<1> SUFFICES ASSUME Init PROVE IInv
  OBVIOUS
<1>1. Cleared \in TimerType
  BY Zero DEF Cleared, TimerType
<1>2. NoWalk \in WalkType
  BY Zero DEF NoWalk, WalkType
<1>3. NoShot \in ShotType
  BY DEF NoShot, ShotType
<1>4. TypeOK
  BY <1>1, <1>2, <1>3, Zero DEF Init, TypeOK
<1>5. Len(list) = 0 /\ list = <<>>
  BY DEF Init
<1>6. /\ \A i \in 1 .. Len(list) : FALSE
      /\ \A x : ~ IsRunning(x)
  BY <1>5 DEF IsRunning, Contains
<1>7. IsInjective(list)
  BY <1>5, <1>6 DEF IsInjective
<1>8. Outside /\ walk.node = Null /\ walk.next = Null /\ walk.at = "idle" /\ ~ InCallback
  BY DEF Init, NoWalk, Outside, InCallback
<1>9. ListOrdered
  BY <1>6, <1>7, <1>8 DEF ListOrdered
<1>10. WalkExact /\ InTime
  BY <1>8 DEF Init, NoShot, WalkExact, InTime
<1>11. PlaceInv
  BY <1>8 DEF Init, PlaceInv, Outside
<1>12. PeriodInv /\ OrderInv /\ DueInv /\ CalmInv /\ AgeInv
  BY <1>6, <1>8 DEF Init, PeriodInv, OrderInv, DueInv, CalmInv, AgeInv, Active
<1> QED BY <1>4, <1>9, <1>10, <1>11, <1>12 DEF IInv

\* A timer whose fields were changed is still one.
LEMMA TimerUpdates ==
  ASSUME NEW r \in TimerType
  PROVE  /\ \A b \in BOOLEAN : [r EXCEPT !.paused = b] \in TimerType
         /\ \A n \in 0 .. TickMax : [r EXCEPT !.last = n] \in TimerType
         /\ \A n \in 0 .. TickMax : [r EXCEPT !.paused = FALSE, !.last = n] \in TimerType
         /\ \A n \in Priorities : [r EXCEPT !.priority = n] \in TimerType
BY DEF TimerType

\* What a change of one timer does to the fields.
LEMMA OneTimer ==
  ASSUME timer \in [Timers -> TimerType], NEW t \in Timers, NEW r \in TimerType
  PROVE  /\ [timer EXCEPT ![t] = r] \in [Timers -> TimerType]
         /\ \A x \in Timers : [timer EXCEPT ![t] = r][x] = IF x = t THEN r ELSE timer[x]
OBVIOUS

\* A note in the walk leaves its place alone.
LEMMA NoteFacts ==
  ASSUME TypeOK, NEW t \in Timers, NEW now \in Ticks, Note(t, now)
  PROVE  /\ walk' \in WalkType /\ now \in 0 .. TickMax
         /\ walk'.at = walk.at /\ walk'.now = walk.now
         /\ walk'.node = walk.node /\ walk'.next = walk.next
         /\ \A x : x # t => (x \in walk'.fresh <=> x \in walk.fresh)
         /\ InCallback /\ t \notin walk'.fresh => now = walk.now
         /\ ~ InCallback => now = clock
<1>1. walk \in WalkType /\ clock \in 0 .. TickMax
  BY DEF TypeOK
<1>2. now \in 0 .. TickMax /\ (~ InCallback => now = clock)
  BY <1>1 DEF Ticks, WalkType
<1>3. PICK fresh \in SUBSET Timers :
         fresh = IF InCallback /\ now # walk.now THEN walk.fresh \cup {t} ELSE walk.fresh \ {t}
  BY <1>1 DEF WalkType
<1>4. walk' = [walk EXCEPT !.fresh = fresh]
  BY <1>3 DEF Note
<1>5. /\ walk' \in WalkType /\ walk'.fresh = fresh
      /\ walk'.at = walk.at /\ walk'.now = walk.now
      /\ walk'.node = walk.node /\ walk'.next = walk.next
  BY <1>1, <1>4 DEF WalkType
<1> QED BY <1>2, <1>3, <1>5

\* Nothing else depends on what a note changes.
LEMMA SamePlace ==
  ASSUME PlaceInv, walk'.at = walk.at, walk'.node = walk.node, walk'.next = walk.next,
         UNCHANGED <<due, fired>>
  PROVE  PlaceInv' /\ (Outside' <=> Outside) /\ Cursor' = Cursor
BY DEF PlaceInv, Outside, InCallback, Cursor

\* The list without a timer whose priority, as the only one, may have changed, and
\* with it in its new place.
LEMMA RelinkFacts ==
  ASSUME IInv, NEW t \in Timers, NEW f \in [Timers -> TimerType],
         \A x \in Timers : x # t => f[x] = timer[x]
  PROVE  /\ Unlinked(list, t) \in Seq(Timers) /\ IsInjective(Unlinked(list, t))
         /\ Sorted(Unlinked(list, t), PriorityOf(f))
         /\ \A x : Contains(Unlinked(list, t), x) <=> IsRunning(x) /\ x # t
         /\ \A a, b : a # t /\ b # t =>
               (Before(Unlinked(list, t), a, b) <=> Before(list, a, b))
         /\ \E q \in Seq(Timers) :
               /\ q = Inserted(Unlinked(list, t), PriorityOf(f), t)
               /\ IsInjective(q) /\ Sorted(q, PriorityOf(f))
               /\ \A x : Contains(q, x) <=> IsRunning(x) \/ x = t
               /\ \A a, b : a # t /\ b # t => (Before(q, a, b) <=> Before(list, a, b))
<1> DEFINE l == Unlinked(list, t)
           p == PriorityOf(f)
<1>1. /\ list \in Seq(Timers) /\ IsInjective(list) /\ Sorted(list, PriorityOf(timer))
      /\ \A x \in Timers : PriorityOf(timer)[x] = timer[x].priority
  BY CursorFacts
<1>2. /\ l \in Seq(Timers) /\ IsInjective(l)
      /\ \A x : Contains(l, x) <=> Contains(list, x) /\ x # t
      /\ \A a, b : Before(l, a, b) <=> Before(list, a, b) /\ a # t /\ b # t
  BY <1>1, UnlinkFacts
<1>3. p \in [Timers -> Nat] /\ \A x \in Timers : p[x] = f[x].priority
  <2>1. \A x \in Timers : f[x].priority \in Priorities \cup {0}
    BY DEF TimerType
  <2>2. Priorities \cup {0} \subseteq Nat
    BY TimerAssumption
  <2> QED BY <2>1, <2>2 DEF PriorityOf
<1>4. Sorted(l, p)
  <2>1. SUFFICES ASSUME NEW a, NEW b, Before(l, a, b) PROVE p[a] >= p[b]
    BY DEF Sorted
  <2>2. Before(list, a, b) /\ a # t /\ b # t
    BY <1>2, <2>1
  <2>3. a \in Timers /\ b \in Timers
    BY <1>1, <2>2, BeforeFacts
  <2>4. PriorityOf(timer)[a] >= PriorityOf(timer)[b]
    BY <1>1, <2>2 DEF Sorted
  <2> QED BY <1>1, <1>3, <2>2, <2>3, <2>4
<1> HIDE DEF l, p
<1>5. PICK q : q = Inserted(l, p, t)
  OBVIOUS
<1>6. /\ q \in Seq(Timers) /\ IsInjective(q)
      /\ \A x : Contains(q, x) <=> Contains(l, x) \/ x = t
      /\ \A a, b : a # t /\ b # t => (Before(q, a, b) <=> Before(l, a, b))
      /\ Sorted(q, p)
  BY <1>2, <1>3, <1>4, <1>5, InsertFacts
<1>7. \A x : Contains(q, x) <=> IsRunning(x) \/ x = t
  BY <1>2, <1>6 DEF IsRunning
<1>8. \A a, b : a # t /\ b # t => (Before(q, a, b) <=> Before(list, a, b))
  BY <1>2, <1>6
<1> QED BY <1>2, <1>4, <1>5, <1>6, <1>7, <1>8 DEF l, p, IsRunning

------------------------------------------------------------------------------
(* The operations on one timer. *)

LEMMA StopStep ==
  ASSUME IInv, NEW t \in Timers, Stop(t)
  PROVE  IInv'
<1>1. TypeOK /\ timer \in [Timers -> TimerType] /\ age \in [Timers -> 0 .. TickMax]
  BY DEF IInv, TypeOK
<1>2. PICK r \in TimerType : r = [timer[t] EXCEPT !.paused = FALSE]
  BY <1>1, TimerUpdates
<1>3. timer' = [timer EXCEPT ![t] = r]
  BY <1>2 DEF Stop
<1>4. /\ timer' \in [Timers -> TimerType]
      /\ \A x \in Timers : timer'[x] = IF x = t THEN r ELSE timer[x]
  BY <1>1, <1>3, OneTimer
<1>5. age' \in [Timers -> 0 .. TickMax] /\ \A x \in Timers : x # t => age'[x] = age[x]
  BY <1>1, Zero DEF Stop
<1>6. list' = Unlinked(list, t) /\ UNCHANGED <<clock, walk, due, fired, shot>> /\ MayTouch(t)
  BY DEF Stop
<1>7. PICK f : f = timer'
  OBVIOUS
<1>8. /\ list' \in Seq(Timers) /\ IsInjective(list')
      /\ Sorted(list', PriorityOf(f))
      /\ \A x : Contains(list', x) <=> IsRunning(x) /\ x # t
      /\ \A a, b : a # t /\ b # t => (Before(list', a, b) <=> Before(list, a, b))
  <2>1. f \in [Timers -> TimerType] /\ \A x \in Timers : x # t => f[x] = timer[x]
    BY <1>4, <1>7
  <2> QED BY <1>6, <2>1, RelinkFacts
<1>9. TypeOK'
  BY <1>1, <1>4, <1>5, <1>6, <1>8 DEF TypeOK
<1>10. Sorted(list, PriorityOf(timer))'
  BY <1>7, <1>8 DEF Sorted, PriorityOf, Before
<1>11. ~ IsRunning(t)' /\ \A x : x # t => (IsRunning(x)' <=> IsRunning(x))
  BY <1>8 DEF IsRunning
<1>12. PlaceInv' /\ (Outside' <=> Outside) /\ Cursor' = Cursor
  BY <1>6, SamePlace DEF IInv
<1> QED BY <1>4, <1>5, <1>6, <1>8, <1>9, <1>10, <1>11, <1>12, TouchStep DEF MayStart, Active

\* A timer that was given a tick of the walk or a later one.
LEMMA TickedStep ==
  ASSUME IInv, NEW t \in Timers, NEW now \in Ticks, Note(t, now), MayStart(t),
         NEW r \in TimerType, timer' = [timer EXCEPT ![t] = r],
         r.last = now, r.period \in Periods,
         age' = [age EXCEPT ![t] = Minus(clock, now)],
         UNCHANGED <<clock, due, fired, shot>>,
         list' \in Seq(Timers), IsInjective(list'), Sorted(list, PriorityOf(timer))',
         \A x : x # t => (IsRunning(x)' <=> IsRunning(x)),
         \A a, b : a # t /\ b # t => (Before(list', a, b) <=> Before(list, a, b))
  PROVE  IInv'
<1>1. /\ TypeOK /\ timer \in [Timers -> TimerType] /\ age \in [Timers -> 0 .. TickMax]
      /\ clock \in 0 .. TickMax /\ walk \in WalkType
  BY DEF IInv, TypeOK
<1>2. /\ walk' \in WalkType /\ now \in 0 .. TickMax
      /\ walk'.at = walk.at /\ walk'.now = walk.now
      /\ walk'.node = walk.node /\ walk'.next = walk.next
      /\ \A x : x # t => (x \in walk'.fresh <=> x \in walk.fresh)
      /\ InCallback /\ t \notin walk'.fresh => now = walk.now
  BY <1>1, NoteFacts
<1>3. Minus(clock, now) \in 0 .. TickMax /\ Minus(now, now) = 0
  BY <1>1, <1>2, MinusFacts
<1>4. /\ timer' \in [Timers -> TimerType]
      /\ \A x \in Timers : timer'[x] = IF x = t THEN r ELSE timer[x]
  BY <1>1, OneTimer
<1>5. /\ age' \in [Timers -> 0 .. TickMax] /\ age'[t] = Minus(clock, now)
      /\ \A x \in Timers : x # t => age'[x] = age[x]
  BY <1>1, <1>3
<1>6. TypeOK'
  BY <1>1, <1>2, <1>4, <1>5 DEF TypeOK
<1>7. PlaceInv' /\ (Outside' <=> Outside) /\ Cursor' = Cursor
  BY <1>2, SamePlace DEF IInv
<1>8. ~ Outside => InCallback
  BY DEF MayStart, MayTouch
<1>9. ASSUME ~ Outside, t \notin walk'.fresh
      PROVE  Minus(clock, walk.now) <= age'[t] /\ Minus(walk.now, timer'[t].last) < timer'[t].period
  <2>1. now = walk.now
    BY <1>2, <1>8, <1>9
  <2>2. r.period > 0 /\ r.period \in Nat
    BY PeriodFacts
  <2>3. Minus(walk.now, timer'[t].last) = 0 /\ timer'[t].period = r.period
    BY <1>3, <1>4, <2>1
  <2>4. Minus(clock, walk.now) = age'[t] /\ age'[t] \in Nat
    BY <1>3, <1>5, <2>1, Zero
  <2> QED BY <2>2, <2>3, <2>4
<1>10. age'[t] = Minus(clock, timer'[t].last) /\ timer'[t].period \in Periods
  BY <1>4, <1>5
<1> QED BY <1>2, <1>4, <1>5, <1>6, <1>7, <1>9, <1>10, TouchStep

LEMMA StartStep ==
  ASSUME IInv, NEW t \in Timers, NEW period \in Periods, NEW repeat \in BOOLEAN,
         NEW priority \in Priorities, Start(t, period, repeat, priority)
  PROVE  IInv'
<1>1. TypeOK /\ timer \in [Timers -> TimerType]
  BY DEF IInv, TypeOK
<1>2. PICK now \in Ticks :
         /\ timer' = [timer EXCEPT ![t] = [period |-> period, last |-> now,
                                           priority |-> priority, repeat |-> repeat,
                                           paused |-> FALSE]]
         /\ age' = [age EXCEPT ![t] = Minus(clock, now)]
         /\ Note(t, now)
  BY DEF Start
<1>3. now \in 0 .. TickMax
  BY <1>1, <1>2, NoteFacts
<1>4. PICK r : r = [period |-> period, last |-> now, priority |-> priority,
                    repeat |-> repeat, paused |-> FALSE]
  OBVIOUS
<1>5. r \in TimerType /\ r.last = now /\ r.period = period
  BY <1>3, <1>4 DEF TimerType
<1>6. /\ timer' = [timer EXCEPT ![t] = r] /\ timer' \in [Timers -> TimerType]
      /\ \A x \in Timers : timer'[x] = IF x = t THEN r ELSE timer[x]
  BY <1>1, <1>2, <1>4, <1>5, OneTimer
<1>7. PICK f \in [Timers -> TimerType] : f = timer' /\ \A x \in Timers : x # t => f[x] = timer[x]
  BY <1>6
<1>8. list' = Inserted(Unlinked(list, t), PriorityOf(f), t)
  BY <1>7 DEF Start, PriorityOf
<1>9. /\ list' \in Seq(Timers) /\ IsInjective(list') /\ Sorted(list', PriorityOf(f))
      /\ \A x : Contains(list', x) <=> IsRunning(x) \/ x = t
      /\ \A a, b : a # t /\ b # t => (Before(list', a, b) <=> Before(list, a, b))
  BY <1>7, <1>8, RelinkFacts
<1>10. Sorted(list, PriorityOf(timer))'
  BY <1>7, <1>9 DEF Sorted, PriorityOf, Before
<1>11. \A x : x # t => (IsRunning(x)' <=> IsRunning(x))
  BY <1>9 DEF IsRunning
<1>12. MayStart(t) /\ UNCHANGED <<clock, due, fired, shot>>
  BY DEF Start
<1> QED BY <1>2, <1>5, <1>6, <1>9, <1>10, <1>11, <1>12, TickedStep

\* The list stays as it is.
LEMMA SameList ==
  ASSUME IInv, timer' \in [Timers -> TimerType],
         \A x \in Timers : timer'[x].priority = timer[x].priority,
         UNCHANGED list
  PROVE  /\ list' \in Seq(Timers) /\ IsInjective(list') /\ Sorted(list, PriorityOf(timer))'
         /\ \A x : IsRunning(x)' <=> IsRunning(x)
         /\ \A a, b : Before(list', a, b) <=> Before(list, a, b)
<1>1. list \in Seq(Timers) /\ IsInjective(list) /\ Sorted(list, PriorityOf(timer))
  BY CursorFacts
<1>2. PriorityOf(timer') = PriorityOf(timer)
  BY DEF PriorityOf
<1> QED BY <1>1, <1>2 DEF Sorted, Before, IsRunning

LEMMA PauseStep ==
  ASSUME IInv, NEW t \in Timers, Pause(t)
  PROVE  IInv'
<1>1. TypeOK /\ timer \in [Timers -> TimerType] /\ age \in [Timers -> 0 .. TickMax]
  BY DEF IInv, TypeOK
<1>2. PICK r \in TimerType : r = [timer[t] EXCEPT !.paused = TRUE]
  BY <1>1, TimerUpdates
<1>3. r.priority = timer[t].priority /\ r.period = timer[t].period /\ r.paused
  BY <1>1, <1>2 DEF TimerType
<1>4. timer' = [timer EXCEPT ![t] = r]
  BY <1>2 DEF Pause
<1>5. /\ timer' \in [Timers -> TimerType]
      /\ \A x \in Timers : timer'[x] = IF x = t THEN r ELSE timer[x]
  BY <1>1, <1>4, OneTimer
<1>6. age' \in [Timers -> 0 .. TickMax] /\ \A x \in Timers : x # t => age'[x] = age[x]
  BY <1>1, Zero DEF Pause
<1>7. UNCHANGED <<clock, list, walk, due, fired, shot>> /\ MayTouch(t) /\ IsRunning(t)
  BY DEF Pause
<1>8. \A x \in Timers : timer'[x].priority = timer[x].priority
  BY <1>3, <1>5
<1>9. /\ list' \in Seq(Timers) /\ IsInjective(list') /\ Sorted(list, PriorityOf(timer))'
      /\ \A x : IsRunning(x)' <=> IsRunning(x)
      /\ \A a, b : Before(list', a, b) <=> Before(list, a, b)
  BY <1>5, <1>7, <1>8, SameList
<1>10. TypeOK'
  BY <1>1, <1>5, <1>6, <1>7 DEF TypeOK
<1>11. PlaceInv' /\ (Outside' <=> Outside) /\ Cursor' = Cursor
  BY <1>7, SamePlace DEF IInv
<1>12. timer'[t].period \in Periods /\ timer'[t].paused
  BY <1>3, <1>5, <1>7 DEF IInv, PeriodInv
<1> QED BY <1>5, <1>6, <1>7, <1>9, <1>10, <1>11, <1>12, TouchStep DEF MayStart, Active

LEMMA ResumeStep ==
  ASSUME IInv, NEW t \in Timers, Resume(t)
  PROVE  IInv'
<1>1. TypeOK /\ timer \in [Timers -> TimerType]
  BY DEF IInv, TypeOK
<1>2. PICK now \in Ticks :
         /\ timer' = Resumed(t, now)
         /\ age' = [age EXCEPT ![t] = Minus(clock, now)]
         /\ Note(t, now)
  BY DEF Resume
<1>3. now \in 0 .. TickMax
  BY <1>1, <1>2, NoteFacts
<1>4. PICK r \in TimerType : r = [timer[t] EXCEPT !.paused = FALSE, !.last = now]
  BY <1>1, <1>3, TimerUpdates
<1>5. r.priority = timer[t].priority /\ r.period = timer[t].period /\ r.last = now
  BY <1>1, <1>4 DEF TimerType
<1>6. timer' = [timer EXCEPT ![t] = r]
  BY <1>1, <1>2, <1>4 DEF Resumed
<1>7. /\ timer' \in [Timers -> TimerType]
      /\ \A x \in Timers : timer'[x] = IF x = t THEN r ELSE timer[x]
  BY <1>1, <1>6, OneTimer
<1>8. UNCHANGED <<clock, list, due, fired, shot>> /\ MayTouch(t) /\ IsRunning(t)
  BY DEF Resume
<1>9. \A x \in Timers : timer'[x].priority = timer[x].priority
  BY <1>5, <1>7
<1>10. /\ list' \in Seq(Timers) /\ IsInjective(list') /\ Sorted(list, PriorityOf(timer))'
       /\ \A x : IsRunning(x)' <=> IsRunning(x)
       /\ \A a, b : Before(list', a, b) <=> Before(list, a, b)
  BY <1>7, <1>8, <1>9, SameList
<1>11. r.period \in Periods
  BY <1>5, <1>8 DEF IInv, PeriodInv
<1> QED BY <1>2, <1>5, <1>6, <1>8, <1>10, <1>11, TickedStep DEF MayStart

LEMMA SetPriorityStep ==
  ASSUME IInv, NEW t \in Timers, NEW priority \in Priorities, SetPriority(t, priority)
  PROVE  IInv'
<1>1. TypeOK /\ timer \in [Timers -> TimerType] /\ age \in [Timers -> 0 .. TickMax]
  BY DEF IInv, TypeOK
<1>2. PICK r \in TimerType : r = [timer[t] EXCEPT !.priority = priority]
  BY <1>1, TimerUpdates
<1>3. /\ r.period = timer[t].period /\ r.last = timer[t].last
      /\ r.paused = timer[t].paused
  BY <1>1, <1>2 DEF TimerType
<1>4. timer' = [timer EXCEPT ![t] = r]
  BY <1>2 DEF SetPriority
<1>5. /\ timer' \in [Timers -> TimerType]
      /\ \A x \in Timers : timer'[x] = IF x = t THEN r ELSE timer[x]
  BY <1>1, <1>4, OneTimer
<1>6. UNCHANGED <<clock, walk, age, due, fired, shot>> /\ MayTouch(t)
  BY DEF SetPriority
<1>7. PICK f \in [Timers -> TimerType] : f = timer' /\ \A x \in Timers : x # t => f[x] = timer[x]
  BY <1>5
<1>8. /\ list' \in Seq(Timers) /\ IsInjective(list') /\ Sorted(list', PriorityOf(f))
      /\ \A x : Contains(list', x) <=> IsRunning(x)
      /\ \A a, b : a # t /\ b # t => (Before(list', a, b) <=> Before(list, a, b))
  <2>1. CASE IsRunning(t)
    <3>1. list' = Inserted(Unlinked(list, t), PriorityOf(f), t)
      BY <1>7, <2>1 DEF SetPriority, PriorityOf
    <3> QED BY <1>7, <2>1, <3>1, RelinkFacts
  <2>2. CASE ~ IsRunning(t)
    <3>1. list' = list /\ list \in Seq(Timers) /\ IsInjective(list)
      BY <2>2, CursorFacts DEF SetPriority
    <3>2. Unlinked(list, t) = list
      BY <2>2 DEF IsRunning, Unlinked, RemoveFirst, Contains
    <3>3. /\ Sorted(Unlinked(list, t), PriorityOf(f))
          /\ \A x : Contains(Unlinked(list, t), x) <=> IsRunning(x) /\ x # t
      BY <1>7, RelinkFacts
    <3>4. \A x : Contains(list', x) <=> IsRunning(x)
      BY <3>1 DEF IsRunning
    <3> QED BY <3>1, <3>2, <3>3, <3>4
  <2> QED BY <2>1, <2>2
<1>9. Sorted(list, PriorityOf(timer))'
  BY <1>7, <1>8 DEF Sorted, PriorityOf, Before
<1>10. \A x : IsRunning(x)' <=> IsRunning(x)
  BY <1>8 DEF IsRunning
<1>11. TypeOK'
  BY <1>1, <1>5, <1>6, <1>8 DEF TypeOK
<1>12. PlaceInv' /\ (Outside' <=> Outside) /\ Cursor' = Cursor
  BY <1>6, SamePlace DEF IInv
<1>13. IsRunning(t)' => timer'[t].period \in Periods
  BY <1>3, <1>5, <1>10 DEF IInv, PeriodInv
<1>14. ~ Outside => t \notin due \/ t \in fired
  BY <1>6 DEF MayTouch, IInv, PlaceInv
<1>15. ASSUME Active(t)'
       PROVE  /\ age'[t] = Minus(clock, timer'[t].last)
              /\ ~ Outside /\ t \notin walk'.fresh =>
                    /\ Minus(clock, walk.now) <= age'[t]
                    /\ Minus(walk.now, timer'[t].last) < timer'[t].period
  <2>1. Active(t)
    BY <1>3, <1>5, <1>10, <1>15 DEF Active
  <2> QED BY <1>3, <1>5, <1>6, <1>14, <2>1 DEF IInv, AgeInv, CalmInv
<1> QED BY <1>5, <1>6, <1>8, <1>9, <1>10, <1>11, <1>12, <1>13, <1>15, TouchStep DEF MayStart

LEMMA GroupDeinitStep ==
  ASSUME IInv, GroupDeinit
  PROVE  IInv'
<1>1. TypeOK /\ PlaceInv /\ Outside
  BY DEF IInv, GroupDeinit
<1>2. list' = <<>> /\ UNCHANGED <<clock, timer, walk, due, fired, shot>>
  BY DEF GroupDeinit
<1>3. age' \in [Timers -> 0 .. TickMax]
  BY Zero DEF GroupDeinit
<1>4. TypeOK'
  BY <1>1, <1>2, <1>3 DEF TypeOK
<1>5. PlaceInv' /\ Outside' /\ Cursor' = Null
  BY <1>1, <1>2 DEF PlaceInv, Outside, InCallback, Cursor
<1>6. /\ \A i \in 1 .. Len(list') : FALSE
      /\ \A x : ~ IsRunning(x)'
  BY <1>2 DEF IsRunning, Contains
<1>7. IsInjective(list')
  BY <1>2, <1>6 DEF IsInjective
<1>8. Sorted(list, PriorityOf(timer))'
  BY <1>6 DEF Sorted, Before
<1>9. PeriodInv' /\ OrderInv' /\ DueInv' /\ CalmInv' /\ AgeInv'
  BY <1>5, <1>6 DEF PeriodInv, OrderInv, DueInv, CalmInv, AgeInv, Active
<1>10. ~ shot'.late /\ (shot'.again => shot'.fresh) /\ InTime'
  BY <1>2 DEF IInv, WalkExact, InTime
<1>11. ListOrdered' /\ WalkExact'
  BY <1>4, <1>5, <1>7, <1>8, <1>9, <1>10, Derived
<1> QED BY <1>4, <1>5, <1>9, <1>10, <1>11 DEF IInv

------------------------------------------------------------------------------
(* The handler. *)

LEMMA HandlerBeginStep ==
  ASSUME IInv, HandlerBegin
  PROVE  IInv'
<1>1. /\ TypeOK /\ Outside /\ list \in Seq(Timers) /\ clock \in 0 .. TickMax
      /\ timer \in [Timers -> TimerType]
  BY DEF IInv, TypeOK, HandlerBegin
<1>2. UNCHANGED <<clock, list, timer, age>> /\ fired' = {} /\ shot' = NoShot
  BY DEF HandlerBegin
<1>3. /\ First(list) \in Timers \cup {Null}
      /\ First(list) # Null => IsRunning(First(list))
      /\ \A t : IsRunning(t) =>
                   First(list) # Null /\ (t = First(list) \/ Before(list, First(list), t))
  BY <1>1, FirstFacts DEF IsRunning
<1>4. /\ walk'.at = "walk" /\ walk'.now = clock /\ walk'.node = First(list)
      /\ walk'.next = Null /\ walk'.fresh = {} /\ walk' \in WalkType
  BY <1>1, <1>3 DEF HandlerBegin, NoWalk, WalkType
<1>5. due' = {t \in Timers : Active(t) /\ age[t] >= timer[t].period}
  BY DEF HandlerBegin, Active
<1>6. NoShot \in ShotType /\ ~ NoShot.late /\ ~ NoShot.again /\ ~ NoShot.early
  BY DEF NoShot, ShotType
<1>7. TypeOK'
  BY <1>1, <1>2, <1>4, <1>5, <1>6 DEF TypeOK
<1>8. PlaceInv' /\ Cursor' = First(list) /\ ~ Outside'
  BY <1>4 DEF PlaceInv, Outside, InCallback, Cursor
<1>9. /\ IsInjective(list') /\ Sorted(list, PriorityOf(timer))'
      /\ \A x : IsRunning(x)' <=> IsRunning(x)
      /\ \A a, b : Before(list', a, b) <=> Before(list, a, b)
  BY <1>1, <1>2, SameList
<1>10. \A x : Active(x)' <=> Active(x)
  BY <1>2, <1>9 DEF Active
<1>11. PeriodInv' /\ OrderInv'
  BY <1>2, <1>9 DEF IInv, PeriodInv, OrderInv
<1>12. ASSUME NEW t \in Timers, Active(t)
       PROVE  /\ age[t] = Minus(clock, timer[t].last) /\ Minus(clock, clock) = 0
              /\ age[t] \in Nat /\ timer[t].period \in Nat
  <2>1. age[t] = Minus(clock, timer[t].last) /\ timer[t].period \in Periods
    BY <1>12 DEF IInv, AgeInv, PeriodInv, Active
  <2>2. age[t] \in Nat
    BY Zero DEF IInv, TypeOK
  <2> QED BY <1>1, <2>1, <2>2, PeriodFacts, MinusFacts
<1>13. DueInv'
  <2>1. SUFFICES ASSUME NEW t \in due' PROVE Ahead(t)' /\ IsDue(t, walk.now)'
    BY <1>2 DEF DueInv
  <2>2. t \in Timers /\ Active(t) /\ age[t] >= timer[t].period
    BY <1>5, <2>1
  <2>3. Ahead(t)'
    BY <1>3, <1>8, <1>9, <2>2 DEF Ahead, Active
  <2>4. IsDue(t, walk.now)'
    BY <1>2, <1>4, <1>12, <2>2 DEF IsDue, Active
  <2> QED BY <2>3, <2>4
<1>14. CalmInv'
  <2>1. SUFFICES ASSUME NEW t \in Timers, Active(t), t \notin due'
                 PROVE  Minus(clock, timer[t].last) < timer[t].period
    BY <1>2, <1>4, <1>10 DEF CalmInv
  <2>2. ~ (age[t] >= timer[t].period)
    BY <1>5, <2>1
  <2> QED BY <1>12, <2>1, <2>2
<1>15. AgeInv'
  <2>1. SUFFICES ASSUME NEW t \in Timers, Active(t)
                 PROVE  age[t] = Minus(clock, timer[t].last) /\ Minus(clock, clock) <= age[t]
    BY <1>2, <1>4, <1>10 DEF AgeInv
  <2> QED BY <1>12, <2>1
<1>16. InTime'
  BY <1>2, <1>6 DEF InTime
<1>17. ListOrdered' /\ WalkExact'
  BY <1>2, <1>3, <1>6, <1>7, <1>8, <1>9, <1>13, Derived
<1> QED BY <1>7, <1>8, <1>11, <1>13, <1>14, <1>15, <1>16, <1>17 DEF IInv

\* The walk goes on behind a timer that was not to be fired, or was: what is due
\* and was not fired is still ahead.
LEMMA AheadFacts ==
  ASSUME IInv, walk.at = "walk", walk.node # Null
  PROVE  /\ walk.node \in Timers /\ IsRunning(walk.node) /\ Cursor = walk.node
         /\ NextOf(list, walk.node) \in Timers \cup {Null}
         /\ NextOf(list, walk.node) # walk.node
         /\ NextOf(list, walk.node) # Null =>
               /\ IsRunning(NextOf(list, walk.node))
               /\ timer[NextOf(list, walk.node)].priority <= timer[walk.node].priority
         /\ \A t : Ahead(t) /\ t # walk.node =>
               /\ NextOf(list, walk.node) # Null
               /\ t = NextOf(list, walk.node) \/ Before(list, NextOf(list, walk.node), t)
<1>1. Cursor = walk.node
  BY DEF Cursor, InCallback
<1>2. /\ walk.node \in Timers /\ IsRunning(walk.node)
      /\ list \in Seq(Timers) /\ IsInjective(list) /\ Sorted(list, PriorityOf(timer))
      /\ \A x \in Timers : PriorityOf(timer)[x] = timer[x].priority
      /\ \A x \in Timers : timer[x].priority \in Nat
  BY <1>1, CursorFacts, PriorityFacts
<1>3. PICK n : n = NextOf(list, walk.node)
  OBVIOUS
<1>4. /\ n \in Timers \cup {Null}
      /\ n # Null => Contains(list, n) /\ n # walk.node /\ Before(list, walk.node, n)
      /\ \A u : Before(list, walk.node, u) => n # Null /\ (u = n \/ Before(list, n, u))
  BY <1>2, <1>3, NextFacts DEF IsRunning
<1>5. ASSUME n # Null PROVE timer[n].priority <= timer[walk.node].priority
  <2>1. n \in Timers /\ Before(list, walk.node, n)
    BY <1>4, <1>5
  <2>2. PriorityOf(timer)[walk.node] >= PriorityOf(timer)[n]
    BY <1>2, <2>1 DEF Sorted
  <2> QED BY <1>2, <2>1, <2>2
<1>6. \A t : Ahead(t) /\ t # walk.node => n # Null /\ (t = n \/ Before(list, n, t))
  BY <1>1, <1>4 DEF Ahead
<1> QED BY <1>1, <1>2, <1>3, <1>4, <1>5, <1>6 DEF IsRunning

LEMMA WalkPastStep ==
  ASSUME IInv, WalkPast
  PROVE  IInv'
<1>1. /\ TypeOK /\ walk.at = "walk" /\ walk.node # Null /\ ~ IsDue(walk.node, walk.now)
      /\ UNCHANGED <<clock, list, timer, age, due, fired, shot>>
      /\ walk \in WalkType /\ timer \in [Timers -> TimerType]
  BY DEF IInv, TypeOK, WalkPast
<1>2. PICK n \in Timers \cup {Null} : n = NextOf(list, walk.node)
  BY <1>1, AheadFacts
<1>3. /\ walk'.at = "walk" /\ walk'.now = walk.now /\ walk'.node = n
      /\ walk'.next = walk.next /\ walk'.fresh = walk.fresh /\ walk' \in WalkType
  BY <1>1, <1>2 DEF WalkPast, WalkType
<1>4. TypeOK'
  BY <1>1, <1>3 DEF TypeOK
<1>5. PlaceInv' /\ Cursor' = n /\ ~ Outside' /\ ~ Outside
  BY <1>1, <1>3 DEF IInv, PlaceInv, Outside, InCallback, Cursor
<1>6. /\ IsInjective(list') /\ Sorted(list, PriorityOf(timer))'
      /\ \A x : IsRunning(x)' <=> IsRunning(x)
      /\ \A a, b : Before(list', a, b) <=> Before(list, a, b)
  BY <1>1, SameList
<1>7. \A x : Active(x)' <=> Active(x)
  BY <1>1, <1>6 DEF Active
<1>8. DueInv'
  <2>1. SUFFICES ASSUME NEW t \in due \ fired PROVE Ahead(t)' /\ IsDue(t, walk.now)'
    BY <1>1 DEF DueInv
  <2>2. Ahead(t) /\ IsDue(t, walk.now) /\ t # walk.node
    BY <1>1, <1>5, <2>1 DEF IInv, DueInv
  <2>3. n # Null /\ (t = n \/ Before(list, n, t)) /\ IsRunning(t)
    BY <1>1, <1>2, <2>2, AheadFacts DEF Ahead
  <2> QED BY <1>1, <1>3, <1>5, <1>6, <2>2, <2>3 DEF Ahead, IsDue
<1>9. OrderInv'
  <2>1. SUFFICES ASSUME fired # {}, n # Null PROVE timer[n].priority <= shot.priority
    BY <1>1, <1>5 DEF OrderInv
  <2>2. /\ timer[n].priority <= timer[walk.node].priority /\ n \in Timers
        /\ Cursor = walk.node /\ walk.node \in Timers
    BY <1>1, <1>2, <2>1, AheadFacts
  <2>3. timer[walk.node].priority <= shot.priority
    BY <1>1, <2>1, <2>2 DEF IInv, OrderInv
  <2>4. timer[n].priority \in Nat /\ timer[walk.node].priority \in Nat /\ shot.priority \in Nat
    BY <2>2, PriorityFacts
  <2> QED BY <2>2, <2>3, <2>4
<1>10. PeriodInv' /\ CalmInv' /\ AgeInv'
  BY <1>1, <1>3, <1>5, <1>6, <1>7 DEF IInv, PeriodInv, CalmInv, AgeInv
<1>11. ~ shot'.late /\ (shot'.again => shot'.fresh) /\ InTime'
  BY <1>1 DEF IInv, WalkExact, InTime
<1>12. (Cursor # Null => IsRunning(Cursor))'
  BY <1>1, <1>2, <1>5, <1>6, AheadFacts
<1>13. ListOrdered' /\ WalkExact'
  BY <1>4, <1>5, <1>6, <1>8, <1>11, <1>12, Derived
<1> QED BY <1>4, <1>5, <1>8, <1>9, <1>10, <1>11, <1>13 DEF IInv

\* What a firing meets: a timer that is fresh, or due since the walk began, of full
\* age and not fired before; in either case none of a higher priority than the last.
LEMMA FireFacts ==
  ASSUME IInv, walk.at = "walk", walk.node # Null, IsDue(walk.node, walk.now)
  PROVE  /\ walk.node \notin walk.fresh => walk.node \in due /\ walk.node \notin fired
         /\ walk.node \notin walk.fresh => ~ (age[walk.node] < timer[walk.node].period)
         /\ fired # {} => ~ (timer[walk.node].priority > shot.priority)
<1>1. PICK t : t = walk.node
  OBVIOUS
<1>2. t \in Timers /\ IsRunning(t) /\ Cursor = t /\ IsDue(t, walk.now) /\ ~ Outside
  BY <1>1, AheadFacts DEF Outside
<1>3. Active(t) /\ Minus(walk.now, timer[t].last) >= timer[t].period
  BY <1>2 DEF Active, IsDue
<1>4. /\ clock \in 0 .. TickMax /\ walk.now \in 0 .. TickMax /\ timer[t].last \in 0 .. TickMax
  BY <1>2 DEF IInv, TypeOK, WalkType, TimerType
<1>5. timer[t].period \in Nat
  BY <1>2, PeriodFacts DEF IInv, PeriodInv
<1>6. /\ Minus(walk.now, timer[t].last) \in Nat /\ Minus(clock, timer[t].last) \in Nat
      /\ Minus(clock, walk.now) \in Nat
  BY <1>4, MinusNat
<1>7. ASSUME t \notin walk.fresh PROVE t \in due /\ t \notin fired
  <2>1. ~ (Minus(walk.now, timer[t].last) < timer[t].period)
    BY <1>3, <1>5, <1>6
  <2> QED BY <1>2, <1>3, <1>7, <2>1 DEF IInv, CalmInv
<1>8. ASSUME t \notin walk.fresh PROVE ~ (age[t] < timer[t].period)
  <2>1. age[t] = Minus(clock, timer[t].last) /\ Minus(clock, walk.now) <= age[t]
    BY <1>2, <1>3, <1>8 DEF IInv, AgeInv
  <2>2. Minus(walk.now, timer[t].last) = Minus(clock, timer[t].last) - Minus(clock, walk.now)
    BY <1>4, <2>1, MinusSplit
  <2> QED BY <1>3, <1>5, <1>6, <2>1, <2>2
<1>9. ASSUME fired # {} PROVE ~ (timer[t].priority > shot.priority)
  <2>1. timer[t].priority <= shot.priority
    BY <1>1, <1>2, <1>9 DEF IInv, OrderInv
  <2> QED BY <1>2, <2>1, PriorityFacts
<1> QED BY <1>1, <1>7, <1>8, <1>9

LEMMA FireStep ==
  ASSUME IInv, Fire
  PROVE  IInv'
<1>1. /\ TypeOK /\ walk.at = "walk" /\ walk.node # Null /\ IsDue(walk.node, walk.now)
      /\ UNCHANGED <<clock, list, due>>
      /\ walk \in WalkType /\ timer \in [Timers -> TimerType]
      /\ age \in [Timers -> 0 .. TickMax] /\ shot \in ShotType
      /\ clock \in 0 .. TickMax
  BY DEF IInv, TypeOK, Fire
<1>2. PICK t \in Timers : t = walk.node
  BY <1>1, AheadFacts
<1>3. PICK n \in Timers \cup {Null} : n = NextOf(list, t)
  BY <1>1, <1>2, AheadFacts
<1>4. /\ walk' = [walk EXCEPT !.at = "callback", !.next = n, !.fresh = walk.fresh \ {t}]
      /\ timer' = [timer EXCEPT ![t].last = walk.now]
      /\ age' = [age EXCEPT ![t] = Minus(clock, walk.now)]
      /\ fired' = fired \cup {t}
      /\ shot' = [priority |-> timer[t].priority,
                  early |-> age[t] < timer[t].period,
                  again |-> t \in fired \/ t \notin due,
                  late |-> fired # {} /\ timer[t].priority > shot.priority,
                  fresh |-> t \in walk.fresh]
  BY <1>2, <1>3 DEF Fire, Stamped
<1>5. /\ walk'.at = "callback" /\ walk'.now = walk.now /\ walk'.node = t
      /\ walk'.next = n /\ walk'.fresh = walk.fresh \ {t} /\ walk' \in WalkType
      /\ walk.now \in 0 .. TickMax
  BY <1>1, <1>2, <1>4 DEF WalkType
<1>6. PICK r \in TimerType : r = [timer[t] EXCEPT !.last = walk.now]
  BY <1>1, <1>5, TimerUpdates
<1>7. /\ r.priority = timer[t].priority /\ r.period = timer[t].period
      /\ r.paused = timer[t].paused /\ r.last = walk.now
  BY <1>1, <1>6 DEF TimerType
<1>8. timer' = [timer EXCEPT ![t] = r]
  BY <1>4, <1>6
<1>9. /\ timer' \in [Timers -> TimerType]
      /\ \A x \in Timers : timer'[x] = IF x = t THEN r ELSE timer[x]
  BY <1>1, <1>8, OneTimer
<1>10. Minus(clock, walk.now) \in 0 .. TickMax /\ Minus(walk.now, walk.now) = 0
  BY <1>1, <1>5, MinusFacts
<1>11. /\ age' \in [Timers -> 0 .. TickMax] /\ age'[t] = Minus(clock, walk.now)
       /\ \A x \in Timers : x # t => age'[x] = age[x]
  BY <1>1, <1>4, <1>10
<1>12. shot' \in ShotType
  <2>1. timer[t].priority \in Priorities \cup {0}
    BY <1>1 DEF TimerType
  <2> QED BY <1>4, <2>1 DEF ShotType
<1>13. TypeOK'
  BY <1>1, <1>2, <1>4, <1>5, <1>9, <1>11, <1>12 DEF TypeOK
<1>14. PlaceInv' /\ Cursor' = n /\ ~ Outside' /\ ~ Outside /\ Cursor = t
  BY <1>1, <1>2, <1>3, <1>4, <1>5, AheadFacts DEF PlaceInv, Outside, InCallback, Cursor
<1>15. \A x \in Timers : timer'[x].priority = timer[x].priority
  BY <1>7, <1>9
<1>16. /\ IsInjective(list') /\ Sorted(list, PriorityOf(timer))'
       /\ \A x : IsRunning(x)' <=> IsRunning(x)
       /\ \A a, b : Before(list', a, b) <=> Before(list, a, b)
  BY <1>1, <1>9, <1>15, SameList
<1>17. \A x \in Timers : Active(x)' <=> Active(x)
  BY <1>7, <1>9, <1>16 DEF Active
<1>18. DueInv'
  <2>1. SUFFICES ASSUME NEW x \in due \ fired, x # t PROVE Ahead(x)' /\ IsDue(x, walk.now)'
    BY <1>1, <1>4 DEF DueInv
  <2>2. Ahead(x) /\ IsDue(x, walk.now) /\ x # walk.node /\ x \in Timers
    BY <1>1, <1>2, <1>14, <2>1 DEF IInv, DueInv, TypeOK
  <2>3. n # Null /\ (x = n \/ Before(list, n, x)) /\ IsRunning(x)
    BY <1>1, <1>2, <1>3, <2>2, AheadFacts DEF Ahead
  <2>4. Ahead(x)'
    BY <1>14, <1>16, <2>3 DEF Ahead
  <2>5. IsDue(x, walk.now)'
    BY <1>5, <1>9, <2>1, <2>2 DEF IsDue
  <2> QED BY <2>4, <2>5
<1>19. OrderInv'
  <2>1. shot'.priority = timer[t].priority
    BY <1>4
  <2>2. n # Null => n \in Timers /\ timer[n].priority <= timer[t].priority
    BY <1>1, <1>2, <1>3, AheadFacts
  <2> QED BY <1>14, <1>15, <2>1, <2>2 DEF OrderInv
<1>20. PeriodInv'
  BY <1>7, <1>9, <1>16 DEF IInv, PeriodInv
<1>21. CalmInv'
  <2>1. SUFFICES ASSUME NEW x \in Timers, Active(x), x \notin walk'.fresh,
                        x \notin due \/ x \in fired'
                 PROVE  Minus(walk.now, timer'[x].last) < timer'[x].period
    BY <1>1, <1>5, <1>17 DEF CalmInv
  <2>2. CASE x = t
    <3>1. timer[t].period \in Periods
      BY <2>1, <2>2 DEF IInv, PeriodInv, Active
    <3>2. Minus(walk.now, timer'[x].last) = 0 /\ timer'[x].period = timer[t].period
      BY <1>7, <1>9, <1>10, <2>2
    <3> QED BY <3>1, <3>2, PeriodFacts
  <2>3. CASE x # t
    <3>1. x \notin walk.fresh /\ (x \notin due \/ x \in fired)
      BY <1>4, <1>5, <2>1, <2>3
    <3> QED BY <1>9, <1>14, <2>1, <2>3, <3>1 DEF IInv, CalmInv
  <2> QED BY <2>2, <2>3
<1>22. AgeInv'
  <2>1. SUFFICES ASSUME NEW x \in Timers, Active(x)
                 PROVE  /\ age'[x] = Minus(clock, timer'[x].last)
                        /\ x \notin walk'.fresh => Minus(clock, walk.now) <= age'[x]
    BY <1>1, <1>5, <1>17 DEF AgeInv
  <2>2. CASE x = t
    <3>1. age'[x] = Minus(clock, timer'[x].last) /\ age'[x] = Minus(clock, walk.now)
      BY <1>7, <1>9, <1>11, <2>2
    <3> QED BY <1>10, <3>1
  <2>3. CASE x # t
    <3>1. age'[x] = age[x] /\ timer'[x] = timer[x] /\ (x \notin walk'.fresh => x \notin walk.fresh)
      BY <1>5, <1>9, <1>11, <2>3
    <3> QED BY <1>14, <2>1, <3>1 DEF IInv, AgeInv
  <2> QED BY <2>2, <2>3
<1>23. /\ shot'.late = (fired # {} /\ timer[t].priority > shot.priority)
       /\ shot'.again = (t \in fired \/ t \notin due)
       /\ shot'.early = (age[t] < timer[t].period) /\ shot'.fresh = (t \in walk.fresh)
  BY <1>4
<1>24. ~ shot'.late /\ (shot'.again => shot'.fresh) /\ InTime'
  <2>1. /\ t \notin walk.fresh => t \in due /\ t \notin fired
        /\ t \notin walk.fresh => ~ (age[t] < timer[t].period)
        /\ fired # {} => ~ (timer[t].priority > shot.priority)
    BY <1>1, <1>2, FireFacts
  <2> QED BY <1>23, <2>1 DEF InTime
<1>25. (Cursor # Null => IsRunning(Cursor))'
  BY <1>1, <1>2, <1>3, <1>14, <1>16, AheadFacts
<1>26. ListOrdered' /\ WalkExact'
  BY <1>13, <1>14, <1>16, <1>18, <1>24, <1>25, Derived
<1> QED BY <1>13, <1>14, <1>18, <1>19, <1>20, <1>21, <1>22, <1>24, <1>26 DEF IInv

LEMMA CallbackEndStep ==
  ASSUME IInv, CallbackEnd
  PROVE  IInv'
<1>1. /\ TypeOK /\ InCallback /\ UNCHANGED <<clock, due, fired, shot>>
      /\ walk \in WalkType /\ timer \in [Timers -> TimerType]
      /\ age \in [Timers -> 0 .. TickMax]
  BY DEF IInv, TypeOK, CallbackEnd
<1>2. PICK t \in Timers : t = walk.node /\ t \in fired
  BY <1>1 DEF IInv, PlaceInv, TypeOK
<1>3. /\ walk'.at = "walk" /\ walk'.now = walk.now /\ walk'.node = walk.next
      /\ walk'.next = Null /\ walk'.fresh = walk.fresh /\ walk' \in WalkType
  BY <1>1 DEF CallbackEnd, WalkType
<1>4. PlaceInv' /\ (Outside' <=> Outside) /\ Cursor' = Cursor
  BY <1>1, <1>3 DEF PlaceInv, Outside, InCallback, Cursor
<1>5. MayTouch(t) /\ MayStart(t)
  BY <1>1, <1>2 DEF MayTouch, MayStart
<1>6. CASE ~ timer[t].repeat /\ IsRunning(t)
  <2>1. PICK r \in TimerType : r = [timer[t] EXCEPT !.paused = FALSE]
    BY <1>1, TimerUpdates
  <2>2. /\ list' = Unlinked(list, t) /\ timer' = [timer EXCEPT ![t] = r]
        /\ age' = [age EXCEPT ![t] = 0]
    BY <1>2, <1>6, <2>1 DEF CallbackEnd
  <2>3. /\ timer' \in [Timers -> TimerType]
        /\ \A x \in Timers : timer'[x] = IF x = t THEN r ELSE timer[x]
    BY <1>1, <2>2, OneTimer
  <2>4. age' \in [Timers -> 0 .. TickMax] /\ \A x \in Timers : x # t => age'[x] = age[x]
    BY <1>1, <2>2, Zero
  <2>5. PICK f \in [Timers -> TimerType] :
           f = timer' /\ \A x \in Timers : x # t => f[x] = timer[x]
    BY <2>3
  <2>6. /\ list' \in Seq(Timers) /\ IsInjective(list')
        /\ Sorted(list', PriorityOf(f))
        /\ \A x : Contains(list', x) <=> IsRunning(x) /\ x # t
        /\ \A a, b : a # t /\ b # t => (Before(list', a, b) <=> Before(list, a, b))
    BY <2>2, <2>5, RelinkFacts
  <2>7. TypeOK'
    BY <1>1, <1>3, <2>3, <2>4, <2>6 DEF TypeOK
  <2>8. Sorted(list, PriorityOf(timer))'
    BY <2>5, <2>6 DEF Sorted, PriorityOf, Before
  <2>9. ~ IsRunning(t)' /\ \A x : x # t => (IsRunning(x)' <=> IsRunning(x))
    BY <2>6 DEF IsRunning
  <2> QED BY <1>1, <1>3, <1>4, <1>5, <2>3, <2>4, <2>6, <2>7, <2>8, <2>9, TouchStep DEF Active
<1>7. CASE ~ (~ timer[t].repeat /\ IsRunning(t))
  <2>1. UNCHANGED <<list, timer, age>>
    BY <1>2, <1>7 DEF CallbackEnd
  <2>2. /\ list' \in Seq(Timers) /\ IsInjective(list') /\ Sorted(list, PriorityOf(timer))'
        /\ \A x : IsRunning(x)' <=> IsRunning(x)
        /\ \A a, b : Before(list', a, b) <=> Before(list, a, b)
    BY <1>1, <2>1, SameList
  <2>3. TypeOK'
    BY <1>1, <1>3, <2>1 DEF TypeOK
  <2>4. Active(t)' => Active(t)
    BY <2>1, <2>2 DEF Active
  <2>5. IsRunning(t)' => timer'[t].period \in Periods
    BY <2>1, <2>2 DEF IInv, PeriodInv
  <2>6. Active(t)' =>
            /\ age'[t] = Minus(clock, timer'[t].last)
            /\ ~ Outside /\ t \notin walk'.fresh =>
                  /\ Minus(clock, walk.now) <= age'[t]
                  /\ Minus(walk.now, timer'[t].last) < timer'[t].period
    BY <1>2, <1>3, <2>1, <2>4 DEF IInv, AgeInv, CalmInv
  <2> QED BY <1>1, <1>3, <1>4, <1>5, <2>1, <2>2, <2>3, <2>5, <2>6, TouchStep
<1> QED BY <1>6, <1>7

LEMMA HandlerEndStep ==
  ASSUME IInv, HandlerEnd
  PROVE  IInv'
<1>1. /\ TypeOK /\ UNCHANGED <<clock, list, timer, age>> /\ walk' = NoWalk
      /\ due' = {} /\ fired' = {} /\ shot' = NoShot /\ timer \in [Timers -> TimerType]
  BY DEF IInv, TypeOK, HandlerEnd
<1>2. /\ NoWalk \in WalkType /\ NoWalk.at = "idle" /\ NoWalk.node = Null /\ NoWalk.next = Null
  BY Zero DEF NoWalk, WalkType
<1>3. NoShot \in ShotType /\ ~ NoShot.late /\ ~ NoShot.again /\ ~ NoShot.early
  BY DEF NoShot, ShotType
<1>4. TypeOK'
  BY <1>1, <1>2, <1>3 DEF TypeOK
<1>5. PlaceInv' /\ Outside' /\ Cursor' = Null
  BY <1>1, <1>2 DEF PlaceInv, Outside, InCallback, Cursor
<1>6. /\ IsInjective(list') /\ Sorted(list, PriorityOf(timer))'
      /\ \A x : IsRunning(x)' <=> IsRunning(x)
  BY <1>1, SameList
<1>7. OrderInv' /\ DueInv' /\ CalmInv' /\ InTime'
  BY <1>1, <1>3, <1>5 DEF OrderInv, DueInv, CalmInv, InTime
<1>8. PeriodInv' /\ AgeInv'
  BY <1>1, <1>5, <1>6 DEF IInv, PeriodInv, AgeInv, Active
<1>9. ListOrdered' /\ WalkExact'
  BY <1>1, <1>3, <1>4, <1>5, <1>6, <1>7, Derived
<1> QED BY <1>4, <1>5, <1>7, <1>8, <1>9 DEF IInv

LEMMA TickStep ==
  ASSUME IInv, Tick
  PROVE  IInv'
<1>1. /\ TypeOK /\ UNCHANGED <<list, timer, walk, due, fired, shot>>
      /\ clock \in 0 .. TickMax /\ timer \in [Timers -> TimerType]
      /\ age \in [Timers -> 0 .. TickMax] /\ walk.now \in 0 .. TickMax
  BY DEF IInv, TypeOK, WalkType, Tick
<1>2. clock' = (clock + 1) % Modulus /\ clock' \in 0 .. TickMax
  BY <1>1, MinusTick DEF Tick
<1>3. \A t \in Timers : Active(t) => age[t] < TickMax
  BY DEF Tick, TickBound, Active
<1>4. \A t \in Timers : age[t] \in Nat /\ (Active(t) => age[t] + 1 \in 0 .. TickMax)
  BY <1>1, <1>3, Zero
<1>5. age' = [t \in Timers |-> IF Active(t) THEN age[t] + 1 ELSE 0]
  BY DEF Tick, Active
<1>6. age' \in [Timers -> 0 .. TickMax]
  BY <1>4, <1>5, Zero
<1>7. TypeOK'
  BY <1>1, <1>2, <1>6 DEF TypeOK
<1>8. PlaceInv' /\ (Outside' <=> Outside) /\ Cursor' = Cursor
  BY <1>1, SamePlace DEF IInv
<1>9. /\ IsInjective(list') /\ Sorted(list, PriorityOf(timer))'
      /\ \A x : IsRunning(x)' <=> IsRunning(x)
      /\ \A a, b : Before(list', a, b) <=> Before(list, a, b)
  BY <1>1, SameList
<1>10. \A x : (Active(x)' <=> Active(x)) /\ (Ahead(x)' <=> Ahead(x))
  BY <1>1, <1>8, <1>9 DEF Active, Ahead
<1>11. PeriodInv' /\ OrderInv' /\ DueInv' /\ CalmInv'
  BY <1>1, <1>8, <1>9, <1>10 DEF IInv, PeriodInv, OrderInv, DueInv, CalmInv, IsDue
<1>12. AgeInv'
  <2>1. SUFFICES ASSUME NEW t \in Timers, Active(t)
                 PROVE  /\ age'[t] = Minus(clock', timer[t].last)
                        /\ ~ Outside /\ t \notin walk.fresh => Minus(clock', walk.now) <= age'[t]
    BY <1>1, <1>8, <1>10 DEF AgeInv
  <2>2. /\ age[t] = Minus(clock, timer[t].last)
        /\ ~ Outside /\ t \notin walk.fresh => Minus(clock, walk.now) <= age[t]
    BY <2>1 DEF IInv, AgeInv
  <2>3. age'[t] = age[t] + 1 /\ age[t] < TickMax /\ age[t] \in Nat
    BY <1>3, <1>4, <1>5, <2>1
  <2>4. timer[t].last \in 0 .. TickMax
    BY <1>1 DEF TimerType
  <2>5. Minus(clock', timer[t].last) = Minus(clock, timer[t].last) + 1
    BY <1>1, <1>2, <2>2, <2>3, <2>4, MinusTick
  <2>6. ASSUME ~ Outside, t \notin walk.fresh PROVE Minus(clock', walk.now) <= age'[t]
    <3>1. Minus(clock, walk.now) < TickMax
      BY <2>6 DEF Tick, WalkBound
    <3>2. Minus(clock', walk.now) = Minus(clock, walk.now) + 1
      BY <1>1, <1>2, <3>1, MinusTick
    <3>3. Minus(clock, walk.now) \in Nat
      BY <1>1, MinusNat
    <3> QED BY <2>2, <2>3, <2>6, <3>2, <3>3
  <2> QED BY <2>2, <2>3, <2>5, <2>6
<1>13. ~ shot'.late /\ (shot'.again => shot'.fresh) /\ InTime'
  BY <1>1 DEF IInv, WalkExact, InTime
<1>14. (Cursor # Null => IsRunning(Cursor))'
  BY <1>8, <1>9, CursorFacts
<1>15. ListOrdered' /\ WalkExact'
  BY <1>7, <1>8, <1>9, <1>11, <1>13, <1>14, Derived
<1> QED BY <1>7, <1>8, <1>11, <1>12, <1>13, <1>15 DEF IInv

------------------------------------------------------------------------------
(* The theorems. *)

LEMMA NextStep == IInv /\ [Next]_vars => IInv'
<1> SUFFICES ASSUME IInv, [Next]_vars PROVE IInv'
  OBVIOUS
<1>1. ASSUME NEW t \in Timers, Stop(t) PROVE IInv'
  BY <1>1, StopStep
<1>2. ASSUME NEW t \in Timers, Pause(t) PROVE IInv'
  BY <1>2, PauseStep
<1>3. ASSUME NEW t \in Timers, Resume(t) PROVE IInv'
  BY <1>3, ResumeStep
<1>4. ASSUME NEW t \in Timers, NEW priority \in Priorities, SetPriority(t, priority)
      PROVE  IInv'
  BY <1>4, SetPriorityStep
<1>5. ASSUME NEW t \in Timers, NEW period \in Periods, NEW repeat \in BOOLEAN,
             NEW priority \in Priorities, Start(t, period, repeat, priority)
      PROVE  IInv'
  BY <1>5, StartStep
<1>6. CASE GroupDeinit
  BY <1>6, GroupDeinitStep
<1>7. CASE HandlerBegin
  BY <1>7, HandlerBeginStep
<1>8. CASE WalkPast
  BY <1>8, WalkPastStep
<1>9. CASE Fire
  BY <1>9, FireStep
<1>10. CASE CallbackEnd
  BY <1>10, CallbackEndStep
<1>11. CASE HandlerEnd
  BY <1>11, HandlerEndStep
<1>12. CASE Tick
  BY <1>12, TickStep
<1>13. CASE UNCHANGED vars
  BY <1>13 DEF vars, IInv, TypeOK, ListOrdered, WalkExact, InTime, PlaceInv, PeriodInv,
     OrderInv, DueInv, CalmInv, AgeInv, Outside, InCallback, Cursor, Ahead, Active,
     IsRunning, IsDue, Before
<1> QED BY <1>1, <1>2, <1>3, <1>4, <1>5, <1>6, <1>7, <1>8, <1>9, <1>10, <1>11, <1>12, <1>13
     DEF Next

\* IInv holds in every reachable state: a walk, whatever its callbacks do to the
\* list under it, keeps every due timer that it has not fired ahead of it.
THEOREM InductiveInvariant == Spec => []IInv
<1>1. Init => IInv
  BY InitStep
<1>2. IInv /\ [Next]_vars => IInv'
  BY NextStep
<1> QED BY <1>1, <1>2, PTL DEF Spec

\* The list stays ordered by priority and a walk fires what was due, each once, in
\* order and not before its period has passed, for any timers, periods, priorities
\* and range of ticks (timer.c:255-319).
THEOREM WalkSoundTheorem == Spec => []WalkSound
<1>1. IInv => WalkSound
  BY DEF IInv, WalkSound
<1> QED BY <1>1, InductiveInvariant, PTL

\* Between walks the answer of until_next is the least time in which a timer comes
\* due, or the largest tick when none counts, across every wrap (timer.c:167-196).
THEOREM UntilNextExactTheorem == Spec => []UntilNextExact
<1>1. ASSUME IInv, Outside
      PROVE  LET left == {IF age[t] < timer[t].period THEN timer[t].period - age[t] ELSE 0 :
                             t \in Counting}
             IN  UntilNext(clock) = Min(left \cup {TickMax})
  <2> DEFINE left(t) == IF age[t] < timer[t].period THEN timer[t].period - age[t] ELSE 0
             Left == {left(t) : t \in Counting} \cup {TickMax}
             rest(t) == Minus(timer[t].period, Minus(clock, timer[t].last))
             Rest == {rest(t) : t \in Counting}
  <2>1. ASSUME NEW t \in Counting
        PROVE  /\ age[t] = Minus(clock, timer[t].last)
               /\ age[t] \in Nat /\ timer[t].period \in Nat
               /\ age[t] <= TickMax /\ timer[t].period <= TickMax
               /\ ~ timer[t].paused
    <3>1. t \in Timers /\ Active(t)
      BY DEF Counting, Active
    <3>2. age[t] = Minus(clock, timer[t].last) /\ timer[t].period \in Periods
      BY <1>1, <3>1 DEF IInv, AgeInv, PeriodInv, Active
    <3>3. age[t] \in 0 .. TickMax
      BY <1>1, <3>1 DEF IInv, TypeOK
    <3> QED BY <3>1, <3>2, <3>3, PeriodFacts, Zero DEF Active
  <2>2. \A t \in Counting : left(t) \in Nat /\ left(t) <= TickMax
    BY <2>1, Zero
  <2>3. \A t \in Counting : IsDue(t, clock) <=> ~ (age[t] < timer[t].period)
    BY <2>1 DEF IsDue
  <2>4. Left \in SUBSET Nat /\ Left # {}
    BY <2>2, Zero
  <2>5. Min(Left) \in Left /\ \A y \in Left : Min(Left) <= y
    BY <2>4, MinFacts
  <2>6. CASE \E t \in Counting : IsDue(t, clock)
    <3>1. UntilNext(clock) = 0
      BY <2>6 DEF UntilNext
    <3>2. 0 \in Left
      BY <2>3, <2>6
    <3> HIDE DEF Left
    <3>3. Min(Left) = 0
      <4>1. Min(Left) \in Nat /\ Min(Left) <= 0
        BY <2>4, <2>5, <3>2
      <4> QED BY <4>1
    <3> QED BY <3>1, <3>3 DEF Left
  <2>7. CASE \A t \in Counting : ~ IsDue(t, clock)
    <3>1. ASSUME NEW t \in Counting PROVE rest(t) = left(t)
      <4>1. age[t] < timer[t].period
        BY <2>3, <2>7
      <4>2. age[t] \in 0 .. TickMax /\ timer[t].period \in 0 .. TickMax
        BY <2>1, Zero
      <4>3. Minus(timer[t].period, age[t]) = timer[t].period - age[t]
        BY <2>1, <4>1, <4>2, MinusDef
      <4> QED BY <2>1, <4>1, <4>3
    <3>2. Rest \cup {TickMax} = Left
      BY <3>1
    <3>3. UntilNext(clock) = CHOOSE r \in Rest \cup {TickMax} : \A q \in Rest : r <= q
      BY <2>7 DEF UntilNext
    <3>4. Rest \subseteq Left /\ \A q \in Rest : q \in Nat /\ q <= TickMax
      BY <2>2, <3>1, <3>2
    <3>5. ASSUME NEW r \in Left, \A q \in Rest : r <= q PROVE r = Min(Left)
      <4>1. r \in Nat /\ Min(Left) \in Nat /\ Min(Left) <= r
        BY <2>4, <2>5
      <4>2. CASE Min(Left) \in Rest
        BY <3>5, <4>1, <4>2
      <4>3. CASE Min(Left) \notin Rest
        <5>1. Min(Left) = TickMax
          BY <2>5, <3>2, <4>3
        <5>2. r <= TickMax
          BY <3>2, <3>4, Zero
        <5> QED BY <4>1, <5>1, <5>2, Zero
      <4> QED BY <4>2, <4>3
    <3>6. \A q \in Rest : Min(Left) <= q
      BY <2>5, <3>4
    <3> HIDE DEF Left, Rest, left, rest
    <3>7. (CHOOSE r \in Left : \A q \in Rest : r <= q) = Min(Left)
      BY <2>5, <3>5, <3>6
    <3> QED BY <3>2, <3>3, <3>7 DEF Left, left
  <2> QED BY <2>6, <2>7
<1>2. IInv => UntilNextExact
  BY <1>1 DEF UntilNextExact, Counting
<1> QED BY <1>2, InductiveInvariant, PTL

==============================================================================
