-------------------------- MODULE EventBus_proofs --------------------------
(***************************************************************************)
(* Proofs about EventBus for any finite memory and any finite set of event *)
(* names, any owners, keys and depth of nested publications.               *)
(***************************************************************************)
EXTENDS EventBus, WellFoundedInduction, FiniteSetTheorems, SequenceTheorems, TLAPS

------------------------------------------------------------------------------
(* The inductive invariant.  Its parts are stated of any bus b and any stack  *)
(* k, so that what an operation of the bus does to them is said once,         *)
(* whichever call it is part of.                                              *)

\* One record comes before another in a list.
Before(l, a, b) == \E i, j \in 1 .. Len(l) : i < j /\ l[i] = a /\ l[j] = b

IsList(l) == l \in Seq(Subs) /\ IsInjective(l)

LinkedIn(b) == {x \in Subs : \E id \in Ids : Contains(b.subs[id], x)}
LiveIn(b) == LinkedIn(b) \ b.dead
Owned(b, s, owner) == owner \in {Every, b.tag[s].owner}

\* A record is linked once, and an event that has no entry has no records.
ListsHold(b) ==
    /\ \A id \in Ids : IsList(b.subs[id])
    /\ \A id, other \in Ids : \A x \in Subs :
          Contains(b.subs[id], x) /\ Contains(b.subs[other], x) => id = other
    /\ \A id \in Ids : id > Len(b.names) => b.subs[id] = <<>>

\* The names are registered once each, so there is an entry for all of them.
NamesHold(b) == IsInjective(b.names) /\ Cardinality(ToSet(b.names)) = Len(b.names)

\* The count and the retired list.
CountsHold(b) ==
    /\ b.count = Cardinality(LiveIn(b))
    /\ ToSet(b.retired) = b.dead /\ b.dead \subseteq LinkedIn(b)
    /\ Cardinality(b.dead) = Len(b.retired)

BooksHold(b) == b \in Buses /\ ListsHold(b) /\ NamesHold(b) /\ CountsHold(b)

\* Outside a publication nothing waits to be freed.
BusHolds(b) == BooksHold(b) /\ (b.depth = 0 => b.retired = <<>>)

\* The publications are the outer calls, in their callbacks; over them there may
\* be one walk, and the one of deinit has no publication under it.
ShapeHolds(b, k) ==
    /\ k \in Seq(Frames)
    /\ Len(k) \in {b.depth, b.depth + 1}
    /\ \A i \in 1 .. Len(k) : k[i].op = "publish" <=> i <= b.depth
    /\ \A i \in 1 .. Len(k) : i < Len(k) => k[i].sub # Null
    /\ \A i \in 1 .. Len(k) : k[i].op = "deinit" => i = 1

\* What a publication stands on is linked; what comes before it is dead or was
\* called, and nothing behind it was.  What was called is not freed.
PubHolds(b, f) ==
    /\ \A x \in f.seen : Contains(b.subs[f.id], x)
    /\ f.sub # Null =>
         /\ f.sub \in f.seen
         /\ \A x \in Subs : Before(b.subs[f.id], x, f.sub) => x \in b.dead \/ x \in f.seen
         /\ \A x \in Subs : Before(b.subs[f.id], f.sub, x) => x \notin f.seen

\* A walk has been past this record of this event.
Past(b, f, id, x) ==
    \/ id < f.id
    \/ id = f.id /\ (f.sub = Null \/ Before(b.subs[id], x, f.sub))

\* What a walk stands on is linked and live, what it has been past and is still
\* live is another owner's, and its history is what it must leave alone.
WalkHolds(b, f) ==
    /\ f.id = 1 \/ f.id <= Len(b.names)
    /\ f.op = "deinit" => f.owner = Every
    /\ f.sub # Null => Contains(b.subs[f.id], f.sub) /\ f.sub \notin b.dead
    /\ f.seen = {s \in LiveIn(b) : ~ Owned(b, s, f.owner)}
    /\ \A id \in Ids, x \in Subs : Contains(b.subs[id], x) /\ Past(b, f, id, x) =>
          x \in b.dead \/ ~ Owned(b, x, f.owner)

CallsHold(b, k) ==
    /\ ShapeHolds(b, k)
    /\ \A i \in 1 .. Len(k) : i <= b.depth => PubHolds(b, k[i])
    /\ \A i \in 1 .. Len(k) : i > b.depth => WalkHolds(b, k[i])

IInv == BusHolds(bus) /\ CallsHold(bus, stack)

------------------------------------------------------------------------------
(* Lists of records: which ones are in a list, and which comes before which. *)

\* A set of numbers has a least one.
LEMMA LeastFact ==
  ASSUME NEW S \in SUBSET Nat, S # {}
  PROVE  \E x \in S : \A y \in S : x <= y
<1> DEFINE R == OpToRel(<, Nat)
<1>1. IsWellFoundedOn(R, Nat)
  BY NatLessThanWellFounded
<1>2. \A x, y \in Nat : x < y => <<x, y>> \in R
  BY DEF OpToRel
<1> HIDE DEF R
<1>3. PICK x \in S : \A y \in S : ~ (<<y, x>> \in R)
  BY <1>1, WFMin
<1>4. ASSUME NEW y \in S PROVE x <= y
  <2>1. x \in Nat /\ y \in Nat /\ ~ (y < x)
    BY <1>2, <1>3
  <2> QED BY <2>1
<1> QED BY <1>4

LEMMA MinFacts ==
  ASSUME NEW S \in SUBSET Nat, S # {}
  PROVE  Min(S) \in S /\ \A y \in S : Min(S) <= y
BY LeastFact DEF Min

\* A list as a function of its places.
LEMMA ListFacts ==
  ASSUME NEW l, IsList(l)
  PROVE  /\ l \in Seq(Subs) /\ Len(l) \in Nat /\ DOMAIN l = 1 .. Len(l)
         /\ \A i \in 1 .. Len(l) : l[i] \in Subs
         /\ \A i, j \in 1 .. Len(l) : l[i] = l[j] => i = j
<1>1. l \in Seq(Subs)
  BY DEF IsList
<1>2. Len(l) \in Nat /\ DOMAIN l = 1 .. Len(l) /\ \A i \in 1 .. Len(l) : l[i] \in Subs
  BY <1>1
<1> QED BY <1>1, <1>2 DEF IsList, IsInjective

\* The order of a list is strict and total.
LEMMA BeforeFacts ==
  ASSUME NEW l, IsList(l)
  PROVE  /\ \A a, b : Before(l, a, b) =>
                 Contains(l, a) /\ Contains(l, b) /\ a # b /\ ~ Before(l, b, a)
         /\ \A a, b : Contains(l, a) /\ Contains(l, b) =>
                         a = b \/ Before(l, a, b) \/ Before(l, b, a)
         /\ \A a, b, c : Before(l, a, b) /\ Before(l, b, c) => Before(l, a, c)
         /\ \A a : Contains(l, a) => a \in Subs /\ a # Null
<1>1. Len(l) \in Nat /\ \A i \in 1 .. Len(l) : l[i] \in Subs
  BY ListFacts
<1>2. \A i, j \in 1 .. Len(l) : l[i] = l[j] => i = j
  BY ListFacts
<1>3. ASSUME NEW a, NEW b, Contains(l, a), Contains(l, b), a # b
      PROVE  Before(l, a, b) \/ Before(l, b, a)
  <2>1. PICK i \in 1 .. Len(l) : l[i] = a
    BY <1>3 DEF Contains
  <2>2. PICK j \in 1 .. Len(l) : l[j] = b
    BY <1>3 DEF Contains
  <2>3. i < j \/ j < i
    BY <1>1, <1>3, <2>1, <2>2
  <2> QED BY <2>1, <2>2, <2>3 DEF Before
<1>4. ASSUME NEW a, NEW b, Before(l, a, b)
      PROVE  Contains(l, a) /\ Contains(l, b) /\ a # b /\ ~ Before(l, b, a)
  <2>1. PICK i, j \in 1 .. Len(l) : i < j /\ l[i] = a /\ l[j] = b
    BY <1>4 DEF Before
  <2>2. i # j
    BY <2>1
  <2>3. ASSUME Before(l, b, a) PROVE FALSE
    <3>1. PICK n, m \in 1 .. Len(l) : n < m /\ l[n] = b /\ l[m] = a
      BY <2>3 DEF Before
    <3>2. n = j /\ m = i
      BY <1>2, <2>1, <3>1
    <3> QED BY <2>1, <3>1, <3>2
  <2> QED BY <1>2, <2>1, <2>2, <2>3 DEF Contains
<1>5. ASSUME NEW a, NEW b, NEW c, Before(l, a, b), Before(l, b, c) PROVE Before(l, a, c)
  <2>1. PICK i, j \in 1 .. Len(l) : i < j /\ l[i] = a /\ l[j] = b
    BY <1>5 DEF Before
  <2>2. PICK n, m \in 1 .. Len(l) : n < m /\ l[n] = b /\ l[m] = c
    BY <1>5 DEF Before
  <2>3. n = j
    BY <1>2, <2>1, <2>2
  <2>4. i < m
    BY <2>1, <2>2, <2>3
  <2> QED BY <2>1, <2>2, <2>4 DEF Before
<1>6. \A a : Contains(l, a) => a \in Subs /\ a # Null
  BY <1>1, EventBusAssumption DEF Contains
<1> QED BY <1>3, <1>4, <1>5, <1>6

\* Nothing is in the empty list.
LEMMA EmptyFacts ==
  /\ IsList(<<>>)
  /\ \A x : ~ Contains(<<>>, x)
  /\ \A a, b : ~ Before(<<>>, a, b)
<1>1. <<>> \in Seq(Subs) /\ Len(<<>>) = 0 /\ DOMAIN <<>> = {}
  OBVIOUS
<1>2. ~ \E i \in 1 .. Len(<<>>) : TRUE
  BY <1>1
<1> QED BY <1>1, <1>2 DEF IsList, IsInjective, Contains, Before

\* A list grows at its end: a new record goes behind all others.
Grown(l, s, q) ==
    /\ IsList(q)
    /\ \A x : Contains(q, x) <=> Contains(l, x) \/ x = s
    /\ \A u, v : Before(q, u, v) <=> Before(l, u, v) \/ (Contains(l, u) /\ v = s)

LEMMA AppendFacts ==
  ASSUME NEW l, IsList(l), NEW s \in Subs, ~ Contains(l, s), NEW q, q = Append(l, s)
  PROVE  Grown(l, s, q)
<1>1. l \in Seq(Subs) /\ Len(l) \in Nat
  BY ListFacts
<1>2. /\ q \in Seq(Subs) /\ Len(q) = Len(l) + 1 /\ DOMAIN q = 1 .. Len(q)
      /\ \A i \in 1 .. Len(l) : q[i] = l[i]
      /\ q[Len(l) + 1] = s
  BY <1>1
<1>3. \A i \in 1 .. Len(l) : l[i] # s
  BY DEF Contains
<1>4. \A i \in 1 .. Len(q) : i \in 1 .. Len(l) \/ i = Len(l) + 1
  BY <1>1, <1>2
<1>5. /\ Len(l) + 1 \in 1 .. Len(q)
      /\ \A i \in 1 .. Len(l) : i \in 1 .. Len(q) /\ i < Len(l) + 1
      /\ \A i \in 1 .. Len(q) : ~ (Len(l) + 1 < i)
  BY <1>1, <1>2
<1>6. \A i, j \in 1 .. Len(l) : l[i] = l[j] => i = j
  BY ListFacts
<1>7. IsList(q)
  <2>1. \A i, j \in 1 .. Len(q) : q[i] = q[j] => i = j
    BY ONLY <1>2, <1>3, <1>4, <1>6
  <2> QED BY <1>2, <2>1 DEF IsList, IsInjective
<1>8. \A x : Contains(q, x) <=> Contains(l, x) \/ x = s
  BY ONLY <1>2, <1>4, <1>5 DEF Contains
<1>9. ASSUME NEW a, NEW b, Before(q, a, b)
      PROVE  Before(l, a, b) \/ (Contains(l, a) /\ b = s)
  <2>1. PICK i, j \in 1 .. Len(q) : i < j /\ q[i] = a /\ q[j] = b
    BY <1>9 DEF Before
  <2>2. i \in 1 .. Len(l)
    BY <1>4, <1>5, <2>1
  <2>3. CASE j \in 1 .. Len(l)
    BY <1>2, <2>1, <2>2, <2>3 DEF Before
  <2>4. CASE j = Len(l) + 1
    BY <1>2, <2>1, <2>2, <2>4 DEF Contains
  <2> QED BY <1>4, <2>3, <2>4
<1>10. ASSUME NEW a, NEW b, Before(l, a, b) PROVE Before(q, a, b)
  <2>1. PICK i, j \in 1 .. Len(l) : i < j /\ l[i] = a /\ l[j] = b
    BY <1>10 DEF Before
  <2> QED BY <1>2, <1>5, <2>1 DEF Before
<1>11. ASSUME NEW a, Contains(l, a) PROVE Before(q, a, s)
  <2>1. PICK i \in 1 .. Len(l) : l[i] = a
    BY <1>11 DEF Contains
  <2> QED BY <1>2, <1>5, <2>1 DEF Before
<1> QED BY <1>7, <1>8, <1>9, <1>10, <1>11 DEF Grown

\* A list is known by what is in it and in which order: one half, ...
LEMMA SameHalf ==
  ASSUME NEW p, NEW q, IsList(p), IsList(q),
         \A x : Contains(p, x) <=> Contains(q, x),
         \A a, b : Before(p, a, b) <=> Before(q, a, b)
  PROVE  \A k \in 1 .. Len(p) : k \in 1 .. Len(q) /\ p[k] = q[k]
<1> DEFINE Bad == {k \in 1 .. Len(p) : ~ (k \in 1 .. Len(q) /\ p[k] = q[k])}
<1>1. /\ Len(p) \in Nat /\ Len(q) \in Nat
      /\ \A i, j \in 1 .. Len(p) : p[i] = p[j] => i = j
      /\ \A i, j \in 1 .. Len(q) : q[i] = q[j] => i = j
  BY ListFacts
<1>2. ASSUME Bad # {} PROVE FALSE
  <2>1. PICK k \in Bad : \A y \in Bad : k <= y
    <3>1. Bad \in SUBSET Nat
      BY <1>1
    <3> HIDE DEF Bad
    <3> QED BY <1>2, <3>1, LeastFact
  <2>2. k \in 1 .. Len(p) /\ ~ (k \in 1 .. Len(q) /\ p[k] = q[k])
    BY <2>1
  <2>3. \A j \in 1 .. Len(p) : j < k => j \in 1 .. Len(q) /\ p[j] = q[j]
    <3> SUFFICES ASSUME NEW j \in 1 .. Len(p), j < k PROVE j \notin Bad
      OBVIOUS
    <3>1. ~ (k <= j)
      BY <2>2
    <3> QED BY <2>1, <3>1
  <2> HIDE DEF Bad
  <2>4. Contains(p, p[k])
    BY <2>2 DEF Contains
  <2>5. Contains(q, p[k])
    BY <2>4
  <2>6. PICK m \in 1 .. Len(q) : q[m] = p[k]
    BY <2>5 DEF Contains
  <2>7. ~ (m < k)
    <3> SUFFICES ASSUME m < k PROVE FALSE
      OBVIOUS
    <3>1. m \in 1 .. Len(p)
      BY <1>1, <2>2
    <3>2. p[m] = p[k]
      BY <2>3, <2>6, <3>1
    <3>3. m = k
      BY <1>1, <2>2, <3>1, <3>2
    <3> QED BY <2>2, <3>3
  <2>8. m # k
    BY <2>2, <2>6
  <2>9. k < m /\ k \in 1 .. Len(q)
    BY <1>1, <2>2, <2>6, <2>7, <2>8
  <2>10. Before(q, q[k], p[k])
    BY <2>6, <2>9 DEF Before
  <2>11. Before(p, q[k], p[k])
    BY <2>10
  <2>12. PICK i, j \in 1 .. Len(p) : i < j /\ p[i] = q[k] /\ p[j] = p[k]
    BY <2>11 DEF Before
  <2>13. j = k
    BY <1>1, <2>2, <2>12
  <2>14. q[i] = q[k] /\ i \in 1 .. Len(q) /\ i # k
    BY <2>3, <2>12, <2>13
  <2> QED BY <1>1, <2>9, <2>14
<1> QED BY <1>2

\* ... and the whole.
LEMMA SameList ==
  ASSUME NEW p, NEW q, IsList(p), IsList(q),
         \A x : Contains(p, x) <=> Contains(q, x),
         \A a, b : Before(p, a, b) <=> Before(q, a, b)
  PROVE  p = q
<1>1. \A k \in 1 .. Len(p) : k \in 1 .. Len(q) /\ p[k] = q[k]
  BY SameHalf
<1>2. \A k \in 1 .. Len(q) : k \in 1 .. Len(p)
  BY SameHalf
<1>3. p \in Seq(Subs) /\ q \in Seq(Subs) /\ Len(p) \in Nat /\ Len(q) \in Nat
  BY ListFacts
<1>4. Len(p) = Len(q)
  <2>1. Len(p) <= Len(q)
    <3>1. CASE Len(p) = 0
      BY <1>3, <3>1
    <3>2. CASE Len(p) # 0
      BY <1>1, <1>3, <3>2
    <3> QED BY <3>1, <3>2
  <2>2. Len(q) <= Len(p)
    <3>1. CASE Len(q) = 0
      BY <1>3, <3>1
    <3>2. CASE Len(q) # 0
      BY <1>2, <1>3, <3>2
    <3> QED BY <3>1, <3>2
  <2> QED BY <1>3, <2>1, <2>2
<1> QED BY <1>1, <1>3, <1>4

------------------------------------------------------------------------------
(* Without is defined by recursion over the list.  The function it chooses    *)
(* exists, and what it keeps of the first i records is known for every i: both *)
(* by the least i for which it would not hold.                                *)

IsKept(g, l, S, n) ==
    g = [i \in 0 .. n |-> IF i = 0 THEN <<>>
                          ELSE IF l[i] \in S THEN g[i - 1] ELSE Append(g[i - 1], l[i])]

LEMMA KeptExists ==
  ASSUME NEW l, IsList(l), NEW S
  PROVE  \E g : IsKept(g, l, S, Len(l))
<1> DEFINE Bad == {n \in 0 .. Len(l) : ~ \E g : IsKept(g, l, S, n)}
<1>1. Len(l) \in Nat
  BY ListFacts
<1>2. ASSUME Bad # {} PROVE FALSE
  <2>1. PICK n \in Bad : \A y \in Bad : n <= y
    <3>1. Bad \in SUBSET Nat
      BY <1>1
    <3> HIDE DEF Bad
    <3> QED BY <1>2, <3>1, LeastFact
  <2>2. n \in 0 .. Len(l) /\ ~ \E g : IsKept(g, l, S, n)
    BY <2>1
  <2>3. CASE n = 0
    <3> DEFINE h == [i \in 0 .. 0 |-> <<>>]
    <3>1. IsKept(h, l, S, 0)
      BY DEF IsKept
    <3> QED BY <2>2, <2>3, <3>1
  <2>4. CASE n # 0
    <3>1. n - 1 \in 0 .. Len(l) /\ ~ (n <= n - 1)
      BY <1>1, <2>2, <2>4
    <3>2. n - 1 \notin Bad
      BY <2>1, <3>1
    <3>3. PICK g : IsKept(g, l, S, n - 1)
      BY <3>1, <3>2
    <3> DEFINE h == [i \in 0 .. n |->
                        IF i < n THEN g[i]
                        ELSE IF l[n] \in S THEN g[n - 1] ELSE Append(g[n - 1], l[n])]
    <3>4. /\ h[0] = <<>>
          /\ \A i \in 1 .. n : h[i] = IF l[i] \in S THEN h[i - 1] ELSE Append(h[i - 1], l[i])
      <4>1. \A i \in 0 .. n - 1 : h[i] = g[i]
        BY <2>2
      <4>2. h[n] = IF l[n] \in S THEN g[n - 1] ELSE Append(g[n - 1], l[n])
        BY <2>2
      <4>3. /\ g[0] = <<>>
            /\ \A i \in 1 .. n - 1 : g[i] = IF l[i] \in S THEN g[i - 1] ELSE Append(g[i - 1], l[i])
        <5>1. \A i \in 0 .. n - 1 : g[i] = IF i = 0 THEN <<>>
                      ELSE IF l[i] \in S THEN g[i - 1] ELSE Append(g[i - 1], l[i])
          BY <3>3, Zenon DEF IsKept
        <5>2. 0 \in 0 .. n - 1 /\ \A i \in 1 .. n - 1 : i \in 0 .. n - 1 /\ i # 0
          BY <2>2, <2>4
        <5> QED BY <5>1, <5>2, Zenon
      <4>4. /\ 0 \in 0 .. n - 1 /\ n - 1 \in 0 .. n - 1
            /\ \A i \in 1 .. n : i = n \/ (i \in 1 .. n - 1 /\ i \in 0 .. n - 1 /\ i - 1 \in 0 .. n - 1)
        BY <2>2, <2>4
      <4> HIDE DEF h
      <4> QED BY <4>1, <4>2, <4>3, <4>4, Zenon
    <3>5. \A i \in 0 .. n : h[i] = IF i = 0 THEN <<>>
                      ELSE IF l[i] \in S THEN h[i - 1] ELSE Append(h[i - 1], l[i])
      <4>1. \A i \in 0 .. n : i = 0 \/ (i # 0 /\ i \in 1 .. n)
        BY <2>2
      <4> HIDE DEF h
      <4> QED BY <3>4, <4>1, Zenon
    <3>6. h = [i \in 0 .. n |-> h[i]]
      OBVIOUS
    <3>7. IsKept(h, l, S, n)
      <4> HIDE DEF h
      <4> QED BY <3>5, <3>6, Zenon DEF IsKept
    <3> QED BY <2>2, <3>7
  <2> QED BY <2>3, <2>4
<1>3. Len(l) \in 0 .. Len(l)
  BY <1>1
<1> QED BY <1>2, <1>3

\* Without keeps what is not in the set, in its order.
LEMMA WithoutFacts ==
  ASSUME NEW l, IsList(l), NEW S, NEW q, q = Without(l, S)
  PROVE  /\ IsList(q)
         /\ \A x : Contains(q, x) <=> Contains(l, x) /\ x \notin S
         /\ \A a, b : Before(q, a, b) <=> Before(l, a, b) /\ a \notin S /\ b \notin S
<1>1. /\ Len(l) \in Nat /\ \A i \in 1 .. Len(l) : l[i] \in Subs
      /\ \A i, j \in 1 .. Len(l) : l[i] = l[j] => i = j
  BY ListFacts
<1>2. PICK g : IsKept(g, l, S, Len(l)) /\ q = g[Len(l)]
  <2>1. q = (CHOOSE g : IsKept(g, l, S, Len(l)))[Len(l)]
    BY DEF Without, IsKept
  <2> QED BY <2>1, KeptExists
<1>3. /\ g[0] = <<>>
      /\ \A i \in 1 .. Len(l) : g[i] = IF l[i] \in S THEN g[i - 1] ELSE Append(g[i - 1], l[i])
  <2>1. \A i \in 0 .. Len(l) : g[i] = IF i = 0 THEN <<>>
                ELSE IF l[i] \in S THEN g[i - 1] ELSE Append(g[i - 1], l[i])
    BY <1>2, Zenon DEF IsKept
  <2>2. 0 \in 0 .. Len(l) /\ \A i \in 1 .. Len(l) : i \in 0 .. Len(l) /\ i # 0
    BY <1>1
  <2> QED BY <2>1, <2>2, Zenon
<1> DEFINE Has(i, x) == \E k \in 1 .. i : l[k] = x /\ x \notin S
           Ord(i, a, b) == \E k, m \in 1 .. i : k < m /\ l[k] = a /\ l[m] = b /\ a \notin S /\ b \notin S
           Good(i) == /\ IsList(g[i])
                      /\ \A x : Contains(g[i], x) <=> Has(i, x)
                      /\ \A a, b : Before(g[i], a, b) <=> Ord(i, a, b)
           Bad == {i \in 0 .. Len(l) : ~ Good(i)}
<1>4. Good(0)
  <2>1. ~ \E k \in 1 .. 0 : TRUE
    OBVIOUS
  <2> QED BY <1>3, <2>1, EmptyFacts
<1>5. ASSUME NEW i \in 1 .. Len(l), Good(i - 1) PROVE Good(i)
  <2>1. /\ i - 1 \in Nat /\ i \in 1 .. i
        /\ \A k \in 1 .. i : k = i \/ k \in 1 .. i - 1
        /\ \A k \in 1 .. i - 1 : k \in 1 .. i /\ k \in 1 .. Len(l) /\ k < i /\ k # i
        /\ \A k \in 1 .. i : ~ (i < k)
    BY <1>1
  <2>2. CASE l[i] \in S
    <3>1. g[i] = g[i - 1]
      BY <1>3, <2>2
    <3>2. \A x : Has(i, x) <=> Has(i - 1, x)
      BY <2>1, <2>2, Zenon
    <3>3. \A a, b : Ord(i, a, b) <=> Ord(i - 1, a, b)
      BY <2>1, <2>2, Zenon
    <3> HIDE DEF Has, Ord
    <3> QED BY <1>5, <3>1, <3>2, <3>3
  <2>3. CASE l[i] \notin S
    <3>1. g[i] = Append(g[i - 1], l[i]) /\ l[i] \in Subs
      BY <1>1, <1>3, <2>3
    <3>2. ~ Has(i - 1, l[i])
      BY <1>1, <2>1
    <3>3. \A x : Has(i, x) <=> Has(i - 1, x) \/ x = l[i]
      BY <2>1, <2>3, Zenon
    <3>4. ASSUME NEW a, NEW b PROVE Ord(i, a, b) <=> Ord(i - 1, a, b) \/ (Has(i - 1, a) /\ b = l[i])
      <4>1. ASSUME Ord(i, a, b) PROVE Ord(i - 1, a, b) \/ (Has(i - 1, a) /\ b = l[i])
        <5>1. PICK k, m \in 1 .. i : k < m /\ l[k] = a /\ l[m] = b /\ a \notin S /\ b \notin S
          BY <4>1
        <5>2. k \in 1 .. i - 1
          BY <2>1, <5>1
        <5> QED BY <2>1, <5>1, <5>2
      <4>2. ASSUME Ord(i - 1, a, b) PROVE Ord(i, a, b)
        BY <2>1, <4>2, Zenon
      <4>3. ASSUME Has(i - 1, a), b = l[i] PROVE Ord(i, a, b)
        BY <2>1, <2>3, <4>3, Zenon
      <4> HIDE DEF Has, Ord
      <4> QED BY <4>1, <4>2, <4>3
    <3> HIDE DEF Has, Ord
    <3>5. ~ Contains(g[i - 1], l[i])
      BY <1>5, <3>2
    <3>6. PICK h, s : h = g[i - 1] /\ s = l[i]
      OBVIOUS
    <3>7. /\ IsList(g[i])
          /\ \A x : Contains(g[i], x) <=> Contains(g[i - 1], x) \/ x = l[i]
          /\ \A a, b : Before(g[i], a, b) <=> Before(g[i - 1], a, b) \/ (Contains(g[i - 1], a) /\ b = l[i])
      <4>1. IsList(h) /\ s \in Subs /\ ~ Contains(h, s) /\ g[i] = Append(h, s)
        BY <1>5, <3>1, <3>5, <3>6
      <4> QED BY <3>6, <4>1, AppendFacts DEF Grown
    <3> QED BY <1>5, <3>3, <3>4, <3>7
  <2> QED BY <2>2, <2>3
<1> HIDE DEF Good
<1>6. ASSUME Bad # {} PROVE FALSE
  <2>1. PICK n \in Bad : \A y \in Bad : n <= y
    <3>1. Bad \in SUBSET Nat
      BY <1>1
    <3> HIDE DEF Bad
    <3> QED BY <1>6, <3>1, LeastFact
  <2>2. n \in 1 .. Len(l) /\ n - 1 \in 0 .. Len(l) /\ ~ (n <= n - 1)
    BY <1>1, <1>4, <2>1
  <2>3. Good(n - 1)
    BY <2>1, <2>2
  <2> QED BY <1>5, <2>1, <2>2, <2>3
<1>7. Good(Len(l))
  BY <1>1, <1>6
<1>8. /\ \A x : Has(Len(l), x) <=> Contains(l, x) /\ x \notin S
      /\ \A a, b : Ord(Len(l), a, b) <=> Before(l, a, b) /\ a \notin S /\ b \notin S
  BY DEF Contains, Before
<1> HIDE DEF Has, Ord
<1> QED BY <1>2, <1>7, <1>8 DEF Good

\* What is removed from the abstract list.
LEMMA RemoveFacts ==
  ASSUME NEW l, IsList(l), NEW s, NEW q, q = RemoveFirst(l, s)
  PROVE  /\ IsList(q)
         /\ \A x : Contains(q, x) <=> Contains(l, x) /\ x # s
         /\ \A a, b : Before(q, a, b) <=> Before(l, a, b) /\ a # s /\ b # s
<1>1. /\ l \in Seq(Subs) /\ Len(l) \in Nat /\ \A i \in 1 .. Len(l) : l[i] \in Subs
      /\ \A i, j \in 1 .. Len(l) : l[i] = l[j] => i = j
  BY ListFacts
<1>2. CASE ~ Contains(l, s)
  <2>1. q = l
    BY <1>2 DEF RemoveFirst, Contains
  <2> QED BY <1>2, <2>1, BeforeFacts
<1>3. CASE Contains(l, s)
  <2>1. PICK n \in 1 .. Len(l) : l[n] = s /\ q = RemoveAt(l, n)
    <3> DEFINE I == {i \in 1 .. Len(l) : l[i] = s}
    <3>1. I \in SUBSET Nat /\ I # {}
      BY <1>3 DEF Contains
    <3>2. Min(I) \in I
      BY <3>1, MinFacts
    <3>3. q = RemoveAt(l, Min(I))
      BY <1>3, <3>1 DEF RemoveFirst, SelectInSeq, Contains
    <3> QED BY <3>2, <3>3
  <2>2. /\ q \in Seq(Subs) /\ Len(q) = Len(l) - 1
        /\ \A i \in 1 .. Len(l) - 1 : q[i] = IF i < n THEN l[i] ELSE l[i + 1]
    <3> DEFINE before == SubSeq(l, 1, n - 1)
               after == SubSeq(l, n + 1, Len(l))
    <3>1. /\ before \in Seq(Subs) /\ Len(before) = n - 1
          /\ \A i \in 1 .. n - 1 : before[i] = l[i]
      BY <1>1
    <3>2. /\ after \in Seq(Subs) /\ Len(after) = Len(l) - n
          /\ \A i \in 1 .. Len(l) - n : after[i] = l[i + n]
      BY <1>1
    <3>3. q = before \o after
      BY <2>1 DEF RemoveAt
    <3> HIDE DEF before, after
    <3>4. q \in Seq(Subs) /\ Len(q) = Len(l) - 1
      <4>1. \A u, v \in Seq(Subs) : u \o v \in Seq(Subs) /\ Len(u \o v) = Len(u) + Len(v)
        OBVIOUS
      <4>2. q \in Seq(Subs) /\ Len(q) = Len(before) + Len(after)
        BY ONLY <3>1, <3>2, <3>3, <4>1
      <4> QED BY <1>1, <3>1, <3>2, <4>2
    <3>5. ASSUME NEW i \in 1 .. Len(l) - 1 PROVE q[i] = IF i < n THEN l[i] ELSE l[i + 1]
      <4>1. CASE i < n
        BY <1>1, <3>1, <3>2, <3>3, <4>1
      <4>2. CASE ~ (i < n)
        <5>1. i - (n - 1) \in 1 .. Len(l) - n /\ (i - (n - 1)) + n = i + 1
          BY <1>1, <4>2
        <5>2. q[i] = after[i - (n - 1)]
          BY <1>1, <3>1, <3>2, <3>3, <4>2, SMTT(30)
        <5> QED BY <3>2, <4>2, <5>1, <5>2
      <4> QED BY <4>1, <4>2
    <3> QED BY <3>4, <3>5
  <2>3. \A i \in 1 .. Len(q) : \E j \in 1 .. Len(l) :
           q[i] = l[j] /\ j # n /\ j = IF i < n THEN i ELSE i + 1
    BY <1>1, <2>2
  <2>4. \A j \in 1 .. Len(l) : j # n => \E i \in 1 .. Len(q) :
           q[i] = l[j] /\ i = IF j < n THEN j ELSE j - 1
    <3>1. ASSUME NEW j \in 1 .. Len(l), j < n
          PROVE  j \in 1 .. Len(q) /\ q[j] = l[j]
      BY <1>1, <2>2, <3>1
    <3>2. ASSUME NEW j \in 1 .. Len(l), ~ (j < n), j # n
          PROVE  j - 1 \in 1 .. Len(q) /\ q[j - 1] = l[j]
      <4>1. j - 1 \in 1 .. Len(l) - 1 /\ ~ (j - 1 < n) /\ (j - 1) + 1 = j
        BY <1>1, <3>2
      <4> QED BY <2>2, <4>1
    <3> QED BY <3>1, <3>2
  <2>5. IsList(q)
    <3>1. ASSUME NEW i \in 1 .. Len(q), NEW j \in 1 .. Len(q), q[i] = q[j] PROVE i = j
      <4>1. PICK k \in 1 .. Len(l) : q[i] = l[k] /\ k = IF i < n THEN i ELSE i + 1
        BY <2>3
      <4>2. PICK m \in 1 .. Len(l) : q[j] = l[m] /\ m = IF j < n THEN j ELSE j + 1
        BY <2>3
      <4>3. k = m
        BY <1>1, <3>1, <4>1, <4>2
      <4> QED BY <2>2, <4>1, <4>2, <4>3
    <3>2. DOMAIN q = 1 .. Len(q)
      BY <2>2
    <3> QED BY <2>2, <3>1, <3>2 DEF IsList, IsInjective
  <2>6. \A x : Contains(q, x) <=> Contains(l, x) /\ x # s
    <3>1. \A x : Contains(q, x) => Contains(l, x) /\ x # s
      BY <1>1, <2>1, <2>3 DEF Contains
    <3>2. ASSUME NEW x, Contains(l, x), x # s PROVE Contains(q, x)
      <4>1. PICK j \in 1 .. Len(l) : l[j] = x
        BY <3>2 DEF Contains
      <4>2. j # n
        BY <2>1, <3>2, <4>1
      <4> QED BY <2>4, <4>1, <4>2 DEF Contains
    <3> QED BY <3>1, <3>2
  <2>7. ASSUME NEW a, NEW b, Before(q, a, b) PROVE Before(l, a, b) /\ a # s /\ b # s
    <3>1. PICK i, j \in 1 .. Len(q) : i < j /\ q[i] = a /\ q[j] = b
      BY <2>7 DEF Before
    <3>2. PICK k \in 1 .. Len(l) : q[i] = l[k] /\ k # n /\ k = IF i < n THEN i ELSE i + 1
      BY <2>3
    <3>3. PICK m \in 1 .. Len(l) : q[j] = l[m] /\ m # n /\ m = IF j < n THEN j ELSE j + 1
      BY <2>3
    <3>4. k < m
      BY <2>2, <3>1, <3>2, <3>3
    <3> QED BY <1>1, <2>1, <3>1, <3>2, <3>3, <3>4 DEF Before
  <2>8. ASSUME NEW a, NEW b, Before(l, a, b), a # s, b # s PROVE Before(q, a, b)
    <3>1. PICK i, j \in 1 .. Len(l) : i < j /\ l[i] = a /\ l[j] = b
      BY <2>8 DEF Before
    <3>2. i # n /\ j # n
      BY <2>1, <2>8, <3>1
    <3>3. PICK k \in 1 .. Len(q) : q[k] = l[i] /\ k = IF i < n THEN i ELSE i - 1
      BY <2>4, <3>2
    <3>4. PICK m \in 1 .. Len(q) : q[m] = l[j] /\ m = IF j < n THEN j ELSE j - 1
      BY <2>4, <3>2
    <3>5. k < m
      <4>1. i \in Int /\ j \in Int /\ n \in Int /\ i < j
        BY <3>1
      <4> QED BY ONLY <3>2, <3>3, <3>4, <4>1
    <3> QED BY <3>1, <3>3, <3>4, <3>5 DEF Before
  <2> QED BY <2>5, <2>6, <2>7, <2>8
<1> QED BY <1>2, <1>3

------------------------------------------------------------------------------
(* Where a walk over a list goes. *)

LEMMA FirstLiveFacts ==
  ASSUME NEW l, IsList(l)
  PROVE  LET t == FirstLive(l)
         IN  /\ t \in Subs \cup {Null}
             /\ t = Null => \A x : Contains(l, x) => x \in bus.dead
             /\ t # Null => /\ Contains(l, t) /\ t \notin bus.dead
                            /\ \A x : Before(l, x, t) => x \in bus.dead
<1> DEFINE I == {i \in 1 .. Len(l) : l[i] \notin bus.dead}
<1>1. /\ Len(l) \in Nat /\ \A i \in 1 .. Len(l) : l[i] \in Subs
      /\ \A i, j \in 1 .. Len(l) : l[i] = l[j] => i = j
  BY ListFacts
<1>2. CASE I = {}
  <2>1. FirstLive(l) = Null
    BY <1>2 DEF FirstLive, SelectInSeq
  <2>2. \A x : Contains(l, x) => x \in bus.dead
    BY <1>2 DEF Contains
  <2> QED BY <2>1, <2>2
<1>3. CASE I # {}
  <2>1. Min(I) \in I /\ \A y \in I : Min(I) <= y
    <3>1. I \in SUBSET Nat
      BY <1>1
    <3> QED BY <1>3, <3>1, MinFacts
  <2>2. Min(I) # 0
    BY <1>1, <2>1
  <2>3. FirstLive(l) = l[Min(I)]
    BY <1>3, <2>2 DEF FirstLive, SelectInSeq
  <2>4. PICK n : n = Min(I)
    OBVIOUS
  <2>5. /\ n \in 1 .. Len(l) /\ l[n] \notin bus.dead /\ FirstLive(l) = l[n]
        /\ \A y \in 1 .. Len(l) : y < n => l[y] \in bus.dead
    <3>1. n \in I /\ FirstLive(l) = l[n] /\ \A y \in I : n <= y
      BY <2>1, <2>3, <2>4
    <3>2. ASSUME NEW y \in 1 .. Len(l), y < n PROVE l[y] \in bus.dead
      <4>1. ~ (n <= y)
        BY <3>1, <3>2
      <4> QED BY <3>1, <4>1
    <3> QED BY <3>1, <3>2
  <2>6. ASSUME NEW x, Before(l, x, l[n]) PROVE x \in bus.dead
    <3>1. PICK i, j \in 1 .. Len(l) : i < j /\ l[i] = x /\ l[j] = l[n]
      BY <2>6 DEF Before
    <3>2. j = n
      BY <1>1, <2>5, <3>1
    <3> QED BY <2>5, <3>1, <3>2
  <2>7. Contains(l, l[n]) /\ l[n] \in Subs /\ l[n] # Null
    BY <1>1, <2>5, EventBusAssumption DEF Contains
  <2> QED BY <2>5, <2>6, <2>7
<1> QED BY <1>2, <1>3

LEMMA NextLiveFacts ==
  ASSUME NEW l, IsList(l), NEW s, Contains(l, s)
  PROVE  LET t == NextLive(l, s)
         IN  /\ t \in Subs \cup {Null}
             /\ t = Null => \A x : Before(l, s, x) => x \in bus.dead
             /\ t # Null => /\ Before(l, s, t) /\ t \notin bus.dead
                            /\ \A x : Before(l, s, x) /\ Before(l, x, t) => x \in bus.dead
<1> DEFINE I == {i \in 1 .. Len(l) : l[i] = s}
<1>1. /\ l \in Seq(Subs) /\ Len(l) \in Nat /\ \A i \in 1 .. Len(l) : l[i] \in Subs
      /\ \A i, j \in 1 .. Len(l) : l[i] = l[j] => i = j
  BY ListFacts
<1>2. I \in SUBSET Nat /\ I # {}
  BY DEF Contains
<1>3. Min(I) \in I
  BY <1>2, MinFacts
<1>4. Min(I) # 0
  BY <1>1, <1>3
<1>5. NextLive(l, s) = FirstLive(SubSeq(l, Min(I) + 1, Len(l)))
  BY <1>2, <1>4 DEF NextLive, SelectInSeq
<1>6. PICK n \in 1 .. Len(l) : l[n] = s /\ NextLive(l, s) = FirstLive(SubSeq(l, n + 1, Len(l)))
  BY <1>3, <1>5
<1> HIDE DEF I
<1>7. PICK q : q = SubSeq(l, n + 1, Len(l))
  OBVIOUS
<1>8. /\ q \in Seq(Subs) /\ Len(q) = Len(l) - n /\ DOMAIN q = 1 .. Len(q)
      /\ \A i \in 1 .. Len(l) - n : q[i] = l[i + n]
  BY <1>1, <1>7
<1>9. \A i \in 1 .. Len(q) : i + n \in 1 .. Len(l) /\ n < i + n /\ q[i] = l[i + n]
  BY <1>1, <1>8
<1>10. \A j \in 1 .. Len(l) : n < j => j - n \in 1 .. Len(q) /\ q[j - n] = l[j]
  <2> SUFFICES ASSUME NEW j \in 1 .. Len(l), n < j
               PROVE  j - n \in 1 .. Len(q) /\ q[j - n] = l[j]
    OBVIOUS
  <2>1. j - n \in 1 .. Len(l) - n /\ (j - n) + n = j
    BY <1>1
  <2> QED BY <1>8, <2>1
<1>11. IsList(q)
  <2>1. ASSUME NEW i \in 1 .. Len(q), NEW j \in 1 .. Len(q), q[i] = q[j] PROVE i = j
    <3>1. i + n = j + n
      BY <1>1, <1>9, <2>1
    <3> QED BY <1>8, <3>1
  <2> QED BY <1>8, <2>1 DEF IsList, IsInjective
<1>12. \A x : Contains(q, x) <=> Before(l, s, x)
  <2>1. ASSUME NEW x, Contains(q, x) PROVE Before(l, s, x)
    BY <1>6, <1>9, <2>1 DEF Contains, Before
  <2>2. ASSUME NEW x, Before(l, s, x) PROVE Contains(q, x)
    <3>1. PICK i, j \in 1 .. Len(l) : i < j /\ l[i] = s /\ l[j] = x
      BY <2>2 DEF Before
    <3>2. i = n
      BY <1>1, <1>6, <3>1
    <3> QED BY <1>10, <3>1, <3>2 DEF Contains
  <2> QED BY <2>1, <2>2
<1>13. ASSUME NEW x, NEW t, Before(l, s, x), Before(l, x, t) PROVE Before(q, x, t)
  <2>1. PICK i, j \in 1 .. Len(l) : i < j /\ l[i] = s /\ l[j] = x
    BY <1>13 DEF Before
  <2>2. PICK k, m \in 1 .. Len(l) : k < m /\ l[k] = x /\ l[m] = t
    BY <1>13 DEF Before
  <2>3. i = n /\ j = k
    BY <1>1, <1>6, <2>1, <2>2
  <2>4. n < k /\ n < m /\ k - n < m - n
    BY <1>1, <2>1, <2>2, <2>3
  <2>5. k - n \in 1 .. Len(q) /\ q[k - n] = x /\ m - n \in 1 .. Len(q) /\ q[m - n] = t
    BY <1>10, <2>2, <2>4
  <2> QED BY <2>4, <2>5 DEF Before
<1>14. NextLive(l, s) = FirstLive(q)
  BY <1>6, <1>7
<1> QED BY <1>11, <1>12, <1>13, <1>14, FirstLiveFacts

------------------------------------------------------------------------------
(* What each operation does to the bus. *)

LEMMA Sizes ==
  /\ Cardinality(Subs) \in Nat /\ Cardinality(Names) \in Nat /\ Ids \subseteq Nat
  /\ 1 \in Ids /\ \A id \in Nat : id > 0 /\ id <= Cardinality(Names) => id \in Ids
  /\ \A T \in SUBSET Subs : /\ IsFiniteSet(T) /\ Cardinality(T) \in Nat
                            /\ Cardinality(T) \in 0 .. Cardinality(Subs)
<1>1. Cardinality(Subs) \in Nat /\ Cardinality(Names) \in Nat
  BY FS_CardinalityType, EventBusAssumption
<1>2. Cardinality(Names) # 0
  BY FS_EmptySet, EventBusAssumption
<1>3. 1 \in Ids /\ Ids \subseteq Nat /\ \A id \in Nat : id > 0 /\ id <= Cardinality(Names) => id \in Ids
  BY <1>1, <1>2 DEF Ids
<1>4. ASSUME NEW T \in SUBSET Subs
      PROVE  /\ IsFiniteSet(T) /\ Cardinality(T) \in Nat
             /\ Cardinality(T) \in 0 .. Cardinality(Subs)
  <2>1. IsFiniteSet(T) /\ Cardinality(T) <= Cardinality(Subs)
    BY FS_Subset, EventBusAssumption
  <2>2. Cardinality(T) \in Nat
    BY <2>1, FS_CardinalityType
  <2> QED BY <1>1, <2>1, <2>2
<1> QED BY <1>1, <1>3, <1>4

LEMMA BusFacts ==
  ASSUME NEW b, BusHolds(b)
  PROVE  /\ b \in Buses /\ ListsHold(b) /\ NamesHold(b) /\ CountsHold(b)
         /\ b.names \in Seq(Names) /\ Len(b.names) \in Nat
         /\ b.subs \in [Ids -> Seq(Subs)]
         /\ b.tag \in [Subs -> Tags \cup {NoTag}]
         /\ b.dead \in SUBSET Subs /\ b.retired \in Seq(Subs)
         /\ b.depth \in 0 .. MaxDepth /\ b.depth \in Nat
         /\ b.count \in 0 .. Cardinality(Subs)
         /\ b.depth = 0 => b.dead = {} /\ b.retired = <<>>
<1>1. /\ b \in Buses /\ ListsHold(b) /\ NamesHold(b) /\ CountsHold(b)
      /\ b.depth = 0 => b.retired = <<>>
  BY DEF BusHolds, BooksHold
<1>2. /\ b.names \in Seq(Names)
      /\ b.subs \in [Ids -> Seq(Subs)]
      /\ b.tag \in [Subs -> Tags \cup {NoTag}]
      /\ b.dead \in SUBSET Subs /\ b.retired \in Seq(Subs)
      /\ b.depth \in 0 .. MaxDepth
      /\ b.count \in 0 .. Cardinality(Subs)
  BY <1>1 DEF Buses
<1>3. b.depth = 0 => b.dead = {} /\ b.retired = <<>>
  BY <1>1 DEF CountsHold, ToSet
<1>4. Len(b.names) \in Nat /\ b.depth \in Nat
  BY <1>2, EventBusAssumption
<1> QED BY <1>1, <1>2, <1>3, <1>4

\* A bus is the record of its fields.
Fields(names, subs, tag, dead, retired, depth, count) ==
    [names |-> names, subs |-> subs, tag |-> tag, dead |-> dead, retired |-> retired,
     depth |-> depth, count |-> count]

LEMMA FieldsFact ==
  ASSUME NEW b \in Buses
  PROVE  b = Fields(b.names, b.subs, b.tag, b.dead, b.retired, b.depth, b.count)
BY DEF Buses, Fields

\* An entry has a place among the lists.
LEMMA EntryFacts ==
  ASSUME NEW b, BusHolds(b)
  PROVE  /\ Len(b.names) <= Cardinality(Names)
         /\ \A id \in Nat : id > 0 /\ id <= Len(b.names) => id \in Ids
<1>1. b.names \in Seq(Names) /\ Cardinality(ToSet(b.names)) = Len(b.names) /\ Len(b.names) \in Nat
  BY BusFacts DEF NamesHold
<1>2. ToSet(b.names) \in SUBSET Names
  BY <1>1 DEF ToSet
<1>3. Len(b.names) <= Cardinality(Names)
  BY <1>1, <1>2, FS_Subset, EventBusAssumption
<1> QED BY <1>1, <1>3, Sizes

\* A sequence and the set of what is in it, when one more is appended.
LEMMA AppendSet ==
  ASSUME NEW r \in Seq(Names \cup Subs), NEW x \in Names \cup Subs, NEW q, q = Append(r, x)
  PROVE  /\ Len(q) = Len(r) + 1 /\ ToSet(q) = ToSet(r) \cup {x}
         /\ IsInjective(r) /\ x \notin ToSet(r) => IsInjective(q)
<1>1. Len(r) \in Nat /\ DOMAIN r = 1 .. Len(r)
  OBVIOUS
<1>2. /\ Len(q) = Len(r) + 1 /\ DOMAIN q = 1 .. Len(q)
      /\ \A i \in 1 .. Len(r) : q[i] = r[i]
      /\ q[Len(r) + 1] = x
  BY <1>1
<1>3. /\ \A i \in 1 .. Len(q) : i \in 1 .. Len(r) \/ i = Len(r) + 1
      /\ \A i \in 1 .. Len(r) : i \in 1 .. Len(q)
      /\ Len(r) + 1 \in 1 .. Len(q)
  BY <1>1, <1>2
<1>4. ToSet(q) = ToSet(r) \cup {x}
  BY ONLY <1>1, <1>2, <1>3 DEF ToSet
<1>5. IsInjective(r) /\ x \notin ToSet(r) => IsInjective(q)
  BY ONLY <1>1, <1>2, <1>3 DEF ToSet, IsInjective
<1> QED BY <1>2, <1>4, <1>5

\* A name more.
LEMMA NamedFacts ==
  ASSUME NEW b, BusHolds(b), NEW n \in Names, ~ Contains(b.names, n),
         NEW c, c = [b EXCEPT !.names = Append(@, n)]
  PROVE  /\ BusHolds(c)
         /\ c.subs = b.subs /\ c.dead = b.dead /\ c.depth = b.depth
<1>1. /\ c.names = Append(b.names, n) /\ c.subs = b.subs /\ c.tag = b.tag /\ c.dead = b.dead
      /\ c.retired = b.retired /\ c.depth = b.depth /\ c.count = b.count
  BY BusFacts DEF Buses
<1>2. /\ b.names \in Seq(Names) /\ Len(b.names) \in Nat /\ IsInjective(b.names)
      /\ Cardinality(ToSet(b.names)) = Len(b.names)
  BY BusFacts DEF NamesHold
<1>3. n \notin ToSet(b.names)
  BY <1>2 DEF ToSet, Contains
<1>4. /\ c.names \in Seq(Names) /\ Len(c.names) = Len(b.names) + 1
      /\ ToSet(c.names) = ToSet(b.names) \cup {n} /\ IsInjective(c.names)
  <2>1. PICK r, q : r = b.names /\ q = c.names
    OBVIOUS
  <2>2. r \in Seq(Names) /\ q = Append(r, n)
    BY <1>1, <1>2, <2>1
  <2>3. r \in Seq(Names \cup Subs) /\ q \in Seq(Names)
    BY <2>2
  <2>4. IsInjective(r) /\ n \notin ToSet(r)
    BY <1>2, <1>3, <2>1
  <2>5. Len(q) = Len(r) + 1 /\ ToSet(q) = ToSet(r) \cup {n} /\ IsInjective(q)
    BY <2>2, <2>3, <2>4, AppendSet
  <2> QED BY <2>1, <2>3, <2>5
<1>5. c \in Buses
  <2>1. c = Fields(c.names, b.subs, b.tag, b.dead, b.retired, b.depth, b.count)
    BY <1>1, BusFacts, FieldsFact DEF Fields
  <2> QED BY <1>4, <2>1, BusFacts DEF Buses, Fields
<1>6. ToSet(b.names) \in SUBSET Names
  BY <1>2 DEF ToSet
<1>7. IsFiniteSet(ToSet(b.names))
  BY <1>6, FS_Subset, EventBusAssumption
<1>8. NamesHold(c)
  BY <1>2, <1>3, <1>4, <1>7, FS_AddElement DEF NamesHold
<1>9. ListsHold(c)
  <2>1. ListsHold(b) /\ \A id \in Ids : id > Len(c.names) => id > Len(b.names)
    BY <1>2, <1>4, BusFacts, Sizes
  <2> QED BY <1>1, <2>1 DEF ListsHold
<1>10. CountsHold(c)
  <2>1. CountsHold(b)
    BY BusFacts
  <2> QED BY <1>1, <2>1 DEF CountsHold, LiveIn, LinkedIn
<1> QED BY <1>1, <1>5, <1>8, <1>9, <1>10, BusFacts DEF BusHolds, BooksHold

\* A record more.
LEMMA SubscribedFacts ==
  ASSUME NEW b, BusHolds(b), NEW id \in Ids, id <= Len(b.names),
         NEW s \in Subs, s \notin LinkedIn(b), NEW tag \in Tags,
         NEW c, c = Subscribed(b, id, s, tag)
  PROVE  /\ BusHolds(c)
         /\ c.dead = b.dead /\ c.depth = b.depth /\ s \notin b.dead
         /\ c.subs = [b.subs EXCEPT ![id] = Append(@, s)]
<1>1. /\ c.names = b.names /\ c.subs = [b.subs EXCEPT ![id] = Append(@, s)]
      /\ c.tag = [b.tag EXCEPT ![s] = tag] /\ c.dead = b.dead
      /\ c.retired = b.retired /\ c.depth = b.depth /\ c.count = b.count + 1
  BY BusFacts DEF Buses, Subscribed
<1>2. /\ ListsHold(b) /\ CountsHold(b) /\ b.subs \in [Ids -> Seq(Subs)]
      /\ b.tag \in [Subs -> Tags \cup {NoTag}] /\ b.dead \in SUBSET Subs
  BY BusFacts
<1>3. s \notin b.dead /\ \A other \in Ids : ~ Contains(b.subs[other], s)
  BY <1>2 DEF CountsHold, LinkedIn
<1>4. PICK l : l = b.subs[id]
  OBVIOUS
<1>5. PICK q : q = Append(l, s)
  OBVIOUS
<1>6. IsList(l) /\ ~ Contains(l, s)
  BY <1>2, <1>3, <1>4 DEF ListsHold
<1>7. IsList(q) /\ \A x : Contains(q, x) <=> Contains(l, x) \/ x = s
  BY <1>5, <1>6, AppendFacts DEF Grown
<1>8. \A other \in Ids : c.subs[other] = IF other = id THEN q ELSE b.subs[other]
  BY <1>1, <1>2, <1>4, <1>5
<1>9. c.subs \in [Ids -> Seq(Subs)]
  <2>1. q \in Seq(Subs)
    BY <1>7 DEF IsList
  <2> QED BY <1>1, <1>2, <1>4, <1>5, <2>1
<1>10. ListsHold(c)
  <2>1. \A other \in Ids : IsList(c.subs[other])
    BY <1>2, <1>7, <1>8 DEF ListsHold
  <2>2. \A other \in Ids : other > Len(c.names) => c.subs[other] = <<>>
    <3>1. ~ (id > Len(b.names))
      BY BusFacts, Sizes
    <3> QED BY <1>1, <1>2, <1>8, <3>1 DEF ListsHold
  <2>3. \A other \in Ids : \A x \in Subs :
           Contains(c.subs[other], x) <=> Contains(b.subs[other], x) \/ (x = s /\ other = id)
    BY <1>4, <1>7, <1>8
  <2>4. ASSUME NEW i \in Ids, NEW j \in Ids, NEW x \in Subs,
               Contains(c.subs[i], x), Contains(c.subs[j], x)
        PROVE  i = j
    BY <1>2, <1>3, <2>3, <2>4 DEF ListsHold
  <2> QED BY <2>1, <2>2, <2>4 DEF ListsHold
<1>11. LinkedIn(c) = LinkedIn(b) \cup {s}
  <2>1. \A other \in Ids : \A x \in Subs :
           Contains(c.subs[other], x) <=> Contains(b.subs[other], x) \/ (x = s /\ other = id)
    BY <1>4, <1>7, <1>8
  <2> QED BY <2>1 DEF LinkedIn
<1>12. LiveIn(c) = LiveIn(b) \cup {s} /\ s \notin LiveIn(b)
  BY <1>1, <1>3, <1>11 DEF LiveIn
<1>13. LiveIn(b) \in SUBSET Subs /\ LiveIn(c) \in SUBSET Subs
  BY DEF LiveIn, LinkedIn
<1>14. c.count = Cardinality(LiveIn(c))
  <2>1. b.count = Cardinality(LiveIn(b)) /\ IsFiniteSet(LiveIn(b))
    BY <1>2, <1>13, Sizes DEF CountsHold
  <2>2. Cardinality(LiveIn(b) \cup {s}) = Cardinality(LiveIn(b)) + 1
    BY <1>12, <2>1, FS_AddElement
  <2> QED BY <1>1, <1>12, <2>1, <2>2
<1>15. c \in Buses
  <2>1. c.count \in 0 .. Cardinality(Subs)
    BY <1>13, <1>14, Sizes
  <2>2. c.tag \in [Subs -> Tags \cup {NoTag}]
    BY <1>1, <1>2
  <2>3. c = Fields(b.names, c.subs, c.tag, b.dead, b.retired, b.depth, c.count)
    BY <1>1, BusFacts, FieldsFact DEF Fields, Subscribed
  <2> QED BY <1>9, <2>1, <2>2, <2>3, BusFacts DEF Buses, Fields
<1>16. CountsHold(c)
  BY <1>1, <1>2, <1>11, <1>14 DEF CountsHold
<1>17. NamesHold(c)
  BY <1>1, BusFacts DEF NamesHold
<1> QED BY <1>1, <1>3, <1>10, <1>15, <1>16, <1>17, BusFacts DEF BusHolds, BooksHold

\* The retired records are freed.
LEMMA FreedFacts ==
  ASSUME NEW b, BooksHold(b), NEW c, c = CollectedAlways(b)
  PROVE  /\ BusHolds(c)
         /\ c.depth = b.depth /\ c.names = b.names /\ c.dead = {} /\ LiveIn(c) = LiveIn(b)
         /\ \A id \in Ids : c.subs[id] = Without(b.subs[id], b.dead)
         /\ \A s \in Subs : s \notin b.dead => c.tag[s] = b.tag[s]
<1>1. /\ b \in Buses /\ ListsHold(b) /\ NamesHold(b)
      /\ b.count = Cardinality(LiveIn(b)) /\ ToSet(b.retired) = b.dead
  BY DEF BooksHold, CountsHold
<1>2. /\ b.names \in Seq(Names) /\ b.subs \in [Ids -> Seq(Subs)]
      /\ b.tag \in [Subs -> Tags \cup {NoTag}] /\ b.dead \in SUBSET Subs
      /\ b.depth \in 0 .. MaxDepth /\ b.count \in 0 .. Cardinality(Subs)
  BY <1>1 DEF Buses
<1>3. PICK D : D = b.dead
  OBVIOUS
<1> DEFINE lists == [id \in Ids |-> Without(b.subs[id], D)]
           tags == [s \in Subs |-> IF s \in D THEN NoTag ELSE b.tag[s]]
<1>4. c = Fields(b.names, lists, tags, {}, <<>>, b.depth, b.count)
  <2>1. c = [b EXCEPT !.subs = lists, !.tag = tags, !.dead = b.dead \ D, !.retired = <<>>]
    BY <1>1, <1>3 DEF CollectedAlways
  <2>2. b.dead \ D = {}
    BY <1>3
  <2> HIDE DEF lists, tags
  <2> QED BY <1>1, <2>1, <2>2, FieldsFact DEF Fields
<1>5. \A id \in Ids : lists[id] = Without(b.subs[id], D)
  OBVIOUS
<1>6. tags \in [Subs -> Tags \cup {NoTag}] /\ \A s \in Subs : s \notin D => tags[s] = b.tag[s]
  BY <1>2
<1>7. ASSUME NEW id \in Ids
      PROVE  IsList(lists[id]) /\ \A x : Contains(lists[id], x) <=> Contains(b.subs[id], x) /\ x \notin D
  <2>1. PICK l, q : l = b.subs[id] /\ q = lists[id]
    OBVIOUS
  <2>2. IsList(l) /\ q = Without(l, D)
    BY <1>1, <1>5, <2>1 DEF ListsHold
  <2> HIDE DEF lists
  <2> QED BY <2>1, <2>2, WithoutFacts
<1>8. lists \in [Ids -> Seq(Subs)]
  <2>1. \A id \in Ids : lists[id] \in Seq(Subs)
    BY <1>7 DEF IsList
  <2> QED BY <2>1
<1> HIDE DEF lists, tags
<1>9. /\ c.names = b.names /\ c.subs = lists /\ c.tag = tags /\ c.dead = {} /\ c.retired = <<>>
      /\ c.depth = b.depth /\ c.count = b.count
  BY <1>4 DEF Fields
<1>10. c \in Buses
  BY <1>2, <1>4, <1>6, <1>8 DEF Fields, Buses
<1>11. ListsHold(c)
  <2>1. \A id \in Ids : IsList(c.subs[id])
    BY <1>7, <1>9
  <2>2. \A id, other \in Ids : \A x \in Subs :
          Contains(c.subs[id], x) /\ Contains(c.subs[other], x) => id = other
    BY <1>1, <1>7, <1>9 DEF ListsHold
  <2>3. ASSUME NEW id \in Ids, id > Len(c.names) PROVE c.subs[id] = <<>>
    <3>1. b.subs[id] = <<>>
      BY <1>1, <1>9, <2>3 DEF ListsHold
    <3>2. IsList(lists[id]) /\ \A x : ~ Contains(lists[id], x)
      BY <1>7, <3>1, EmptyFacts
    <3>3. PICK q : q = lists[id]
      OBVIOUS
    <3>4. IsList(q) /\ \A x : ~ Contains(q, x)
      BY <3>2, <3>3
    <3>5. \A u, v : ~ Before(q, u, v)
      BY <3>4, BeforeFacts
    <3>6. q = <<>>
      BY <3>4, <3>5, EmptyFacts, SameList
    <3> QED BY <1>9, <3>3, <3>6
  <2> QED BY <2>1, <2>2, <2>3 DEF ListsHold
<1>12. LinkedIn(c) = LinkedIn(b) \ D
  BY <1>7, <1>9 DEF LinkedIn
<1>13. LiveIn(c) = LiveIn(b)
  BY <1>3, <1>9, <1>12 DEF LiveIn
<1>14. CountsHold(c)
  <2>1. ToSet(c.retired) = {} /\ Len(c.retired) = 0
    BY <1>9 DEF ToSet
  <2> QED BY <1>1, <1>9, <1>13, <2>1, FS_EmptySet DEF CountsHold
<1>15. NamesHold(c)
  BY <1>1, <1>9 DEF NamesHold
<1>16. BusHolds(c)
  BY <1>9, <1>10, <1>11, <1>14, <1>15 DEF BusHolds, BooksHold
<1> QED BY <1>3, <1>5, <1>6, <1>9, <1>13, <1>16

\* A live record is marked dead and retired.
Marked(b, s) ==
    Fields(b.names, b.subs, b.tag, b.dead \cup {s}, Append(b.retired, s), b.depth, b.count - 1)

LEMMA MarkedFacts ==
  ASSUME NEW b, BusHolds(b), NEW s, s \in LiveIn(b),
         NEW c, c = Marked(b, s)
  PROVE  /\ BooksHold(c)
         /\ c.depth = b.depth /\ c.names = b.names /\ c.subs = b.subs /\ c.tag = b.tag
         /\ c.dead = b.dead \cup {s} /\ LiveIn(c) = LiveIn(b) \ {s}
<1>1. /\ b \in Buses /\ ListsHold(b) /\ NamesHold(b) /\ CountsHold(b)
      /\ b.dead \in SUBSET Subs /\ b.retired \in Seq(Subs)
      /\ b.count \in 0 .. Cardinality(Subs)
  BY BusFacts
<1>2. s \in Subs /\ s \in LinkedIn(b) /\ s \notin b.dead
  BY DEF LiveIn, LinkedIn
<1>4. /\ c.names = b.names /\ c.subs = b.subs /\ c.tag = b.tag /\ c.dead = b.dead \cup {s}
      /\ c.retired = Append(b.retired, s) /\ c.depth = b.depth /\ c.count = b.count - 1
  BY DEF Marked, Fields
<1>5. /\ c.retired \in Seq(Subs) /\ Len(c.retired) = Len(b.retired) + 1
      /\ ToSet(c.retired) = ToSet(b.retired) \cup {s}
  <2>1. PICK r, q : r = b.retired /\ q = c.retired
    OBVIOUS
  <2>2. r \in Seq(Subs) /\ q = Append(r, s)
    BY <1>1, <1>4, <2>1
  <2>3. r \in Seq(Names \cup Subs) /\ q \in Seq(Subs)
    BY <1>2, <2>2
  <2>4. Len(q) = Len(r) + 1 /\ ToSet(q) = ToSet(r) \cup {s}
    BY <1>2, <2>2, <2>3, AppendSet
  <2> QED BY <2>1, <2>3, <2>4
<1>6. LinkedIn(c) = LinkedIn(b) /\ LiveIn(c) = LiveIn(b) \ {s}
  BY <1>4 DEF LinkedIn, LiveIn
<1>7. LiveIn(b) \in SUBSET Subs /\ LiveIn(c) \in SUBSET Subs
  BY DEF LiveIn, LinkedIn
<1>8. c.count = Cardinality(LiveIn(c))
  <2>1. b.count = Cardinality(LiveIn(b)) /\ IsFiniteSet(LiveIn(b))
    BY <1>1, <1>7, Sizes DEF CountsHold
  <2>2. Cardinality(LiveIn(b) \ {s}) = Cardinality(LiveIn(b)) - 1
    BY <2>1, FS_RemoveElement
  <2> QED BY <1>4, <1>6, <2>1, <2>2
<1>9. Cardinality(c.dead) = Len(c.retired)
  <2>1. IsFiniteSet(b.dead) /\ Cardinality(b.dead) = Len(b.retired)
    BY <1>1, Sizes DEF CountsHold
  <2>2. Cardinality(b.dead \cup {s}) = Cardinality(b.dead) + 1
    BY <1>2, <2>1, FS_AddElement
  <2> QED BY <1>4, <1>5, <2>1, <2>2
<1>10. CountsHold(c)
  BY <1>1, <1>2, <1>4, <1>5, <1>6, <1>8, <1>9 DEF CountsHold
<1>11. c \in Buses
  <2>1. c.count \in 0 .. Cardinality(Subs)
    BY <1>7, <1>8, Sizes
  <2>2. c.dead \in SUBSET Subs
    BY <1>1, <1>2, <1>4
  <2>3. c = Fields(b.names, b.subs, b.tag, c.dead, c.retired, b.depth, c.count)
    BY <1>4 DEF Marked
  <2> QED BY <1>5, <2>1, <2>2, <2>3, BusFacts DEF Buses, Fields
<1>12. ListsHold(c) /\ NamesHold(c)
  BY <1>1, <1>4 DEF ListsHold, NamesHold
<1> QED BY <1>4, <1>6, <1>10, <1>11, <1>12 DEF BooksHold

\* A record is removed: at once outside a publication, marked inside one.
Removal(b, s, c) ==
    /\ BusHolds(c)
    /\ c.depth = b.depth /\ c.names = b.names /\ LiveIn(c) = LiveIn(b) \ {s}
    /\ b.depth # 0 => c.subs = b.subs /\ c.dead = b.dead \cup {s}
    /\ b.depth = 0 => /\ c.dead = {} /\ b.dead = {}
                      /\ \A id \in Ids : c.subs[id] = Without(b.subs[id], {s})
    /\ \A x \in Subs : x # s => c.tag[x] = b.tag[x]

LEMMA RemovedFacts ==
  ASSUME NEW b, BusHolds(b), NEW s, s \in LiveIn(b), NEW c, c = Removed(b, s)
  PROVE  Removal(b, s, c)
<1>1. s \notin b.dead
  BY DEF LiveIn
<1>2. PICK m : m = [b EXCEPT !.dead = @ \cup {s}, !.count = @ - 1, !.retired = Append(@, s)]
  OBVIOUS
<1>3. c = IF m.depth # 0 THEN m ELSE CollectedAlways(m)
  BY <1>1, <1>2 DEF Removed, Collected
<1>4. /\ BooksHold(m)
      /\ m.depth = b.depth /\ m.names = b.names /\ m.subs = b.subs /\ m.tag = b.tag
      /\ m.dead = b.dead \cup {s} /\ LiveIn(m) = LiveIn(b) \ {s}
  <2>1. PICK D, R, n : D = b.dead \cup {s} /\ R = Append(b.retired, s) /\ n = b.count - 1
    OBVIOUS
  <2>2. m = [b EXCEPT !.dead = D, !.count = n, !.retired = R]
    BY <1>2, <2>1
  <2>3. b = Fields(b.names, b.subs, b.tag, b.dead, b.retired, b.depth, b.count)
    BY BusFacts, FieldsFact
  <2>4. m = Fields(b.names, b.subs, b.tag, D, R, b.depth, n)
    BY ONLY <2>2, <2>3 DEF Fields
  <2>5. m = Marked(b, s)
    BY ONLY <2>1, <2>4 DEF Marked
  <2>6. BusHolds(b) /\ s \in LiveIn(b)
    OBVIOUS
  <2> QED BY ONLY <2>5, <2>6, MarkedFacts
<1>5. CASE b.depth # 0
  BY <1>3, <1>4, <1>5 DEF BusHolds, Removal
<1>6. CASE b.depth = 0
  <2>1. b.dead = {} /\ m.dead = {s}
    BY <1>4, <1>6, BusFacts
  <2>2. c = CollectedAlways(m)
    BY <1>3, <1>4, <1>6
  <2>3. /\ BusHolds(c)
        /\ c.depth = m.depth /\ c.names = m.names /\ c.dead = {} /\ LiveIn(c) = LiveIn(m)
        /\ \A id \in Ids : c.subs[id] = Without(m.subs[id], m.dead)
        /\ \A x \in Subs : x \notin m.dead => c.tag[x] = m.tag[x]
    <3>1. BooksHold(m)
      BY <1>4
    <3> QED BY ONLY <2>2, <3>1, FreedFacts
  <2> QED BY <1>4, <1>6, <2>1, <2>3 DEF Removal
<1> QED BY <1>5, <1>6

\* A publication returns; the outermost frees the retired records.
LEMMA ReturnedFacts ==
  ASSUME NEW b, BusHolds(b), b.depth > 0,
         NEW c, c = Collected([b EXCEPT !.depth = @ - 1])
  PROVE  /\ BusHolds(c)
         /\ c.depth = b.depth - 1 /\ LiveIn(c) = LiveIn(b)
         /\ c.depth # 0 => c.subs = b.subs /\ c.dead = b.dead
         /\ c.depth = 0 => /\ c.dead = {}
                           /\ \A id \in Ids : c.subs[id] = Without(b.subs[id], b.dead)
<1>1. PICK m : m = [b EXCEPT !.depth = @ - 1]
  OBVIOUS
<1>2. m = Fields(b.names, b.subs, b.tag, b.dead, b.retired, b.depth - 1, b.count)
  BY <1>1, BusFacts, FieldsFact DEF Fields
<1>3. /\ m.names = b.names /\ m.subs = b.subs /\ m.tag = b.tag /\ m.dead = b.dead
      /\ m.retired = b.retired /\ m.depth = b.depth - 1 /\ m.count = b.count
  BY <1>2 DEF Fields
<1>4. b.depth - 1 \in 0 .. MaxDepth
  BY BusFacts, EventBusAssumption
<1>5. m \in Buses
  BY <1>2, <1>4, BusFacts DEF Fields, Buses
<1>6. LinkedIn(m) = LinkedIn(b) /\ LiveIn(m) = LiveIn(b)
  BY <1>3 DEF LinkedIn, LiveIn
<1>7. BooksHold(m)
  <2>1. ListsHold(b) /\ NamesHold(b) /\ CountsHold(b)
    BY BusFacts
  <2> QED BY <1>3, <1>5, <1>6, <2>1 DEF BooksHold, ListsHold, NamesHold, CountsHold
<1>8. c = IF m.depth # 0 THEN m ELSE CollectedAlways(m)
  BY <1>1 DEF Collected
<1>9. CASE m.depth # 0
  BY <1>3, <1>6, <1>7, <1>8, <1>9 DEF BusHolds
<1>10. CASE m.depth = 0
  <2>1. c = CollectedAlways(m)
    BY <1>8, <1>10
  <2>2. /\ BusHolds(c)
        /\ c.depth = m.depth /\ c.names = m.names /\ c.dead = {} /\ LiveIn(c) = LiveIn(m)
        /\ \A id \in Ids : c.subs[id] = Without(m.subs[id], m.dead)
        /\ \A x \in Subs : x \notin m.dead => c.tag[x] = m.tag[x]
    BY ONLY <1>7, <2>1, FreedFacts
  <2> QED BY <1>3, <1>6, <1>10, <2>2
<1> QED BY <1>9, <1>10

------------------------------------------------------------------------------
(* The stack of calls. *)

LEMMA FrameFacts ==
  ASSUME NEW f \in Frames
  PROVE  /\ f.op \in {"publish", "drop", "deinit"} /\ f.id \in Ids
         /\ f.owner \in Owners \cup {Every} /\ f.sub \in Subs \cup {Null}
         /\ f.seen \in SUBSET Subs
BY DEF Frames

LEMMA PushFacts ==
  ASSUME NEW k \in Seq(Frames), NEW f \in Frames, NEW q, q = Append(k, f)
  PROVE  /\ q \in Seq(Frames) /\ Len(q) = Len(k) + 1 /\ Len(k) \in Nat
         /\ \A i \in 1 .. Len(q) : \/ i = Len(k) + 1 /\ q[i] = f
                                   \/ i \in 1 .. Len(k) /\ i # Len(k) + 1 /\ q[i] = k[i]
<1>1. Len(k) \in Nat
  OBVIOUS
<1>2. q \in Seq(Frames) /\ Len(q) = Len(k) + 1
  OBVIOUS
<1>3. q[Len(k) + 1] = f /\ \A i \in 1 .. Len(k) : q[i] = k[i]
  BY <1>1
<1>4. \A i \in 1 .. Len(q) : i = Len(k) + 1 \/ (i \in 1 .. Len(k) /\ i # Len(k) + 1)
  BY <1>1, <1>2
<1> QED BY <1>1, <1>2, <1>3, <1>4

LEMMA PopFacts ==
  ASSUME NEW k \in Seq(Frames), k # <<>>, NEW q, q = Front(k)
  PROVE  /\ q \in Seq(Frames) /\ Len(q) = Len(k) - 1 /\ Len(k) \in Nat /\ Len(k) > 0
         /\ \A i \in 1 .. Len(q) : i \in 1 .. Len(k) /\ i < Len(k) /\ q[i] = k[i]
<1>1. Len(k) \in Nat /\ Len(k) > 0 /\ \A i \in 1 .. Len(k) : k[i] \in Frames
  OBVIOUS
<1>2. PICK n \in Nat : n = Len(k) - 1
  BY <1>1
<1>3. q \in Seq(Frames) /\ Len(q) = Len(k) - 1 /\ \A i \in 1 .. Len(k) - 1 : q[i] = k[i]
  <2>1. q = SubSeq(k, 1, n)
    BY <1>2 DEF Front
  <2>2. Len(q) = n /\ \A i \in 1 .. n : q[i] = k[i]
    BY <1>1, <1>2, <2>1
  <2>3. q \in Seq(Frames)
    BY <1>1, <1>2, <2>1
  <2> QED BY <1>2, <2>2, <2>3
<1>4. \A i \in 1 .. Len(q) : i \in 1 .. Len(k) /\ i < Len(k) /\ i \in 1 .. Len(k) - 1
  BY <1>1, <1>3
<1> QED BY <1>1, <1>3, <1>4

Swap(k, f) == Append(Front(k), f)

\* A publication keeps its place when records are only marked.
LEMMA PubSame ==
  ASSUME NEW b, NEW c, c.subs = b.subs, b.dead \subseteq c.dead, NEW f, PubHolds(b, f)
  PROVE  PubHolds(c, f)
BY DEF PubHolds

LEMMA CallsFacts ==
  ASSUME NEW b, BusHolds(b), NEW k, CallsHold(b, k)
  PROVE  /\ k \in Seq(Frames) /\ Len(k) \in Nat /\ b.depth \in Nat
         /\ Len(k) = b.depth \/ Len(k) = b.depth + 1
         /\ \A i \in 1 .. Len(k) :
               /\ k[i] \in Frames
               /\ k[i].op = "publish" <=> i <= b.depth
               /\ i < Len(k) => k[i].sub # Null
               /\ k[i].op = "deinit" => i = 1
               /\ i <= b.depth => PubHolds(b, k[i])
               /\ i > b.depth => WalkHolds(b, k[i])
<1>1. k \in Seq(Frames) /\ b.depth \in Nat
  BY BusFacts DEF CallsHold, ShapeHolds
<1>2. Len(k) \in Nat /\ \A i \in 1 .. Len(k) : k[i] \in Frames
  BY <1>1
<1> QED BY <1>1, <1>2 DEF CallsHold, ShapeHolds

\* The stack stays as it is, with no walk on it.
LEMMA StayCalls ==
  ASSUME NEW b, BusHolds(b), NEW k, CallsHold(b, k), Len(k) = b.depth,
         NEW c, c.depth = b.depth,
         \A i \in 1 .. Len(k) : PubHolds(b, k[i]) => PubHolds(c, k[i])
  PROVE  CallsHold(c, k)
<1>1. \A i \in 1 .. Len(k) : i <= b.depth /\ ~ (i > b.depth)
  BY CallsFacts
<1> QED BY <1>1 DEF CallsHold, ShapeHolds

\* A publication begins.
LEMMA PushPublication ==
  ASSUME NEW b, BusHolds(b), NEW k, CallsHold(b, k), Len(k) = b.depth,
         \A i \in 1 .. Len(k) : k[i].sub # Null,
         NEW c, c.depth = b.depth + 1, c.subs = b.subs, c.dead = b.dead,
         NEW f \in Frames, f.op = "publish", PubHolds(b, f), NEW q, q = Append(k, f)
  PROVE  CallsHold(c, q)
<1>1. /\ k \in Seq(Frames) /\ Len(k) \in Nat
      /\ \A i \in 1 .. Len(k) : /\ k[i].op = "publish" <=> i <= b.depth
                                /\ i <= b.depth => PubHolds(b, k[i])
  BY CallsFacts
<1>2. /\ q \in Seq(Frames) /\ Len(q) = Len(k) + 1
      /\ \A i \in 1 .. Len(q) : \/ i = Len(k) + 1 /\ q[i] = f
                                \/ i \in 1 .. Len(k) /\ i # Len(k) + 1 /\ q[i] = k[i]
  BY <1>1, PushFacts
<1>3. /\ Len(q) = c.depth
      /\ \A i \in 1 .. Len(k) : i <= b.depth
      /\ \A i \in 1 .. Len(q) : i <= c.depth /\ ~ (i > c.depth)
      /\ ~ (Len(k) + 1 < Len(q))
  BY <1>1, <1>2
<1>4. ASSUME NEW i \in 1 .. Len(q)
      PROVE  q[i].op = "publish" /\ PubHolds(b, q[i]) /\ (i < Len(q) => q[i].sub # Null)
  BY <1>1, <1>2, <1>3
<1>5. \A i \in 1 .. Len(q) : PubHolds(c, q[i])
  BY <1>4, PubSame
<1>6. ShapeHolds(c, q)
  BY <1>2, <1>3, <1>4 DEF ShapeHolds
<1> QED BY <1>3, <1>5, <1>6 DEF CallsHold

\* A walk begins.
LEMMA PushWalk ==
  ASSUME NEW b, BusHolds(b), NEW k, CallsHold(b, k), Len(k) = b.depth,
         \A i \in 1 .. Len(k) : k[i].sub # Null,
         NEW f \in Frames, f.op # "publish", f.op = "deinit" => k = <<>>, WalkHolds(b, f),
         NEW q, q = Append(k, f)
  PROVE  CallsHold(b, q)
<1>1. /\ k \in Seq(Frames) /\ Len(k) \in Nat
      /\ \A i \in 1 .. Len(k) : /\ k[i].op = "publish" <=> i <= b.depth
                                /\ k[i].op = "deinit" => i = 1
                                /\ i <= b.depth => PubHolds(b, k[i])
  BY CallsFacts
<1>2. /\ q \in Seq(Frames) /\ Len(q) = Len(k) + 1
      /\ \A i \in 1 .. Len(q) : \/ i = Len(k) + 1 /\ q[i] = f
                                \/ i \in 1 .. Len(k) /\ i # Len(k) + 1 /\ q[i] = k[i]
  BY <1>1, PushFacts
<1>3. /\ Len(q) = b.depth + 1 /\ ~ (Len(k) + 1 <= b.depth) /\ ~ (Len(k) + 1 < Len(q))
      /\ \A i \in 1 .. Len(k) : i <= b.depth /\ ~ (i > b.depth)
      /\ k = <<>> => Len(k) + 1 = 1
  BY <1>1, <1>2
<1>4. ASSUME NEW i \in 1 .. Len(q)
      PROVE  /\ q[i].op = "publish" <=> i <= b.depth
             /\ i < Len(q) => q[i].sub # Null
             /\ q[i].op = "deinit" => i = 1
             /\ i <= b.depth => PubHolds(b, q[i])
             /\ i > b.depth => WalkHolds(b, q[i])
  BY <1>1, <1>2, <1>3
<1> QED BY <1>2, <1>3, <1>4 DEF CallsHold, ShapeHolds

\* The innermost call goes on, whatever it did to the bus.
LEMMA SwapCall ==
  ASSUME NEW b, BusHolds(b), NEW k, CallsHold(b, k), k # <<>>,
         NEW c, c.depth = b.depth,
         \A i \in 1 .. Len(k) : i <= b.depth /\ i < Len(k) /\ PubHolds(b, k[i]) => PubHolds(c, k[i]),
         NEW f \in Frames, f.op = k[Len(k)].op,
         f.op = "publish" => PubHolds(c, f), f.op # "publish" => WalkHolds(c, f),
         NEW q, q = Swap(k, f)
  PROVE  CallsHold(c, q)
<1>1. /\ k \in Seq(Frames) /\ Len(k) \in Nat /\ b.depth \in Nat
      /\ Len(k) = b.depth \/ Len(k) = b.depth + 1
      /\ \A i \in 1 .. Len(k) : /\ k[i].op = "publish" <=> i <= b.depth
                                /\ i < Len(k) => k[i].sub # Null
                                /\ k[i].op = "deinit" => i = 1
                                /\ i <= b.depth => PubHolds(b, k[i])
  BY CallsFacts
<1>2. /\ q \in Seq(Frames) /\ Len(q) = Len(k) /\ Len(k) > 0
      /\ \A i \in 1 .. Len(q) : \/ i = Len(k) /\ q[i] = f
                                \/ i \in 1 .. Len(k) /\ i < Len(k) /\ q[i] = k[i]
  <2>1. PICK r : r = Front(k)
    OBVIOUS
  <2>2. /\ r \in Seq(Frames) /\ Len(r) = Len(k) - 1 /\ Len(k) > 0
        /\ \A i \in 1 .. Len(r) : i \in 1 .. Len(k) /\ i < Len(k) /\ r[i] = k[i]
    BY <1>1, <2>1, PopFacts
  <2>3. q = Append(r, f)
    BY <2>1 DEF Swap
  <2>4. /\ q \in Seq(Frames) /\ Len(q) = Len(r) + 1
        /\ \A i \in 1 .. Len(q) : \/ i = Len(r) + 1 /\ q[i] = f
                                  \/ i \in 1 .. Len(r) /\ i # Len(r) + 1 /\ q[i] = r[i]
    BY <2>2, <2>3, PushFacts
  <2>5. Len(r) + 1 = Len(k)
    BY <1>1, <2>2
  <2> QED BY <2>2, <2>4, <2>5
<1>3. /\ Len(k) \in 1 .. Len(k) /\ ~ (Len(k) < Len(k))
      /\ \A i \in 1 .. Len(k) : i < Len(k) => i <= b.depth
      /\ \A i \in 1 .. Len(k) : (i > b.depth) <=> ~ (i <= b.depth)
  BY <1>1, <1>2
<1>4. ASSUME NEW i \in 1 .. Len(q)
      PROVE  /\ q[i].op = "publish" <=> i <= b.depth
             /\ i < Len(q) => q[i].sub # Null
             /\ q[i].op = "deinit" => i = 1
             /\ i <= b.depth => PubHolds(c, q[i])
             /\ i > b.depth => WalkHolds(c, q[i])
  <2>1. CASE i = Len(k) /\ q[i] = f
    BY <1>1, <1>2, <1>3, <2>1
  <2>2. CASE i \in 1 .. Len(k) /\ i < Len(k) /\ q[i] = k[i]
    BY <1>1, <1>2, <1>3, <2>2
  <2> QED BY <1>2, <2>1, <2>2
<1> QED BY <1>1, <1>2, <1>4 DEF CallsHold, ShapeHolds

\* The innermost call returns.
LEMMA PopCall ==
  ASSUME NEW b, BusHolds(b), NEW k, CallsHold(b, k), k # <<>>,
         NEW c, c.depth = Len(k) - 1,
         \A i \in 1 .. Len(k) : i <= c.depth /\ PubHolds(b, k[i]) => PubHolds(c, k[i]),
         NEW q, q = Front(k)
  PROVE  CallsHold(c, q)
<1>1. /\ k \in Seq(Frames) /\ Len(k) \in Nat /\ b.depth \in Nat
      /\ Len(k) = b.depth \/ Len(k) = b.depth + 1
      /\ \A i \in 1 .. Len(k) : /\ k[i].op = "publish" <=> i <= b.depth
                                /\ i < Len(k) => k[i].sub # Null
                                /\ k[i].op = "deinit" => i = 1
                                /\ i <= b.depth => PubHolds(b, k[i])
  BY CallsFacts
<1>2. /\ q \in Seq(Frames) /\ Len(q) = Len(k) - 1 /\ Len(k) > 0
      /\ \A i \in 1 .. Len(q) : i \in 1 .. Len(k) /\ i < Len(k) /\ q[i] = k[i]
  BY <1>1, PopFacts
<1>3. \A i \in 1 .. Len(q) : i <= b.depth /\ i <= c.depth /\ ~ (i > c.depth)
  BY <1>1, <1>2
<1>4. ASSUME NEW i \in 1 .. Len(q)
      PROVE  q[i].op = "publish" /\ q[i].sub # Null /\ PubHolds(c, q[i])
  BY <1>1, <1>2, <1>3
<1> QED BY <1>2, <1>3, <1>4 DEF CallsHold, ShapeHolds

------------------------------------------------------------------------------
(* The state. *)

LEMMA StateFacts ==
  ASSUME IInv
  PROVE  /\ BusHolds(bus) /\ CallsHold(bus, stack)
         /\ \A id \in Ids : IsList(bus.subs[id])
         /\ Linked = LinkedIn(bus) /\ Live = LiveIn(bus)
         /\ \A s, owner : OfOwner(s, owner) <=> Owned(bus, s, owner)
<1>1. BusHolds(bus) /\ CallsHold(bus, stack)
  BY DEF IInv
<1>2. \A id \in Ids : IsList(bus.subs[id])
  BY <1>1, BusFacts DEF ListsHold
<1>3. \A id \in Ids : \A x : x \in ToSet(bus.subs[id]) <=> Contains(bus.subs[id], x) /\ x \in Subs
  <2> SUFFICES ASSUME NEW id \in Ids, NEW l, l = bus.subs[id], NEW x
               PROVE  x \in ToSet(l) <=> Contains(l, x) /\ x \in Subs
    OBVIOUS
  <2>1. IsList(l)
    BY <1>2
  <2>2. DOMAIN l = 1 .. Len(l) /\ \A i \in 1 .. Len(l) : l[i] \in Subs
    BY <2>1, ListFacts
  <2> QED BY <2>2 DEF ToSet, Contains
<1>4. Linked = LinkedIn(bus)
  BY <1>3 DEF Linked, LinkedIn
<1>5. Live = LiveIn(bus)
  BY <1>4 DEF Live, LiveIn
<1>6. \A s, owner : OfOwner(s, owner) <=> Owned(bus, s, owner)
  BY DEF OfOwner, Owned
<1> QED BY <1>1, <1>2, <1>4, <1>5, <1>6

\* The innermost call.
LEMMA TopFacts ==
  ASSUME IInv, ~ Idle
  PROVE  /\ Len(stack) \in 1 .. Len(stack) /\ Top = stack[Len(stack)] /\ Top \in Frames
         /\ stack # <<>> /\ stack \in Seq(Frames)
         /\ Top.op = "publish" => Len(stack) = bus.depth /\ PubHolds(bus, Top)
         /\ Top.op # "publish" => Len(stack) = bus.depth + 1 /\ WalkHolds(bus, Top)
         /\ Top.op = "deinit" => Len(stack) = 1
<1>1. stack \in Seq(Frames) /\ stack # <<>>
  BY StateFacts, CallsFacts DEF Idle
<1>2. Len(stack) \in 1 .. Len(stack) /\ Top = stack[Len(stack)]
  BY <1>1 DEF Top, Last
<1>3. /\ Len(stack) \in Nat /\ bus.depth \in Nat
      /\ Len(stack) = bus.depth \/ Len(stack) = bus.depth + 1
      /\ Top \in Frames
      /\ Top.op = "publish" <=> Len(stack) <= bus.depth
      /\ Top.op = "deinit" => Len(stack) = 1
      /\ Len(stack) <= bus.depth => PubHolds(bus, Top)
      /\ Len(stack) > bus.depth => WalkHolds(bus, Top)
  BY <1>2, StateFacts, CallsFacts
<1>4. /\ Top.op = "publish" => Len(stack) = bus.depth
      /\ Top.op # "publish" => Len(stack) = bus.depth + 1
  BY <1>3
<1>5. bus.depth <= bus.depth /\ bus.depth + 1 > bus.depth
  BY <1>3
<1> QED BY <1>1, <1>2, <1>3, <1>4, <1>5

\* Who may call the bus: no walk is under way, and every publication is in a
\* callback.
LEMMA CallerFacts ==
  ASSUME IInv, MayCall
  PROVE  Len(stack) = bus.depth /\ \A i \in 1 .. Len(stack) : stack[i].sub # Null
<1>1. /\ stack \in Seq(Frames) /\ Len(stack) \in Nat /\ bus.depth \in Nat
      /\ Len(stack) = bus.depth \/ Len(stack) = bus.depth + 1
      /\ \A i \in 1 .. Len(stack) : i < Len(stack) => stack[i].sub # Null
  BY StateFacts, CallsFacts
<1>2. CASE Idle
  <2>1. Len(stack) = 0
    BY <1>2 DEF Idle
  <2> QED BY <1>1, <2>1
<1>3. CASE InCallback
  <2>1. ~ Idle /\ Top.op = "publish" /\ Top.sub # Null
    BY <1>3 DEF InCallback
  <2>2. Len(stack) = bus.depth /\ Top = stack[Len(stack)]
    BY <2>1, TopFacts
  <2>3. \A i \in 1 .. Len(stack) : i = Len(stack) \/ i < Len(stack)
    BY <1>1
  <2> QED BY <1>1, <2>1, <2>2, <2>3
<1> QED BY <1>2, <1>3 DEF MayCall

\* An operation that only marks, or only adds names, leaves the calls as they are.
LEMMA CallStays ==
  ASSUME IInv, MayCall, NEW c, BusHolds(c), c.depth = bus.depth,
         bus.depth # 0 => c.subs = bus.subs /\ bus.dead \subseteq c.dead
  PROVE  CallsHold(c, stack)
<1>1. BusHolds(bus) /\ CallsHold(bus, stack) /\ Len(stack) = bus.depth
  BY StateFacts, CallerFacts
<1>2. \A i \in 1 .. Len(stack) : bus.depth # 0
  BY <1>1, CallsFacts
<1>3. \A i \in 1 .. Len(stack) : PubHolds(bus, stack[i]) => PubHolds(c, stack[i])
  BY <1>2, PubSame
<1> QED BY <1>1, <1>3, StayCalls

------------------------------------------------------------------------------
(* The invariant holds at first and is kept by every action. *)

LEMMA InitHolds == Init => IInv
<1> SUFFICES ASSUME Init PROVE IInv
  OBVIOUS
<1>1. PICK none : none = [id \in Ids |-> <<>>]
  OBVIOUS
<1>2. PICK tags : tags = [s \in Subs |-> NoTag]
  OBVIOUS
<1>3. bus = Fields(<<>>, none, tags, {}, <<>>, 0, 0) /\ stack = <<>>
  BY <1>1, <1>2 DEF Init, Empty, Fields
<1>4. /\ bus.names = <<>> /\ bus.subs = none /\ bus.dead = {} /\ bus.retired = <<>>
      /\ bus.depth = 0 /\ bus.count = 0
  BY <1>3 DEF Fields
<1>5. bus \in Buses
  <2>1. none \in [Ids -> Seq(Subs)] /\ tags \in [Subs -> Tags \cup {NoTag}]
    BY <1>1, <1>2
  <2>2. 0 \in 0 .. MaxDepth /\ 0 \in 0 .. Cardinality(Subs)
    BY Sizes, EventBusAssumption
  <2> QED BY <1>3, <2>1, <2>2 DEF Buses, Fields
<1>6. \A id \in Ids : bus.subs[id] = <<>>
  BY <1>1, <1>4
<1>7. ListsHold(bus)
  BY <1>6, EmptyFacts DEF ListsHold
<1>8. LinkedIn(bus) = {} /\ LiveIn(bus) = {}
  BY <1>6, EmptyFacts DEF LinkedIn, LiveIn
<1>9. ToSet(<<>>) = {} /\ Len(<<>>) = 0 /\ IsInjective(<<>>)
  BY DEF ToSet, IsInjective
<1>10. CountsHold(bus) /\ NamesHold(bus)
  BY <1>4, <1>8, <1>9, FS_EmptySet DEF CountsHold, NamesHold
<1>11. CallsHold(bus, stack)
  <2>1. stack \in Seq(Frames) /\ Len(stack) = 0 /\ ~ \E i \in 1 .. Len(stack) : TRUE
    BY <1>3
  <2> QED BY <1>4, <2>1 DEF CallsHold, ShapeHolds
<1> QED BY <1>4, <1>5, <1>7, <1>10, <1>11 DEF IInv, BusHolds, BooksHold

LEMMA GetIdKeeps ==
  ASSUME IInv, NEW n \in Names, GetId(n)
  PROVE  IInv'
<1>1. MayCall /\ ~ Contains(bus.names, n) /\ bus' = [bus EXCEPT !.names = Append(@, n)]
      /\ stack' = stack
  BY DEF GetId
<1>2. PICK c : c = bus'
  OBVIOUS
<1>3. BusHolds(bus)
  BY StateFacts
<1>4. BusHolds(c) /\ c.subs = bus.subs /\ c.dead = bus.dead /\ c.depth = bus.depth
  BY <1>1, <1>2, <1>3, NamedFacts
<1>5. CallsHold(c, stack)
  BY <1>1, <1>4, CallStays
<1> QED BY <1>1, <1>2, <1>4, <1>5 DEF IInv

LEMMA TrySubscribeKeeps ==
  ASSUME IInv, NEW id \in Ids, NEW tag \in Tags, TrySubscribe(id, tag)
  PROVE  IInv'
<1>1. MayCall /\ id <= Len(bus.names) /\ stack' = stack
  BY DEF TrySubscribe, HasEntry
<1>2. PICK s \in Subs : s \notin Linked /\ bus' = Subscribed(bus, id, s, tag)
  BY DEF TrySubscribe
<1>3. PICK c : c = bus'
  OBVIOUS
<1>4. BusHolds(bus) /\ CallsHold(bus, stack) /\ s \notin LinkedIn(bus) /\ c = Subscribed(bus, id, s, tag)
  BY <1>2, <1>3, StateFacts
<1>5. /\ BusHolds(c) /\ c.dead = bus.dead /\ c.depth = bus.depth
      /\ c.subs = [bus.subs EXCEPT ![id] = Append(@, s)]
  BY <1>1, <1>4, SubscribedFacts
<1>6. PICK l, q : l = bus.subs[id] /\ q = Append(l, s)
  OBVIOUS
<1>7. IsList(l) /\ ~ Contains(l, s)
  BY <1>4, <1>6, StateFacts DEF LinkedIn
<1>8. /\ \A x : Contains(q, x) <=> Contains(l, x) \/ x = s
      /\ \A u, v : Before(q, u, v) <=> Before(l, u, v) \/ (Contains(l, u) /\ v = s)
  <2>1. Grown(l, s, q)
    BY <1>2, <1>6, <1>7, AppendFacts
  <2> QED BY <2>1 DEF Grown
<1>9. \A other \in Ids : c.subs[other] = IF other = id THEN q ELSE bus.subs[other]
  BY <1>4, <1>5, <1>6, BusFacts
<1>10. ASSUME NEW f \in Frames, PubHolds(bus, f) PROVE PubHolds(c, f)
  <2>1. f.id \in Ids
    BY FrameFacts
  <2>2. CASE f.id # id
    BY <1>5, <1>9, <1>10, <2>1, <2>2 DEF PubHolds
  <2>3. CASE f.id = id
    <3>1. c.subs[f.id] = q /\ bus.subs[f.id] = l
      BY <1>6, <1>9, <2>1, <2>3
    <3>2. \A x \in f.seen : Contains(l, x) /\ x # s /\ Contains(q, x)
      BY <1>7, <1>8, <1>10, <3>1 DEF PubHolds
    <3> QED BY <1>5, <1>8, <1>10, <3>1, <3>2 DEF PubHolds
  <2> QED BY <2>2, <2>3
<1>11. CallsHold(c, stack)
  <2>1. Len(stack) = bus.depth
    BY <1>1, CallerFacts
  <2>2. \A i \in 1 .. Len(stack) : PubHolds(bus, stack[i]) => PubHolds(c, stack[i])
    BY <1>4, <1>10, CallsFacts
  <2> QED BY <1>4, <1>5, <2>1, <2>2, StayCalls
<1> QED BY <1>1, <1>3, <1>5, <1>11 DEF IInv

\* Of a record that is linked.
LEMMA RemoveKeeps ==
  ASSUME IInv, MayCall, NEW s, s \in Linked, bus' = Removed(bus, s), stack' = stack
  PROVE  IInv'
<1>1. CASE s \in bus.dead
  <2>1. bus' = bus
    BY <1>1 DEF Removed
  <2> QED BY <2>1 DEF IInv
<1>2. CASE s \notin bus.dead
  <2>1. BusHolds(bus) /\ s \in LiveIn(bus)
    BY <1>2, StateFacts DEF LiveIn
  <2>2. PICK c : c = bus'
    OBVIOUS
  <2>3. c = Removed(bus, s)
    BY <2>2
  <2>4. Removal(bus, s, c)
    BY ONLY <2>1, <2>3, RemovedFacts
  <2>5. /\ BusHolds(c) /\ c.depth = bus.depth
        /\ bus.depth # 0 => c.subs = bus.subs /\ bus.dead \subseteq c.dead
    BY <2>4 DEF Removal
  <2>6. CallsHold(c, stack)
    BY <2>5, CallStays
  <2> QED BY <2>2, <2>5, <2>6 DEF IInv
<1> QED BY <1>1, <1>2

\* What find_exact finds is a live record of the event.
LEMMA FindFacts ==
  ASSUME IInv, NEW id \in Ids, NEW tag, FindExact(id, tag) # Null
  PROVE  FindExact(id, tag) \in Live
<1> DEFINE l == bus.subs[id]
           I == {i \in 1 .. Len(l) : l[i] \notin bus.dead /\ bus.tag[l[i]] = tag}
<1>1. IsList(l)
  BY StateFacts
<1>2. Len(l) \in Nat /\ \A i \in 1 .. Len(l) : l[i] \in Subs
  BY <1>1, ListFacts
<1>3. I # {}
  BY DEF FindExact, SelectInSeq
<1>4. Min(I) \in I
  <2>1. I \in SUBSET Nat
    BY <1>2
  <2> QED BY <1>3, <2>1, MinFacts
<1>5. Min(I) # 0
  <2>1. Min(I) \in 1 .. Len(l)
    BY <1>4
  <2> HIDE DEF l, I
  <2> QED BY <1>2, <2>1
<1>6. FindExact(id, tag) = l[Min(I)]
  BY <1>3, <1>5 DEF FindExact, SelectInSeq
<1>7. PICK n \in 1 .. Len(l) : l[n] \notin bus.dead /\ FindExact(id, tag) = l[n]
  BY <1>4, <1>6
<1>8. l[n] \in LinkedIn(bus)
  BY <1>2, <1>7 DEF LinkedIn, Contains
<1> QED BY <1>7, <1>8, StateFacts DEF LiveIn

LEMMA RemoveSubKeeps ==
  ASSUME IInv, NEW s \in Subs, RemoveSub(s)
  PROVE  IInv'
BY RemoveKeeps DEF RemoveSub

LEMMA RemoveExactKeeps ==
  ASSUME IInv, NEW id \in Ids, NEW tag \in Tags, RemoveExact(id, tag)
  PROVE  IInv'
<1>1. PICK s : s = FindExact(id, tag)
  OBVIOUS
<1>2. MayCall /\ s # Null /\ bus' = Removed(bus, s) /\ stack' = stack
  BY <1>1 DEF RemoveExact
<1>3. s \in Linked
  BY <1>1, <1>2, FindFacts DEF Live
<1> QED BY <1>2, <1>3, RemoveKeeps

LEMMA BegunFacts ==
  ASSUME NEW b, BusHolds(b), b.depth < MaxDepth, NEW c, c = [b EXCEPT !.depth = @ + 1]
  PROVE  BusHolds(c) /\ c.depth = b.depth + 1 /\ c.subs = b.subs /\ c.dead = b.dead
<1>1. c = Fields(b.names, b.subs, b.tag, b.dead, b.retired, b.depth + 1, b.count)
  BY BusFacts, FieldsFact DEF Fields
<1>2. /\ c.names = b.names /\ c.subs = b.subs /\ c.tag = b.tag /\ c.dead = b.dead
      /\ c.retired = b.retired /\ c.depth = b.depth + 1 /\ c.count = b.count
  BY <1>1 DEF Fields
<1>3. b.depth + 1 \in 0 .. MaxDepth /\ b.depth + 1 # 0
  BY BusFacts, EventBusAssumption
<1>4. c \in Buses
  BY <1>1, <1>3, BusFacts DEF Fields, Buses
<1>5. LinkedIn(c) = LinkedIn(b) /\ LiveIn(c) = LiveIn(b)
  BY <1>2 DEF LinkedIn, LiveIn
<1>6. BooksHold(c)
  <2>1. ListsHold(b) /\ NamesHold(b) /\ CountsHold(b)
    BY BusFacts
  <2> QED BY <1>2, <1>4, <1>5, <2>1 DEF BooksHold, ListsHold, NamesHold, CountsHold
<1> QED BY <1>2, <1>3, <1>6 DEF BusHolds

LEMMA CallingFacts ==
  ASSUME NEW id \in Ids, NEW seen \in SUBSET Subs, NEW s \in Subs \cup {Null},
         NEW f, f = Calling(id, seen, s)
  PROVE  /\ f \in Frames /\ f.op = "publish" /\ f.id = id /\ f.sub = s
         /\ f.seen = IF s = Null THEN seen ELSE seen \cup {s}
<1>1. PICK T : T = seen \cup ({s} \ {Null})
  OBVIOUS
<1>2. T = IF s = Null THEN seen ELSE seen \cup {s}
  BY <1>1
<1>3. T \in SUBSET Subs
  BY <1>1
<1>4. f = [op |-> "publish", id |-> id, owner |-> Every, sub |-> s, seen |-> T, stopped |-> FALSE]
  BY <1>1 DEF Calling
<1>5. f \in Frames
  BY <1>3, <1>4 DEF Frames
<1> QED BY <1>2, <1>4, <1>5

LEMMA PublishBeginKeeps ==
  ASSUME IInv, NEW id \in Ids, PublishBegin(id)
  PROVE  IInv'
<1>1. /\ MayCall /\ bus.depth < MaxDepth /\ bus' = [bus EXCEPT !.depth = @ + 1]
      /\ stack' = Append(stack, Calling(id, {}, FirstLive(bus.subs[id])))
  BY DEF PublishBegin
<1>2. PICK l, t, f, c, q : /\ l = bus.subs[id] /\ t = FirstLive(l) /\ f = Calling(id, {}, t)
                           /\ c = bus' /\ q = stack'
  OBVIOUS
<1>3. BusHolds(bus) /\ CallsHold(bus, stack) /\ IsList(l)
  BY <1>2, StateFacts
<1>4. c = [bus EXCEPT !.depth = @ + 1] /\ q = Append(stack, f)
  BY <1>1, <1>2
<1>5. BusHolds(c) /\ c.depth = bus.depth + 1 /\ c.subs = bus.subs /\ c.dead = bus.dead
  BY <1>1, <1>3, <1>4, BegunFacts
<1>6. /\ t \in Subs \cup {Null}
      /\ t # Null => Contains(l, t) /\ \A x : Before(l, x, t) => x \in bus.dead
  BY <1>2, <1>3, FirstLiveFacts
<1>7. /\ f \in Frames /\ f.op = "publish" /\ f.id = id /\ f.sub = t
      /\ f.seen = IF t = Null THEN {} ELSE {t}
  <2>1. PICK none \in SUBSET Subs : none = {}
    OBVIOUS
  <2>2. f = Calling(id, none, t)
    BY <1>2, <2>1
  <2>3. /\ f \in Frames /\ f.op = "publish" /\ f.id = id /\ f.sub = t
        /\ f.seen = IF t = Null THEN none ELSE none \cup {t}
    BY <1>6, <2>2, CallingFacts
  <2> QED BY <2>1, <2>3
<1>8. \A x : Before(l, t, x) => x # t
  BY <1>3, BeforeFacts
<1>9. PubHolds(bus, f)
  BY <1>2, <1>6, <1>7, <1>8 DEF PubHolds
<1>10. Len(stack) = bus.depth /\ \A i \in 1 .. Len(stack) : stack[i].sub # Null
  BY <1>1, CallerFacts
<1>11. CallsHold(c, q)
  BY <1>3, <1>4, <1>5, <1>7, <1>9, <1>10, PushPublication
<1> QED BY <1>2, <1>5, <1>11 DEF IInv

\* The innermost call goes on and leaves the bus alone.
LEMMA TopGoesOn ==
  ASSUME IInv, ~ Idle, UNCHANGED bus, NEW f \in Frames, stack' = Replaced(f), f.op = Top.op,
         f.op = "publish" => PubHolds(bus, f), f.op # "publish" => WalkHolds(bus, f)
  PROVE  IInv'
<1>1. BusHolds(bus) /\ CallsHold(bus, stack)
  BY StateFacts
<1>2. stack # <<>> /\ f.op = stack[Len(stack)].op
  BY TopFacts
<1>3. PICK q : q = stack'
  OBVIOUS
<1>4. q = Swap(stack, f)
  BY <1>3 DEF Swap, Replaced
<1>5. CallsHold(bus, q)
  BY <1>1, <1>2, <1>4, SwapCall
<1> QED BY <1>1, <1>3, <1>5 DEF IInv

\* The place that a publication takes when a callback returns.
LEMMA NextPlace ==
  ASSUME IInv, NEW f \in Frames, PubHolds(bus, f), f.sub # Null, NEW t,
         t = NextLive(bus.subs[f.id], f.sub), NEW g, g = Calling(f.id, f.seen, t)
  PROVE  g \in Frames /\ g.op = "publish" /\ PubHolds(bus, g)
<1>1. f.id \in Ids /\ f.seen \in SUBSET Subs
  BY FrameFacts
<1>2. PICK l, s : l = bus.subs[f.id] /\ s = f.sub
  OBVIOUS
<1>3. IsList(l)
  BY <1>1, <1>2, StateFacts
<1>4. /\ \A x \in f.seen : Contains(l, x)
      /\ s \in f.seen
      /\ \A x \in Subs : Before(l, x, s) => x \in bus.dead \/ x \in f.seen
      /\ \A x \in Subs : Before(l, s, x) => x \notin f.seen
  BY <1>2 DEF PubHolds
<1>5. /\ t \in Subs \cup {Null}
      /\ t # Null => /\ Before(l, s, t)
                     /\ \A x : Before(l, s, x) /\ Before(l, x, t) => x \in bus.dead
  BY <1>2, <1>3, <1>4, NextLiveFacts
<1>6. /\ g \in Frames /\ g.op = "publish" /\ g.id = f.id /\ g.sub = t
      /\ g.seen = IF t = Null THEN f.seen ELSE f.seen \cup {t}
  BY ONLY <1>1, <1>5, CallingFacts, g = Calling(f.id, f.seen, t)
<1>7. CASE t = Null
  BY <1>2, <1>4, <1>6, <1>7 DEF PubHolds
<1>8. CASE t # Null
  <2>1. g.seen = f.seen \cup {t} /\ Before(l, s, t) /\ Contains(l, s) /\ Contains(l, t)
    BY <1>3, <1>4, <1>5, <1>6, <1>8, BeforeFacts
  <2>2. ASSUME NEW x \in Subs, Before(l, x, t) PROVE x \in bus.dead \/ x \in g.seen
    <3>1. x = s \/ Before(l, x, s) \/ Before(l, s, x)
      BY <1>3, <2>1, <2>2, BeforeFacts
    <3> QED BY <1>4, <1>5, <1>8, <2>1, <2>2, <3>1
  <2>3. ASSUME NEW x \in Subs, Before(l, t, x) PROVE x \notin g.seen
    <3>1. Before(l, s, x) /\ x # t
      BY <1>3, <2>1, <2>3, BeforeFacts
    <3> QED BY <1>4, <2>1, <3>1
  <2> QED BY <1>2, <1>4, <1>6, <2>1, <2>2, <2>3 DEF PubHolds
<1> QED BY <1>6, <1>7, <1>8

LEMMA CallbackReturnsKeeps ==
  ASSUME IInv, CallbackReturns
  PROVE  IInv'
<1>1. ~ Idle /\ Top.op = "publish" /\ Top.sub # Null /\ UNCHANGED bus
  BY DEF CallbackReturns, InCallback
<1>2. PICK f, t, g : /\ f = Top /\ t = NextLive(bus.subs[f.id], f.sub)
                     /\ g = Calling(f.id, f.seen, t)
  OBVIOUS
<1>3. stack' = Replaced(g)
  BY <1>2 DEF CallbackReturns
<1>4. f \in Frames /\ PubHolds(bus, f) /\ f.sub # Null
  BY <1>1, <1>2, TopFacts
<1>5. g \in Frames /\ g.op = "publish" /\ PubHolds(bus, g)
  BY <1>2, <1>4, NextPlace
<1> QED BY <1>1, <1>3, <1>5, TopGoesOn

LEMMA CallbackStopsKeeps ==
  ASSUME IInv, CallbackStops
  PROVE  IInv'
<1>1. ~ Idle /\ Top.op = "publish" /\ UNCHANGED bus
  BY DEF CallbackStops, InCallback
<1>2. PICK f, g : f = Top /\ g = [f EXCEPT !.sub = Null, !.stopped = TRUE]
  OBVIOUS
<1>3. stack' = Replaced(g)
  BY <1>2 DEF CallbackStops
<1>4. f \in Frames /\ PubHolds(bus, f) /\ f.op = "publish"
  BY <1>1, <1>2, TopFacts
<1>5. g \in Frames /\ g.op = f.op /\ g.id = f.id /\ g.seen = f.seen /\ g.sub = Null
  BY <1>2, <1>4 DEF Frames
<1>6. PubHolds(bus, g)
  BY <1>4, <1>5 DEF PubHolds
<1> QED BY <1>1, <1>2, <1>3, <1>4, <1>5, <1>6, TopGoesOn

LEMMA PublishEndKeeps ==
  ASSUME IInv, PublishEnd
  PROVE  IInv'
<1>1. /\ ~ Idle /\ Top.op = "publish" /\ stack' = Front(stack)
      /\ bus' = Collected([bus EXCEPT !.depth = @ - 1])
  BY DEF PublishEnd
<1>2. PICK c, q : c = bus' /\ q = stack'
  OBVIOUS
<1>3. /\ BusHolds(bus) /\ CallsHold(bus, stack) /\ stack # <<>> /\ q = Front(stack)
      /\ c = Collected([bus EXCEPT !.depth = @ - 1])
  BY <1>1, <1>2, StateFacts DEF Idle
<1>4. Len(stack) = bus.depth /\ bus.depth \in Nat /\ bus.depth > 0
  BY <1>1, TopFacts, StateFacts, CallsFacts
<1>5. /\ BusHolds(c) /\ c.depth = bus.depth - 1
      /\ c.depth # 0 => c.subs = bus.subs /\ c.dead = bus.dead
  BY ONLY <1>3, <1>4, ReturnedFacts
<1>6. \A i \in 1 .. Len(stack) : i <= c.depth => c.depth # 0
  BY <1>4, <1>5
<1>7. \A i \in 1 .. Len(stack) : i <= c.depth /\ PubHolds(bus, stack[i]) => PubHolds(c, stack[i])
  BY <1>5, <1>6, PubSame
<1>8. CallsHold(c, q)
  BY <1>3, <1>4, <1>5, <1>7, PopCall
<1> QED BY <1>2, <1>5, <1>8 DEF IInv

\* A walk takes its place at the start of an event.
LEMMA WalkingHolds ==
  ASSUME IInv, NEW op \in {"drop", "deinit"}, NEW owner \in Owners \cup {Every}, NEW id \in Ids,
         op = "deinit" => owner = Every,
         id = 1 \/ HasEntry(id),
         NEW others, others = {s \in LiveIn(bus) : ~ Owned(bus, s, owner)},
         \A other \in Ids, x \in Subs : other < id /\ Contains(bus.subs[other], x) =>
             x \in bus.dead \/ ~ Owned(bus, x, owner),
         NEW f, f = Walking(op, owner, id, others)
  PROVE  f \in Frames /\ f.op = op /\ WalkHolds(bus, f)
<1>1. PICK l, t : l = bus.subs[id] /\ t = IF HasEntry(id) THEN FirstLive(l) ELSE Null
  OBVIOUS
<1>2. f = [op |-> op, id |-> id, owner |-> owner, seen |-> others, stopped |-> FALSE, sub |-> t]
  BY <1>1 DEF Walking
<1>3. f.op = op /\ f.id = id /\ f.owner = owner /\ f.seen = others /\ f.sub = t
  BY <1>2
<1>4. BusHolds(bus) /\ IsList(l)
  BY <1>1, StateFacts
<1>5. /\ t \in Subs \cup {Null}
      /\ t = Null => \A x : Contains(l, x) => x \in bus.dead
      /\ t # Null => /\ Contains(l, t) /\ t \notin bus.dead
                     /\ \A x : Before(l, x, t) => x \in bus.dead
  <2>1. CASE HasEntry(id)
    BY <1>1, <1>4, <2>1, FirstLiveFacts
  <2>2. CASE ~ HasEntry(id)
    <3>1. id > Len(bus.names)
      BY <1>4, <2>2, BusFacts, Sizes DEF HasEntry
    <3>2. l = <<>>
      BY <1>1, <1>4, <3>1, BusFacts DEF ListsHold
    <3> QED BY <1>1, <2>2, <3>2, EmptyFacts
  <2> QED BY <2>1, <2>2
<1>6. f \in Frames
  <2>1. others \in SUBSET Subs
    BY DEF LiveIn, LinkedIn
  <2>2. op \in {"publish", "drop", "deinit"} /\ FALSE \in BOOLEAN
    OBVIOUS
  <2> QED BY ONLY id \in Ids, owner \in Owners \cup {Every}, <1>2, <1>5, <2>1, <2>2 DEF Frames
<1>7. f.id = 1 \/ f.id <= Len(bus.names)
  BY <1>3 DEF HasEntry
<1>8. ASSUME NEW other \in Ids, NEW x \in Subs, Contains(bus.subs[other], x), Past(bus, f, other, x)
      PROVE  x \in bus.dead \/ ~ Owned(bus, x, f.owner)
  <2>1. other < id \/ (other = id /\ (t = Null \/ Before(l, x, t)))
    BY <1>1, <1>3, <1>8 DEF Past
  <2> QED BY <1>1, <1>3, <1>5, <1>8, <2>1
<1> QED BY <1>1, <1>3, <1>5, <1>6, <1>7, <1>8 DEF WalkHolds

\* The first event has none before it.
LEMMA FirstWalk ==
  ASSUME IInv, NEW op \in {"drop", "deinit"}, NEW owner \in Owners \cup {Every},
         op = "deinit" => owner = Every,
         NEW others, others = Others(owner),
         NEW f, f = Walking(op, owner, 1, others)
  PROVE  f \in Frames /\ f.op = op /\ WalkHolds(bus, f)
<1>1. 1 \in Ids /\ \A other \in Ids : ~ (other < 1)
  BY Sizes DEF Ids
<1>2. others = {s \in LiveIn(bus) : ~ Owned(bus, s, owner)}
  BY StateFacts DEF Others
<1>3. \A other \in Ids, x \in Subs : other < 1 /\ Contains(bus.subs[other], x) =>
        x \in bus.dead \/ ~ Owned(bus, x, owner)
  BY <1>1
<1> QED BY ONLY IInv, op \in {"drop", "deinit"}, owner \in Owners \cup {Every},
               op = "deinit" => owner = Every, f = Walking(op, owner, 1, others),
               <1>1, <1>2, <1>3, WalkingHolds

\* Clear and deinit leave no record alone.
LEMMA NoOthers == Others(Every) = {}
BY DEF Others, OfOwner

\* A walk begins.
LEMMA WalkBegins ==
  ASSUME IInv, MayCall, UNCHANGED bus, NEW op \in {"drop", "deinit"},
         NEW owner \in Owners \cup {Every}, op = "deinit" => owner = Every /\ stack = <<>>,
         NEW f, f = Walking(op, owner, 1, Others(owner)), stack' = Append(stack, f)
  PROVE  IInv'
<1>1. PICK others : others = Others(owner)
  OBVIOUS
<1>2. f = Walking(op, owner, 1, others)
  BY <1>1
<1>3. f \in Frames /\ f.op = op /\ WalkHolds(bus, f)
  BY <1>1, <1>2, FirstWalk
<1>4. BusHolds(bus) /\ CallsHold(bus, stack)
  BY StateFacts
<1>5. Len(stack) = bus.depth /\ \A i \in 1 .. Len(stack) : stack[i].sub # Null
  BY CallerFacts
<1>6. PICK q : q = stack'
  OBVIOUS
<1>7. q = Append(stack, f) /\ f.op # "publish" /\ (f.op = "deinit" => stack = <<>>)
  BY <1>3, <1>6
<1>8. CallsHold(bus, q)
  BY <1>3, <1>4, <1>5, <1>7, PushWalk
<1> QED BY <1>4, <1>6, <1>8 DEF IInv

LEMMA DropOwnerKeeps ==
  ASSUME IInv, NEW owner \in Owners, DropOwner(owner)
  PROVE  IInv'
<1>1. PICK f : f = Walking("drop", owner, 1, Others(owner))
  OBVIOUS
<1>2. MayCall /\ UNCHANGED bus /\ stack' = Append(stack, f)
  BY <1>1 DEF DropOwner
<1>3. "drop" \in {"drop", "deinit"} /\ owner \in Owners \cup {Every} /\ "drop" # "deinit"
  OBVIOUS
<1> QED BY <1>1, <1>2, <1>3, WalkBegins

LEMMA ClearKeeps ==
  ASSUME IInv, Clear
  PROVE  IInv'
<1>1. PICK f : f = Walking("drop", Every, 1, Others(Every))
  OBVIOUS
<1>2. MayCall /\ UNCHANGED bus /\ stack' = Append(stack, f)
  BY <1>1, NoOthers DEF Clear
<1>3. "drop" \in {"drop", "deinit"} /\ Every \in Owners \cup {Every} /\ "drop" # "deinit"
  OBVIOUS
<1> QED BY <1>1, <1>2, <1>3, WalkBegins

LEMMA DeinitKeeps ==
  ASSUME IInv, Deinit
  PROVE  IInv'
<1>1. PICK f : f = Walking("deinit", Every, 1, Others(Every))
  OBVIOUS
<1>2. Idle /\ UNCHANGED bus /\ stack' = <<f>>
  BY <1>1, NoOthers DEF Deinit
<1>3. stack = <<>> /\ MayCall
  BY <1>2 DEF Idle, MayCall
<1>4. stack' = Append(stack, f)
  BY <1>2, <1>3
<1>5. "deinit" \in {"drop", "deinit"} /\ Every \in Owners \cup {Every}
  OBVIOUS
<1> QED BY <1>1, <1>2, <1>3, <1>4, <1>5, WalkBegins

\* The walk that is on top.
LEMMA WalkFacts ==
  ASSUME IInv, InWalk
  PROVE  /\ ~ Idle /\ Top \in Frames /\ Top.op \in {"drop", "deinit"} /\ Top.op # "publish"
         /\ Len(stack) = bus.depth + 1 /\ WalkHolds(bus, Top)
         /\ Top.owner \in Owners \cup {Every} /\ Top.id \in Ids
BY TopFacts, FrameFacts DEF InWalk

\* An event that was walked to its end.
LEMMA WalkedEvents ==
  ASSUME IInv, InWalk, Top.sub = Null
  PROVE  \A id \in Ids, x \in Subs : id < Top.id + 1 /\ Contains(bus.subs[id], x) =>
             x \in bus.dead \/ ~ Owned(bus, x, Top.owner)
<1>1. WalkHolds(bus, Top) /\ Top.id \in Ids
  BY WalkFacts
<1>2. \A id \in Ids : id < Top.id + 1 => id < Top.id \/ id = Top.id
  <2>1. PICK n : n = Top.id
    OBVIOUS
  <2>2. n \in Nat /\ Ids \subseteq Nat
    BY <1>1, <2>1, Sizes
  <2>3. \A id \in Ids : id < n + 1 => id < n \/ id = n
    BY <2>2
  <2> QED BY <2>1, <2>3
<1>3. \A id \in Ids, x \in Subs : id < Top.id + 1 => Past(bus, Top, id, x)
  BY <1>2 DEF Past
<1> QED BY <1>1, <1>3 DEF WalkHolds

LEMMA WalkNextEventKeeps ==
  ASSUME IInv, WalkNextEvent
  PROVE  IInv'
<1>1. InWalk /\ Top.sub = Null /\ HasEntry(Top.id + 1) /\ UNCHANGED bus
  BY DEF WalkNextEvent
<1>2. PICK o, w, n, others : o = Top.op /\ w = Top.owner /\ n = Top.id + 1 /\ others = Top.seen
  OBVIOUS
<1>3. PICK f : f = Walking(o, w, n, others)
  OBVIOUS
<1>4. stack' = Replaced(f)
  BY <1>2, <1>3 DEF WalkNextEvent
<1>5. /\ ~ Idle /\ o \in {"drop", "deinit"} /\ o # "publish" /\ w \in Owners \cup {Every}
      /\ Top.id \in Ids /\ BusHolds(bus)
  BY <1>1, <1>2, WalkFacts, StateFacts
<1>6. n \in Ids /\ HasEntry(n)
  <2>1. Top.id \in Nat /\ n \in Nat /\ n > 0
    BY <1>2, <1>5, Sizes DEF Ids
  <2>2. n <= Len(bus.names)
    BY <1>1, <1>2 DEF HasEntry
  <2> QED BY <1>5, <2>1, <2>2, EntryFacts DEF HasEntry
<1>7. (o = "deinit" => w = Every) /\ others = {s \in LiveIn(bus) : ~ Owned(bus, s, w)}
  BY <1>1, <1>2, WalkFacts DEF WalkHolds
<1>8. \A id \in Ids, x \in Subs : id < n /\ Contains(bus.subs[id], x) =>
        x \in bus.dead \/ ~ Owned(bus, x, w)
  BY <1>1, <1>2, WalkedEvents
<1>9. f \in Frames /\ f.op = o /\ WalkHolds(bus, f)
  BY ONLY IInv, <1>3, <1>5, <1>6, <1>7, <1>8, WalkingHolds
<1> QED BY <1>1, <1>2, <1>4, <1>5, <1>9, TopGoesOn

\* What the visit of a record s leaves of the bus: the others as they were, and
\* s only if it is dead or another owner's.
Visit(b, c, s, owner) ==
    /\ c.names = b.names /\ c.depth = b.depth
    /\ \A id \in Ids, x \in Subs : Contains(c.subs[id], x) => Contains(b.subs[id], x)
    /\ \A id \in Ids, x, y \in Subs : Before(c.subs[id], x, y) => Before(b.subs[id], x, y)
    /\ \A id \in Ids, x \in Subs : x # s /\ Contains(b.subs[id], x) => Contains(c.subs[id], x)
    /\ \A x \in Subs : x # s => /\ x \in c.dead <=> x \in b.dead
                                /\ Owned(c, x, owner) <=> Owned(b, x, owner)
    /\ \A id \in Ids : Contains(c.subs[id], s) => s \in c.dead \/ ~ Owned(c, s, owner)
    /\ {x \in LiveIn(c) : ~ Owned(c, x, owner)} = {x \in LiveIn(b) : ~ Owned(b, x, owner)}

LEMMA VisitRemoves ==
  ASSUME NEW b, BusHolds(b), NEW s, s \in LiveIn(b), NEW owner, Owned(b, s, owner),
         NEW c, Removal(b, s, c)
  PROVE  Visit(b, c, s, owner)
<1>1. /\ c.depth = b.depth /\ c.names = b.names /\ LiveIn(c) = LiveIn(b) \ {s}
      /\ b.depth # 0 => c.subs = b.subs /\ c.dead = b.dead \cup {s}
      /\ b.depth = 0 => /\ c.dead = {} /\ b.dead = {}
                        /\ \A id \in Ids : c.subs[id] = Without(b.subs[id], {s})
      /\ \A x \in Subs : x # s => c.tag[x] = b.tag[x]
  BY DEF Removal
<1>2. s \in Subs /\ LiveIn(b) \subseteq Subs /\ \A id \in Ids : IsList(b.subs[id])
  BY BusFacts DEF LiveIn, LinkedIn, ListsHold
<1>3. \A x \in Subs : x # s => /\ x \in c.dead <=> x \in b.dead
                               /\ Owned(c, x, owner) <=> Owned(b, x, owner)
  <2>1. \A x \in Subs : x # s => (x \in c.dead <=> x \in b.dead)
    BY <1>1
  <2> QED BY <1>1, <2>1 DEF Owned
<1>4. {x \in LiveIn(c) : ~ Owned(c, x, owner)} = {x \in LiveIn(b) : ~ Owned(b, x, owner)}
  BY <1>1, <1>2, <1>3
<1>5. CASE b.depth # 0
  <2>1. c.subs = b.subs /\ s \in c.dead
    BY <1>1, <1>5
  <2> QED BY <1>1, <1>3, <1>4, <2>1 DEF Visit
<1>6. CASE b.depth = 0
  <2>1. ASSUME NEW id \in Ids
        PROVE  /\ \A x : Contains(c.subs[id], x) <=> Contains(b.subs[id], x) /\ x \notin {s}
               /\ \A x, y : Before(c.subs[id], x, y) <=>
                               Before(b.subs[id], x, y) /\ x \notin {s} /\ y \notin {s}
    <3>1. PICK l, q, S : l = b.subs[id] /\ q = c.subs[id] /\ S = {s}
      OBVIOUS
    <3>2. IsList(l) /\ q = Without(l, S)
      BY <1>1, <1>2, <1>6, <3>1
    <3>3. /\ IsList(q)
          /\ \A x : Contains(q, x) <=> Contains(l, x) /\ x \notin S
          /\ \A x, y : Before(q, x, y) <=> Before(l, x, y) /\ x \notin S /\ y \notin S
      BY ONLY <3>2, WithoutFacts
    <3> QED BY <3>1, <3>3
  <2>2. \A id \in Ids : ~ Contains(c.subs[id], s)
    BY <2>1
  <2>3. /\ \A id \in Ids, x \in Subs : Contains(c.subs[id], x) => Contains(b.subs[id], x)
        /\ \A id \in Ids, x, y \in Subs : Before(c.subs[id], x, y) => Before(b.subs[id], x, y)
        /\ \A id \in Ids, x \in Subs : x # s /\ Contains(b.subs[id], x) => Contains(c.subs[id], x)
    BY <2>1
  <2> QED BY <1>1, <1>3, <1>4, <2>2, <2>3 DEF Visit
<1> QED BY <1>5, <1>6

LEMMA VisitSpares ==
  ASSUME NEW b, NEW s, NEW owner, ~ Owned(b, s, owner)
  PROVE  Visit(b, b, s, owner)
BY DEF Visit

\* The walk has gone one record further.
LEMMA VisitHolds ==
  ASSUME IInv, NEW f \in Frames, f.op # "publish", WalkHolds(bus, f), f.sub # Null,
         NEW c, Visit(bus, c, f.sub, f.owner),
         NEW t, t = NextLive(bus.subs[f.id], f.sub), NEW g, g = [f EXCEPT !.sub = t]
  PROVE  g \in Frames /\ g.op = f.op /\ WalkHolds(c, g)
<1>1. f.id \in Ids
  BY FrameFacts
<1>2. PICK l, s : l = bus.subs[f.id] /\ s = f.sub
  OBVIOUS
<1>3. IsList(l) /\ Contains(l, s) /\ s \notin bus.dead
  BY <1>1, <1>2, StateFacts DEF WalkHolds
<1>4. /\ t \in Subs \cup {Null}
      /\ t = Null => \A x : Before(l, s, x) => x \in bus.dead
      /\ t # Null => /\ Before(l, s, t) /\ t \notin bus.dead
                     /\ \A x : Before(l, s, x) /\ Before(l, x, t) => x \in bus.dead
  BY <1>2, <1>3, NextLiveFacts
<1>5. /\ g \in Frames /\ g.op = f.op /\ g.id = f.id /\ g.owner = f.owner /\ g.seen = f.seen
      /\ g.sub = t
  <2>1. g \in Frames
    BY <1>4 DEF Frames
  <2> QED BY <2>1 DEF Frames
<1>6. t # Null => t \in Subs /\ t # s /\ Contains(l, t)
  BY <1>3, <1>4, BeforeFacts
<1>7. t # Null => Contains(c.subs[f.id], t) /\ t \notin c.dead
  BY <1>1, <1>2, <1>4, <1>6 DEF Visit
<1>8. f.seen = {x \in LiveIn(c) : ~ Owned(c, x, f.owner)}
  BY DEF Visit, WalkHolds
<1>9. ASSUME NEW id \in Ids, NEW x \in Subs, Contains(c.subs[id], x), Past(c, g, id, x)
      PROVE  x \in c.dead \/ ~ Owned(c, x, f.owner)
  <2>1. CASE x = s
    BY <1>2, <1>9, <2>1 DEF Visit
  <2>2. CASE x # s
    <3>1. /\ Contains(bus.subs[id], x)
          /\ x \in c.dead <=> x \in bus.dead
          /\ Owned(c, x, f.owner) <=> Owned(bus, x, f.owner)
      BY <1>2, <1>9, <2>2 DEF Visit
    <3>2. id < f.id \/ (id = f.id /\ (t = Null \/ Before(c.subs[id], x, t)))
      BY <1>5, <1>9 DEF Past
    <3>3. CASE id < f.id
      <4>1. Past(bus, f, id, x)
        BY <3>3 DEF Past
      <4> QED BY <3>1, <4>1 DEF WalkHolds
    <3>4. CASE id = f.id /\ (t = Null \/ Before(c.subs[id], x, t))
      <4>1. Contains(l, x)
        BY <1>2, <3>1, <3>4
      <4>2. t = Null \/ Before(l, x, t)
        BY <1>1, <1>2, <1>6, <3>4 DEF Visit
      <4>3. Before(l, x, s) \/ Before(l, s, x)
        BY <1>3, <2>2, <4>1, BeforeFacts
      <4>4. CASE Before(l, x, s)
        <5>1. Past(bus, f, id, x)
          BY <1>2, <3>4, <4>4 DEF Past
        <5> QED BY <3>1, <5>1 DEF WalkHolds
      <4>5. CASE Before(l, s, x)
        BY <1>4, <3>1, <4>2, <4>5
      <4> QED BY <4>3, <4>4, <4>5
    <3> QED BY <3>2, <3>3, <3>4
  <2> QED BY <2>1, <2>2
<1>10. /\ g.id = 1 \/ g.id <= Len(c.names)
       /\ g.op = "deinit" => g.owner = Every
  BY <1>5 DEF WalkHolds, Visit
<1> QED BY <1>5, <1>7, <1>8, <1>9, <1>10 DEF WalkHolds

LEMMA WalkVisitKeeps ==
  ASSUME IInv, WalkVisit
  PROVE  IInv'
<1>1. InWalk /\ Top.sub # Null
  BY DEF WalkVisit
<1>2. PICK f, t, g, c : /\ f = Top /\ t = NextLive(bus.subs[f.id], f.sub)
                        /\ g = [f EXCEPT !.sub = t] /\ c = bus'
  OBVIOUS
<1>3. stack' = Replaced(g) /\ c = IF OfOwner(f.sub, f.owner) THEN Removed(bus, f.sub) ELSE bus
  BY <1>2 DEF WalkVisit, SavedNext
<1>4. /\ ~ Idle /\ f \in Frames /\ f.op # "publish" /\ f.sub # Null /\ WalkHolds(bus, f)
      /\ f.id \in Ids /\ f.op = stack[Len(stack)].op
  BY <1>1, <1>2, WalkFacts, TopFacts
<1>5. BusHolds(bus) /\ CallsHold(bus, stack) /\ stack # <<>>
  BY <1>4, StateFacts DEF Idle
<1>6. PICK s : s = f.sub
  OBVIOUS
<1>7. s \in LiveIn(bus)
  <2>1. Contains(bus.subs[f.id], s) /\ s \notin bus.dead
    BY <1>4, <1>6 DEF WalkHolds
  <2>2. s \in Subs
    BY <1>4, <1>6, FrameFacts
  <2> QED BY <1>4, <2>1, <2>2 DEF LiveIn, LinkedIn
<1>8. /\ BusHolds(c) /\ Visit(bus, c, s, f.owner) /\ c.depth = bus.depth
      /\ bus.depth # 0 => c.subs = bus.subs /\ bus.dead \subseteq c.dead
  <2>1. CASE Owned(bus, s, f.owner)
    <3>1. c = Removed(bus, s)
      BY <1>3, <1>6, <2>1, StateFacts
    <3>2. Removal(bus, s, c)
      BY ONLY <1>5, <1>7, <3>1, RemovedFacts
    <3>3. Visit(bus, c, s, f.owner)
      BY <1>5, <1>7, <2>1, <3>2, VisitRemoves
    <3> QED BY <3>2, <3>3 DEF Removal
  <2>2. CASE ~ Owned(bus, s, f.owner)
    <3>1. c = bus
      BY <1>3, <1>6, <2>2, StateFacts
    <3> QED BY <1>5, <2>2, <3>1, VisitSpares
  <2> QED BY <2>1, <2>2
<1>9. g \in Frames /\ g.op = f.op /\ WalkHolds(c, g)
  BY <1>2, <1>4, <1>6, <1>8, VisitHolds
<1>10. \A i \in 1 .. Len(stack) : i <= bus.depth => bus.depth # 0
  BY <1>5, CallsFacts
<1>11. \A i \in 1 .. Len(stack) :
         i <= bus.depth /\ i < Len(stack) /\ PubHolds(bus, stack[i]) => PubHolds(c, stack[i])
  BY <1>8, <1>10, PubSame
<1>12. PICK q : q = stack'
  OBVIOUS
<1>13. q = Swap(stack, g) /\ g.op # "publish" /\ g.op = stack[Len(stack)].op
  BY <1>3, <1>4, <1>9, <1>12 DEF Swap, Replaced
<1>14. CallsHold(c, q)
  BY <1>5, <1>8, <1>9, <1>11, <1>13, SwapCall
<1> QED BY <1>2, <1>8, <1>12, <1>14 DEF IInv

\* At the end of a walk every record that is left is dead or another owner's.
LEMMA WalkedAll ==
  ASSUME IInv, InWalk, Top.sub = Null, ~ HasEntry(Top.id + 1)
  PROVE  \A id \in Ids, x \in Subs : Contains(bus.subs[id], x) =>
             x \in bus.dead \/ ~ Owned(bus, x, Top.owner)
<1>1. BusHolds(bus) /\ Top.id \in Ids
  BY StateFacts, WalkFacts
<1>2. PICK n, m : n = Top.id + 1 /\ m = Len(bus.names)
  OBVIOUS
<1>3. n \in Nat /\ m \in Nat /\ ~ (n <= m) /\ Ids \subseteq Nat
  <2>1. m \in Nat
    BY <1>1, <1>2, BusFacts
  <2>2. Top.id \in Nat
    BY <1>1, Sizes
  <2>3. n \in Nat
    BY <1>2, <2>2
  <2> QED BY <1>2, <2>1, <2>3, Sizes DEF HasEntry
<1>4. \A id \in Ids : id < n \/ id > m
  BY <1>3
<1>5. \A id \in Ids : id > m => bus.subs[id] = <<>>
  BY <1>1, <1>2, BusFacts DEF ListsHold
<1> QED BY <1>2, <1>4, <1>5, WalkedEvents, EmptyFacts

\* A bus without records loses its names.
LEMMA UnnamedFacts ==
  ASSUME NEW b, BusHolds(b), \A id \in Ids : b.subs[id] = <<>>,
         NEW c, c = [b EXCEPT !.names = <<>>]
  PROVE  BusHolds(c) /\ c.depth = b.depth /\ c.subs = b.subs /\ c.dead = b.dead
<1>1. c = Fields(<<>>, b.subs, b.tag, b.dead, b.retired, b.depth, b.count)
  BY BusFacts, FieldsFact DEF Fields
<1>2. /\ c.names = <<>> /\ c.subs = b.subs /\ c.tag = b.tag /\ c.dead = b.dead
      /\ c.retired = b.retired /\ c.depth = b.depth /\ c.count = b.count
  BY <1>1 DEF Fields
<1>3. c \in Buses
  <2>1. <<>> \in Seq(Names)
    OBVIOUS
  <2>2. PICK none : none = <<>>
    OBVIOUS
  <2>3. none \in Seq(Names) /\ c = Fields(none, b.subs, b.tag, b.dead, b.retired, b.depth, b.count)
    BY <1>1, <2>1, <2>2
  <2>4. /\ b.subs \in [Ids -> Seq(Subs)] /\ b.tag \in [Subs -> Tags \cup {NoTag}]
        /\ b.dead \in SUBSET Subs /\ b.retired \in Seq(Subs)
        /\ b.depth \in 0 .. MaxDepth /\ b.count \in 0 .. Cardinality(Subs)
    BY BusFacts
  <2> QED BY ONLY <2>3, <2>4, ZenonT(30) DEF Fields, Buses
<1>4. LinkedIn(c) = LinkedIn(b) /\ LiveIn(c) = LiveIn(b)
  BY <1>2 DEF LinkedIn, LiveIn
<1>5. CountsHold(c)
  <2>1. CountsHold(b)
    BY BusFacts
  <2> QED BY <1>2, <1>4, <2>1 DEF CountsHold
<1>6. ListsHold(c)
  <2>1. ListsHold(b)
    BY BusFacts
  <2> QED BY <1>2, <2>1 DEF ListsHold
<1>7. NamesHold(c)
  <2>1. ToSet(<<>>) = {} /\ Len(<<>>) = 0 /\ IsInjective(<<>>)
    BY DEF ToSet, IsInjective
  <2> QED BY <1>2, <2>1, FS_EmptySet DEF NamesHold
<1> QED BY <1>2, <1>3, <1>5, <1>6, <1>7, BusFacts DEF BusHolds, BooksHold

LEMMA WalkEndKeeps ==
  ASSUME IInv, WalkEnd
  PROVE  IInv'
<1>1. InWalk /\ Top.sub = Null /\ ~ HasEntry(Top.id + 1) /\ stack' = Front(stack)
  BY DEF WalkEnd
<1>2. PICK c, q : c = bus' /\ q = stack'
  OBVIOUS
<1>3. c = IF Top.op = "deinit" THEN [bus EXCEPT !.names = <<>>] ELSE bus
  BY <1>2 DEF WalkEnd
<1>4. BusHolds(bus) /\ CallsHold(bus, stack) /\ stack # <<>> /\ q = Front(stack)
  BY <1>1, <1>2, StateFacts, WalkFacts DEF Idle
<1>5. Len(stack) = bus.depth + 1 /\ bus.depth \in Nat
  BY <1>1, <1>4, WalkFacts, CallsFacts
<1>6. BusHolds(c) /\ c.depth = bus.depth /\ c.subs = bus.subs /\ c.dead = bus.dead
  <2>1. CASE Top.op # "deinit"
    BY <1>3, <1>4, <2>1
  <2>2. CASE Top.op = "deinit"
    <3>1. Len(stack) = 1 /\ Top.owner = Every
      BY <1>1, <2>2, TopFacts, WalkFacts DEF WalkHolds
    <3>2. bus.depth = 0
      BY <1>5, <3>1
    <3>3. bus.dead = {}
      BY <1>4, <3>2, BusFacts
    <3>4. \A id \in Ids, x \in Subs : ~ Contains(bus.subs[id], x)
      BY <1>1, <3>1, <3>3, WalkedAll DEF Owned
    <3>5. ASSUME NEW id \in Ids PROVE bus.subs[id] = <<>>
      <4>1. PICK l : l = bus.subs[id]
        OBVIOUS
      <4>2. IsList(l)
        BY <4>1, StateFacts
      <4>3. \A x : ~ Contains(l, x)
        BY <3>4, <4>1, <4>2, BeforeFacts
      <4>4. \A u, v : ~ Before(l, u, v)
        BY <4>2, <4>3, BeforeFacts
      <4>5. l = <<>>
        BY <4>2, <4>3, <4>4, EmptyFacts, SameList
      <4> QED BY <4>1, <4>5
    <3>6. c = [bus EXCEPT !.names = <<>>]
      BY <1>3, <2>2
    <3> QED BY ONLY <1>4, <3>5, <3>6, UnnamedFacts
  <2> QED BY <2>1, <2>2
<1>7. c.depth = Len(stack) - 1
  BY <1>5, <1>6
<1>8. \A i \in 1 .. Len(stack) : i <= c.depth /\ PubHolds(bus, stack[i]) => PubHolds(c, stack[i])
  BY <1>6, PubSame
<1>9. CallsHold(c, q)
  BY <1>4, <1>7, <1>8, PopCall
<1> QED BY <1>2, <1>6, <1>9 DEF IInv

LEMMA NextKeeps == IInv /\ [Next]_vars => IInv'
<1> SUFFICES ASSUME IInv, [Next]_vars PROVE IInv'
  OBVIOUS
<1>1. CASE \E n \in Names : GetId(n)
  BY <1>1, GetIdKeeps
<1>2. CASE \E id \in Ids, tag \in Tags : TrySubscribe(id, tag)
  BY <1>2, TrySubscribeKeeps
<1>3. CASE \E id \in Ids, tag \in Tags : TrySubscribeOnce(id, tag)
  BY <1>3, TrySubscribeKeeps DEF TrySubscribeOnce
<1>4. CASE \E id \in Ids, tag \in Tags : RemoveExact(id, tag)
  BY <1>4, RemoveExactKeeps
<1>5. CASE \E s \in Subs : RemoveSub(s)
  BY <1>5, RemoveSubKeeps
<1>6. CASE \E id \in Ids : PublishBegin(id)
  BY <1>6, PublishBeginKeeps
<1>7. CASE \E owner \in Owners : DropOwner(owner)
  BY <1>7, DropOwnerKeeps
<1>8. CASE UNCHANGED vars
  BY <1>8 DEF vars, IInv
<1> QED BY <1>1, <1>2, <1>3, <1>4, <1>5, <1>6, <1>7, <1>8, CallbackReturnsKeeps,
           CallbackStopsKeeps, PublishEndKeeps, ClearKeeps, DeinitKeeps, WalkVisitKeeps,
           WalkNextEventKeeps, WalkEndKeeps DEF Next

\* The inductive invariant: lists, counts and retired records of the bus, and the
\* place of every publication and walk in the list it is in (bus.c:84-308).
THEOREM InductiveInvariant == Spec => []IInv
BY InitHolds, NextKeeps, PTL DEF Spec

------------------------------------------------------------------------------
(* The invariants that the run checks. *)

\* The publications are the first calls, as many as the depth says.
LEMMA DepthCounts ==
  ASSUME IInv
  PROVE  bus.depth = Cardinality({i \in DOMAIN stack : stack[i].op = "publish"})
<1>1. PICK d : d = bus.depth
  OBVIOUS
<1>2. /\ stack \in Seq(Frames) /\ Len(stack) \in Nat /\ d \in Nat
      /\ Len(stack) = d \/ Len(stack) = d + 1
      /\ \A i \in 1 .. Len(stack) : stack[i].op = "publish" <=> i <= d
  BY <1>1, StateFacts, CallsFacts
<1>3. DOMAIN stack = 1 .. Len(stack)
  BY <1>2
<1>4. \A i : i \in 1 .. d <=> i \in 1 .. Len(stack) /\ i <= d
  BY <1>2
<1>5. {i \in DOMAIN stack : stack[i].op = "publish"} = 1 .. d
  BY <1>2, <1>3, <1>4
<1>6. Cardinality(1 .. d) = d
  <2>1. Cardinality(1 .. d) = IF 1 > d THEN 0 ELSE d - 1 + 1
    BY <1>2, FS_Interval
  <2> QED BY <1>2, <2>1
<1> QED BY <1>1, <1>5, <1>6

LEMMA LinkedOnceHolds ==
  ASSUME IInv
  PROVE  LinkedOnce
<1> SUFFICES ASSUME NEW id \in Ids, NEW other \in Ids,
                    NEW i \in DOMAIN bus.subs[id], NEW j \in DOMAIN bus.subs[other],
                    bus.subs[id][i] = bus.subs[other][j]
             PROVE  id = other /\ i = j
  BY DEF LinkedOnce
<1>1. PICK l, q : l = bus.subs[id] /\ q = bus.subs[other]
  OBVIOUS
<1>2. IsList(l) /\ IsList(q)
  BY <1>1, StateFacts
<1>3. i \in 1 .. Len(l) /\ j \in 1 .. Len(q) /\ l[i] = q[j] /\ l[i] \in Subs
  BY <1>1, <1>2, ListFacts
<1>4. Contains(l, l[i]) /\ Contains(q, l[i])
  BY <1>3 DEF Contains
<1>5. id = other
  BY <1>1, <1>3, <1>4, StateFacts, BusFacts DEF ListsHold
<1>6. l = q
  BY <1>1, <1>5
<1>7. i = j
  BY <1>2, <1>3, <1>6, ListFacts
<1> QED BY <1>5, <1>7

LEMMA StandsOnMemoryHolds ==
  ASSUME IInv
  PROVE  StandsOnMemory
<1> SUFFICES ASSUME NEW i \in DOMAIN stack, stack[i].sub # Null
             PROVE  Contains(bus.subs[stack[i].id], stack[i].sub)
  BY DEF StandsOnMemory
<1>1. /\ stack \in Seq(Frames) /\ bus.depth \in Nat
      /\ \A n \in 1 .. Len(stack) : /\ n <= bus.depth => PubHolds(bus, stack[n])
                                    /\ n > bus.depth => WalkHolds(bus, stack[n])
  BY StateFacts, CallsFacts
<1>2. i \in 1 .. Len(stack) /\ (i <= bus.depth \/ i > bus.depth)
  BY <1>1
<1> QED BY <1>1, <1>2 DEF PubHolds, WalkHolds

\* However publications and removals are nested in one another, no call stands on
\* freed memory, a record is linked once and counted while it is live, dead ones
\* are retired once each and freed with the outermost publication
\* (bus.c:84-97, 186-199, 245-308).
THEOREM RecordsStaySound == Spec => []RecordsSound
<1>1. IInv => RecordsSound
  <2> SUFFICES ASSUME IInv PROVE RecordsSound
    OBVIOUS
  <2>1. BusHolds(bus) /\ Linked = LinkedIn(bus) /\ Live = LiveIn(bus)
    BY StateFacts
  <2>2. TypeOK
    BY <2>1, StateFacts, BusFacts, CallsFacts DEF TypeOK
  <2>3. CountsHold(bus) /\ NamesHold(bus) /\ (bus.depth = 0 => bus.retired = <<>>)
    BY <2>1, BusFacts
  <2>4. BooksExact
    BY <2>1, <2>3, DepthCounts, LinkedOnceHolds DEF BooksExact, CountsHold, NamesHold
  <2> QED BY <2>2, <2>4, StandsOnMemoryHolds DEF RecordsSound
<1> QED BY <1>1, InductiveInvariant, PTL

\* A walk of drop_owner, clear or deinit that is over removed exactly the owner's
\* records, of every event, in or out of a publication (bus.c:273-308, 346-358).
THEOREM WalksRemoveExactly == Spec => []WalkRemovesExactly
<1>1. IInv => WalkRemovesExactly
  <2> SUFFICES ASSUME IInv, InWalk, Top.sub = Null, ~ HasEntry(Top.id + 1)
               PROVE  Live = Top.seen
    BY DEF WalkRemovesExactly
  <2>1. Live = LiveIn(bus)
    BY StateFacts
  <2>2. Top.seen = {s \in LiveIn(bus) : ~ Owned(bus, s, Top.owner)}
    BY WalkFacts DEF WalkHolds
  <2>3. \A s \in LiveIn(bus) : ~ Owned(bus, s, Top.owner)
    BY WalkedAll DEF LiveIn, LinkedIn
  <2> QED BY <2>1, <2>2, <2>3
<1> QED BY <1>1, InductiveInvariant, PTL

------------------------------------------------------------------------------
(* The refinement: what the promise sees of a bus and a stack. *)

LiveLists(b) == [id \in Ids |-> Without(b.subs[id], b.dead)]

Pub(f) == [id |-> f.id, called |-> f.seen, now |-> f.sub]
Pubs == [id : Ids, called : SUBSET Subs, now : Subs \cup {Null}]
PubsOf(b, k) == [i \in 1 .. b.depth |-> Pub(k[i])]

\* A list in two ways: an operation on the live records of a list is one on the
\* list itself.
\* A list with a record more at its end.
Longer(p, l, s) == p = Append(l, s)

LEMMA GrownLive ==
  ASSUME NEW l, IsList(l), NEW D, NEW s \in Subs, ~ Contains(l, s), s \notin D,
         NEW q, Longer(q, l, s)
  PROVE  Longer(Without(q, D), Without(l, D), s)
<1>0. q = Append(l, s)
  BY DEF Longer
<1>1. PICK v, p, r : v = Without(l, D) /\ p = Without(q, D) /\ r = Append(v, s)
  OBVIOUS
<1>2. Grown(l, s, q)
  BY <1>0, AppendFacts
<1>3. /\ IsList(v)
      /\ \A x : Contains(v, x) <=> Contains(l, x) /\ x \notin D
      /\ \A a, b : Before(v, a, b) <=> Before(l, a, b) /\ a \notin D /\ b \notin D
  BY <1>1, WithoutFacts
<1>4. IsList(q)
  BY <1>2 DEF Grown
<1>5. /\ IsList(p)
      /\ \A x : Contains(p, x) <=> Contains(q, x) /\ x \notin D
      /\ \A a, b : Before(p, a, b) <=> Before(q, a, b) /\ a \notin D /\ b \notin D
  BY <1>1, <1>4, WithoutFacts
<1>6. Grown(v, s, r)
  BY <1>1, <1>3, AppendFacts
<1>7. /\ \A x : Contains(p, x) <=> Contains(r, x)
      /\ \A a, b : Before(p, a, b) <=> Before(r, a, b)
  BY <1>2, <1>3, <1>5, <1>6 DEF Grown
<1>8. IsList(r)
  BY <1>6 DEF Grown
<1>9. p = r
  BY <1>5, <1>7, <1>8, SameList
<1> QED BY <1>1, <1>9 DEF Longer

LEMMA MarkedLive ==
  ASSUME NEW l, IsList(l), NEW D, NEW s, NEW E, E = D \cup {s}
  PROVE  Without(l, E) = RemoveFirst(Without(l, D), s)
<1>1. PICK v, p, r : v = Without(l, D) /\ p = Without(l, E) /\ r = RemoveFirst(v, s)
  OBVIOUS
<1>2. /\ IsList(v)
      /\ \A x : Contains(v, x) <=> Contains(l, x) /\ x \notin D
      /\ \A a, b : Before(v, a, b) <=> Before(l, a, b) /\ a \notin D /\ b \notin D
  BY <1>1, WithoutFacts
<1>3. /\ IsList(p)
      /\ \A x : Contains(p, x) <=> Contains(l, x) /\ x \notin E
      /\ \A a, b : Before(p, a, b) <=> Before(l, a, b) /\ a \notin E /\ b \notin E
  BY <1>1, WithoutFacts
<1>4. /\ IsList(r)
      /\ \A x : Contains(r, x) <=> Contains(v, x) /\ x # s
      /\ \A a, b : Before(r, a, b) <=> Before(v, a, b) /\ a # s /\ b # s
  BY <1>1, <1>2, RemoveFacts
<1>5. \A x : x \in E <=> x \in D \/ x = s
  OBVIOUS
<1>6. /\ \A x : Contains(p, x) <=> Contains(r, x)
      /\ \A a, b : Before(p, a, b) <=> Before(r, a, b)
  BY ONLY <1>2, <1>3, <1>4, <1>5
<1>7. p = r
  BY ONLY <1>3, <1>4, <1>6, SameList
<1> QED BY <1>1, <1>7

LEMMA FreedLive ==
  ASSUME NEW l, IsList(l), NEW D
  PROVE  Without(Without(l, D), {}) = Without(l, D)
<1>1. PICK v, none : v = Without(l, D) /\ none = {}
  OBVIOUS
<1>2. PICK p : p = Without(v, none)
  OBVIOUS
<1>3. IsList(v)
  BY <1>1, WithoutFacts
<1>4. /\ IsList(p)
      /\ \A x : Contains(p, x) <=> Contains(v, x) /\ x \notin none
      /\ \A a, b : Before(p, a, b) <=> Before(v, a, b) /\ a \notin none /\ b \notin none
  BY <1>2, <1>3, WithoutFacts
<1>5. /\ \A x : Contains(p, x) <=> Contains(v, x)
      /\ \A a, b : Before(p, a, b) <=> Before(v, a, b)
  BY <1>1, <1>4
<1>6. p = v
  BY ONLY <1>3, <1>4, <1>5, SameList
<1> QED BY <1>1, <1>2, <1>6

\* The record whose turn it is, of the live records v, when these were called.
HasTurn(v, called, t) ==
    /\ t = Null => \A x : Contains(v, x) => x \in called
    /\ t # Null => /\ Contains(v, t) /\ t \notin called
                   /\ \A x : Before(v, x, t) => x \in called

LEMMA OneTurn ==
  ASSUME NEW v, IsList(v), NEW called, NEW t, HasTurn(v, called, t), NEW u, HasTurn(v, called, u)
  PROVE  t = u
<1>1. t = Null <=> u = Null
  BY DEF HasTurn
<1>2. CASE t # Null
  <2>1. t = u \/ Before(v, t, u) \/ Before(v, u, t)
    BY <1>1, <1>2, BeforeFacts DEF HasTurn
  <2> QED BY <1>1, <1>2, <2>1 DEF HasTurn
<1> QED BY <1>1, <1>2

TurnOf(v, called) ==
    LET i == SelectInSeq(v, LAMBDA s : s \notin called)
    IN  IF i = 0 THEN Null ELSE v[i]

LEMMA TurnFacts ==
  ASSUME NEW v, IsList(v), NEW called
  PROVE  HasTurn(v, called, TurnOf(v, called))
<1> DEFINE I == {i \in 1 .. Len(v) : v[i] \notin called}
<1>1. /\ Len(v) \in Nat /\ \A i \in 1 .. Len(v) : v[i] \in Subs
      /\ \A i, j \in 1 .. Len(v) : v[i] = v[j] => i = j
  BY ListFacts
<1>2. CASE I = {}
  <2>1. TurnOf(v, called) = Null
    BY <1>2 DEF TurnOf, SelectInSeq
  <2>2. \A x : Contains(v, x) => x \in called
    BY <1>2 DEF Contains
  <2> QED BY <2>1, <2>2 DEF HasTurn
<1>3. CASE I # {}
  <2>1. Min(I) \in I /\ \A y \in I : Min(I) <= y
    <3>1. I \in SUBSET Nat
      BY <1>1
    <3> QED BY <1>3, <3>1, MinFacts
  <2>2. Min(I) # 0
    BY <1>1, <2>1
  <2>3. TurnOf(v, called) = v[Min(I)]
    BY <1>3, <2>2 DEF TurnOf, SelectInSeq
  <2>4. PICK n : n = Min(I)
    OBVIOUS
  <2>5. /\ n \in 1 .. Len(v) /\ v[n] \notin called /\ TurnOf(v, called) = v[n]
        /\ \A y \in 1 .. Len(v) : y < n => v[y] \in called
    <3>1. n \in I /\ TurnOf(v, called) = v[n] /\ \A y \in I : n <= y
      BY <2>1, <2>3, <2>4
    <3>2. ASSUME NEW y \in 1 .. Len(v), y < n PROVE v[y] \in called
      <4>1. ~ (n <= y)
        BY <3>1, <3>2
      <4> QED BY <3>1, <4>1
    <3> QED BY <3>1, <3>2
  <2>6. ASSUME NEW x, Before(v, x, v[n]) PROVE x \in called
    <3>1. PICK i, j \in 1 .. Len(v) : i < j /\ v[i] = x /\ v[j] = v[n]
      BY <2>6 DEF Before
    <3>2. j = n
      BY <1>1, <2>5, <3>1
    <3> QED BY <2>5, <3>1, <3>2
  <2>7. Contains(v, v[n]) /\ v[n] # Null
    BY <1>1, <2>5, EventBusAssumption DEF Contains
  <2> QED BY <2>5, <2>6, <2>7 DEF HasTurn
<1> QED BY <1>2, <1>3

\* Whom a publication calls first, and next.
LEMMA FirstTurn ==
  ASSUME IInv, NEW id \in Ids
  PROVE  FirstLive(bus.subs[id]) = TurnOf(LiveLists(bus)[id], {})
<1>1. PICK l, D, v, t, none : /\ l = bus.subs[id] /\ D = bus.dead /\ v = Without(l, D)
                              /\ t = FirstLive(l) /\ none = {}
  OBVIOUS
<1>2. IsList(l) /\ LiveLists(bus)[id] = v
  BY <1>1, StateFacts DEF LiveLists
<1>3. /\ IsList(v)
      /\ \A x : Contains(v, x) <=> Contains(l, x) /\ x \notin D
      /\ \A a, b : Before(v, a, b) <=> Before(l, a, b) /\ a \notin D /\ b \notin D
  BY <1>1, <1>2, WithoutFacts
<1>4. /\ t = Null => \A x : Contains(l, x) => x \in D
      /\ t # Null => /\ Contains(l, t) /\ t \notin D
                     /\ \A x : Before(l, x, t) => x \in D
  BY <1>1, <1>2, FirstLiveFacts
<1>5. HasTurn(v, none, t)
  BY <1>1, <1>3, <1>4 DEF HasTurn
<1>6. HasTurn(v, none, TurnOf(v, none))
  BY <1>3, TurnFacts
<1>7. t = TurnOf(v, none)
  BY <1>3, <1>5, <1>6, OneTurn
<1> QED BY <1>1, <1>2, <1>7

LEMMA NextTurn ==
  ASSUME IInv, NEW f \in Frames, PubHolds(bus, f), f.sub # Null
  PROVE  NextLive(bus.subs[f.id], f.sub) = TurnOf(LiveLists(bus)[f.id], f.seen)
<1>1. PICK l, D, v, s, t, seen : /\ l = bus.subs[f.id] /\ D = bus.dead /\ v = Without(l, D)
                                 /\ s = f.sub /\ t = NextLive(l, s) /\ seen = f.seen
  OBVIOUS
<1>2. IsList(l) /\ LiveLists(bus)[f.id] = v
  BY <1>1, StateFacts, FrameFacts DEF LiveLists
<1>3. /\ IsList(v)
      /\ \A x : Contains(v, x) <=> Contains(l, x) /\ x \notin D
      /\ \A a, b : Before(v, a, b) <=> Before(l, a, b) /\ a \notin D /\ b \notin D
  BY <1>1, <1>2, WithoutFacts
<1>4. /\ s \in seen /\ Contains(l, s)
      /\ \A x \in Subs : Before(l, x, s) => x \in D \/ x \in seen
      /\ \A x \in Subs : Before(l, s, x) => x \notin seen
  BY <1>1 DEF PubHolds
<1>5. /\ t = Null => \A x : Before(l, s, x) => x \in D
      /\ t # Null => /\ Before(l, s, t) /\ t \notin D
                     /\ \A x : Before(l, s, x) /\ Before(l, x, t) => x \in D
  BY <1>1, <1>2, <1>4, NextLiveFacts
<1>6. /\ \A x : Contains(l, x) => x \in Subs /\ (x = s \/ Before(l, x, s) \/ Before(l, s, x))
      /\ \A a, b : Before(l, a, b) => Contains(l, a) /\ Contains(l, b)
  BY <1>2, <1>4, BeforeFacts
<1>7. HasTurn(v, seen, t)
  <2>1. CASE t = Null
    BY <1>3, <1>4, <1>5, <1>6, <2>1 DEF HasTurn
  <2>2. CASE t # Null
    <3>1. Contains(v, t) /\ t \notin seen
      BY <1>3, <1>4, <1>5, <1>6, <2>2
    <3>2. ASSUME NEW x, Before(v, x, t) PROVE x \in seen
      BY <1>3, <1>4, <1>5, <1>6, <2>2, <3>2
    <3> QED BY <2>2, <3>1, <3>2 DEF HasTurn
  <2> QED BY <2>1, <2>2
<1>8. HasTurn(v, seen, TurnOf(v, seen))
  BY <1>3, TurnFacts
<1>9. t = TurnOf(v, seen)
  BY <1>3, <1>7, <1>8, OneTurn
<1> QED BY <1>1, <1>2, <1>9

\* The publications as a sequence.
LEMMA PubsFacts ==
  ASSUME NEW b, BusHolds(b), NEW k, CallsHold(b, k), NEW p, p = PubsOf(b, k)
  PROVE  /\ p \in Seq(Pubs) /\ Len(p) = b.depth /\ b.depth \in Nat /\ DOMAIN p = 1 .. b.depth
         /\ \A i \in 1 .. b.depth : i \in 1 .. Len(k) /\ k[i] \in Frames /\ p[i] = Pub(k[i])
<1>1. PICK d : d = b.depth
  OBVIOUS
<1>2. /\ Len(k) \in Nat /\ d \in Nat
      /\ Len(k) = d \/ Len(k) = d + 1
      /\ \A i \in 1 .. Len(k) : k[i] \in Frames
  BY <1>1, CallsFacts
<1>3. \A i \in 1 .. d : i \in 1 .. Len(k)
  BY <1>2
<1>4. \A i \in 1 .. d : k[i] \in Frames
  BY <1>2, <1>3
<1>5. \A i \in 1 .. d : Pub(k[i]) \in Pubs
  BY <1>4 DEF Pub, Pubs, Frames
<1>6. p = [i \in 1 .. d |-> Pub(k[i])]
  BY <1>1 DEF PubsOf
<1>7. p \in [1 .. d -> Pubs] /\ \A i \in 1 .. d : p[i] = Pub(k[i])
  BY <1>5, <1>6
<1>8. p \in Seq(Pubs)
  BY <1>2, <1>7, SeqDef
<1>9. Len(p) = d
  BY <1>2, <1>7, <1>8, LenProperties
<1> QED BY <1>1, <1>2, <1>3, <1>4, <1>7, <1>8, <1>9

LEMMA SamePubs ==
  ASSUME NEW p \in Seq(Pubs), NEW q \in Seq(Pubs), Len(p) = Len(q),
         \A i \in 1 .. Len(p) : p[i] = q[i]
  PROVE  p = q
BY SeqEqual

\* The calls above the publications are not seen.
LEMMA PubsStay ==
  ASSUME NEW b, BusHolds(b), NEW k, CallsHold(b, k), NEW c, BusHolds(c), NEW q, CallsHold(c, q),
         c.depth = b.depth, \A i \in 1 .. b.depth : q[i] = k[i]
  PROVE  PubsOf(c, q) = PubsOf(b, k)
BY DEF PubsOf

\* A publication more.
Pushed(k, f) == Append(k, f)

LEMMA PubsPush ==
  ASSUME NEW b, BusHolds(b), NEW k, CallsHold(b, k), Len(k) = b.depth,
         NEW c, BusHolds(c), NEW f \in Frames, NEW q, CallsHold(c, q), q = Pushed(k, f),
         c.depth = b.depth + 1,
         NEW p, p = PubsOf(b, k), NEW r, r = PubsOf(c, q), NEW e, e = Pub(f)
  PROVE  r = Pushed(p, e)
<1>1. PICK d : d = b.depth
  OBVIOUS
<1>2. /\ p \in Seq(Pubs) /\ Len(p) = d /\ d \in Nat
      /\ \A i \in 1 .. d : p[i] = Pub(k[i])
  BY <1>1, PubsFacts
<1>3. /\ r \in Seq(Pubs) /\ Len(r) = d + 1
      /\ \A i \in 1 .. d + 1 : r[i] = Pub(q[i])
  BY <1>1, PubsFacts
<1>4. k \in Seq(Frames) /\ Len(k) = d
  BY <1>1, CallsFacts
<1>5. /\ \A i \in 1 .. d : q[i] = k[i]
      /\ q[d + 1] = f
  BY <1>2, <1>4 DEF Pushed
<1>6. e \in Pubs
  BY <1>1 DEF Pub, Pubs, Frames
<1>7. PICK a : a = Append(p, e)
  OBVIOUS
<1>8. /\ a \in Seq(Pubs) /\ Len(a) = d + 1
      /\ \A i \in 1 .. d : a[i] = p[i]
      /\ a[d + 1] = e
  BY <1>2, <1>6, <1>7
<1>9. \A i \in 1 .. d + 1 : r[i] = a[i]
  <2>1. \A i \in 1 .. d + 1 : i \in 1 .. d \/ i = d + 1
    BY <1>2
  <2>2. d + 1 \in 1 .. d + 1 /\ \A i \in 1 .. d : i \in 1 .. d + 1
    BY <1>2
  <2> QED BY <1>1, <1>2, <1>3, <1>5, <1>8, <2>1, <2>2
<1>10. r = a
  BY <1>3, <1>8, <1>9, SamePubs
<1> QED BY <1>7, <1>10 DEF Pushed

\* The innermost publication returns.
LEMMA PubsPop ==
  ASSUME NEW b, BusHolds(b), NEW k, CallsHold(b, k), Len(k) = b.depth, b.depth > 0,
         NEW c, BusHolds(c), NEW q, CallsHold(c, q), q = Front(k), c.depth = b.depth - 1
  PROVE  PubsOf(c, q) = Front(PubsOf(b, k))
<1>1. PICK p, r, d : p = PubsOf(b, k) /\ r = PubsOf(c, q) /\ d = b.depth
  OBVIOUS
<1>2. /\ p \in Seq(Pubs) /\ Len(p) = d /\ d \in Nat
      /\ \A i \in 1 .. d : p[i] = Pub(k[i]) /\ p[i] \in Pubs
  <2>1. /\ p \in Seq(Pubs) /\ Len(p) = d /\ d \in Nat
        /\ \A i \in 1 .. d : p[i] = Pub(k[i])
    BY <1>1, PubsFacts
  <2> QED BY <2>1
<1>3. /\ r \in Seq(Pubs) /\ Len(r) = d - 1
      /\ \A i \in 1 .. d - 1 : r[i] = Pub(q[i])
  BY <1>1, PubsFacts
<1>4. k \in Seq(Frames) /\ Len(k) = d /\ k # <<>>
  BY <1>1, <1>2, CallsFacts
<1>5. Len(q) = d - 1 /\ \A i \in 1 .. Len(q) : q[i] = k[i]
  BY <1>4, PopFacts
<1>6. PICK n \in Nat : n = d - 1
  BY <1>1, <1>2
<1>7. PICK a : a = Front(p)
  OBVIOUS
<1>8. a \in Seq(Pubs) /\ Len(a) = n /\ \A i \in 1 .. n : a[i] = p[i]
  <2>1. a = SubSeq(p, 1, n)
    BY <1>2, <1>6, <1>7 DEF Front
  <2>2. \A i \in 1 .. n : i \in 1 .. d
    BY <1>2, <1>6
  <2> QED BY <1>2, <1>6, <2>1, <2>2
<1>9. \A i \in 1 .. n : r[i] = a[i]
  <2>1. \A i \in 1 .. n : i \in 1 .. d
    BY <1>2, <1>6
  <2> QED BY <1>2, <1>3, <1>5, <1>6, <1>8, <2>1
<1>10. r = a
  BY <1>3, <1>6, <1>8, <1>9, SamePubs
<1> QED BY <1>1, <1>7, <1>10

\* The innermost publication goes on.
LEMMA PubsSwap ==
  ASSUME NEW b, BusHolds(b), NEW k, CallsHold(b, k), Len(k) = b.depth, b.depth > 0,
         NEW f \in Frames, NEW q, CallsHold(b, q), q = Swap(k, f)
  PROVE  PubsOf(b, q) = Append(Front(PubsOf(b, k)), Pub(f))
<1>1. PICK p, r, d, e : p = PubsOf(b, k) /\ r = PubsOf(b, q) /\ d = b.depth /\ e = Pub(f)
  OBVIOUS
<1>2. /\ p \in Seq(Pubs) /\ Len(p) = d /\ d \in Nat
      /\ \A i \in 1 .. d : p[i] = Pub(k[i])
  BY <1>1, PubsFacts
<1>3. /\ r \in Seq(Pubs) /\ Len(r) = d
      /\ \A i \in 1 .. d : r[i] = Pub(q[i])
  BY <1>1, PubsFacts
<1>4. k \in Seq(Frames) /\ Len(k) = d /\ k # <<>>
  BY <1>1, <1>2, CallsFacts
<1>5. PICK n \in Nat : n = d - 1
  BY <1>1, <1>2
<1>6. q[d] = f /\ \A i \in 1 .. n : q[i] = k[i]
  <2>1. PICK h : h = Front(k)
    OBVIOUS
  <2>2. h \in Seq(Frames) /\ Len(h) = n /\ \A i \in 1 .. Len(h) : h[i] = k[i]
    BY <1>4, <1>5, <2>1, PopFacts
  <2>3. q = Append(h, f) /\ d = n + 1
    BY <1>2, <1>5, <2>1 DEF Swap
  <2> QED BY <1>5, <2>2, <2>3
<1>7. e \in Pubs
  BY <1>1 DEF Pub, Pubs, Frames
<1>8. PICK a, z : a = Front(p) /\ z = Append(a, e)
  OBVIOUS
<1>9. a \in Seq(Pubs) /\ Len(a) = n /\ \A i \in 1 .. n : a[i] = p[i]
  <2>1. a = SubSeq(p, 1, n)
    BY <1>2, <1>5, <1>8 DEF Front
  <2>2. \A i \in 1 .. n : i \in 1 .. d
    BY <1>2, <1>5
  <2> QED BY <1>2, <1>5, <2>1, <2>2
<1>10. z \in Seq(Pubs) /\ Len(z) = d /\ z[d] = e /\ \A i \in 1 .. n : z[i] = p[i]
  <2>1. d = n + 1 /\ z = Append(a, e)
    BY <1>2, <1>5, <1>8
  <2> QED BY <1>5, <1>7, <1>9, <2>1
<1>11. \A i \in 1 .. d : r[i] = z[i]
  <2>1. (\A i \in 1 .. d : i \in 1 .. n \/ i = d) /\ (\A i \in 1 .. n : i \in 1 .. d)
    BY <1>2, <1>5
  <2> QED BY <1>1, <1>2, <1>3, <1>6, <1>10, <2>1
<1>12. r = z
  BY <1>3, <1>10, <1>11, SamePubs
<1> QED BY <1>1, <1>8, <1>12

\* The operators on sequences are the same on both sides.
LEMMA SameOperators ==
  /\ \A l, x : Promise!Contains(l, x) <=> Contains(l, x)
  /\ \A l : Promise!Front(l) = Front(l) /\ Promise!Last(l) = Last(l)
  /\ \A l, x : Promise!RemoveFirst(l, x) = RemoveFirst(l, x)
  /\ \A id, called : Promise!Turn(id, called) = TurnOf(LiveRecords[id], called)
<1>1. \A l, x : Promise!Contains(l, x) <=> Contains(l, x)
  BY DEF Promise!Contains, Contains
<1>2. \A l : Promise!Front(l) = Front(l) /\ Promise!Last(l) = Last(l)
  BY DEF Promise!Front, Front, Promise!Last, Last
<1>3. \A l, x : Promise!RemoveFirst(l, x) = RemoveFirst(l, x)
  BY DEF Promise!RemoveFirst, RemoveFirst, Promise!RemoveAt, RemoveAt,
         Promise!SelectInSeq, SelectInSeq, Promise!Min, Min
<1>4. \A id, called : Promise!Turn(id, called) = TurnOf(LiveRecords[id], called)
  BY DEF Promise!Turn, TurnOf, Promise!SelectInSeq, SelectInSeq, Promise!Min, Min
<1> QED BY <1>1, <1>2, <1>3, <1>4

LEMMA Seen ==
  /\ LiveRecords = LiveLists(bus) /\ Publications = PubsOf(bus, stack)
  /\ LiveRecords' = LiveLists(bus') /\ Publications' = PubsOf(bus', stack')
BY DEF LiveRecords, LiveLists, Publications, PubsOf, Pub

LEMMA NextState ==
  ASSUME IInv'
  PROVE  BusHolds(bus') /\ CallsHold(bus', stack')
BY DEF IInv

\* What is subscribed, and which publications run, stay the same.
LEMMA Stutters ==
  ASSUME bus'.subs = bus.subs, bus'.dead = bus.dead, bus'.depth = bus.depth,
         \A i \in 1 .. bus.depth : stack'[i] = stack[i]
  PROVE  UNCHANGED Promise!vars
<1>1. LiveRecords' = LiveRecords
  BY DEF LiveRecords
<1>2. Publications' = Publications
  BY DEF Publications
<1> QED BY <1>1, <1>2 DEF Promise!vars

\* The innermost call changes or returns: the calls under it are the same.
LEMMA UnderTop ==
  ASSUME NEW k \in Seq(Frames), k # <<>>, NEW f \in Frames, NEW d \in Nat, d < Len(k)
  PROVE  \A i \in 1 .. d : Front(k)[i] = k[i] /\ Swap(k, f)[i] = k[i]
<1>1. PICK h, q : h = Front(k) /\ q = Append(h, f)
  OBVIOUS
<1>2. /\ h \in Seq(Frames) /\ Len(h) = Len(k) - 1 /\ Len(k) \in Nat
      /\ \A i \in 1 .. Len(h) : h[i] = k[i]
  BY <1>1, PopFacts
<1>3. \A i \in 1 .. d : i \in 1 .. Len(h)
  BY <1>2
<1>4. \A i \in 1 .. Len(h) : q[i] = h[i]
  BY <1>1, <1>2
<1> QED BY <1>1, <1>2, <1>3, <1>4 DEF Swap

\* A removal is one of the promise, while the same publications run.
LEMMA RemovalStep ==
  ASSUME IInv, NEW s, s \in LiveIn(bus), bus' = Removed(bus, s),
         \A i \in 1 .. bus.depth : stack'[i] = stack[i]
  PROVE  Promise!Unsubscribe(s)
<1>1. PICK c : c = bus'
  OBVIOUS
<1>2. BusHolds(bus) /\ s \in LiveIn(bus) /\ c = Removed(bus, s)
  BY <1>1, StateFacts
<1>3. Removal(bus, s, c)
  BY ONLY <1>2, RemovedFacts
<1>4. /\ c.depth = bus.depth
      /\ bus.depth # 0 => c.subs = bus.subs /\ c.dead = bus.dead \cup {s}
      /\ bus.depth = 0 => /\ c.dead = {} /\ bus.dead = {}
                          /\ \A id \in Ids : c.subs[id] = Without(bus.subs[id], {s})
  BY <1>3 DEF Removal
<1>5. ASSUME NEW id \in Ids
      PROVE  Without(c.subs[id], c.dead) = RemoveFirst(Without(bus.subs[id], bus.dead), s)
  <2>1. PICK l, D, E : l = bus.subs[id] /\ D = bus.dead /\ E = D \cup {s}
    OBVIOUS
  <2>2. IsList(l)
    BY <2>1, StateFacts
  <2>3. Without(l, E) = RemoveFirst(Without(l, D), s)
    BY <2>1, <2>2, MarkedLive
  <2>4. CASE bus.depth # 0
    BY <1>4, <2>1, <2>3, <2>4
  <2>5. CASE bus.depth = 0
    <3>1. c.dead = {} /\ c.subs[id] = Without(l, E)
      <4>1. E = {s}
        BY <1>4, <2>1, <2>5
      <4> QED BY <1>4, <2>1, <2>5, <4>1
    <3>2. Without(c.subs[id], c.dead) = Without(l, E)
      BY <2>2, <3>1, FreedLive
    <3> QED BY <2>1, <2>3, <3>2
  <2> QED BY <2>4, <2>5
<1>6. LiveRecords' = [id \in Ids |-> RemoveFirst(LiveRecords[id], s)]
  BY <1>1, <1>5 DEF LiveRecords
<1>7. Publications' = Publications
  BY <1>1, <1>4 DEF Publications
<1> QED BY <1>6, <1>7, SameOperators DEF Promise!Unsubscribe

\* Of a record that is linked, dead or not.
LEMMA RemoveStep ==
  ASSUME IInv, NEW s, s \in Linked, bus' = Removed(bus, s), stack' = stack
  PROVE  [Promise!Next]_(Promise!vars)
<1>1. CASE s \in bus.dead
  <2>1. bus' = bus
    BY <1>1 DEF Removed
  <2> QED BY <2>1, Stutters
<1>2. CASE s \notin bus.dead
  <2>1. s \in LiveIn(bus) /\ s \in Subs
    BY <1>2, StateFacts DEF LiveIn, LinkedIn
  <2>2. Promise!Unsubscribe(s)
    BY <2>1, RemovalStep
  <2> QED BY <2>1, <2>2 DEF Promise!Next
<1> QED BY <1>1, <1>2

LEMMA SubscribeStep ==
  ASSUME IInv, IInv', NEW id \in Ids, NEW tag \in Tags, TrySubscribe(id, tag)
  PROVE  Promise!Next
<1>1. MayCall /\ id <= Len(bus.names) /\ stack' = stack
  BY DEF TrySubscribe, HasEntry
<1>2. PICK s \in Subs : s \notin Linked /\ bus' = Subscribed(bus, id, s, tag)
  BY DEF TrySubscribe
<1>3. PICK c : c = bus'
  OBVIOUS
<1>4. BusHolds(bus) /\ s \notin LinkedIn(bus) /\ c = Subscribed(bus, id, s, tag)
  BY <1>2, <1>3, StateFacts
<1>5. /\ c.dead = bus.dead /\ c.depth = bus.depth /\ s \notin bus.dead
      /\ c.subs = [bus.subs EXCEPT ![id] = Append(@, s)]
  BY <1>1, <1>4, SubscribedFacts
<1>6. \A other \in Ids : IsList(bus.subs[other]) /\ ~ Contains(bus.subs[other], s)
  BY <1>2, <1>4, StateFacts DEF LinkedIn
<1>7. ASSUME NEW other \in Ids PROVE ~ Contains(LiveRecords[other], s)
  <2>1. PICK l, v, D : l = bus.subs[other] /\ D = bus.dead /\ v = Without(l, D)
    OBVIOUS
  <2>2. IsList(l) /\ ~ Contains(l, s) /\ LiveRecords[other] = v
    BY <1>6, <2>1 DEF LiveRecords
  <2>3. \A x : Contains(v, x) <=> Contains(l, x) /\ x \notin D
    BY <2>1, <2>2, WithoutFacts
  <2> QED BY <2>2, <2>3
<1>8. ASSUME NEW i \in DOMAIN Publications PROVE s \notin Publications[i].called
  <2>1. i \in 1 .. bus.depth /\ Publications[i].called = stack[i].seen
    BY DEF Publications
  <2>2. Len(stack) = bus.depth
    BY <1>1, CallerFacts
  <2>3. PubHolds(bus, stack[i]) /\ stack[i] \in Frames
    BY <2>1, <2>2, StateFacts, CallsFacts
  <2>4. \A x \in stack[i].seen : Contains(bus.subs[stack[i].id], x)
    BY <2>3 DEF PubHolds
  <2>5. stack[i].id \in Ids
    BY <2>3, FrameFacts
  <2> QED BY <1>6, <2>1, <2>4, <2>5
<1>9. LiveRecords' = [LiveRecords EXCEPT ![id] = Append(@, s)]
  <2>1. PICK V, W : V = LiveRecords /\ W = LiveRecords'
    OBVIOUS
  <2>2. V = [other \in Ids |-> Without(bus.subs[other], bus.dead)]
    BY <2>1 DEF LiveRecords
  <2>3. W = [other \in Ids |-> Without(c.subs[other], c.dead)]
    BY <1>3, <2>1 DEF LiveRecords
  <2>4. W[id] = Append(V[id], s)
    <3>1. PICK l, D, q : l = bus.subs[id] /\ D = bus.dead /\ q = Append(l, s)
      OBVIOUS
    <3>2. c.subs[id] = q /\ IsList(l) /\ ~ Contains(l, s) /\ s \notin D
      BY <1>4, <1>5, <1>6, <3>1, BusFacts
    <3>3. Longer(q, l, s)
      BY <3>1 DEF Longer
    <3>4. Longer(Without(q, D), Without(l, D), s)
      BY ONLY s \in Subs, <3>2, <3>3, GrownLive
    <3>5. Without(q, D) = Append(Without(l, D), s)
      BY <3>4 DEF Longer
    <3> QED BY <1>5, <2>2, <2>3, <3>1, <3>2, <3>5
  <2>5. \A other \in Ids : other # id => W[other] = V[other]
    <3>1. \A other \in Ids : other # id => c.subs[other] = bus.subs[other]
      BY <1>4, <1>5, BusFacts
    <3> QED BY <1>5, <2>2, <2>3, <3>1
  <2>6. DOMAIN V = Ids /\ DOMAIN W = Ids /\ V = [other \in Ids |-> V[other]] /\ W = [other \in Ids |-> W[other]]
    BY <2>2, <2>3
  <2>7. W = [V EXCEPT ![id] = Append(@, s)]
    BY ONLY id \in Ids, <2>4, <2>5, <2>6
  <2> QED BY <2>1, <2>7
<1>10. Publications' = Publications
  BY <1>1, <1>3, <1>5 DEF Publications
<1>11. Promise!Subscribe(id, s)
  BY <1>7, <1>8, <1>9, <1>10, SameOperators DEF Promise!Subscribe
<1> QED BY <1>2, <1>11 DEF Promise!Next

LEMMA BeginStep ==
  ASSUME IInv, IInv', NEW id \in Ids, PublishBegin(id)
  PROVE  Promise!Begin(id)
<1>1. /\ MayCall /\ bus.depth < MaxDepth /\ bus' = [bus EXCEPT !.depth = @ + 1]
      /\ stack' = Append(stack, Calling(id, {}, FirstLive(bus.subs[id])))
  BY DEF PublishBegin
<1>2. PICK t, f, c, q : /\ t = FirstLive(bus.subs[id]) /\ f = Calling(id, {}, t)
                        /\ c = bus' /\ q = stack'
  OBVIOUS
<1>3. /\ BusHolds(bus) /\ CallsHold(bus, stack) /\ BusHolds(c) /\ CallsHold(c, q)
      /\ c = [bus EXCEPT !.depth = @ + 1] /\ q = Append(stack, f)
  BY <1>1, <1>2, StateFacts, NextState
<1>4. c.depth = bus.depth + 1 /\ c.subs = bus.subs /\ c.dead = bus.dead
  BY <1>1, <1>3, BegunFacts
<1>5. t = TurnOf(LiveRecords[id], {})
  BY <1>2, FirstTurn, Seen
<1>6. f \in Frames
  <2>1. PICK none \in SUBSET Subs : none = {}
    OBVIOUS
  <2>2. f = Calling(id, none, t)
    BY <1>2, <2>1
  <2>3. t \in Subs \cup {Null}
    BY <1>2, StateFacts, FirstLiveFacts
  <2> QED BY <2>2, <2>3, CallingFacts
<1>7. Len(stack) = bus.depth
  BY <1>1, CallerFacts
<1>8. PubsOf(c, q) = Append(PubsOf(bus, stack), Pub(f))
  <2>1. /\ BusHolds(bus) /\ CallsHold(bus, stack) /\ Len(stack) = bus.depth
        /\ BusHolds(c) /\ CallsHold(c, q) /\ q = Pushed(stack, f) /\ c.depth = bus.depth + 1
    BY <1>3, <1>4, <1>7 DEF Pushed
  <2>2. PICK p, r, e : p = PubsOf(bus, stack) /\ r = PubsOf(c, q) /\ e = Pub(f)
    OBVIOUS
  <2>3. r = Pushed(p, e)
    BY ONLY <1>6, <2>1, <2>2, PubsPush
  <2> QED BY <2>2, <2>3 DEF Pushed
<1>9. Publications' = Append(Publications, Pub(f))
  BY <1>2, <1>8, Seen
<1>10. Pub(f) = Promise!Calling(id, {}, t)
  BY <1>2 DEF Pub, Calling, Promise!Calling
<1>11. Promise!Turn(id, {}) = t
  BY <1>5, SameOperators
<1>12. LiveRecords' = LiveRecords
  BY <1>2, <1>4 DEF LiveRecords
<1> QED BY <1>9, <1>10, <1>11, <1>12 DEF Promise!Begin

\* The innermost publication, as the promise sees it.
LEMMA LastPub ==
  ASSUME IInv, ~ Idle, Top.op = "publish"
  PROVE  /\ Publications # <<>> /\ Last(Publications) = Pub(Top)
         /\ Len(stack) = bus.depth /\ bus.depth > 0 /\ bus.depth \in Nat
<1>1. /\ Len(stack) = bus.depth /\ Len(stack) \in 1 .. Len(stack) /\ Top = stack[Len(stack)]
      /\ BusHolds(bus) /\ CallsHold(bus, stack)
  BY TopFacts, StateFacts
<1>2. PICK p, d : p = Publications /\ d = bus.depth
  OBVIOUS
<1>3. /\ p \in Seq(Pubs) /\ Len(p) = d /\ d \in Nat
      /\ \A i \in 1 .. d : p[i] = Pub(stack[i])
  BY <1>1, <1>2, PubsFacts, Seen
<1>4. d > 0 /\ d \in 1 .. d
  BY <1>1, <1>2, <1>3
<1>5. p # <<>>
  BY <1>3, <1>4
<1>6. Last(p) = Pub(Top)
  BY <1>1, <1>2, <1>3, <1>4 DEF Last
<1> QED BY <1>1, <1>2, <1>3, <1>4, <1>5, <1>6

\* The innermost publication goes on.
LEMMA GoesOnStep ==
  ASSUME IInv, IInv', ~ Idle, Top.op = "publish", UNCHANGED bus,
         NEW g \in Frames, stack' = Replaced(g)
  PROVE  /\ Publications' = Append(Front(Publications), Pub(g))
         /\ LiveRecords' = LiveRecords
<1>1. PICK q : q = stack'
  OBVIOUS
<1>2. /\ BusHolds(bus) /\ CallsHold(bus, stack) /\ CallsHold(bus, q) /\ q = Swap(stack, g)
      /\ Len(stack) = bus.depth /\ bus.depth > 0
  <2>1. CallsHold(bus, q) /\ q = Swap(stack, g)
    BY <1>1, NextState DEF Swap, Replaced
  <2> QED BY <2>1, StateFacts, LastPub
<1>3. PubsOf(bus, q) = Append(Front(PubsOf(bus, stack)), Pub(g))
  BY ONLY <1>2, g \in Frames, PubsSwap
<1>4. PubsOf(bus', stack') = PubsOf(bus, q)
  BY <1>1
<1>5. LiveRecords' = LiveRecords
  BY DEF LiveRecords
<1> QED BY <1>3, <1>4, <1>5, Seen

LEMMA ReturnStep ==
  ASSUME IInv, IInv', CallbackReturns
  PROVE  Promise!Return
<1>1. ~ Idle /\ Top.op = "publish" /\ Top.sub # Null /\ UNCHANGED bus
  BY DEF CallbackReturns, InCallback
<1>2. PICK f, t, g : /\ f = Top /\ t = NextLive(bus.subs[f.id], f.sub)
                     /\ g = Calling(f.id, f.seen, t)
  OBVIOUS
<1>3. stack' = Replaced(g)
  BY <1>2 DEF CallbackReturns
<1>4. f \in Frames /\ PubHolds(bus, f) /\ f.sub # Null
  BY <1>1, <1>2, TopFacts
<1>5. g \in Frames
  BY <1>2, <1>4, NextPlace
<1>6. Publications' = Append(Front(Publications), Pub(g)) /\ LiveRecords' = LiveRecords
  BY <1>1, <1>3, <1>5, GoesOnStep
<1>7. Publications # <<>> /\ Last(Publications) = Pub(f)
  BY <1>1, <1>2, LastPub
<1>8. t = TurnOf(LiveRecords[f.id], f.seen)
  BY <1>2, <1>4, NextTurn, Seen
<1>9. Promise!Turn(f.id, f.seen) = t
  BY <1>8, SameOperators
<1>10. Pub(g) = Promise!Calling(f.id, f.seen, t)
  BY <1>2 DEF Pub, Calling, Promise!Calling
<1>11. Pub(f).id = f.id /\ Pub(f).called = f.seen /\ Pub(f).now = f.sub
  BY DEF Pub
<1> QED BY <1>4, <1>6, <1>7, <1>9, <1>10, <1>11, SameOperators DEF Promise!Return, Promise!Replaced

LEMMA StopStep ==
  ASSUME IInv, IInv', CallbackStops
  PROVE  Promise!Return
<1>1. ~ Idle /\ Top.op = "publish" /\ Top.sub # Null /\ UNCHANGED bus
  BY DEF CallbackStops, InCallback
<1>2. PICK f, g : f = Top /\ g = [f EXCEPT !.sub = Null, !.stopped = TRUE]
  OBVIOUS
<1>3. stack' = Replaced(g)
  BY <1>2 DEF CallbackStops
<1>4. f \in Frames /\ f.sub # Null
  BY <1>1, <1>2, TopFacts
<1>5. g \in Frames /\ g.id = f.id /\ g.seen = f.seen /\ g.sub = Null
  BY <1>2, <1>4 DEF Frames
<1>6. Publications' = Append(Front(Publications), Pub(g)) /\ LiveRecords' = LiveRecords
  BY <1>1, <1>3, <1>5, GoesOnStep
<1>7. Publications # <<>> /\ Last(Publications) = Pub(f)
  BY <1>1, <1>2, LastPub
<1>8. Pub(g) = [Pub(f) EXCEPT !.now = Null] /\ Pub(f).now # Null
  BY <1>4, <1>5 DEF Pub
<1> QED BY <1>6, <1>7, <1>8, SameOperators DEF Promise!Return, Promise!Replaced

LEMMA EndStep ==
  ASSUME IInv, IInv', PublishEnd
  PROVE  Promise!End
<1>1. /\ ~ Idle /\ Top.op = "publish" /\ Top.sub = Null /\ stack' = Front(stack)
      /\ bus' = Collected([bus EXCEPT !.depth = @ - 1])
  BY DEF PublishEnd
<1>2. PICK c, q : c = bus' /\ q = stack'
  OBVIOUS
<1>3. /\ Publications # <<>> /\ Last(Publications) = Pub(Top)
      /\ Len(stack) = bus.depth /\ bus.depth > 0 /\ bus.depth \in Nat
  BY <1>1, LastPub
<1>4. /\ BusHolds(bus) /\ CallsHold(bus, stack) /\ BusHolds(c) /\ CallsHold(c, q)
      /\ q = Front(stack) /\ c = Collected([bus EXCEPT !.depth = @ - 1])
  BY <1>1, <1>2, StateFacts, NextState
<1>5. /\ c.depth = bus.depth - 1
      /\ c.depth # 0 => c.subs = bus.subs /\ c.dead = bus.dead
      /\ c.depth = 0 => /\ c.dead = {}
                        /\ \A id \in Ids : c.subs[id] = Without(bus.subs[id], bus.dead)
  BY ONLY <1>3, <1>4, ReturnedFacts
<1>6. PubsOf(c, q) = Front(PubsOf(bus, stack))
  BY ONLY <1>3, <1>4, <1>5, PubsPop
<1>7. Publications' = Front(Publications)
  BY <1>2, <1>6, Seen
<1>8. ASSUME NEW id \in Ids
      PROVE  Without(c.subs[id], c.dead) = Without(bus.subs[id], bus.dead)
  <2>1. CASE c.depth # 0
    BY <1>5, <2>1
  <2>2. CASE c.depth = 0
    <3>1. PICK l, D : l = bus.subs[id] /\ D = bus.dead
      OBVIOUS
    <3>2. IsList(l)
      BY <3>1, StateFacts
    <3>3. c.subs[id] = Without(l, D) /\ c.dead = {}
      BY <1>5, <2>2, <3>1
    <3> QED BY <3>1, <3>2, <3>3, FreedLive
  <2> QED BY <2>1, <2>2
<1>9. LiveRecords' = LiveRecords
  BY <1>2, <1>8 DEF LiveRecords
<1>10. Pub(Top).now = Null
  BY <1>1 DEF Pub
<1> QED BY <1>3, <1>7, <1>9, <1>10, SameOperators DEF Promise!End

\* A walk begins, moves to the next event or ends: the promise sees nothing.
LEMMA WalkStutters ==
  ASSUME IInv, \/ \E owner \in Owners : DropOwner(owner)
               \/ Clear \/ Deinit \/ WalkNextEvent \/ WalkEnd
  PROVE  UNCHANGED Promise!vars
<1>1. BusHolds(bus) /\ CallsHold(bus, stack)
  BY StateFacts
<1>2. stack \in Seq(Frames) /\ bus.depth \in Nat /\ Len(stack) \in Nat
  BY <1>1, CallsFacts
<1>3. ASSUME NEW f, MayCall, stack' = Append(stack, f), UNCHANGED bus
      PROVE  UNCHANGED Promise!vars
  <2>1. Len(stack) = bus.depth
    BY <1>3, CallerFacts
  <2>2. \A i \in 1 .. Len(stack) : Append(stack, f)[i] = stack[i]
    BY <1>2
  <2> QED BY <1>3, <2>1, <2>2, Stutters
<1>4. CASE \E owner \in Owners : DropOwner(owner)
  BY <1>3, <1>4 DEF DropOwner
<1>5. CASE Clear
  BY <1>3, <1>5 DEF Clear
<1>6. CASE Deinit
  <2>1. bus.depth = 0 /\ UNCHANGED bus
    BY <1>6 DEF Deinit
  <2>2. ~ \E i \in 1 .. bus.depth : TRUE
    BY <2>1
  <2> QED BY <2>1, <2>2, Stutters
<1>7. ASSUME InWalk, NEW f \in Frames
      PROVE  \A i \in 1 .. bus.depth : Front(stack)[i] = stack[i] /\ Replaced(f)[i] = stack[i]
  <2>1. Len(stack) = bus.depth + 1 /\ stack # <<>>
    BY <1>7, WalkFacts DEF Idle
  <2>2. bus.depth < Len(stack)
    BY <1>2, <2>1
  <2>3. \A i \in 1 .. bus.depth : Front(stack)[i] = stack[i] /\ Swap(stack, f)[i] = stack[i]
    BY <1>2, <2>1, <2>2, UnderTop
  <2> QED BY <2>3 DEF Swap, Replaced
<1>8. CASE WalkNextEvent
  <2>1. InWalk /\ UNCHANGED bus
    BY <1>8 DEF WalkNextEvent
  <2>2. PICK f : f = Walking(Top.op, Top.owner, Top.id + 1, Top.seen)
    OBVIOUS
  <2>3. stack' = Replaced(f)
    BY <1>8, <2>2 DEF WalkNextEvent
  <2>4. f \in Frames
    <3>1. IInv'
      BY <1>8, WalkNextEventKeeps
    <3>2. stack' \in Seq(Frames)
      BY <3>1, NextState, CallsFacts
    <3>3. Front(stack) \in Seq(Frames) /\ Len(Front(stack)) \in Nat
      <4>1. stack # <<>>
        BY <2>1, WalkFacts DEF Idle
      <4> QED BY <1>2, <4>1, PopFacts
    <3>4. PICK h : h = Front(stack)
      OBVIOUS
    <3>5. Append(h, f) \in Seq(Frames) /\ Len(h) \in Nat /\ h \in Seq(Frames)
      BY <2>3, <3>2, <3>3, <3>4 DEF Replaced
    <3>6. Len(h) + 1 \in 1 .. Len(Append(h, f)) /\ Append(h, f)[Len(h) + 1] = f
      BY <3>5
    <3> QED BY <3>5, <3>6
  <2> QED BY <1>7, <2>1, <2>3, <2>4, Stutters
<1>9. CASE WalkEnd
  <2>1. InWalk /\ stack' = Front(stack)
    BY <1>9 DEF WalkEnd
  <2>2. Top \in Frames
    BY <2>1, WalkFacts
  <2>3. bus'.subs = bus.subs /\ bus'.dead = bus.dead /\ bus'.depth = bus.depth
    BY <1>1, <1>9, BusFacts DEF WalkEnd, Buses
  <2> QED BY <1>7, <2>1, <2>2, <2>3, Stutters
<1> QED BY <1>4, <1>5, <1>6, <1>8, <1>9

\* A walk removes a record or passes it.
LEMMA WalkVisitStep ==
  ASSUME IInv, WalkVisit
  PROVE  [Promise!Next]_(Promise!vars)
<1>1. InWalk /\ Top.sub # Null
  BY DEF WalkVisit
<1>2. PICK f, t, g, s : /\ f = Top /\ t = NextLive(bus.subs[f.id], f.sub)
                        /\ g = [f EXCEPT !.sub = t] /\ s = f.sub
  OBVIOUS
<1>3. stack' = Replaced(g) /\ bus' = IF OfOwner(s, f.owner) THEN Removed(bus, s) ELSE bus
  BY <1>2 DEF WalkVisit, SavedNext
<1>4. /\ f \in Frames /\ s # Null /\ WalkHolds(bus, f) /\ f.id \in Ids /\ stack # <<>>
      /\ Len(stack) = bus.depth + 1
  BY <1>1, <1>2, WalkFacts DEF Idle
<1>5. stack \in Seq(Frames) /\ bus.depth \in Nat /\ Len(stack) \in Nat
  BY StateFacts, CallsFacts
<1>6. s \in LiveIn(bus) /\ s \in Subs /\ Contains(bus.subs[f.id], s)
  <2>1. Contains(bus.subs[f.id], s) /\ s \notin bus.dead
    BY <1>2, <1>4 DEF WalkHolds
  <2>2. s \in Subs
    BY <1>2, <1>4, FrameFacts
  <2> QED BY <1>4, <2>1, <2>2 DEF LiveIn, LinkedIn
<1>7. g \in Frames
  <2>1. t \in Subs \cup {Null}
    BY <1>2, <1>4, <1>6, StateFacts, NextLiveFacts
  <2> QED BY <1>2, <1>4, <2>1 DEF Frames
<1>8. \A i \in 1 .. bus.depth : stack'[i] = stack[i]
  <2>1. bus.depth < Len(stack)
    BY <1>4, <1>5
  <2>2. \A i \in 1 .. bus.depth : Swap(stack, g)[i] = stack[i]
    BY <1>4, <1>5, <1>7, <2>1, UnderTop
  <2> QED BY <1>3, <2>2 DEF Swap, Replaced
<1>9. CASE OfOwner(s, f.owner)
  <2>1. Promise!Unsubscribe(s)
    BY <1>3, <1>6, <1>8, <1>9, RemovalStep
  <2> QED BY <1>6, <2>1 DEF Promise!Next
<1>10. CASE ~ OfOwner(s, f.owner)
  BY <1>3, <1>8, <1>10, Stutters
<1> QED BY <1>9, <1>10

LEMMA NextPromise == IInv /\ [Next]_vars => [Promise!Next]_(Promise!vars)
<1> SUFFICES ASSUME IInv, [Next]_vars PROVE [Promise!Next]_(Promise!vars)
  OBVIOUS
<1>1. IInv'
  BY NextKeeps
<1>2. CASE \E n \in Names : GetId(n)
  <2>1. bus'.subs = bus.subs /\ bus'.dead = bus.dead /\ bus'.depth = bus.depth /\ stack' = stack
    BY <1>2, StateFacts, BusFacts DEF GetId, Buses
  <2> QED BY <2>1, Stutters
<1>3. CASE \E id \in Ids, tag \in Tags : TrySubscribe(id, tag)
  BY <1>1, <1>3, SubscribeStep
<1>4. CASE \E id \in Ids, tag \in Tags : TrySubscribeOnce(id, tag)
  BY <1>1, <1>4, SubscribeStep DEF TrySubscribeOnce
<1>5. CASE \E id \in Ids, tag \in Tags : RemoveExact(id, tag)
  <2>1. PICK id \in Ids, tag \in Tags : RemoveExact(id, tag)
    BY <1>5
  <2>2. PICK s : s = FindExact(id, tag)
    OBVIOUS
  <2>3. s # Null /\ bus' = Removed(bus, s) /\ stack' = stack
    BY <2>1, <2>2 DEF RemoveExact
  <2>4. s \in Linked
    BY <2>2, <2>3, FindFacts DEF Live
  <2> QED BY <2>3, <2>4, RemoveStep
<1>6. CASE \E s \in Subs : RemoveSub(s)
  BY <1>6, RemoveStep DEF RemoveSub
<1>7. CASE \E id \in Ids : PublishBegin(id)
  BY <1>1, <1>7, BeginStep DEF Promise!Next
<1>8. CASE CallbackReturns \/ CallbackStops
  BY <1>1, <1>8, ReturnStep, StopStep DEF Promise!Next
<1>9. CASE PublishEnd
  BY <1>1, <1>9, EndStep DEF Promise!Next
<1>10. CASE WalkVisit
  BY <1>10, WalkVisitStep
<1>11. CASE UNCHANGED vars
  BY <1>11, Stutters DEF vars
<1> QED BY <1>2, <1>3, <1>4, <1>5, <1>6, <1>7, <1>8, <1>9, <1>10, <1>11, WalkStutters DEF Next

LEMMA InitPromise == Init => Promise!Init
<1> SUFFICES ASSUME Init PROVE Promise!Init
  OBVIOUS
<1>1. bus.depth = 0 /\ bus.dead = {} /\ \A id \in Ids : bus.subs[id] = <<>>
  BY DEF Init, Empty
<1>2. PICK e, none, q : e = <<>> /\ none = {} /\ q = Without(e, none)
  OBVIOUS
<1>3. /\ IsList(e) /\ IsList(q)
      /\ \A x : Contains(q, x) <=> Contains(e, x) /\ x \notin none
      /\ \A a, b : Before(q, a, b) <=> Before(e, a, b) /\ a \notin none /\ b \notin none
  BY <1>2, EmptyFacts, WithoutFacts
<1>4. q = e
  BY <1>2, <1>3, EmptyFacts, SameList
<1>5. LiveRecords = [id \in Ids |-> <<>>]
  BY <1>1, <1>2, <1>4 DEF LiveRecords
<1>6. Publications = <<>>
  <2>1. PICK p : p = Publications
    OBVIOUS
  <2>2. BusHolds(bus) /\ CallsHold(bus, stack)
    BY InitHolds DEF IInv
  <2>3. p \in Seq(Pubs) /\ Len(p) = 0
    BY <1>1, <2>1, <2>2, PubsFacts, Seen
  <2> QED BY <2>1, <2>3
<1> QED BY <1>5, <1>6 DEF Promise!Init

\* The bus that marks removed records dead and frees them when the outermost
\* publication returns implements the one in which a removal takes effect at
\* once: a publication calls, in the order of subscription and once each, the
\* records that are subscribed when their turn comes (bus.c:84-97, 121-199,
\* 245-308).
THEOREM KeepsThePromise == Spec => ImplementsSubscriptions
<1>1. Init => Promise!Init
  BY InitPromise
<1>2. IInv /\ [Next]_vars => [Promise!Next]_(Promise!vars)
  BY NextPromise
<1> QED BY <1>1, <1>2, InductiveInvariant, PTL DEF Spec, ImplementsSubscriptions, Promise!Spec
==============================================================================
