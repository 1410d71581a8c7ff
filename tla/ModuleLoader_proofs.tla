------------------------- MODULE ModuleLoader_proofs -------------------------
(***************************************************************************)
(* Proofs about ModuleLoader for any set of modules, any depth of the tree *)
(* and of the calls, and any step of any load that fails.                  *)
(***************************************************************************)
EXTENDS ModuleLoader, FiniteSetTheorems, TLAPS

------------------------------------------------------------------------------
(* The inductive invariant. *)

PlaceNames == {"open", "lookup", "start", "starting", "undo", "stop", "method",
               "stopping", "close", "loop"}

Ops == {"load", "destroy", "revoke", "unload", "start"}

Frame == [op : Ops, mod : Modules, at : PlaceNames]

Calls == 1 .. Len(stack)

\* The call holds its module in hands: a load or a destroy.
Holds(i) == stack[i].op \in {"load", "destroy"}

InHands(m) == \E i \in Calls : Holds(i) /\ stack[i].mod = m

\* The module whose loader the first call of the stack works on.
Base == IF Holds(1) THEN owner[stack[1].mod] ELSE stack[1].mod

\* A module is the base or in the hands of an earlier call.
Known(m, i) == m = Base \/ \E k \in 1 .. i - 1 : Holds(k) /\ stack[k].mod = m

StackInv == stack \in Seq(Frame)

\* The root's loader is the first to come and its memory the last to go.
RootInv ==
    /\ owner[Root] = Null
    /\ Root \in alloc \/ alloc = {}
    /\ \A i \in Calls : Holds(i) /\ stack[i].mod = Root => i = 1 /\ stack[i].op = "destroy"

\* What is granted and started is mapped, and no module is its own ancestor.
OwnerInv ==
    /\ loader \subseteq image /\ started \subseteq image
    /\ \A c \in alloc \ {Root} : owner[c] \in loader
    /\ \A S \in SUBSET (alloc \ {Root}) : S # {} => \E m \in S : owner[m] \notin S

\* A list holds a child of its module once, and no child that a call holds.
KidsInv ==
    \A p \in Modules :
        /\ \A i, j \in 1 .. Len(kids[p]) : kids[p][i] = kids[p][j] => i = j
        /\ \A m \in Modules : Contains(kids[p], m) =>
              m \in alloc \ {Root} /\ owner[m] = p /\ ~ InHands(m)

\* A module that no list has is in somebody's hands.
PlaceInv == \A m \in alloc \ {Root} : Contains(kids[owner[m]], m) \/ InHands(m)

\* One call at most holds a module.
UniqueInv ==
    \A i, j \in Calls : Holds(i) /\ Holds(j) /\ stack[i].mod = stack[j].mod => i = j

\* A call is about the base, or about a module in hands further down, or holds a
\* child of one of these; nobody holds the base.
ChainInv ==
    \A i \in Calls :
        IF Holds(i) THEN Known(owner[stack[i].mod], i) /\ stack[i].mod # Base
                    ELSE Known(stack[i].mod, i)

\* The start of the root, which is below all other calls.
Starting(i) == i = 1 /\ stack[i].op = "start"

\* A revocation runs on its own, or for the call below it.
RevokeInv ==
    \A i \in Calls : stack[i].op = "revoke" /\ i > 1 =>
        (Holds(i - 1) \/ Starting(i - 1)) /\ stack[i - 1].mod = stack[i].mod

\* What a load, the start of the root and a destroy have done at each of their places.
LoadInv ==
    \A i \in Calls : stack[i].op \in {"load", "start"} =>
        /\ stack[i].mod \notin started
        /\ stack[i].at \in {"lookup", "start", "starting"} => stack[i].mod \in image
        /\ stack[i].op = "start" => i = 1 /\ stack[i].mod = Root

DestroyInv ==
    \A i \in Calls : stack[i].op = "destroy" =>
        /\ stack[i].at \in {"stopping", "close"} => stack[i].mod \notin loader
        /\ stack[i].at = "method" =>
              IF i = Len(stack) THEN stack[i].mod \notin loader
              ELSE stack[i + 1].op = "revoke" /\ stack[i + 1].mod = stack[i].mod

IInv ==
    /\ TypeOK /\ StackInv /\ RootInv /\ OwnerInv
    /\ KidsInv /\ PlaceInv /\ UniqueInv /\ ChainInv
    /\ RevokeInv /\ LoadInv /\ DestroyInv /\ StopAnswersStart

------------------------------------------------------------------------------
(* Facts about the stack. *)

LEMMA PlacesFacts ==
  /\ Places["load"] = {"open", "lookup", "start", "starting", "undo"}
  /\ Places["destroy"] = {"stop", "method", "stopping", "close"}
  /\ Places["revoke"] = {"loop"} /\ Places["unload"] = {"loop"}
  /\ Places["start"] = {"starting"}
BY DEF Places

\* The call on top of the stack.
LEMMA TopFacts ==
  ASSUME StackInv, ~ Idle
  PROVE  /\ Len(stack) \in Nat /\ Len(stack) \in Calls /\ 1 \in Calls
         /\ Last(stack) = stack[Len(stack)] /\ stack[Len(stack)] \in Frame
         /\ Mod = stack[Len(stack)].mod /\ Mod \in Modules
<1>1. Len(stack) \in Nat /\ Len(stack) # 0
  BY DEF StackInv, Idle
<1>2. Len(stack) \in Calls /\ 1 \in Calls
  BY <1>1 DEF Calls
<1>3. stack[Len(stack)] \in Frame
  BY <1>2 DEF StackInv, Calls
<1>4. Last(stack) = stack[Len(stack)]
  BY DEF Last
<1>5. Mod = stack[Len(stack)].mod
  BY <1>4 DEF Mod
<1>6. stack[Len(stack)].mod \in Modules
  BY <1>3 DEF Frame
<1> QED BY <1>1, <1>2, <1>3, <1>4, <1>5, <1>6

LEMMA FrontFacts ==
  ASSUME StackInv, ~ Idle, NEW q, q = Front(stack)
  PROVE  /\ q \in Seq(Frame) /\ Len(q) = Len(stack) - 1
         /\ \A i \in 1 .. Len(stack) - 1 : q[i] = stack[i]
<1>1. Len(stack) \in Nat /\ Len(stack) # 0 /\ stack \in Seq(Frame)
  BY DEF StackInv, Idle
<1>2. \A i \in 1 .. Len(stack) - 1 : stack[i] \in Frame
  BY <1>1
<1>3. PICK n \in Nat : n = Len(stack) - 1
  BY <1>1
<1>4. q = SubSeq(stack, 1, n)
  BY <1>3 DEF Front
<1>5. Len(q) = n /\ \A i \in 1 .. n : q[i] = stack[i]
  BY <1>1, <1>3, <1>4
<1>6. q \in Seq(Frame)
  BY <1>1, <1>2, <1>3, <1>4
<1> QED BY <1>3, <1>5, <1>6

\* The call on top is replaced.
LEMMA ReplaceFacts ==
  ASSUME StackInv, ~ Idle, NEW f \in Frame, NEW q, q = Append(Front(stack), f)
  PROVE  /\ q \in Seq(Frame) /\ Len(q) = Len(stack)
         /\ \A i \in Calls : q[i] = IF i = Len(stack) THEN f ELSE stack[i]
<1>1. PICK r : r = Front(stack)
  OBVIOUS
<1>2. /\ r \in Seq(Frame) /\ Len(r) = Len(stack) - 1
      /\ \A i \in 1 .. Len(stack) - 1 : r[i] = stack[i]
  BY <1>1, FrontFacts
<1>3. q = Append(r, f)
  BY <1>1
<1>4. Len(stack) \in Nat
  BY DEF StackInv
<1> QED BY <1>2, <1>3, <1>4 DEF Calls

\* A call is put on top.
LEMMA PushFacts ==
  ASSUME StackInv, NEW f \in Frame, stack' = Append(stack, f)
  PROVE  /\ stack' \in Seq(Frame) /\ Len(stack') = Len(stack) + 1
         /\ stack'[Len(stack) + 1] = f /\ \A i \in Calls : stack'[i] = stack[i]
BY DEF StackInv, Calls

\* The place of the call on top changes.
LEMMA GoToFacts ==
  ASSUME StackInv, ~ Idle, NEW at \in PlaceNames, GoTo(at)
  PROVE  /\ stack' \in Seq(Frame) /\ Len(stack') = Len(stack)
         /\ \A i \in Calls : /\ stack'[i].op = stack[i].op /\ stack'[i].mod = stack[i].mod
                             /\ stack'[i].at = IF i = Len(stack) THEN at ELSE stack[i].at
<1> DEFINE f == [Last(stack) EXCEPT !.at = at]
<1>1. /\ f \in Frame
      /\ f.op = stack[Len(stack)].op /\ f.mod = stack[Len(stack)].mod /\ f.at = at
  <2>1. Last(stack) \in Frame
    BY TopFacts
  <2> QED BY <2>1, TopFacts DEF Frame
<1>2. f \in Frame /\ stack' = Append(Front(stack), f)
  BY <1>1 DEF GoTo
<1> HIDE DEF f
<1>3. /\ stack' \in Seq(Frame) /\ Len(stack') = Len(stack)
      /\ \A i \in Calls : stack'[i] = IF i = Len(stack) THEN f ELSE stack[i]
  BY <1>2, ReplaceFacts
<1> QED BY <1>1, <1>3

\* The same with a revocation on top of it when the module has a loader.
LEMMA RevokeThenFacts ==
  ASSUME StackInv, ~ Idle, NEW at \in PlaceNames, RevokeThen(at)
  PROVE  /\ stack' \in Seq(Frame)
         /\ Len(stack') = IF Mod \in loader THEN Len(stack) + 1 ELSE Len(stack)
         /\ \A i \in Calls : /\ stack'[i].op = stack[i].op /\ stack'[i].mod = stack[i].mod
                             /\ stack'[i].at = IF i = Len(stack) THEN at ELSE stack[i].at
         /\ Mod \in loader => stack'[Len(stack) + 1] = Call("revoke", Mod, "loop")
<1> DEFINE f == [Last(stack) EXCEPT !.at = at]
           q == Append(Front(stack), f)
           g == Call("revoke", Mod, "loop")
<1>1. /\ f \in Frame
      /\ f.op = stack[Len(stack)].op /\ f.mod = stack[Len(stack)].mod /\ f.at = at
  <2>1. Last(stack) \in Frame
    BY TopFacts
  <2> QED BY <2>1, TopFacts DEF Frame
<1>2. f \in Frame
  BY <1>1
<1>3. g \in Frame
  BY TopFacts DEF Call, Frame, Ops, PlaceNames
<1>4. stack' = q \o (IF Mod \in loader THEN <<g>> ELSE <<>>)
  BY DEF RevokeThen
<1> HIDE DEF f, g
<1>5. /\ q \in Seq(Frame) /\ Len(q) = Len(stack)
      /\ \A i \in Calls : q[i] = IF i = Len(stack) THEN f ELSE stack[i]
  BY <1>2, ReplaceFacts
<1> HIDE DEF q
<1>6. \A i \in Calls : /\ q[i].op = stack[i].op /\ q[i].mod = stack[i].mod
                       /\ q[i].at = IF i = Len(stack) THEN at ELSE stack[i].at
  BY <1>1, <1>5
<1>7. Len(stack) \in Nat
  BY DEF StackInv
<1>8. CASE Mod \in loader
  <2>1. stack' = q \o <<g>>
    BY <1>4, <1>8
  <2>2. /\ stack' \in Seq(Frame) /\ Len(stack') = Len(stack) + 1
        /\ stack'[Len(stack) + 1] = g /\ \A i \in Calls : stack'[i] = q[i]
    BY <1>3, <1>5, <1>7, <2>1 DEF Calls
  <2> QED BY <1>6, <1>8, <2>2 DEF g
<1>9. CASE Mod \notin loader
  <2>1. stack' = q
    BY <1>4, <1>5, <1>9
  <2> QED BY <1>5, <1>6, <1>9, <2>1
<1> QED BY <1>8, <1>9

------------------------------------------------------------------------------
(* What the kinds of step do to the calls and the modules they hold. *)

\* The calls and what they hold, but for the place where each one is.
CallsInv == RootInv /\ KidsInv /\ PlaceInv /\ UniqueInv /\ ChainInv /\ RevokeInv

\* The types, spelled out once.
LEMMA TypeFacts ==
  ASSUME IInv
  PROVE  /\ alloc \subseteq Modules /\ image \subseteq alloc /\ started \subseteq alloc
         /\ loader \subseteq alloc
         /\ owner \in [Modules -> Modules \cup {Null}] /\ kids \in [Modules -> Seq(Modules)]
         /\ life \in [Modules -> {"none", "new", "refused", "up", "stopped", "skipped"}]
         /\ stack \in Seq(Frame) /\ Len(stack) \in Nat /\ Calls = 1 .. Len(stack)
         /\ \A i \in Calls : /\ stack[i] \in Frame /\ stack[i].mod \in alloc
                             /\ stack[i].mod \in Modules /\ stack[i].at \in Places[stack[i].op]
                             /\ stack[i].op \in Ops
<1>1. stack \in Seq(Frame) /\ Len(stack) \in Nat /\ DOMAIN stack = 1 .. Len(stack)
      /\ Calls = 1 .. Len(stack)
  BY DEF IInv, StackInv, Calls
<1>2. \A i \in Calls : stack[i] \in Frame
  BY <1>1
<1>3. \A i \in Calls : stack[i].mod \in alloc /\ stack[i].at \in Places[stack[i].op]
  BY <1>1 DEF IInv, TypeOK
<1>4. \A i \in Calls : stack[i].op \in Ops
  BY <1>2 DEF Frame, Ops
<1> QED BY <1>1, <1>2, <1>3, <1>4 DEF IInv, TypeOK

\* The types of the stack after a step, from what its calls are.
LEMMA StackType ==
  ASSUME stack' \in Seq(Frame),
         \A i \in 1 .. Len(stack') :
             stack'[i].mod \in alloc' /\ stack'[i].at \in Places[stack'[i].op]
  PROVE  \A i \in DOMAIN stack' :
             stack'[i].mod \in alloc' /\ stack'[i].at \in Places[stack'[i].op]
OBVIOUS

\* Calls keep their modules, a load may turn into a destroy, and one call that
\* holds nothing may come on top.
LEMMA ShapeKeeps ==
  ASSUME IInv, UNCHANGED <<alloc, owner, kids>>, stack' \in Seq(Frame),
         NEW n \in Nat, n = Len(stack),
         Len(stack') \in {n, n + 1},
         \A i \in 1 .. n :
             /\ stack'[i].mod = stack[i].mod
             /\ \/ stack'[i].op = stack[i].op
                \/ stack[i].op = "load" /\ stack'[i].op = "destroy",
         Len(stack') = n + 1 =>
             /\ stack'[n + 1].op \in {"revoke", "unload"}
             /\ n = 0 \/ Known(stack'[n + 1].mod, n + 1)
             /\ stack'[n + 1].op = "revoke" /\ n > 0 =>
                   (Holds(n) \/ Starting(n)) /\ stack[n].mod = stack'[n + 1].mod
  PROVE  CallsInv'
<1>1. Calls = 1 .. n /\ Calls' = 1 .. Len(stack')
  BY DEF Calls
<1>2. \A i \in Calls : i \in Calls' /\ (Holds(i)' <=> Holds(i)) /\ stack'[i].mod = stack[i].mod
  BY <1>1 DEF Holds
<1>3. \A i \in Calls' : i \notin Calls => i = n + 1 /\ Len(stack') = n + 1 /\ ~ Holds(i)'
  BY <1>1 DEF Holds
<1>4. \A m : InHands(m)' <=> InHands(m)
  BY <1>2, <1>3 DEF InHands
<1>5. n > 0 => Base' = Base
  <2> HAVE n > 0
  <2>1. 1 \in Calls
    BY <1>1
  <2> QED BY <1>2, <2>1 DEF Base
<1>6. ASSUME n > 0, NEW m, NEW i \in 1 .. n + 1, Known(m, i)
      PROVE  m = Base' \/ \E k \in 1 .. i - 1 : Holds(k)' /\ stack'[k].mod = m
  <2>1. \A k \in 1 .. i - 1 : k \in Calls
    BY <1>1
  <2> QED BY <1>2, <1>5, <1>6, <2>1 DEF Known
<1>7. RootInv'
  <2>1. \A i \in Calls' : Holds(i)' /\ stack'[i].mod = Root => i = 1 /\ stack'[i].op = "destroy"
    BY <1>1, <1>2, <1>3 DEF IInv, RootInv
  <2> QED BY <2>1 DEF IInv, RootInv
<1>8. KidsInv'
  BY <1>4 DEF IInv, KidsInv
<1>9. PlaceInv'
  BY <1>4 DEF IInv, PlaceInv
<1>10. UniqueInv'
  BY <1>2, <1>3 DEF IInv, UniqueInv
<1>11. ChainInv'
  <2> SUFFICES ASSUME NEW i \in Calls'
               PROVE  IF Holds(i)' THEN Known(owner[stack[i].mod], i)' /\ stack'[i].mod # Base'
                                   ELSE Known(stack[i].mod, i)'
    BY DEF ChainInv
  <2>1. CASE i \in Calls
    <3>1. n > 0 /\ i \in 1 .. n + 1
      BY <1>1, <2>1
    <3>2. IF Holds(i) THEN Known(owner[stack[i].mod], i) /\ stack[i].mod # Base
                      ELSE Known(stack[i].mod, i)
      BY <2>1 DEF IInv, ChainInv
    <3>3. PICK m : m = IF Holds(i) THEN owner[stack[i].mod] ELSE stack[i].mod
      OBVIOUS
    <3>4. m = IF Holds(i)' THEN owner'[stack'[i].mod] ELSE stack'[i].mod
      BY <1>2, <2>1, <3>3
    <3>5. m = Base' \/ \E k \in 1 .. i - 1 : Holds(k)' /\ stack'[k].mod = m
      BY <1>6, <3>1, <3>2, <3>3
    <3> QED BY <1>2, <1>5, <2>1, <3>1, <3>2, <3>4, <3>5 DEF Known
  <2>2. CASE i \notin Calls
    <3>1. i = n + 1 /\ Len(stack') = n + 1 /\ ~ Holds(i)'
      BY <1>3, <2>2
    <3>2. PICK m : m = stack'[n + 1].mod
      OBVIOUS
    <3>3. CASE n = 0
      BY <3>1, <3>3 DEF Known, Base
    <3>4. CASE n > 0
      <4>1. m = Base' \/ \E k \in 1 .. i - 1 : Holds(k)' /\ stack'[k].mod = m
        BY <1>6, <3>1, <3>2, <3>4
      <4> QED BY <3>1, <3>2, <4>1 DEF Known
    <3> QED BY <3>3, <3>4
  <2> QED BY <2>1, <2>2
<1>12. RevokeInv'
  <2> SUFFICES ASSUME NEW i \in Calls', stack'[i].op = "revoke", i > 1
               PROVE  (Holds(i - 1) \/ Starting(i - 1))' /\ stack'[i - 1].mod = stack'[i].mod
    BY DEF RevokeInv
  <2>1. i - 1 \in Calls
    BY <1>1, <1>3
  <2>2. CASE i \in Calls
    <3>1. stack[i].op = "revoke"
      BY <1>1, <2>2
    <3>2. Starting(i - 1) => Starting(i - 1)'
      BY <1>1, <2>1 DEF Starting
    <3>3. (Holds(i - 1) \/ Starting(i - 1)) /\ stack[i - 1].mod = stack[i].mod
      BY <2>2, <3>1 DEF IInv, RevokeInv
    <3> QED BY <1>2, <2>1, <2>2, <3>2, <3>3
  <2>3. CASE i \notin Calls
    BY <1>1, <1>2, <1>3, <2>1, <2>3 DEF Starting
  <2> QED BY <2>2, <2>3
<1> QED BY <1>7, <1>8, <1>9, <1>10, <1>11, <1>12 DEF CallsInv

\* A call that holds nothing returns.
LEMMA PopKeeps ==
  ASSUME IInv, ~ Idle, ~ Holds(Len(stack)), stack' = Front(stack),
         UNCHANGED <<alloc, owner, kids>>
  PROVE  CallsInv'
<1>1. PICK n \in Nat : n = Len(stack) /\ n > 0
  BY TopFacts DEF IInv, Calls
<1>2. stack' \in Seq(Frame) /\ Len(stack') = n - 1 /\ \A i \in 1 .. n - 1 : stack'[i] = stack[i]
  BY <1>1, FrontFacts DEF IInv
<1>3. Calls = 1 .. n /\ Calls' = 1 .. n - 1
  BY <1>1, <1>2 DEF Calls
<1>4. \A i \in Calls' : i \in Calls /\ (Holds(i)' <=> Holds(i)) /\ stack'[i] = stack[i]
  BY <1>2, <1>3 DEF Holds
<1>5. \A i \in Calls : Holds(i) => i \in Calls'
  BY <1>1, <1>3
<1>6. \A m : InHands(m)' <=> InHands(m)
  BY <1>4, <1>5 DEF InHands
<1>7. n > 1 => Base' = Base
  <2> HAVE n > 1
  <2>1. 1 \in Calls'
    BY <1>3
  <2> QED BY <1>4, <2>1 DEF Base
<1>8. RootInv'
  BY <1>4 DEF IInv, RootInv
<1>9. KidsInv' /\ PlaceInv'
  BY <1>6 DEF IInv, KidsInv, PlaceInv
<1>10. UniqueInv'
  BY <1>4 DEF IInv, UniqueInv
<1>11. ChainInv'
  <2> SUFFICES ASSUME NEW i \in Calls'
               PROVE  IF Holds(i)' THEN Known(owner[stack[i].mod], i)' /\ stack'[i].mod # Base'
                                   ELSE Known(stack[i].mod, i)'
    BY DEF ChainInv
  <2>1. n > 1 /\ i \in Calls /\ \A k \in 1 .. i - 1 : k \in Calls'
    BY <1>3, <1>4
  <2>2. IF Holds(i) THEN Known(owner[stack[i].mod], i) /\ stack[i].mod # Base
                    ELSE Known(stack[i].mod, i)
    BY <2>1 DEF IInv, ChainInv
  <2>3. PICK m : m = IF Holds(i) THEN owner[stack[i].mod] ELSE stack[i].mod
    OBVIOUS
  <2>4. m = IF Holds(i)' THEN owner'[stack'[i].mod] ELSE stack'[i].mod
    BY <1>4, <2>3
  <2>5. m = Base' \/ \E k \in 1 .. i - 1 : Holds(k)' /\ stack'[k].mod = m
    BY <1>4, <1>7, <2>1, <2>2, <2>3 DEF Known
  <2> QED BY <1>4, <1>7, <2>1, <2>2, <2>4, <2>5 DEF Known
<1>12. RevokeInv'
  <2> SUFFICES ASSUME NEW i \in Calls', stack'[i].op = "revoke", i > 1
               PROVE  (Holds(i - 1) \/ Starting(i - 1))' /\ stack'[i - 1].mod = stack'[i].mod
    BY DEF RevokeInv
  <2>1. i - 1 \in Calls'
    BY <1>3
  <2> QED BY <1>4, <2>1 DEF IInv, RevokeInv, Starting
<1> QED BY <1>8, <1>9, <1>10, <1>11, <1>12 DEF CallsInv

\* A module whose owner is known is not the base: it would be its own ancestor.
LEMMA NotBase ==
  ASSUME IInv, NEW n \in Nat, n = Len(stack), n > 0,
         NEW d \in alloc \ {Root}, Known(owner[d], n + 1)
  PROVE  d # Base
<1> SUFFICES ASSUME d = Base PROVE FALSE
  OBVIOUS
<1> DEFINE H == {k \in Calls : Holds(k)}
           S == {stack[k].mod : k \in H} \cup {d}
<1>1. Calls = 1 .. n
  BY DEF Calls
<1>2. d # Null
  BY ModuleLoaderAssumption, TypeFacts
<1>3. \A k \in H : stack[k].mod \in alloc \ {Root}
  <2> SUFFICES ASSUME NEW k \in H, stack[k].mod = Root PROVE FALSE
    BY TypeFacts
  <2>1. k = 1 /\ Holds(1)
    BY DEF IInv, RootInv
  <2>2. Base = Null
    BY <2>1 DEF IInv, RootInv, Base
  <2> QED BY <1>2, <2>2
<1>4. S \in SUBSET (alloc \ {Root}) /\ S # {}
  BY <1>3
<1>5. owner[d] \in S
  BY <1>1 DEF Known
<1>6. ASSUME NEW k \in H PROVE owner[stack[k].mod] \in S
  <2>1. Known(owner[stack[k].mod], k)
    BY DEF IInv, ChainInv
  <2>2. \A j \in 1 .. k - 1 : j \in Calls
    BY <1>1
  <2> QED BY <2>1, <2>2 DEF Known
<1>7. \A m \in S : owner[m] \in S
  BY <1>5, <1>6
<1> HIDE DEF S
<1> QED BY <1>4, <1>7 DEF IInv, OwnerInv

\* A child is taken out of a list and into the hands of a destroy.
LEMMA TakeKeeps ==
  ASSUME IInv, NEW p \in Modules, NEW d \in Modules, Contains(kids[p], d),
         NEW n \in Nat, n = Len(stack), n = 0 \/ Known(p, n + 1),
         stack' = Append(stack, Call("destroy", d, "stop")),
         NEW q \in Seq(Modules), kids' = [kids EXCEPT ![p] = q],
         \A i, j \in 1 .. Len(q) : q[i] = q[j] => i = j,
         \A x : Contains(q, x) <=> Contains(kids[p], x) /\ x # d,
         UNCHANGED <<alloc, owner>>
  PROVE  CallsInv'
<1>1. d \in alloc \ {Root} /\ owner[d] = p /\ ~ InHands(d)
  BY DEF IInv, KidsInv
<1>0. Call("destroy", d, "stop") \in Frame
  BY DEF Call, Frame, Ops, PlaceNames
<1>2. PICK f \in Frame : f.op = "destroy" /\ f.mod = d /\ stack' = Append(stack, f)
  BY <1>0 DEF Call
<1>3. /\ stack' \in Seq(Frame) /\ Len(stack') = n + 1 /\ stack'[n + 1] = f
      /\ \A i \in Calls : stack'[i] = stack[i]
  <2>1. StackInv
    BY DEF IInv
  <2>2. /\ stack' \in Seq(Frame) /\ Len(stack') = Len(stack) + 1
        /\ stack'[Len(stack) + 1] = f /\ \A i \in Calls : stack'[i] = stack[i]
    BY <1>2, <2>1, PushFacts
  <2> QED BY <2>2
<1>4. Calls = 1 .. n /\ Calls' = 1 .. n + 1
  BY <1>3 DEF Calls
<1>5. \A i \in Calls : i \in Calls' /\ (Holds(i)' <=> Holds(i)) /\ stack'[i] = stack[i]
  BY <1>3, <1>4 DEF Holds
<1>6. /\ n + 1 \in Calls' /\ Holds(n + 1)' /\ stack'[n + 1].mod = d
      /\ stack'[n + 1].op = "destroy" /\ \A i \in Calls' : i \in Calls \/ i = n + 1
  BY <1>2, <1>3, <1>4 DEF Holds
<1>7. \A m : InHands(m)' <=> InHands(m) \/ m = d
  BY <1>5, <1>6 DEF InHands
<1>8. \A x \in Modules : kids'[x] = IF x = p THEN q ELSE kids[x]
  BY TypeFacts
<1>9. n > 0 => Base' = Base
  <2> HAVE n > 0
  <2>1. 1 \in Calls
    BY <1>4
  <2> QED BY <1>5, <2>1 DEF Base
<1>10. RootInv'
  BY <1>1, <1>5, <1>6, ZenonT(30) DEF IInv, RootInv
<1>11. KidsInv'
  <2> SUFFICES ASSUME NEW x \in Modules
               PROVE  /\ \A i, j \in 1 .. Len(kids'[x]) : kids'[x][i] = kids'[x][j] => i = j
                      /\ \A m \in Modules : Contains(kids'[x], m) =>
                            m \in alloc \ {Root} /\ owner[m] = x /\ ~ InHands(m)'
    BY DEF KidsInv
  <2>1. CASE x = p
    BY <1>7, <1>8, <2>1 DEF IInv, KidsInv
  <2>2. CASE x # p
    BY <1>1, <1>7, <1>8, <2>2 DEF IInv, KidsInv
  <2> QED BY <2>1, <2>2
<1>12. PlaceInv'
  <2> SUFFICES ASSUME NEW m \in alloc \ {Root}
               PROVE  Contains(kids'[owner[m]], m) \/ InHands(m)'
    BY DEF PlaceInv
  <2>1. owner[m] \in Modules
    BY TypeFacts DEF IInv, OwnerInv
  <2> QED BY <1>7, <1>8, <2>1 DEF IInv, PlaceInv
<1>13. UniqueInv'
  <2>1. \A i \in Calls : Holds(i) => stack[i].mod # d
    BY <1>1 DEF InHands
  <2>2. \A i, j \in Calls : Holds(i)' /\ Holds(j)' /\ stack'[i].mod = stack'[j].mod => i = j
    BY <1>5 DEF IInv, UniqueInv
  <2>3. \A i \in Calls : Holds(i)' => stack'[i].mod # stack'[n + 1].mod
    BY <1>5, <1>6, <2>1
  <2> QED BY <1>6, <2>2, <2>3 DEF UniqueInv
<1>14. ChainInv'
  <2> SUFFICES ASSUME NEW i \in Calls'
               PROVE  IF Holds(i)' THEN Known(owner[stack[i].mod], i)' /\ stack'[i].mod # Base'
                                   ELSE Known(stack[i].mod, i)'
    BY DEF ChainInv
  <2>1. CASE i \in Calls
    <3>1. n > 0 /\ \A k \in 1 .. i - 1 : k \in Calls
      BY <1>4, <2>1
    <3>2. IF Holds(i) THEN Known(owner[stack[i].mod], i) /\ stack[i].mod # Base
                      ELSE Known(stack[i].mod, i)
      BY <2>1 DEF IInv, ChainInv
    <3>3. PICK m : m = IF Holds(i) THEN owner[stack[i].mod] ELSE stack[i].mod
      OBVIOUS
    <3>4. m = IF Holds(i)' THEN owner'[stack'[i].mod] ELSE stack'[i].mod
      BY <1>5, <2>1, <3>3
    <3>5. m = Base' \/ \E k \in 1 .. i - 1 : Holds(k)' /\ stack'[k].mod = m
      BY <1>5, <1>9, <3>1, <3>2, <3>3 DEF Known
    <3> QED BY <1>5, <1>9, <2>1, <3>1, <3>2, <3>4, <3>5 DEF Known
  <2>2. CASE i = n + 1
    <3>1. CASE n = 0
      <4>1. Base' = p
        BY <1>1, <1>6, <3>1 DEF Base
      <4>2. d # p
        <5>1. {d} \in SUBSET (alloc \ {Root})
          BY <1>1
        <5> QED BY <1>1, <5>1 DEF IInv, OwnerInv
      <4> QED BY <1>1, <1>6, <2>2, <4>1, <4>2 DEF Known
    <3>2. CASE n > 0
      <4>1. Known(p, n + 1)
        BY <3>2
      <4>2. \A k \in 1 .. (n + 1) - 1 : k \in Calls
        BY <1>4
      <4>3. p = Base' \/ \E k \in 1 .. (n + 1) - 1 : Holds(k)' /\ stack'[k].mod = p
        BY <1>5, <1>9, <3>2, <4>1, <4>2 DEF Known
      <4>4. d # Base
        BY <1>1, <3>2, <4>1, NotBase
      <4>5. owner'[stack'[n + 1].mod] = p
        BY <1>1, <1>6
      <4> QED BY <1>6, <1>9, <2>2, <3>2, <4>3, <4>4, <4>5 DEF Known
    <3>3. n = 0 \/ n > 0
      OBVIOUS
    <3> QED BY <3>1, <3>2, <3>3
  <2> QED BY <1>6, <2>1, <2>2
<1>15. RevokeInv'
  <2> SUFFICES ASSUME NEW i \in Calls', stack'[i].op = "revoke", i > 1
               PROVE  (Holds(i - 1) \/ Starting(i - 1))' /\ stack'[i - 1].mod = stack'[i].mod
    BY DEF RevokeInv
  <2>1. i \in Calls
    BY <1>6
  <2>2. i - 1 \in Calls
    BY <1>4, <2>1
  <2> QED BY <1>5, <2>1, <2>2 DEF IInv, RevokeInv, Starting
<1> QED BY <1>10, <1>11, <1>12, <1>13, <1>14, <1>15 DEF CallsInv

------------------------------------------------------------------------------
(* Facts about the lists of children. *)

LEMMA RemoveFacts ==
  ASSUME NEW s \in Seq(Modules), NEW n \in 1 .. Len(s),
         \A i, j \in 1 .. Len(s) : s[i] = s[j] => i = j,
         NEW q, q = RemoveAt(s, n)
  PROVE  /\ q \in Seq(Modules)
         /\ \A i, j \in 1 .. Len(q) : q[i] = q[j] => i = j
         /\ \A x : Contains(q, x) <=> Contains(s, x) /\ x # s[n]
<1> DEFINE before == SubSeq(s, 1, n - 1)
           after == SubSeq(s, n + 1, Len(s))
<1>1. Len(s) \in Nat /\ \A i \in 1 .. Len(s) : s[i] \in Modules
  OBVIOUS
<1>2. /\ q \in Seq(Modules) /\ Len(q) = Len(s) - 1
      /\ \A i \in 1 .. Len(s) - 1 : q[i] = IF i < n THEN s[i] ELSE s[i + 1]
  <2>1. /\ before \in Seq(Modules) /\ Len(before) = n - 1
        /\ \A i \in 1 .. n - 1 : before[i] = s[i]
    BY <1>1
  <2>2. /\ after \in Seq(Modules) /\ Len(after) = Len(s) - n
        /\ \A i \in 1 .. Len(s) - n : after[i] = s[i + n]
    BY <1>1
  <2>3. q = before \o after
    BY DEF RemoveAt
  <2> HIDE DEF before, after
  <2>4. q \in Seq(Modules) /\ Len(q) = Len(s) - 1
    BY <1>1, <2>1, <2>2, <2>3, SMTT(30)
  <2>5. ASSUME NEW i \in 1 .. Len(s) - 1 PROVE q[i] = IF i < n THEN s[i] ELSE s[i + 1]
    <3>1. CASE i < n
      BY <1>1, <2>1, <2>2, <2>3, <3>1
    <3>2. CASE ~ (i < n)
      <4>1. i - (n - 1) \in 1 .. Len(s) - n /\ (i - (n - 1)) + n = i + 1
        BY <1>1, <3>2
      <4>2. q[i] = after[i - (n - 1)]
        BY <1>1, <2>1, <2>2, <2>3, <3>2, SMTT(30)
      <4> QED BY <2>2, <3>2, <4>1, <4>2
    <3> QED BY <3>1, <3>2
  <2> QED BY <2>4, <2>5
<1> HIDE DEF before, after
<1>3. \A i, j \in 1 .. Len(q) : q[i] = q[j] => i = j
  BY <1>1, <1>2
<1>4. ASSUME NEW x, Contains(s, x), x # s[n] PROVE Contains(q, x)
  <2>1. PICK i \in 1 .. Len(s) : s[i] = x
    BY <1>4 DEF Contains
  <2>2. CASE i < n
    <3>1. i \in 1 .. Len(q) /\ q[i] = x
      BY <1>1, <1>2, <2>1, <2>2
    <3> QED BY <3>1 DEF Contains
  <2>3. CASE i > n
    <3>1. i - 1 \in 1 .. Len(q) /\ q[i - 1] = x
      BY <1>1, <1>2, <2>1, <2>3
    <3> QED BY <3>1 DEF Contains
  <2> QED BY <1>4, <2>1, <2>2, <2>3
<1>5. ASSUME NEW x, Contains(q, x) PROVE Contains(s, x) /\ x # s[n]
  <2>1. PICK i \in 1 .. Len(q) : q[i] = x
    BY <1>5 DEF Contains
  <2>2. PICK j \in 1 .. Len(s) : s[j] = x /\ j # n
    <3>1. CASE i < n
      BY <1>1, <1>2, <2>1, <3>1
    <3>2. CASE ~ (i < n)
      <4>1. i + 1 \in 1 .. Len(s) /\ s[i + 1] = x /\ i + 1 # n
        BY <1>1, <1>2, <2>1, <3>2
      <4> QED BY <4>1
    <3> QED BY <3>1, <3>2
  <2> QED BY <2>2 DEF Contains
<1> QED BY <1>2, <1>3, <1>4, <1>5

LEMMA FrontOfList ==
  ASSUME NEW s \in Seq(Modules), s # <<>>,
         \A i, j \in 1 .. Len(s) : s[i] = s[j] => i = j,
         NEW q, q = Front(s)
  PROVE  /\ q \in Seq(Modules) /\ Last(s) \in Modules /\ Contains(s, Last(s))
         /\ \A i, j \in 1 .. Len(q) : q[i] = q[j] => i = j
         /\ \A x : Contains(q, x) <=> Contains(s, x) /\ x # Last(s)
<1>1. PICK n \in Nat : n + 1 = Len(s)
  <2>1. Len(s) \in Nat /\ Len(s) # 0
    OBVIOUS
  <2>2. Len(s) - 1 \in Nat /\ (Len(s) - 1) + 1 = Len(s)
    BY <2>1
  <2> QED BY <2>2
<1>2. \A i \in 1 .. n + 1 : s[i] \in Modules
  BY <1>1
<1>3. Len(s) - 1 = n
  BY <1>1
<1>4. q = SubSeq(s, 1, n)
  BY <1>3 DEF Front
<1>5. q \in Seq(Modules) /\ Len(q) = n /\ \A i \in 1 .. n : q[i] = s[i]
  BY <1>1, <1>2, <1>4
<1>6. Last(s) = s[n + 1] /\ n + 1 \in 1 .. Len(s)
  BY <1>1 DEF Last
<1>7. \A i \in 1 .. n : i \in 1 .. Len(s) /\ i # n + 1
  BY <1>1
<1>8. \A i \in 1 .. Len(s) : i \in 1 .. n \/ i = n + 1
  BY <1>1
<1>9. \A x : Contains(q, x) <=> Contains(s, x) /\ x # Last(s)
  BY <1>5, <1>6, <1>7, <1>8 DEF Contains
<1> QED BY <1>1, <1>2, <1>5, <1>6, <1>7, <1>9 DEF Contains

LEMMA AppendToList ==
  ASSUME NEW s, s \in Seq(Modules), NEW m, m \in Modules, ~ Contains(s, m),
         \A i, j \in 1 .. Len(s) : s[i] = s[j] => i = j
  PROVE  \E q \in Seq(Modules) :
           /\ q = Append(s, m)
           /\ \A i, j \in 1 .. Len(q) : q[i] = q[j] => i = j
           /\ \A x : Contains(q, x) <=> Contains(s, x) \/ x = m
<1>1. PICK q : q = Append(s, m)
  OBVIOUS
<1>2. /\ q \in Seq(Modules) /\ Len(q) = Len(s) + 1 /\ Len(s) \in Nat
      /\ \A i \in 1 .. Len(s) : q[i] = s[i] /\ q[i] # m
      /\ q[Len(s) + 1] = m
  BY <1>1 DEF Contains
<1>3. \A i, j \in 1 .. Len(q) : q[i] = q[j] => i = j
  BY <1>2
<1>4. \A x : Contains(q, x) <=> Contains(s, x) \/ x = m
  <2>1. \A i \in 1 .. Len(s) : i \in 1 .. Len(q)
    BY <1>2
  <2>2. Len(s) + 1 \in 1 .. Len(q)
    BY <1>2
  <2>3. \A i \in 1 .. Len(q) : i \in 1 .. Len(s) \/ i = Len(s) + 1
    BY <1>2
  <2> QED BY <1>2, <2>1, <2>2, <2>3 DEF Contains
<1> QED BY <1>1, <1>2, <1>3, <1>4

------------------------------------------------------------------------------
(* Steps that put a call on the stack. *)

LEMMA RunningFacts ==
  ASSUME IInv, NEW op, NEW at, Running(op, at)
  PROVE  /\ ~ Idle /\ Len(stack) \in Nat /\ Len(stack) > 0 /\ Len(stack) \in Calls
         /\ stack[Len(stack)].op = op /\ stack[Len(stack)].at = at
         /\ stack[Len(stack)].mod = Mod /\ Mod \in Modules /\ Mod \in alloc
         /\ Last(stack) = stack[Len(stack)]
<1>1. ~ Idle /\ Last(stack).op = op /\ Last(stack).at = at
  BY DEF Running
<1>2. StackInv
  BY DEF IInv
<1>3. /\ Len(stack) \in Nat /\ Len(stack) \in Calls /\ 1 \in Calls
      /\ Last(stack) = stack[Len(stack)] /\ Mod = stack[Len(stack)].mod /\ Mod \in Modules
  BY <1>1, <1>2, TopFacts
<1>4. Len(stack) > 0
  BY <1>3 DEF Calls
<1>5. Mod \in alloc
  BY <1>3, TypeFacts
<1> QED BY <1>1, <1>3, <1>4, <1>5

\* Who calls in has the call on top inside its method, or at its loop.
CallsIn == Idle \/ InMethod \/ InLoop

\* A call that is put on the stack changes nothing for those below.
LEMMA PushPlaces ==
  ASSUME IInv, CallsIn, NEW f \in Frame, stack' = Append(stack, f),
         f.mod \in alloc', f.at \in Places[f.op], f.at \in {"open", "stop", "loop"},
         f.op = "load" => f.mod \notin started,
         alloc \subseteq alloc', UNCHANGED <<image, loader, started>>
  PROVE  /\ StackInv' /\ LoadInv' /\ DestroyInv'
         /\ \A i \in DOMAIN stack' :
               stack'[i].mod \in alloc' /\ stack'[i].at \in Places[stack'[i].op]
         /\ \A m : /\ At(m, {"stopping"})' <=> At(m, {"stopping"})
                   /\ At(m, {"close"})' <=> At(m, {"close"})
<1>1. PICK n \in Nat : n = Len(stack)
  BY TypeFacts
<1>2. StackInv
  BY DEF IInv
<1>3. /\ stack' \in Seq(Frame) /\ Len(stack') = n + 1
      /\ stack'[n + 1] = f /\ \A i \in Calls : stack'[i] = stack[i]
  BY <1>1, <1>2, PushFacts
<1>4. /\ Calls = 1 .. n /\ Calls' = 1 .. n + 1
      /\ DOMAIN stack = 1 .. n /\ DOMAIN stack' = 1 .. n + 1
  BY <1>1, <1>2, <1>3 DEF Calls, StackInv
<1>5. \A i \in Calls : i \in Calls' /\ stack'[i] = stack[i]
  BY <1>3, <1>4
<1>6. \A i \in Calls' : i \in Calls \/ i = n + 1
  BY <1>4
<1>7. LoadInv'
  <2>1. f.op # "start"
    BY PlacesFacts
  <2>2. /\ stack'[n + 1].op # "start" /\ stack'[n + 1].mod = f.mod
        /\ stack'[n + 1].at \in {"open", "stop", "loop"}
        /\ stack'[n + 1].op = "load" => f.mod \notin started
    BY <1>3, <2>1
  <2> SUFFICES ASSUME NEW i \in Calls', stack'[i].op \in {"load", "start"}
               PROVE  /\ stack'[i].mod \notin started'
                      /\ stack'[i].at \in {"lookup", "start", "starting"} => stack'[i].mod \in image'
                      /\ stack'[i].op = "start" => i = 1 /\ stack'[i].mod = Root
    BY DEF LoadInv
  <2>3. CASE i \in Calls
    BY <1>5, <2>3 DEF IInv, LoadInv
  <2>4. CASE i = n + 1
    BY <2>2, <2>4
  <2> QED BY <1>6, <2>3, <2>4
<1>8. DestroyInv'
  <2> SUFFICES ASSUME NEW i \in Calls', stack'[i].op = "destroy"
               PROVE  /\ stack'[i].at \in {"stopping", "close"} => stack'[i].mod \notin loader'
                      /\ stack'[i].at = "method" =>
                            IF i = Len(stack') THEN stack'[i].mod \notin loader'
                            ELSE stack'[i + 1].op = "revoke" /\ stack'[i + 1].mod = stack'[i].mod
    BY DEF DestroyInv
  <2>1. CASE i = n + 1
    BY <1>3, <2>1
  <2>2. CASE i \in Calls /\ i # n
    <3>1. i + 1 \in Calls /\ i # Len(stack') /\ i # Len(stack)
      BY <1>1, <1>3, <1>4, <2>2
    <3> QED BY <1>5, <2>2, <3>1 DEF IInv, DestroyInv
  <2>3. CASE i \in Calls /\ i = n
    <3>1. ~ Idle
      BY <1>1, <1>4, <2>3 DEF Idle
    <3>2. stack[n].at # "method"
      BY <1>1, <3>1, RunningFacts DEF CallsIn, InMethod, InStart, InLoop
    <3> QED BY <1>5, <2>3, <3>2 DEF IInv, DestroyInv
  <2> QED BY <1>6, <2>1, <2>2, <2>3
<1>9. \A i \in Calls' : stack'[i].mod \in alloc' /\ stack'[i].at \in Places[stack'[i].op]
  BY <1>3, <1>5, <1>6, TypeFacts
<1>10. ASSUME NEW m
       PROVE  /\ At(m, {"stopping"})' <=> At(m, {"stopping"})
              /\ At(m, {"close"})' <=> At(m, {"close"})
  <2>1. f.at # "stopping" /\ f.at # "close"
    OBVIOUS
  <2> QED BY <1>3, <1>4, <1>5, <1>6, <2>1 DEF At
<1> QED BY <1>3, <1>4, <1>7, <1>8, <1>9, <1>10 DEF StackInv

\* The module whose loader a caller uses is known below it.
LEMMA MayUseFacts ==
  ASSUME IInv, NEW p \in Modules, MayUse(p), NEW n \in Nat, n = Len(stack)
  PROVE  p \in loader /\ CallsIn /\ (n = 0 \/ Known(p, n + 1))
<1>1. p \in loader /\ CallsIn
  BY DEF MayUse, CallsIn
<1>2. CASE Idle
  BY <1>1, <1>2 DEF Idle
<1>3. CASE InMethod /\ p \in {Mod, owner[Mod]}
  <2>1. n > 0 /\ n \in Calls /\ stack[n].mod = Mod /\ (Holds(n) \/ stack[n].op = "start")
    BY <1>3, RunningFacts DEF InMethod, InStart, Holds
  <2>2. CASE p = Mod
    <3>1. n \in 1 .. (n + 1) - 1
      BY <2>1
    <3>2. stack[n].op = "start" => n = 1 /\ stack[1].mod = Mod /\ ~ Holds(1)
      BY <2>1 DEF IInv, LoadInv, Holds
    <3> QED BY <1>1, <2>1, <2>2, <3>1, <3>2 DEF Known, Base
  <2>3. CASE p = owner[Mod]
    <3>0. Holds(n)
      BY <2>1, <2>3, ModuleLoaderAssumption DEF IInv, LoadInv, RootInv
    <3>1. Known(p, n)
      BY <2>1, <2>3, <3>0 DEF IInv, ChainInv
    <3>2. \A k \in 1 .. n - 1 : k \in 1 .. (n + 1) - 1
      OBVIOUS
    <3> QED BY <1>1, <3>1, <3>2 DEF Known
  <2> QED BY <1>3, <2>2, <2>3
<1> QED BY <1>2, <1>3 DEF MayUse

\* A revocation or an unload begins.
LEMMA LoopBegins ==
  ASSUME IInv, NEW p \in Modules, MayUse(p), NEW op \in {"revoke", "unload"},
         op = "revoke" => Idle \/ p = Mod,
         stack' = Append(stack, Call(op, p, "loop")),
         UNCHANGED <<alloc, owner, image, started, loader, kids, life>>
  PROVE  IInv'
<1>1. PICK n \in Nat : n = Len(stack)
  BY TypeFacts
<1>2. p \in loader /\ CallsIn /\ (n = 0 \/ Known(p, n + 1)) /\ p \in alloc
  BY <1>1, MayUseFacts, TypeFacts
<1>3. PICK f \in Frame : /\ f.op = op /\ f.mod = p /\ f.at = "loop"
                         /\ stack' = Append(stack, f)
  <2>1. Call(op, p, "loop") \in Frame
    BY DEF Call, Frame, Ops, PlaceNames
  <2> QED BY <2>1 DEF Call
<1>4. /\ stack' \in Seq(Frame) /\ Len(stack') = n + 1
      /\ stack'[n + 1] = f /\ \A i \in Calls : stack'[i] = stack[i]
  BY <1>1, <1>3, PushFacts DEF IInv
<1>5. f.at \in Places[f.op]
  BY <1>3, PlacesFacts
<1>6. /\ StackInv' /\ LoadInv' /\ DestroyInv'
      /\ \A i \in DOMAIN stack' :
            stack'[i].mod \in alloc' /\ stack'[i].at \in Places[stack'[i].op]
      /\ \A m : /\ At(m, {"stopping"})' <=> At(m, {"stopping"})
                /\ At(m, {"close"})' <=> At(m, {"close"})
  BY <1>2, <1>3, <1>5, PushPlaces
<1>7. op = "revoke" /\ n > 0 => (Holds(n) \/ Starting(n)) /\ stack[n].mod = p
  <2> HAVE op = "revoke" /\ n > 0
  <2>1. ~ Idle /\ InMethod
    BY <1>1 DEF Idle, MayUse
  <2>2. n \in Calls /\ stack[n].mod = p /\ (Holds(n) \/ stack[n].op = "start")
    BY <1>1, <2>1, RunningFacts DEF InMethod, InStart, Holds
  <2> QED BY <2>2 DEF IInv, LoadInv, Starting
<1>8. CallsInv'
  <2>1. \A i \in 1 .. n :
             /\ stack'[i].mod = stack[i].mod
             /\ \/ stack'[i].op = stack[i].op
                \/ stack[i].op = "load" /\ stack'[i].op = "destroy"
    BY <1>1, <1>4 DEF Calls
  <2>2. /\ stack'[n + 1].op \in {"revoke", "unload"}
        /\ n = 0 \/ Known(stack'[n + 1].mod, n + 1)
        /\ stack'[n + 1].op = "revoke" /\ n > 0 =>
              (Holds(n) \/ Starting(n)) /\ stack[n].mod = stack'[n + 1].mod
    BY <1>2, <1>3, <1>4, <1>7
  <2> QED BY <1>1, <1>4, <2>1, <2>2, ShapeKeeps
<1>9. TypeOK'
  BY <1>6 DEF IInv, TypeOK
<1>10. OwnerInv' /\ StopAnswersStart'
  BY <1>6 DEF IInv, OwnerInv, StopAnswersStart
<1> QED BY <1>6, <1>8, <1>9, <1>10 DEF IInv, CallsInv

LEMMA RevokeLoaderKeeps ==
  ASSUME IInv, NEW m \in Modules, RevokeLoader(m)
  PROVE  IInv'
<1>1. /\ MayUse(m) /\ (Idle \/ m = Mod)
      /\ stack' = Append(stack, Call("revoke", m, "loop"))
      /\ UNCHANGED <<alloc, owner, image, started, loader, kids, life>>
  BY DEF RevokeLoader, tree
<1> QED BY <1>1, LoopBegins

LEMMA UnloadKeeps ==
  ASSUME IInv, NEW m \in Modules, Unload(m)
  PROVE  IInv'
<1>1. /\ MayUse(m) /\ stack' = Append(stack, Call("unload", m, "loop"))
      /\ UNCHANGED <<alloc, owner, image, started, loader, kids, life>>
  BY DEF Unload, tree
<1> QED BY <1>1, LoopBegins

\* A child is taken out of the list of a loader and its destruction begins.
LEMMA DestroyBegins ==
  ASSUME IInv, NEW p \in Modules, NEW d \in Modules, Contains(kids[p], d), CallsIn,
         NEW n \in Nat, n = Len(stack), n = 0 \/ Known(p, n + 1),
         stack' = Append(stack, Call("destroy", d, "stop")),
         NEW q \in Seq(Modules), kids' = [kids EXCEPT ![p] = q],
         \A i, j \in 1 .. Len(q) : q[i] = q[j] => i = j,
         \A x : Contains(q, x) <=> Contains(kids[p], x) /\ x # d,
         UNCHANGED <<alloc, owner, image, started, loader, life>>
  PROVE  IInv'
<1>1. CallsInv'
  BY TakeKeeps
<1>2. PICK f \in Frame : /\ f.op = "destroy" /\ f.mod = d /\ f.at = "stop"
                         /\ stack' = Append(stack, f)
  <2>1. Call("destroy", d, "stop") \in Frame
    BY DEF Call, Frame, Ops, PlaceNames
  <2> QED BY <2>1 DEF Call
<1>3. d \in alloc
  BY DEF IInv, KidsInv
<1>4. f.at \in Places[f.op]
  BY <1>2, PlacesFacts
<1>5. /\ StackInv' /\ LoadInv' /\ DestroyInv'
      /\ \A i \in DOMAIN stack' :
            stack'[i].mod \in alloc' /\ stack'[i].at \in Places[stack'[i].op]
      /\ \A m : /\ At(m, {"stopping"})' <=> At(m, {"stopping"})
                /\ At(m, {"close"})' <=> At(m, {"close"})
  BY <1>2, <1>3, <1>4, PushPlaces
<1>6. kids' \in [Modules -> Seq(Modules)]
  BY TypeFacts
<1>7. TypeOK'
  BY <1>5, <1>6 DEF IInv, TypeOK
<1>8. OwnerInv' /\ StopAnswersStart'
  BY <1>5 DEF IInv, OwnerInv, StopAnswersStart
<1> QED BY <1>1, <1>5, <1>7, <1>8 DEF IInv, CallsInv

LEMMA UnloadChildKeeps ==
  ASSUME IInv, NEW p \in Modules, NEW c \in Modules, UnloadChild(p, c)
  PROVE  IInv'
<1> DEFINE s == kids[p]
           q == RemoveAt(s, Index(p, c))
<1>1. /\ MayUse(p) /\ Contains(s, c) /\ kids' = [kids EXCEPT ![p] = q]
      /\ stack' = Append(stack, Call("destroy", c, "stop"))
      /\ UNCHANGED <<alloc, owner, image, started, loader, life>>
  BY DEF UnloadChild
<1>2. s \in Seq(Modules) /\ \A i, j \in 1 .. Len(s) : s[i] = s[j] => i = j
  BY TypeFacts DEF IInv, KidsInv
<1>3. Index(p, c) \in 1 .. Len(s) /\ s[Index(p, c)] = c
  <2>1. DOMAIN kids[p] = 1 .. Len(s)
    BY <1>2
  <2> QED BY <1>1, <2>1 DEF Contains, Index
<1>4. PICK n \in Nat : n = Len(stack)
  BY TypeFacts
<1>5. CallsIn /\ (n = 0 \/ Known(p, n + 1))
  BY <1>1, <1>4, MayUseFacts
<1> HIDE DEF s
<1>6. /\ q \in Seq(Modules)
      /\ \A i, j \in 1 .. Len(q) : q[i] = q[j] => i = j
      /\ \A x : Contains(q, x) <=> Contains(s, x) /\ x # c
  BY <1>2, <1>3, RemoveFacts
<1> HIDE DEF q
<1> QED BY <1>1, <1>4, <1>5, <1>6, DestroyBegins DEF s

LEMMA UnloadNextKeeps ==
  ASSUME IInv, UnloadNext
  PROVE  IInv'
<1> DEFINE s == kids[Mod]
           q == Front(s)
<1>1. /\ InLoop /\ s # <<>> /\ kids' = [kids EXCEPT ![Mod] = q]
      /\ stack' = Append(stack, Call("destroy", Last(s), "stop"))
      /\ UNCHANGED <<alloc, owner, image, started, loader, life>>
  BY DEF UnloadNext
<1>2. PICK n \in Nat : n = Len(stack)
  BY TypeFacts
<1>3. n > 0 /\ n \in Calls /\ stack[n].mod = Mod /\ Mod \in Modules /\ ~ Holds(n)
  BY <1>1, <1>2, RunningFacts DEF InLoop, Holds
<1>4. Known(Mod, n)
  BY <1>3 DEF IInv, ChainInv
<1>5. Known(Mod, n + 1)
  <2>1. \A k \in 1 .. n - 1 : k \in 1 .. (n + 1) - 1
    OBVIOUS
  <2> QED BY <1>4, <2>1 DEF Known
<1>6. s \in Seq(Modules) /\ \A i, j \in 1 .. Len(s) : s[i] = s[j] => i = j
  BY <1>3, TypeFacts DEF IInv, KidsInv
<1>7. /\ q \in Seq(Modules) /\ Last(s) \in Modules /\ Contains(s, Last(s))
      /\ \A i, j \in 1 .. Len(q) : q[i] = q[j] => i = j
      /\ \A x : Contains(q, x) <=> Contains(s, x) /\ x # Last(s)
  BY <1>1, <1>6, FrontOfList
<1>8. PICK p \in Modules : p = Mod
  BY <1>3
<1>9. PICK d \in Modules : d = Last(s)
  BY <1>7
<1>10. CallsIn
  BY <1>1 DEF CallsIn
<1>11. s = kids[p]
  BY <1>8
<1> HIDE DEF q, s
<1> QED BY <1>1, <1>2, <1>5, <1>7, <1>8, <1>9, <1>10, <1>11, DestroyBegins

LEMMA RootDeinitKeeps ==
  ASSUME IInv, RootDeinit
  PROVE  IInv'
<1>1. /\ stack = <<>> /\ Root \in alloc /\ stack' = <<Call("destroy", Root, "stop")>>
      /\ UNCHANGED <<alloc, owner, image, started, loader, kids, life>>
  BY DEF RootDeinit, Idle, tree
<1>2. /\ Call("destroy", Root, "stop") \in Frame /\ stack' \in Seq(Frame) /\ Len(stack') = 1
      /\ stack'[1].op = "destroy" /\ stack'[1].mod = Root /\ stack'[1].at = "stop"
  <2>1. /\ Call("destroy", Root, "stop") \in Frame
        /\ Call("destroy", Root, "stop") =
             [op |-> "destroy", mod |-> Root, at |-> "stop"]
    BY ModuleLoaderAssumption DEF Call, Frame, Ops, PlaceNames
  <2> QED BY <1>1, <2>1
<1>3. /\ Calls = {} /\ Calls' = {1} /\ DOMAIN stack = {} /\ DOMAIN stack' = {1}
      /\ Holds(1)' /\ Base' = Null
  <2>1. Calls' = 1 .. 1 /\ DOMAIN stack' = 1 .. 1 /\ Calls = 1 .. 0 /\ DOMAIN stack = 1 .. 0
    BY <1>1, <1>2 DEF Calls
  <2>2. Holds(1)'
    BY <1>2 DEF Holds
  <2>3. owner'[Root] = Null
    BY <1>1 DEF IInv, RootInv
  <2> QED BY <1>2, <2>1, <2>2, <2>3 DEF Base
<1>4. \A m : ~ InHands(m) /\ (InHands(m)' => m = Root)
  BY <1>2, <1>3 DEF InHands
<1>5. RootInv' /\ KidsInv' /\ UniqueInv'
  BY <1>1, <1>2, <1>3, <1>4 DEF IInv, RootInv, KidsInv, UniqueInv
<1>6. PlaceInv'
  BY <1>1, <1>4 DEF IInv, PlaceInv
<1>7. ChainInv'
  <2>1. owner'[stack'[1].mod] = Null /\ stack'[1].mod # Null
    BY <1>1, <1>2, ModuleLoaderAssumption DEF IInv, RootInv
  <2> QED BY <1>3, <2>1 DEF ChainInv, Known
<1>8. RevokeInv' /\ LoadInv' /\ DestroyInv'
  BY <1>2, <1>3 DEF RevokeInv, LoadInv, DestroyInv
<1>9. TypeOK'
  BY <1>1, <1>2, <1>3, PlacesFacts DEF IInv, TypeOK
<1>10. StopAnswersStart'
  BY <1>1, <1>2, <1>3 DEF IInv, StopAnswersStart, At
<1>11. OwnerInv' /\ StackInv'
  BY <1>1, <1>2 DEF IInv, OwnerInv, StackInv
<1> QED BY <1>5, <1>6, <1>7, <1>8, <1>9, <1>10, <1>11 DEF IInv

LEMMA RootInitKeeps ==
  ASSUME IInv, RootInit
  PROVE  IInv'
<1>1. /\ stack = <<>> /\ Root \notin alloc
      /\ alloc' = alloc \cup {Root} /\ image' = image \cup {Root}
      /\ life' = [life EXCEPT ![Root] = "new"]
      /\ UNCHANGED <<owner, loader, kids, stack, started>>
  BY DEF RootInit, Idle
<1>2. alloc = {} /\ alloc' = {Root} /\ image = {} /\ loader = {}
  BY <1>1, TypeFacts DEF IInv, RootInv
<1>3. Calls = {} /\ Calls' = {} /\ DOMAIN stack = {} /\ DOMAIN stack' = {}
  BY <1>1 DEF Calls
<1>4. \A m : ~ InHands(m)'
  BY <1>3 DEF InHands
<1>5. \A m \in Modules : life'[m] = IF m = Root THEN "new" ELSE life[m]
  BY <1>1, TypeFacts
<1>6. TypeOK'
  <2>1. life' \in [Modules -> {"none", "new", "refused", "up", "stopped", "skipped"}]
    BY <1>1, TypeFacts
  <2> QED BY <1>1, <1>2, <1>3, <2>1, ModuleLoaderAssumption DEF IInv, TypeOK
<1>7. RootInv' /\ StackInv' /\ PlaceInv' /\ UniqueInv' /\ ChainInv'
  BY <1>1, <1>2, <1>3 DEF IInv, RootInv, StackInv, PlaceInv, UniqueInv, ChainInv
<1>8. RevokeInv' /\ LoadInv' /\ DestroyInv'
  BY <1>3 DEF RevokeInv, LoadInv, DestroyInv
<1>9. KidsInv'
  BY <1>1, <1>2 DEF IInv, KidsInv
<1>10. OwnerInv'
  BY <1>1, <1>2, TypeFacts DEF OwnerInv
<1>11. StopAnswersStart'
  <2>1. Root \notin started
    BY <1>1, TypeFacts
  <2>2. \A m, S : ~ At(m, S)'
    BY <1>3 DEF At
  <2> QED BY <1>1, <1>5, <2>1, <2>2 DEF IInv, StopAnswersStart
<1> QED BY <1>6, <1>7, <1>8, <1>9, <1>10, <1>11 DEF IInv

\* No call holds a module and at most one runs, which is about the root.
LEMMA RootAlone ==
  ASSUME IInv, \A m : ~ InHands(m), Root \in alloc,
         NEW f \in Frame, f.mod = Root,
         \/ f.op = "start" /\ f.at = "starting" /\ Root \in image \ started
         \/ f.op = "revoke" /\ f.at = "loop",
         stack' = <<>> \/ stack' = <<f>>,
         UNCHANGED <<alloc, owner, image, loader, kids>>,
         started' = started \/ stack' = <<>>
  PROVE  /\ CallsInv' /\ StackInv' /\ LoadInv' /\ DestroyInv'
         /\ \A i \in DOMAIN stack' :
               stack'[i].mod \in alloc' /\ stack'[i].at \in Places[stack'[i].op]
         /\ \A m : ~ At(m, {"stopping"})' /\ ~ At(m, {"close"})'
<1>1. stack' \in Seq(Frame)
  <2>1. <<>> \in Seq(Frame) /\ <<f>> \in Seq(Frame)
    OBVIOUS
  <2> QED BY <2>1
<1>2. \/ stack' = <<>> /\ Calls' = {} /\ DOMAIN stack' = {}
      \/ stack' = <<f>> /\ Calls' = {1} /\ DOMAIN stack' = {1} /\ stack'[1] = f
  <2>1. stack' = <<>> => Len(stack') = 0 /\ DOMAIN stack' = {}
    OBVIOUS
  <2>2. stack' = <<f>> => Len(stack') = 1 /\ DOMAIN stack' = {1} /\ stack'[1] = f
    OBVIOUS
  <2>3. 1 .. 0 = {} /\ 1 .. 1 = {1}
    OBVIOUS
  <2> QED BY <2>1, <2>2, <2>3 DEF Calls
<1>3. \A i \in Calls' : i = 1 /\ stack'[i] = f /\ ~ Holds(i)'
  BY <1>2 DEF Holds
<1>4. \A m : ~ InHands(m)'
  BY <1>3 DEF InHands
<1>5. RootInv' /\ KidsInv' /\ UniqueInv'
  BY <1>3, <1>4 DEF IInv, RootInv, KidsInv, UniqueInv
<1>6. PlaceInv'
  BY DEF IInv, PlaceInv
<1>7. ChainInv'
  BY <1>3 DEF ChainInv, Known, Base
<1>8. RevokeInv' /\ LoadInv' /\ DestroyInv'
  BY <1>2, <1>3 DEF RevokeInv, LoadInv, DestroyInv
<1>9. \A i \in DOMAIN stack' : stack'[i].mod \in alloc' /\ stack'[i].at \in Places[stack'[i].op]
  BY <1>2, PlacesFacts
<1>10. \A m : ~ At(m, {"stopping"})' /\ ~ At(m, {"close"})'
  BY <1>2 DEF At
<1> QED BY <1>1, <1>5, <1>6, <1>7, <1>8, <1>9, <1>10 DEF CallsInv, StackInv

LEMMA RootFrames ==
  /\ \E f \in Frame : /\ f = Call("start", Root, "starting")
                      /\ f.op = "start" /\ f.mod = Root /\ f.at = "starting"
  /\ \E f \in Frame : /\ f = Call("revoke", Root, "loop")
                      /\ f.op = "revoke" /\ f.mod = Root /\ f.at = "loop"
<1>1. /\ Call("start", Root, "starting") = [op |-> "start", mod |-> Root, at |-> "starting"]
      /\ Call("revoke", Root, "loop") = [op |-> "revoke", mod |-> Root, at |-> "loop"]
  BY DEF Call
<1>2. /\ Call("start", Root, "starting") \in Frame
      /\ Call("revoke", Root, "loop") \in Frame
  BY ModuleLoaderAssumption DEF Call, Frame, Ops, PlaceNames
<1> QED BY <1>1, <1>2

LEMMA RootStartKeeps ==
  ASSUME IInv, RootStart
  PROVE  IInv'
<1>1. PICK f \in Frame : /\ f = Call("start", Root, "starting")
                         /\ f.op = "start" /\ f.mod = Root /\ f.at = "starting"
  BY RootFrames
<1>2. /\ stack = <<>> /\ stack' = <<f>> /\ Root \in image \ started
      /\ UNCHANGED <<alloc, owner, image, started, loader, kids, life>>
  BY <1>1 DEF RootStart, Idle, tree
<1>3. Root \in alloc /\ \A m : ~ InHands(m)
  BY <1>2, TypeFacts DEF InHands, Calls
<1>4. /\ CallsInv' /\ StackInv' /\ LoadInv' /\ DestroyInv'
      /\ \A i \in DOMAIN stack' :
            stack'[i].mod \in alloc' /\ stack'[i].at \in Places[stack'[i].op]
      /\ \A m : ~ At(m, {"stopping"})' /\ ~ At(m, {"close"})'
  BY <1>1, <1>2, <1>3, RootAlone
<1>5. TypeOK' /\ OwnerInv' /\ StopAnswersStart'
  BY <1>2, <1>4 DEF IInv, TypeOK, OwnerInv, StopAnswersStart
<1> QED BY <1>4, <1>5 DEF IInv, CallsInv

\* The start of the root is the only call when it is on top.
LEMMA RootStarting ==
  ASSUME IInv, Running("start", "starting")
  PROVE  /\ Len(stack) = 1 /\ Mod = Root /\ Root \in alloc /\ Root \in image \ started
         /\ Front(stack) = <<>> /\ \A m : ~ InHands(m)
<1>1. /\ Len(stack) \in Calls /\ stack[Len(stack)].op = "start" /\ Mod \in alloc /\ ~ Idle
      /\ stack[Len(stack)].at = "starting" /\ stack[Len(stack)].mod = Mod
  BY RunningFacts
<1>2. Len(stack) = 1 /\ Mod = Root /\ Root \in image \ started
  BY <1>1 DEF IInv, LoadInv
<1>3. \A m : ~ InHands(m)
  BY <1>1, <1>2 DEF InHands, Calls, Holds
<1>4. Front(stack) = <<>>
  <2>1. PICK q : q = Front(stack)
    OBVIOUS
  <2>2. q \in Seq(Frame) /\ Len(q) = Len(stack) - 1
    BY <1>1, <2>1, FrontFacts DEF IInv
  <2> QED BY <1>2, <2>1, <2>2
<1> QED BY <1>1, <1>2, <1>3, <1>4

LEMMA RootStartsKeeps ==
  ASSUME IInv, RootStarts
  PROVE  IInv'
<1>1. /\ Mod = Root /\ Root \in alloc /\ Root \in image \ started
      /\ Front(stack) = <<>> /\ \A m : ~ InHands(m)
  BY RootStarting DEF RootStarts
<1>2. /\ stack' = <<>> /\ started' = started \cup {Root} /\ life' = [life EXCEPT ![Root] = "up"]
      /\ UNCHANGED <<alloc, owner, image, loader, kids>>
  BY <1>1 DEF RootStarts, Starts, Return, tree
<1>3. PICK f \in Frame : f.op = "revoke" /\ f.mod = Root /\ f.at = "loop"
  BY RootFrames
<1>4. /\ CallsInv' /\ StackInv' /\ LoadInv' /\ DestroyInv'
      /\ \A i \in DOMAIN stack' :
            stack'[i].mod \in alloc' /\ stack'[i].at \in Places[stack'[i].op]
      /\ \A m : ~ At(m, {"stopping"})' /\ ~ At(m, {"close"})'
  BY <1>1, <1>2, <1>3, RootAlone
<1>5. /\ life' \in [Modules -> {"none", "new", "refused", "up", "stopped", "skipped"}]
      /\ \A m \in Modules : life'[m] = IF m = Root THEN "up" ELSE life[m]
  BY <1>2, TypeFacts, ModuleLoaderAssumption
<1>6. TypeOK'
  <2>1. started' \subseteq alloc'
    BY <1>1, <1>2, TypeFacts
  <2> QED BY <1>2, <1>4, <1>5, <2>1 DEF IInv, TypeOK
<1>8. OwnerInv'
  <2>1. started' \subseteq image'
    BY <1>1, <1>2 DEF IInv, OwnerInv
  <2> QED BY <1>2, <2>1 DEF IInv, OwnerInv
<1>7. StopAnswersStart'
  BY <1>1, <1>2, <1>4, <1>5 DEF IInv, StopAnswersStart
<1> QED BY <1>4, <1>6, <1>7, <1>8 DEF IInv, CallsInv

LEMMA RootRefusesKeeps ==
  ASSUME IInv, RootRefuses
  PROVE  IInv'
<1>1. Mod = Root /\ Root \in alloc /\ Root \in image \ started /\ \A m : ~ InHands(m)
  BY RootStarting DEF RootRefuses
<1>2. PICK f \in Frame : /\ f = Call("revoke", Root, "loop")
                         /\ f.op = "revoke" /\ f.mod = Root /\ f.at = "loop"
  BY RootFrames
<1>3. /\ stack' = <<>> \/ stack' = <<f>>
      /\ life' = [life EXCEPT ![Root] = "refused"]
      /\ UNCHANGED <<alloc, owner, image, loader, kids, started>>
  BY <1>1, <1>2 DEF RootRefuses, tree
<1>4. /\ CallsInv' /\ StackInv' /\ LoadInv' /\ DestroyInv'
      /\ \A i \in DOMAIN stack' :
            stack'[i].mod \in alloc' /\ stack'[i].at \in Places[stack'[i].op]
      /\ \A m : ~ At(m, {"stopping"})' /\ ~ At(m, {"close"})'
  BY <1>1, <1>2, <1>3, RootAlone
<1>5. /\ life' \in [Modules -> {"none", "new", "refused", "up", "stopped", "skipped"}]
      /\ \A m \in Modules : life'[m] = IF m = Root THEN "refused" ELSE life[m]
  BY <1>3, TypeFacts, ModuleLoaderAssumption
<1>6. TypeOK' /\ OwnerInv'
  BY <1>3, <1>4, <1>5 DEF IInv, TypeOK, OwnerInv
<1>7. StopAnswersStart'
  BY <1>1, <1>3, <1>4, <1>5 DEF IInv, StopAnswersStart
<1> QED BY <1>4, <1>6, <1>7 DEF IInv, CallsInv

LEMMA GrantLoaderKeeps ==
  ASSUME IInv, NEW m \in Modules, GrantLoader(m)
  PROVE  IInv'
<1>1. /\ (Idle /\ m \in image) \/ (InStart /\ m = Mod)
      /\ loader' = loader \cup {m}
      /\ UNCHANGED <<alloc, owner, image, started, kids, stack, life>>
  BY DEF GrantLoader
<1>2. PICK n \in Nat : n = Len(stack)
  BY TypeFacts
<1>3. CallsInv'
  <2>1. stack' \in Seq(Frame) /\ Len(stack') = n /\ \A i \in 1 .. n : stack'[i] = stack[i]
    BY <1>1, <1>2, TypeFacts
  <2> QED BY <1>1, <1>2, <2>1, ShapeKeeps
<1>4. m \in image
  <2>1. CASE InStart /\ m = Mod
    BY <2>1, RunningFacts DEF IInv, LoadInv, InStart
  <2> QED BY <1>1, <2>1
<1>5. TypeOK'
  BY <1>1, <1>4, TypeFacts DEF IInv, TypeOK
<1>6. OwnerInv'
  BY <1>1, <1>4 DEF IInv, OwnerInv
<1>7. DestroyInv'
  <2> SUFFICES ASSUME NEW i \in Calls, stack[i].op = "destroy" PROVE stack[i].mod # m
    BY <1>1 DEF IInv, DestroyInv, Calls
  <2>1. InStart /\ m = Mod
    <3>1. ~ Idle
      BY TypeFacts DEF Idle, Calls
    <3> QED BY <1>1, <3>1
  <2>2. /\ Len(stack) \in Calls /\ stack[Len(stack)].op \in {"load", "start"}
        /\ stack[Len(stack)].mod = m
    BY <2>1, RunningFacts DEF InStart
  <2>3. CASE stack[Len(stack)].op = "load"
    BY <2>2, <2>3 DEF IInv, UniqueInv, Holds
  <2>4. CASE stack[Len(stack)].op = "start"
    <3>1. Len(stack) = 1 /\ i = 1
      BY <2>2, <2>4 DEF IInv, LoadInv, Calls
    <3> QED BY <2>4, <3>1
  <2> QED BY <2>2, <2>3, <2>4
<1>8. StackInv' /\ LoadInv' /\ StopAnswersStart'
  BY <1>1 DEF IInv, StackInv, LoadInv, StopAnswersStart, Calls, At
<1> QED BY <1>3, <1>5, <1>6, <1>7, <1>8 DEF IInv, CallsInv

LEMMA LoadKeeps ==
  ASSUME IInv, NEW p \in Modules, Load(p)
  PROVE  IInv'
<1>1. PICK c \in Modules \ alloc :
          /\ alloc' = alloc \cup {c} /\ owner' = [owner EXCEPT ![c] = p]
          /\ life' = [life EXCEPT ![c] = "new"]
          /\ stack' = Append(stack, Call("load", c, "open"))
  BY DEF Load
<1>2. MayUse(p) /\ UNCHANGED <<image, started, loader, kids>>
  BY DEF Load
<1>3. PICK n \in Nat : n = Len(stack)
  BY TypeFacts
<1>4. p \in loader /\ CallsIn /\ (n = 0 \/ Known(p, n + 1)) /\ p \in alloc
  BY <1>2, <1>3, MayUseFacts, TypeFacts
<1>5. c # Root /\ c # p /\ Root \in alloc
  BY <1>4 DEF IInv, RootInv
<1>6. PICK f \in Frame : /\ f.op = "load" /\ f.mod = c /\ f.at = "open"
                         /\ stack' = Append(stack, f)
  <2>1. Call("load", c, "open") \in Frame
    BY DEF Call, Frame, Ops, PlaceNames
  <2> QED BY <1>1, <2>1 DEF Call
<1>7. /\ stack' \in Seq(Frame) /\ Len(stack') = n + 1
      /\ stack'[n + 1] = f /\ \A i \in Calls : stack'[i] = stack[i]
  BY <1>3, <1>6, PushFacts DEF IInv
<1>8. /\ StackInv' /\ LoadInv' /\ DestroyInv'
      /\ \A i \in DOMAIN stack' :
            stack'[i].mod \in alloc' /\ stack'[i].at \in Places[stack'[i].op]
      /\ \A m : /\ At(m, {"stopping"})' <=> At(m, {"stopping"})
                /\ At(m, {"close"})' <=> At(m, {"close"})
  <2>1. f.at \in Places[f.op]
    BY <1>6, PlacesFacts
  <2>2. c \notin started
    BY TypeFacts
  <2> QED BY <1>1, <1>2, <1>4, <1>6, <2>1, <2>2, PushPlaces
<1>9. /\ \A m \in Modules : owner'[m] = IF m = c THEN p ELSE owner[m]
      /\ \A m \in Modules : life'[m] = IF m = c THEN "new" ELSE life[m]
  BY <1>1, TypeFacts
<1>10. /\ Calls = 1 .. n /\ Calls' = 1 .. n + 1
       /\ \A i \in Calls : /\ i \in Calls' /\ (Holds(i)' <=> Holds(i)) /\ stack'[i] = stack[i]
                           /\ stack[i].mod \in alloc /\ stack[i].mod # c
                           /\ stack[i].mod \in Modules
  BY <1>3, <1>7, TypeFacts DEF Calls, Holds
<1>11. /\ n + 1 \in Calls' /\ Holds(n + 1)' /\ stack'[n + 1].mod = c
       /\ stack'[n + 1].op = "load" /\ \A i \in Calls' : i \in Calls \/ i = n + 1
  BY <1>6, <1>7, <1>10 DEF Holds
<1>12. \A m : InHands(m)' <=> InHands(m) \/ m = c
  BY <1>10, <1>11 DEF InHands
<1>13. \A m \in alloc : m \in Modules /\ m # c /\ owner'[m] = owner[m]
  BY <1>9, TypeFacts
<1>14. TypeOK'
  <2>1. /\ owner' \in [Modules -> Modules \cup {Null}]
        /\ life' \in [Modules -> {"none", "new", "refused", "up", "stopped", "skipped"}]
    BY <1>1, TypeFacts
  <2>2. alloc' \subseteq Modules /\ image' \subseteq alloc' /\ started' \subseteq alloc'
        /\ loader' \subseteq alloc' /\ kids' \in [Modules -> Seq(Modules)]
    BY <1>1, <1>2, TypeFacts
  <2> QED BY <1>8, <2>1, <2>2 DEF TypeOK
<1>15. RootInv'
  <2>1. owner'[Root] = Null /\ Root \in alloc'
    BY <1>1, <1>5, <1>13 DEF IInv, RootInv
  <2>2. \A i \in Calls' : Holds(i)' /\ stack'[i].mod = Root => i = 1 /\ stack'[i].op = "destroy"
    BY <1>5, <1>10, <1>11 DEF IInv, RootInv
  <2> QED BY <2>1, <2>2 DEF RootInv
<1>16. OwnerInv'
  <2>1. \A m \in alloc' \ {Root} : owner'[m] \in loader'
    BY <1>1, <1>2, <1>4, <1>9, <1>13 DEF IInv, OwnerInv
  <2>2. ASSUME NEW S \in SUBSET (alloc' \ {Root}), S # {}
        PROVE  \E m \in S : owner'[m] \notin S
    <3>1. CASE S = {c}
      BY <1>5, <1>9, <3>1
    <3>2. CASE S # {c}
      <4>1. S \ {c} \in SUBSET (alloc \ {Root}) /\ S \ {c} # {}
        BY <1>1, <2>2, <3>2
      <4>2. PICK m \in S \ {c} : owner[m] \notin S \ {c}
        BY <4>1 DEF IInv, OwnerInv
      <4>3. owner[m] \in loader /\ owner'[m] = owner[m] /\ owner[m] # c
        BY <1>13, <4>1, TypeFacts DEF IInv, OwnerInv
      <4> QED BY <4>2, <4>3
    <3> QED BY <3>1, <3>2
  <2>3. loader' \subseteq image' /\ started' \subseteq image'
    BY <1>2 DEF IInv, OwnerInv
  <2> QED BY <2>1, <2>2, <2>3 DEF OwnerInv
<1>17. KidsInv'
  <2> SUFFICES ASSUME NEW x \in Modules
               PROVE  /\ \A i, j \in 1 .. Len(kids[x]) : kids[x][i] = kids[x][j] => i = j
                      /\ \A m \in Modules : Contains(kids[x], m) =>
                            m \in alloc' \ {Root} /\ owner'[m] = x /\ ~ InHands(m)'
    BY <1>2 DEF KidsInv
  <2> QED BY <1>1, <1>12, <1>13 DEF IInv, KidsInv
<1>18. PlaceInv'
  <2> SUFFICES ASSUME NEW m \in alloc' \ {Root}
               PROVE  Contains(kids[owner'[m]], m) \/ InHands(m)'
    BY <1>2 DEF PlaceInv
  <2>1. CASE m = c
    BY <1>12, <2>1
  <2>2. CASE m # c
    <3>1. m \in alloc \ {Root} /\ owner'[m] = owner[m]
      BY <1>1, <1>13, <2>2
    <3> QED BY <1>12, <3>1 DEF IInv, PlaceInv
  <2> QED BY <2>1, <2>2
<1>19. UniqueInv'
  <2>1. \A i, j \in Calls : Holds(i)' /\ Holds(j)' /\ stack'[i].mod = stack'[j].mod => i = j
    BY <1>10 DEF IInv, UniqueInv
  <2>2. \A i \in Calls : Holds(i)' => stack'[i].mod # stack'[n + 1].mod
    BY <1>10, <1>11
  <2> QED BY <1>11, <2>1, <2>2 DEF UniqueInv
<1>20. n > 0 => Base' = Base /\ Base # c
  <2> HAVE n > 0
  <2>1. 1 \in Calls
    BY <1>10
  <2>2. Base' = Base
    BY <1>10, <1>13, <2>1 DEF Base
  <2>3. Base # c
    <3>1. CASE Holds(1) /\ stack[1].mod = Root
      BY <3>1, ModuleLoaderAssumption DEF IInv, RootInv, Base
    <3>2. CASE Holds(1) /\ stack[1].mod # Root
      BY <1>10, <2>1, <3>2, TypeFacts DEF IInv, OwnerInv, Base
    <3>3. CASE ~ Holds(1)
      BY <1>10, <2>1, <3>3 DEF Base
    <3> QED BY <3>1, <3>2, <3>3
  <2> QED BY <2>2, <2>3
<1>21. ChainInv'
  <2> SUFFICES ASSUME NEW i \in Calls'
               PROVE  IF Holds(i)' THEN Known(owner[stack[i].mod], i)' /\ stack'[i].mod # Base'
                                   ELSE Known(stack[i].mod, i)'
    BY DEF ChainInv
  <2>1. CASE i \in Calls
    <3>1. n > 0 /\ \A k \in 1 .. i - 1 : k \in Calls
      BY <1>10, <2>1
    <3>2. IF Holds(i) THEN Known(owner[stack[i].mod], i) /\ stack[i].mod # Base
                      ELSE Known(stack[i].mod, i)
      BY <2>1 DEF IInv, ChainInv
    <3>3. PICK m : m = IF Holds(i) THEN owner[stack[i].mod] ELSE stack[i].mod
      OBVIOUS
    <3>4. m = IF Holds(i)' THEN owner'[stack'[i].mod] ELSE stack'[i].mod
      BY <1>10, <1>13, <2>1, <3>3
    <3>5. m = Base' \/ \E k \in 1 .. i - 1 : Holds(k)' /\ stack'[k].mod = m
      BY <1>10, <1>20, <3>1, <3>2, <3>3 DEF Known
    <3> QED BY <1>10, <1>20, <2>1, <3>1, <3>2, <3>4, <3>5 DEF Known
  <2>2. CASE i = n + 1
    <3>1. owner'[stack'[n + 1].mod] = p
      BY <1>9, <1>11
    <3>2. CASE n = 0
      <4>1. Base' = p
        BY <1>11, <3>1, <3>2 DEF Base
      <4> QED BY <1>5, <1>11, <2>2, <3>1, <4>1 DEF Known
    <3>3. CASE n > 0
      <4>1. Known(p, n + 1)
        BY <1>4, <3>3
      <4>2. \A k \in 1 .. (n + 1) - 1 : k \in Calls
        BY <1>10
      <4>3. p = Base' \/ \E k \in 1 .. (n + 1) - 1 : Holds(k)' /\ stack'[k].mod = p
        BY <1>10, <1>20, <3>3, <4>1, <4>2 DEF Known
      <4> QED BY <1>11, <1>20, <2>2, <3>1, <3>3, <4>3 DEF Known
    <3>4. n = 0 \/ n > 0
      OBVIOUS
    <3> QED BY <3>2, <3>3, <3>4
  <2> QED BY <1>11, <2>1, <2>2
<1>22. RevokeInv'
  <2> SUFFICES ASSUME NEW i \in Calls', stack'[i].op = "revoke", i > 1
               PROVE  (Holds(i - 1) \/ Starting(i - 1))' /\ stack'[i - 1].mod = stack'[i].mod
    BY DEF RevokeInv
  <2>1. i \in Calls
    BY <1>11
  <2>2. i - 1 \in Calls
    BY <1>10, <2>1
  <2> QED BY <1>10, <2>1, <2>2 DEF IInv, RevokeInv, Starting
<1>23. StopAnswersStart'
  <2>1. ~ At(c, {"stopping"}) /\ ~ At(c, {"close"}) /\ c \notin started
    BY <1>10, TypeFacts DEF At
  <2> QED BY <1>1, <1>2, <1>8, <1>9, <2>1 DEF IInv, StopAnswersStart
<1> QED BY <1>8, <1>14, <1>15, <1>16, <1>17, <1>18, <1>19, <1>21, <1>22, <1>23 DEF IInv

------------------------------------------------------------------------------
(* Steps inside the load or the destroy on top of the stack. *)

\* The places that only a destroy has.
LEMMA DestroyPlaces ==
  ASSUME IInv, NEW i \in Calls, stack[i].at \in {"stop", "method", "stopping", "close"}
  PROVE  stack[i].op = "destroy" /\ Holds(i)
<1>1. /\ stack[i].at \in Places[stack[i].op]
      /\ stack[i].op \in Ops
  BY TypeFacts
<1> QED BY <1>1, PlacesFacts DEF Holds, Ops

\* The call on top goes on, and a revocation may come on top of it.
LEMMA MoveKeeps ==
  ASSUME IInv, NEW n \in Nat, n = Len(stack), n > 0, Holds(n), stack' \in Seq(Frame),
         Len(stack') \in {n, n + 1},
         \A i \in 1 .. n : i < n => /\ stack'[i].op = stack[i].op /\ stack'[i].at = stack[i].at
                                    /\ stack'[i].mod = stack[i].mod,
         stack'[n].mod = stack[n].mod,
         \/ stack'[n].op = stack[n].op
         \/ stack[n].op = "load" /\ stack'[n].op = "destroy",
         stack'[n].at \in Places[stack'[n].op],
         Len(stack') = n + 1 => stack'[n + 1] = Call("revoke", stack[n].mod, "loop"),
         UNCHANGED <<alloc, owner, kids, loader>>,
         image \subseteq image', started' \subseteq started,
         stack'[n].op = "load" /\ stack'[n].at \in {"lookup", "start", "starting"} =>
             stack[n].mod \in image',
         stack'[n].op = "destroy" =>
             /\ stack'[n].at \in {"stopping", "close"} => stack[n].mod \notin loader
             /\ stack'[n].at = "method" /\ Len(stack') = n => stack[n].mod \notin loader
  PROVE  /\ CallsInv' /\ StackInv' /\ LoadInv' /\ DestroyInv'
         /\ \A i \in DOMAIN stack' :
               stack'[i].mod \in alloc' /\ stack'[i].at \in Places[stack'[i].op]
         /\ \A m : /\ At(m, {"stopping"})' <=> IF m = stack[n].mod THEN stack'[n].at = "stopping"
                                               ELSE At(m, {"stopping"})
                   /\ At(m, {"close"})' <=> IF m = stack[n].mod THEN stack'[n].at = "close"
                                            ELSE At(m, {"close"})
<1>1. /\ Calls = 1 .. n /\ Calls' = 1 .. Len(stack') /\ DOMAIN stack = 1 .. n
      /\ DOMAIN stack' = 1 .. Len(stack') /\ n \in Calls /\ n \in Calls'
      /\ \A i \in Calls' : i \in Calls \/ (i = n + 1 /\ Len(stack') = n + 1)
      /\ \A i \in Calls : i \in Calls' /\ (i < n \/ i = n)
  BY TypeFacts DEF Calls
<1>2. Len(stack') = n + 1 => /\ stack'[n + 1].op = "revoke" /\ stack'[n + 1].at = "loop"
                             /\ stack'[n + 1].mod = stack[n].mod
  BY DEF Call
<1>3. CallsInv'
  <2>1. \A i \in 1 .. n :
             /\ stack'[i].mod = stack[i].mod
             /\ \/ stack'[i].op = stack[i].op
                \/ stack[i].op = "load" /\ stack'[i].op = "destroy"
    BY <1>1
  <2>2. PICK m : m = stack[n].mod
    OBVIOUS
  <2>3. Known(m, n + 1)
    <3>1. n \in 1 .. (n + 1) - 1
      OBVIOUS
    <3> QED BY <2>2, <3>1 DEF Known
  <2>4. Len(stack') = n + 1 =>
             /\ stack'[n + 1].op \in {"revoke", "unload"}
             /\ n = 0 \/ Known(stack'[n + 1].mod, n + 1)
             /\ stack'[n + 1].op = "revoke" /\ n > 0 =>
                   Holds(n) /\ stack[n].mod = stack'[n + 1].mod
    <3> HAVE Len(stack') = n + 1
    <3>1. stack'[n + 1].mod = m
      BY <1>2, <2>2
    <3> QED BY <1>2, <2>3, <3>1
  <2> QED BY <2>1, <2>4, ShapeKeeps
<1>4. LoadInv'
  <2> SUFFICES ASSUME NEW i \in Calls', stack'[i].op \in {"load", "start"}
               PROVE  /\ stack'[i].mod \notin started'
                      /\ stack'[i].at \in {"lookup", "start", "starting"} => stack'[i].mod \in image'
                      /\ stack'[i].op = "start" => i = 1 /\ stack'[i].mod = Root
    BY DEF LoadInv
  <2>1. CASE i = n
    <3>1. stack'[n].op = stack[n].op /\ stack[n].op = "load"
      BY <2>1 DEF Holds
    <3> QED BY <1>1, <2>1, <3>1 DEF IInv, LoadInv
  <2>2. CASE i \in Calls /\ i # n
    <3>1. i \in 1 .. n /\ i < n
      BY <1>1, <2>2
    <3> QED BY <2>2, <3>1 DEF IInv, LoadInv
  <2> QED BY <1>1, <1>2, <2>1, <2>2
<1>5. DestroyInv'
  <2> SUFFICES ASSUME NEW i \in Calls', stack'[i].op = "destroy"
               PROVE  /\ stack'[i].at \in {"stopping", "close"} => stack'[i].mod \notin loader'
                      /\ stack'[i].at = "method" =>
                            IF i = Len(stack') THEN stack'[i].mod \notin loader'
                            ELSE stack'[i + 1].op = "revoke" /\ stack'[i + 1].mod = stack'[i].mod
    BY DEF DestroyInv
  <2>1. CASE i = n
    BY <1>2, <2>1
  <2>2. CASE i = n + 1
    <3>1. i \notin Calls
      <4>1. Calls = 1 .. n
        BY <1>1
      <4>2. n + 1 \notin 1 .. n
        OBVIOUS
      <4> QED BY <2>2, <4>1, <4>2
    <3>2. stack'[i].op = "revoke"
      BY <1>1, <1>2, <2>2, <3>1
    <3> QED BY <3>2
  <2>3. CASE i \in Calls /\ i < n
    <3>1. i \in 1 .. n /\ i # Len(stack) /\ i # Len(stack') /\ i + 1 \in 1 .. n
      <4>1. i \in 1 .. n /\ i < n
        BY <1>1, <2>3
      <4>2. i # n /\ i # n + 1 /\ i + 1 \in 1 .. n
        BY <4>1
      <4> QED BY <4>1, <4>2
    <3>5. /\ stack[i].op = "destroy" /\ stack[i].at = stack'[i].at
          /\ stack[i].mod = stack'[i].mod /\ i + 1 \in Calls
      BY <1>1, <2>3, <3>1
    <3>2. /\ stack[i].at \in {"stopping", "close"} => stack[i].mod \notin loader
          /\ stack[i].at = "method" =>
                stack[i + 1].op = "revoke" /\ stack[i + 1].mod = stack[i].mod
      BY <2>3, <3>1, <3>5 DEF IInv, DestroyInv
    <3>3. CASE i + 1 = n
      BY <3>1, <3>2, <3>3, <3>5 DEF Holds
    <3>4. CASE i + 1 < n
      BY <3>1, <3>2, <3>4, <3>5
    <3>6. i + 1 = n \/ i + 1 < n
      BY <3>1
    <3> QED BY <3>3, <3>4, <3>6
  <2> QED BY <1>1, <2>1, <2>2, <2>3
<1>6. \A i \in Calls' : stack'[i].mod \in alloc' /\ stack'[i].at \in Places[stack'[i].op]
  <2> SUFFICES ASSUME NEW i \in Calls'
               PROVE  stack'[i].mod \in alloc /\ stack'[i].at \in Places[stack'[i].op]
    OBVIOUS
  <2>1. stack[n].mod \in alloc
    BY <1>1, TypeFacts
  <2>2. CASE i \notin Calls
    <3>1. /\ stack'[i].op = "revoke" /\ stack'[i].at = "loop"
          /\ stack'[i].mod = stack[n].mod
      BY <1>1, <1>2, <2>2
    <3> QED BY <2>1, <3>1, PlacesFacts
  <2>3. CASE i = n
    BY <2>1, <2>3
  <2>4. CASE i \in Calls /\ i < n
    <3>1. stack[i].mod \in alloc /\ stack[i].at \in Places[stack[i].op]
      BY <2>4, TypeFacts
    <3>2. i \in 1 .. n
      BY <1>1, <2>4
    <3> QED BY <2>4, <3>1, <3>2
  <2> QED BY <1>1, <2>2, <2>3, <2>4
<1>7. ASSUME NEW m, NEW place \in {"stopping", "close"}
      PROVE  At(m, {place})' <=> IF m = stack[n].mod THEN stack'[n].at = place
                                 ELSE At(m, {place})
  <2>1. \A i \in Calls : i < n /\ stack[i].at = place => stack[i].mod # stack[n].mod
    <3> SUFFICES ASSUME NEW i \in Calls, i < n, stack[i].at = place,
                        stack[i].mod = stack[n].mod
                 PROVE  FALSE
      OBVIOUS
    <3>1. Holds(i)
      BY DestroyPlaces
    <3>2. i = n
      BY <1>1, <3>1 DEF IInv, UniqueInv
    <3> QED BY <3>2
  <2>2. At(m, {place})' <=> \E i \in Calls' : stack'[i].mod = m /\ stack'[i].at = place
    BY <1>1 DEF At
  <2>3. At(m, {place}) <=> \E i \in Calls : stack[i].mod = m /\ stack[i].at = place
    BY <1>1 DEF At
  <2>4. \A i \in Calls' : i \notin Calls => stack'[i].at # place
    BY <1>1, <1>2
  <2>5. \A i \in Calls : /\ i # n => stack'[i].at = stack[i].at /\ i < n
                         /\ stack'[i].mod = stack[i].mod
    BY <1>1
  <2>6. n \in Calls /\ n \in Calls' /\ \A i \in Calls : i \in Calls'
    BY <1>1
  <2>7. ASSUME m = stack[n].mod, NEW i \in Calls', stack'[i].mod = m, stack'[i].at = place
        PROVE  i = n
    BY <2>1, <2>4, <2>5, <2>7
  <2>8. CASE m = stack[n].mod
    BY <2>2, <2>5, <2>6, <2>7, <2>8
  <2>9. ASSUME m # stack[n].mod, NEW i \in Calls', stack'[i].mod = m, stack'[i].at = place
        PROVE  i \in Calls /\ stack[i].mod = m /\ stack[i].at = place
    BY <2>4, <2>5, <2>9
  <2>10. ASSUME m # stack[n].mod, NEW i \in Calls, stack[i].mod = m, stack[i].at = place
         PROVE  i \in Calls' /\ stack'[i].mod = m /\ stack'[i].at = place
    BY <2>5, <2>6, <2>10
  <2>11. CASE m # stack[n].mod
    BY <2>2, <2>3, <2>9, <2>10, <2>11
  <2> QED BY <2>8, <2>11
<1> QED BY <1>1, <1>3, <1>4, <1>5, <1>6, <1>7 DEF StackInv

\* The call on top goes to another of its places and the lists stay.
LEMMA GoToKeeps ==
  ASSUME IInv, NEW op \in {"load", "destroy"}, NEW from, Running(op, from),
         NEW at \in PlaceNames, GoTo(at), at \in Places[op],
         UNCHANGED <<alloc, owner, kids, loader>>,
         image \subseteq image', started' \subseteq started,
         op = "load" /\ at \in {"lookup", "start", "starting"} => Mod \in image',
         op = "destroy" => at \in {"stopping", "close"} /\ Mod \notin loader
  PROVE  /\ CallsInv' /\ StackInv' /\ LoadInv' /\ DestroyInv'
         /\ \A i \in DOMAIN stack' :
               stack'[i].mod \in alloc' /\ stack'[i].at \in Places[stack'[i].op]
         /\ \A m : /\ At(m, {"stopping"})' <=> IF m = Mod THEN at = "stopping"
                                               ELSE At(m, {"stopping"})
                   /\ At(m, {"close"})' <=> IF m = Mod THEN at = "close"
                                            ELSE At(m, {"close"})
<1>1. PICK n \in Nat : n = Len(stack)
  BY TypeFacts
<1>2. /\ ~ Idle /\ n > 0 /\ n \in Calls /\ stack[n].op = op /\ stack[n].mod = Mod
      /\ Calls = 1 .. n /\ Holds(n) /\ StackInv
  BY <1>1, RunningFacts, TypeFacts DEF Holds, IInv
<1>3. /\ stack' \in Seq(Frame) /\ Len(stack') = n
      /\ \A i \in Calls : /\ stack'[i].op = stack[i].op /\ stack'[i].mod = stack[i].mod
                          /\ stack'[i].at = IF i = n THEN at ELSE stack[i].at
  BY <1>1, <1>2, GoToFacts
<1>4. \A i \in 1 .. n : i < n => /\ stack'[i].op = stack[i].op /\ stack'[i].at = stack[i].at
                                 /\ stack'[i].mod = stack[i].mod
  BY <1>2, <1>3
<1>5. stack'[n].op = op /\ stack'[n].mod = stack[n].mod /\ stack'[n].at = at
  BY <1>2, <1>3
<1>6. Len(stack') \in {n, n + 1} /\ Len(stack') # n + 1
  BY <1>3
<1>7. /\ CallsInv' /\ StackInv' /\ LoadInv' /\ DestroyInv'
      /\ \A i \in DOMAIN stack' :
            stack'[i].mod \in alloc' /\ stack'[i].at \in Places[stack'[i].op]
      /\ \A m : /\ At(m, {"stopping"})' <=> IF m = stack[n].mod THEN stack'[n].at = "stopping"
                                            ELSE At(m, {"stopping"})
                /\ At(m, {"close"})' <=> IF m = stack[n].mod THEN stack'[n].at = "close"
                                         ELSE At(m, {"close"})
  BY <1>1, <1>2, <1>3, <1>4, <1>5, <1>6, MoveKeeps
<1> QED BY <1>2, <1>5, <1>7

\* The same with the module's loader revoked.
LEMMA RevokeThenKeeps ==
  ASSUME IInv, NEW op \in {"load", "destroy"}, NEW from, Running(op, from),
         NEW at \in {"undo", "method"}, at \in Places[op], RevokeThen(at),
         UNCHANGED <<alloc, owner, kids, loader, image>>, started' \subseteq started
  PROVE  /\ CallsInv' /\ StackInv' /\ LoadInv' /\ DestroyInv'
         /\ \A i \in DOMAIN stack' :
               stack'[i].mod \in alloc' /\ stack'[i].at \in Places[stack'[i].op]
         /\ \A m : /\ At(m, {"stopping"})' <=> m # Mod /\ At(m, {"stopping"})
                   /\ At(m, {"close"})' <=> m # Mod /\ At(m, {"close"})
<1>1. PICK n \in Nat : n = Len(stack)
  BY TypeFacts
<1>2. /\ ~ Idle /\ n > 0 /\ n \in Calls /\ stack[n].op = op /\ stack[n].mod = Mod
      /\ Calls = 1 .. n /\ Holds(n) /\ StackInv /\ at \in PlaceNames
  BY <1>1, RunningFacts, TypeFacts DEF Holds, IInv, PlaceNames
<1>3. /\ stack' \in Seq(Frame)
      /\ Len(stack') = IF Mod \in loader THEN n + 1 ELSE n
      /\ \A i \in Calls : /\ stack'[i].op = stack[i].op /\ stack'[i].mod = stack[i].mod
                          /\ stack'[i].at = IF i = n THEN at ELSE stack[i].at
      /\ Mod \in loader => stack'[n + 1] = Call("revoke", Mod, "loop")
  BY <1>1, <1>2, RevokeThenFacts
<1>4. \A i \in 1 .. n : i < n => /\ stack'[i].op = stack[i].op /\ stack'[i].at = stack[i].at
                                 /\ stack'[i].mod = stack[i].mod
  BY <1>2, <1>3
<1>5. stack'[n].op = op /\ stack'[n].mod = stack[n].mod /\ stack'[n].at = at
  BY <1>2, <1>3
<1>6. /\ Len(stack') \in {n, n + 1} /\ (Len(stack') = n => stack[n].mod \notin loader)
      /\ Len(stack') = n + 1 => stack'[n + 1] = Call("revoke", stack[n].mod, "loop")
  BY <1>2, <1>3
<1>7. /\ CallsInv' /\ StackInv' /\ LoadInv' /\ DestroyInv'
      /\ \A i \in DOMAIN stack' :
            stack'[i].mod \in alloc' /\ stack'[i].at \in Places[stack'[i].op]
      /\ \A m : /\ At(m, {"stopping"})' <=> IF m = stack[n].mod THEN stack'[n].at = "stopping"
                                            ELSE At(m, {"stopping"})
                /\ At(m, {"close"})' <=> IF m = stack[n].mod THEN stack'[n].at = "close"
                                         ELSE At(m, {"close"})
  BY <1>1, <1>2, <1>3, <1>4, <1>5, <1>6, MoveKeeps
<1> QED BY <1>2, <1>5, <1>7

LEMMA LoadOpenKeeps ==
  ASSUME IInv, LoadOpen
  PROVE  IInv'
<1>1. /\ Running("load", "open") /\ UNCHANGED <<alloc, owner, loader, kids, started, life>>
      /\ \/ image' = image \cup {Mod} /\ GoTo("lookup")
         \/ image' = image /\ GoTo("undo")
  BY DEF LoadOpen
<1>2. /\ stack[Len(stack)].op = "load" /\ stack[Len(stack)].at = "open"
      /\ stack[Len(stack)].mod = Mod /\ Mod \in alloc /\ Len(stack) \in Calls
  BY <1>1, RunningFacts
<1>3. PICK at \in {"lookup", "undo"} :
        /\ GoTo(at) /\ image \subseteq image' /\ image' \subseteq alloc
        /\ at = "lookup" => Mod \in image'
  BY <1>1, <1>2, TypeFacts
<1>4. at \in Places["load"] /\ at \in PlaceNames
  BY PlacesFacts DEF PlaceNames
<1>5. /\ CallsInv' /\ StackInv' /\ LoadInv' /\ DestroyInv'
      /\ \A i \in DOMAIN stack' :
            stack'[i].mod \in alloc' /\ stack'[i].at \in Places[stack'[i].op]
      /\ \A m : /\ At(m, {"stopping"})' <=> IF m = Mod THEN at = "stopping"
                                            ELSE At(m, {"stopping"})
                /\ At(m, {"close"})' <=> IF m = Mod THEN at = "close" ELSE At(m, {"close"})
  BY <1>1, <1>3, <1>4, GoToKeeps
<1>6. TypeOK'
  BY <1>1, <1>3, <1>5 DEF IInv, TypeOK
<1>7. OwnerInv'
  BY <1>1, <1>3 DEF IInv, OwnerInv
<1>8. StopAnswersStart'
  <2>1. \A m : (At(m, {"stopping"})' => At(m, {"stopping"})) /\ (At(m, {"close"})' => At(m, {"close"}))
    BY <1>5
  <2> QED BY <1>1, <2>1 DEF IInv, StopAnswersStart
<1> QED BY <1>5, <1>6, <1>7, <1>8 DEF IInv, CallsInv

\* Lookup and start go on without a change of the tree.
LEMMA LoadGoesOn ==
  ASSUME IInv, NEW from \in {"lookup", "start"}, Running("load", from),
         NEW at \in {"start", "starting", "undo"}, GoTo(at),
         UNCHANGED <<alloc, owner, image, loader, kids, started, life>>
  PROVE  IInv'
<1>1. /\ stack[Len(stack)].op = "load" /\ stack[Len(stack)].at = from
      /\ stack[Len(stack)].mod = Mod /\ Len(stack) \in Calls
  BY RunningFacts
<1>2. Mod \in image
  BY <1>1 DEF IInv, LoadInv
<1>3. at \in Places["load"] /\ at \in PlaceNames
  BY PlacesFacts DEF PlaceNames
<1>4. /\ CallsInv' /\ StackInv' /\ LoadInv' /\ DestroyInv'
      /\ \A i \in DOMAIN stack' :
            stack'[i].mod \in alloc' /\ stack'[i].at \in Places[stack'[i].op]
      /\ \A m : /\ At(m, {"stopping"})' <=> IF m = Mod THEN at = "stopping"
                                            ELSE At(m, {"stopping"})
                /\ At(m, {"close"})' <=> IF m = Mod THEN at = "close" ELSE At(m, {"close"})
  BY <1>2, <1>3, GoToKeeps
<1>5. TypeOK' /\ OwnerInv'
  BY <1>4 DEF IInv, TypeOK, OwnerInv
<1>6. StopAnswersStart'
  <2>1. \A m : (At(m, {"stopping"})' => At(m, {"stopping"})) /\ (At(m, {"close"})' => At(m, {"close"}))
    BY <1>4
  <2> QED BY <2>1 DEF IInv, StopAnswersStart
<1> QED BY <1>4, <1>5, <1>6 DEF IInv, CallsInv

LEMMA LoadLookupKeeps ==
  ASSUME IInv, LoadLookup
  PROVE  IInv'
BY LoadGoesOn DEF LoadLookup, tree

LEMMA StartRefusesKeeps ==
  ASSUME IInv, StartRefuses
  PROVE  IInv'
<1>1. /\ Running("load", "starting") /\ started' = started
      /\ life' = [life EXCEPT ![Mod] = "refused"] /\ RevokeThen("undo")
      /\ UNCHANGED <<alloc, owner, image, loader, kids>>
  BY DEF StartRefuses, tree
<1>2. /\ stack[Len(stack)].op = "load" /\ stack[Len(stack)].mod = Mod
      /\ Len(stack) \in Calls /\ Mod \in Modules /\ Mod \in alloc
  BY <1>1, RunningFacts
<1>3. "undo" \in Places["load"]
  BY PlacesFacts
<1>4. /\ CallsInv' /\ StackInv' /\ LoadInv' /\ DestroyInv'
      /\ \A i \in DOMAIN stack' :
            stack'[i].mod \in alloc' /\ stack'[i].at \in Places[stack'[i].op]
      /\ \A m : /\ At(m, {"stopping"})' <=> m # Mod /\ At(m, {"stopping"})
                /\ At(m, {"close"})' <=> m # Mod /\ At(m, {"close"})
  BY <1>1, <1>3, RevokeThenKeeps
<1>5. Mod \notin started
  BY <1>2 DEF IInv, LoadInv
<1>6. \A m \in Modules : life'[m] = IF m = Mod THEN "refused" ELSE life[m]
  BY <1>1, TypeFacts
<1>7. TypeOK'
  <2>1. life' \in [Modules -> {"none", "new", "refused", "up", "stopped", "skipped"}]
    BY <1>1, TypeFacts
  <2> QED BY <1>1, <1>4, <2>1 DEF IInv, TypeOK
<1>8. OwnerInv'
  BY <1>1 DEF IInv, OwnerInv
<1>9. StopAnswersStart'
  BY <1>1, <1>2, <1>4, <1>5, <1>6 DEF IInv, StopAnswersStart
<1> QED BY <1>4, <1>7, <1>8, <1>9 DEF IInv, CallsInv

LEMMA LoadUndoKeeps ==
  ASSUME IInv, LoadUndo
  PROVE  IInv'
<1>1. /\ Running("load", "undo")
      /\ stack' = Append(Front(stack), Call("destroy", Mod, "stop"))
      /\ UNCHANGED <<alloc, owner, image, loader, kids, started, life>>
  BY DEF LoadUndo, tree
<1>2. PICK n \in Nat : n = Len(stack)
  BY TypeFacts
<1>3. /\ ~ Idle /\ n > 0 /\ n \in Calls /\ stack[n].op = "load" /\ stack[n].mod = Mod
      /\ Mod \in Modules /\ Calls = 1 .. n /\ Holds(n) /\ StackInv
  BY <1>1, <1>2, RunningFacts, TypeFacts DEF Holds, IInv
<1>4. PICK f \in Frame : /\ f.op = "destroy" /\ f.mod = Mod /\ f.at = "stop"
                         /\ stack' = Append(Front(stack), f)
  <2>1. Call("destroy", Mod, "stop") \in Frame
    BY <1>3 DEF Call, Frame, Ops, PlaceNames
  <2> QED BY <1>1, <2>1 DEF Call
<1>5. /\ stack' \in Seq(Frame) /\ Len(stack') = n
      /\ \A i \in Calls : stack'[i] = IF i = n THEN f ELSE stack[i]
  <2>1. PICK q : q = stack'
    OBVIOUS
  <2>2. /\ q \in Seq(Frame) /\ Len(q) = Len(stack)
        /\ \A i \in Calls : q[i] = IF i = Len(stack) THEN f ELSE stack[i]
    <3>1. StackInv /\ ~ Idle
      BY <1>3
    <3>2. f \in Frame /\ q = Append(Front(stack), f)
      BY <1>4, <2>1
    <3> QED BY ONLY <3>1, <3>2, ReplaceFacts
  <2> QED BY <1>2, <2>1, <2>2
<1>6. \A i \in 1 .. n : i < n => /\ stack'[i].op = stack[i].op /\ stack'[i].at = stack[i].at
                                 /\ stack'[i].mod = stack[i].mod
  BY <1>3, <1>5
<1>7. /\ stack'[n].op = "destroy" /\ stack'[n].mod = stack[n].mod /\ stack'[n].at = "stop"
      /\ stack'[n].at \in Places[stack'[n].op]
  BY <1>3, <1>4, <1>5, PlacesFacts
<1>8. Len(stack') \in {n, n + 1} /\ Len(stack') # n + 1
  BY <1>5
<1>9. /\ CallsInv' /\ StackInv' /\ LoadInv' /\ DestroyInv'
      /\ \A i \in DOMAIN stack' :
            stack'[i].mod \in alloc' /\ stack'[i].at \in Places[stack'[i].op]
      /\ \A m : /\ At(m, {"stopping"})' <=> IF m = stack[n].mod THEN stack'[n].at = "stopping"
                                            ELSE At(m, {"stopping"})
                /\ At(m, {"close"})' <=> IF m = stack[n].mod THEN stack'[n].at = "close"
                                         ELSE At(m, {"close"})
  BY <1>1, <1>2, <1>3, <1>5, <1>6, <1>7, <1>8, MoveKeeps
<1>10. TypeOK' /\ OwnerInv'
  BY <1>1, <1>9 DEF IInv, TypeOK, OwnerInv
<1>11. StopAnswersStart'
  <2>1. \A m : (At(m, {"stopping"})' => At(m, {"stopping"})) /\ (At(m, {"close"})' => At(m, {"close"}))
    BY <1>7, <1>9
  <2> QED BY <1>1, <2>1 DEF IInv, StopAnswersStart
<1> QED BY <1>9, <1>10, <1>11 DEF IInv, CallsInv

LEMMA DestroyStopKeeps ==
  ASSUME IInv, DestroyStop
  PROVE  IInv'
<1>1. /\ Running("destroy", "stop") /\ RevokeThen("method")
      /\ UNCHANGED <<alloc, owner, image, loader, kids, started, life>>
  BY DEF DestroyStop, tree
<1>2. "method" \in Places["destroy"]
  BY PlacesFacts
<1>3. /\ CallsInv' /\ StackInv' /\ LoadInv' /\ DestroyInv'
      /\ \A i \in DOMAIN stack' :
            stack'[i].mod \in alloc' /\ stack'[i].at \in Places[stack'[i].op]
      /\ \A m : /\ At(m, {"stopping"})' <=> m # Mod /\ At(m, {"stopping"})
                /\ At(m, {"close"})' <=> m # Mod /\ At(m, {"close"})
  BY <1>1, <1>2, RevokeThenKeeps
<1>4. TypeOK' /\ OwnerInv'
  BY <1>1, <1>3 DEF IInv, TypeOK, OwnerInv
<1>5. StopAnswersStart'
  BY <1>1, <1>3 DEF IInv, StopAnswersStart
<1> QED BY <1>3, <1>4, <1>5 DEF IInv, CallsInv

\* A destroy whose children are gone goes to the method or past it.
LEMMA StoppedKeeps ==
  ASSUME IInv, NEW from \in {"method", "stopping"}, Running("destroy", from),
         NEW how \in {"stopped", "skipped"},
         \/ MustStop /\ GoTo("stopping") /\ UNCHANGED <<started, life>>
         \/ Stopped(how) /\ (how = "skipped" => ~ MustStop),
         UNCHANGED <<alloc, owner, image, loader, kids>>
  PROVE  IInv'
<1>1. /\ stack[Len(stack)].op = "destroy" /\ stack[Len(stack)].at = from
      /\ stack[Len(stack)].mod = Mod
      /\ Len(stack) \in Calls /\ Mod \in Modules /\ Mod \in alloc
  BY RunningFacts
<1>2. Mod \notin loader
  BY <1>1 DEF IInv, DestroyInv
<1>3. PICK at \in {"stopping", "close"} :
        /\ GoTo(at)
        /\ at = "stopping" => MustStop /\ UNCHANGED <<started, life>>
        /\ at = "close" => /\ started' = started \ {Mod}
                           /\ life' = [life EXCEPT ![Mod] = IF @ = "up" THEN how ELSE @]
                           /\ how = "skipped" => ~ MustStop
  BY DEF Stopped
<1>4. at \in Places["destroy"] /\ at \in PlaceNames /\ started' \subseteq started
  BY <1>3, PlacesFacts DEF PlaceNames
<1>5. /\ CallsInv' /\ StackInv' /\ LoadInv' /\ DestroyInv'
      /\ \A i \in DOMAIN stack' :
            stack'[i].mod \in alloc' /\ stack'[i].at \in Places[stack'[i].op]
      /\ \A m : /\ At(m, {"stopping"})' <=> IF m = Mod THEN at = "stopping"
                                            ELSE At(m, {"stopping"})
                /\ At(m, {"close"})' <=> IF m = Mod THEN at = "close" ELSE At(m, {"close"})
  BY <1>2, <1>3, <1>4, GoToKeeps
<1>6. life' \in [Modules -> {"none", "new", "refused", "up", "stopped", "skipped"}]
  <2>1. life[Mod] \in {"none", "new", "refused", "up", "stopped", "skipped"}
    BY <1>1, TypeFacts
  <2> QED BY <1>3, <2>1, TypeFacts
<1>7. TypeOK' /\ OwnerInv'
  BY <1>4, <1>5, <1>6 DEF IInv, TypeOK, OwnerInv
<1>8. StopAnswersStart'
  <2>1. CASE at = "stopping"
    BY <1>1, <1>3, <1>5, <2>1 DEF IInv, StopAnswersStart, MustStop
  <2>2. CASE at = "close"
    <3>1. \A m \in Modules : life'[m] = IF m = Mod THEN IF life[Mod] = "up" THEN how ELSE life[Mod]
                                        ELSE life[m]
      BY <1>3, <2>2, TypeFacts
    <3>2. how = "skipped" /\ life[Mod] = "up" => Mod \notin HasStop
      BY <1>1, <1>3, <2>2 DEF IInv, StopAnswersStart, MustStop
    <3> QED BY <1>1, <1>3, <1>5, <2>2, <3>1, <3>2 DEF IInv, StopAnswersStart
  <2> QED BY <2>1, <2>2
<1> QED BY <1>5, <1>7, <1>8 DEF IInv, CallsInv

LEMMA DestroyMethodKeeps ==
  ASSUME IInv, DestroyMethod
  PROVE  IInv'
<1>1. \/ MustStop /\ GoTo("stopping") /\ UNCHANGED <<started, life>>
      \/ Stopped("skipped") /\ ~ MustStop
  BY DEF DestroyMethod
<1>2. Running("destroy", "method") /\ UNCHANGED <<alloc, owner, image, loader, kids>>
  BY DEF DestroyMethod, tree
<1> QED BY <1>1, <1>2, StoppedKeeps

LEMMA StopReturnsKeeps ==
  ASSUME IInv, StopReturns
  PROVE  IInv'
<1>1. /\ Running("destroy", "stopping") /\ Stopped("stopped")
      /\ UNCHANGED <<alloc, owner, image, loader, kids>>
  BY DEF StopReturns, tree
<1> QED BY <1>1, StoppedKeeps

------------------------------------------------------------------------------
(* Steps in which a call returns. *)

\* A load or a destroy returns, and no other call is about its module.
LEMMA PopHolding ==
  ASSUME IInv, NEW n \in Nat, n = Len(stack), n > 0, Holds(n), stack' = Front(stack),
         \A m \in Modules : m # stack[n].mod => owner'[m] = owner[m],
         UNCHANGED loader, image \subseteq image' \cup {stack[n].mod},
         started' \subseteq started \cup {stack[n].mod}
  PROVE  /\ StackInv' /\ UniqueInv' /\ ChainInv' /\ RevokeInv' /\ LoadInv' /\ DestroyInv'
         /\ \A i \in Calls' : i \in Calls /\ stack'[i] = stack[i] /\ stack[i].mod # stack[n].mod
                              /\ (Holds(i)' <=> Holds(i))
         /\ DOMAIN stack' = Calls'
         /\ \A m : InHands(m)' <=> InHands(m) /\ m # stack[n].mod
         /\ \A m : /\ At(m, {"stopping"})' <=> m # stack[n].mod /\ At(m, {"stopping"})
                   /\ At(m, {"close"})' <=> m # stack[n].mod /\ At(m, {"close"})
<1>1. ~ Idle /\ StackInv
  BY DEF Idle, IInv
<1>2. stack' \in Seq(Frame) /\ Len(stack') = n - 1 /\ \A i \in 1 .. n - 1 : stack'[i] = stack[i]
  BY <1>1, FrontFacts
<1>3. /\ Calls = 1 .. n /\ Calls' = 1 .. n - 1 /\ n \in Calls
      /\ DOMAIN stack' = Calls' /\ DOMAIN stack = Calls
  BY <1>1, <1>2 DEF Calls, StackInv
<1>4. \A i \in Calls' : /\ i \in Calls /\ (Holds(i)' <=> Holds(i)) /\ stack'[i] = stack[i]
                        /\ i < n /\ stack[i].mod \in Modules
  <2>1. \A i \in Calls : stack[i].mod \in Modules
    BY TypeFacts
  <2> QED BY <1>2, <1>3, <2>1 DEF Holds
<1>5. \A i \in Calls : i \in Calls' \/ i = n
  BY <1>3
<1>6. \A i \in Calls' : Holds(i) => stack[i].mod # stack[n].mod
  BY <1>3, <1>4 DEF IInv, UniqueInv
<1>7. stack[n].mod # Base
  BY <1>3 DEF IInv, ChainInv
<1>8. \A i \in Calls' : \A k \in 1 .. i - 1 : k \in Calls'
  BY <1>3
<1>9. \A i \in Calls' : stack[i].mod # stack[n].mod
  <2> SUFFICES ASSUME NEW i \in Calls', stack[i].mod = stack[n].mod PROVE FALSE
    OBVIOUS
  <2>1. ~ Holds(i) /\ i \in Calls
    BY <1>4, <1>6
  <2>2. Known(stack[i].mod, i)
    BY <2>1 DEF IInv, ChainInv
  <2>3. PICK k \in 1 .. i - 1 : Holds(k) /\ stack[k].mod = stack[n].mod
    BY <1>7, <2>2 DEF Known
  <2> QED BY <1>6, <1>8, <2>3
<1>10. \A m : InHands(m)' <=> InHands(m) /\ m # stack[n].mod
  <2>1. \A m : InHands(m)' => InHands(m) /\ m # stack[n].mod
    BY <1>4, <1>9 DEF InHands
  <2>2. \A m : InHands(m) /\ m # stack[n].mod => InHands(m)'
    BY <1>4, <1>5 DEF InHands
  <2> QED BY <2>1, <2>2
<1>11. UniqueInv'
  BY <1>4 DEF IInv, UniqueInv
<1>12. \A i \in Calls' : Base' = Base
  <2> SUFFICES ASSUME NEW i \in Calls' PROVE Base' = Base
    OBVIOUS
  <2>1. 1 \in Calls'
    BY <1>3
  <2> QED BY <1>4, <1>9, <2>1 DEF Base
<1>13. ChainInv'
  <2> SUFFICES ASSUME NEW i \in Calls'
               PROVE  IF Holds(i)' THEN Known(owner[stack[i].mod], i)' /\ stack'[i].mod # Base'
                                   ELSE Known(stack[i].mod, i)'
    BY DEF ChainInv
  <2>1. IF Holds(i) THEN Known(owner[stack[i].mod], i) /\ stack[i].mod # Base
                    ELSE Known(stack[i].mod, i)
    BY <1>4 DEF IInv, ChainInv
  <2>2. PICK m : m = IF Holds(i) THEN owner[stack[i].mod] ELSE stack[i].mod
    OBVIOUS
  <2>3. m = IF Holds(i)' THEN owner'[stack'[i].mod] ELSE stack'[i].mod
    BY <1>4, <1>9, <2>2
  <2>4. m = Base' \/ \E k \in 1 .. i - 1 : Holds(k)' /\ stack'[k].mod = m
    BY <1>4, <1>8, <1>12, <2>1, <2>2 DEF Known
  <2> QED BY <1>4, <1>12, <2>1, <2>3, <2>4 DEF Known
<1>14. RevokeInv'
  <2> SUFFICES ASSUME NEW i \in Calls', stack'[i].op = "revoke", i > 1
               PROVE  (Holds(i - 1) \/ Starting(i - 1))' /\ stack'[i - 1].mod = stack'[i].mod
    BY DEF RevokeInv
  <2>1. i - 1 \in Calls'
    BY <1>3
  <2> QED BY <1>4, <2>1 DEF IInv, RevokeInv, Starting
<1>15. LoadInv'
  BY <1>4, <1>9 DEF IInv, LoadInv
<1>16. DestroyInv'
  <2> SUFFICES ASSUME NEW i \in Calls', stack'[i].op = "destroy"
               PROVE  /\ stack'[i].at \in {"stopping", "close"} => stack'[i].mod \notin loader'
                      /\ stack'[i].at = "method" =>
                            IF i = Len(stack') THEN stack'[i].mod \notin loader'
                            ELSE stack'[i + 1].op = "revoke" /\ stack'[i + 1].mod = stack'[i].mod
    BY DEF DestroyInv
  <2>1. /\ stack[i].at \in {"stopping", "close"} => stack[i].mod \notin loader
        /\ stack[i].at = "method" =>
              stack[i + 1].op = "revoke" /\ stack[i + 1].mod = stack[i].mod
    BY <1>4 DEF IInv, DestroyInv
  <2>2. CASE i = Len(stack')
    <3>1. i + 1 = n
      BY <1>2, <2>2
    <3> QED BY <1>4, <2>1, <2>2, <3>1 DEF Holds
  <2>3. CASE i # Len(stack')
    <3>1. i + 1 \in Calls'
      BY <1>2, <1>3, <2>3
    <3> QED BY <1>4, <2>1, <2>3, <3>1
  <2> QED BY <2>2, <2>3
<1>17. ASSUME NEW m, NEW place \in {"stopping", "close"}
       PROVE  At(m, {place})' <=> m # stack[n].mod /\ At(m, {place})
  <2>1. At(m, {place})' <=> \E i \in Calls' : stack'[i].mod = m /\ stack'[i].at = place
    BY <1>3 DEF At
  <2>2. At(m, {place}) <=> \E i \in Calls : stack[i].mod = m /\ stack[i].at = place
    BY <1>3 DEF At
  <2> QED BY <1>4, <1>5, <1>9, <2>1, <2>2
<1> QED BY <1>2, <1>3, <1>4, <1>9, <1>10, <1>11, <1>13, <1>14, <1>15, <1>16, <1>17
        DEF StackInv

\* A child that has started is kept by its loader.
LEMMA KeepKeeps ==
  ASSUME IInv, NEW from \in {"start", "starting"}, Running("load", from), Starts, Keep,
         UNCHANGED <<alloc, owner, image, loader>>
  PROVE  IInv'
<1> DEFINE c == Mod
           p == owner[c]
           q == Append(kids[p], c)
<1>1. PICK n \in Nat : n = Len(stack)
  BY TypeFacts
<1>2. /\ n > 0 /\ n \in Calls /\ stack[n].op = "load" /\ stack[n].at = from
      /\ stack[n].mod = c /\ c \in Modules /\ c \in alloc /\ Holds(n)
  BY <1>1, RunningFacts DEF Holds
<1>3. /\ started' = started \cup {c} /\ life' = [life EXCEPT ![c] = "up"]
      /\ kids' = [kids EXCEPT ![p] = q] /\ stack' = Front(stack)
  BY DEF Starts, Keep, Return
<1> HIDE DEF c
<1>4. c # Root /\ c \in image
  BY <1>2 DEF IInv, RootInv, LoadInv
<1>5. p \in Modules /\ InHands(c)
  BY <1>2, <1>4, TypeFacts DEF IInv, OwnerInv, InHands
<1>6. /\ StackInv' /\ UniqueInv' /\ ChainInv' /\ RevokeInv' /\ LoadInv' /\ DestroyInv'
      /\ \A i \in Calls' : i \in Calls /\ stack'[i] = stack[i] /\ stack[i].mod # c
                           /\ (Holds(i)' <=> Holds(i))
      /\ DOMAIN stack' = Calls'
      /\ \A m : InHands(m)' <=> InHands(m) /\ m # c
      /\ \A m : /\ At(m, {"stopping"})' <=> m # c /\ At(m, {"stopping"})
                /\ At(m, {"close"})' <=> m # c /\ At(m, {"close"})
  <2>1. /\ \A m \in Modules : m # stack[n].mod => owner'[m] = owner[m]
        /\ image \subseteq image' \cup {stack[n].mod}
        /\ started' \subseteq started \cup {stack[n].mod}
    BY <1>2, <1>3
  <2>2. /\ StackInv' /\ UniqueInv' /\ ChainInv' /\ RevokeInv' /\ LoadInv' /\ DestroyInv'
        /\ \A i \in Calls' : i \in Calls /\ stack'[i] = stack[i] /\ stack[i].mod # stack[n].mod
                             /\ (Holds(i)' <=> Holds(i))
        /\ DOMAIN stack' = Calls'
        /\ \A m : InHands(m)' <=> InHands(m) /\ m # stack[n].mod
        /\ \A m : /\ At(m, {"stopping"})' <=> m # stack[n].mod /\ At(m, {"stopping"})
                  /\ At(m, {"close"})' <=> m # stack[n].mod /\ At(m, {"close"})
    BY <1>1, <1>2, <1>3, <2>1, PopHolding
  <2> QED BY <1>2, <2>2
<1>7. /\ kids[p] \in Seq(Modules) /\ ~ Contains(kids[p], c)
      /\ \A i, j \in 1 .. Len(kids[p]) : kids[p][i] = kids[p][j] => i = j
  BY <1>2, <1>5, TypeFacts DEF IInv, KidsInv
<1>8. /\ q \in Seq(Modules) /\ \A i, j \in 1 .. Len(q) : q[i] = q[j] => i = j
      /\ \A x : Contains(q, x) <=> Contains(kids[p], x) \/ x = c
  <2>1. PICK s, m : s = kids[p] /\ m = c
    OBVIOUS
  <2>2. /\ s \in Seq(Modules) /\ m \in Modules /\ ~ Contains(s, m)
        /\ \A i, j \in 1 .. Len(s) : s[i] = s[j] => i = j
    BY <1>2, <1>7, <2>1
  <2>3. PICK r \in Seq(Modules) :
          /\ r = Append(s, m) /\ \A i, j \in 1 .. Len(r) : r[i] = r[j] => i = j
          /\ \A x : Contains(r, x) <=> Contains(s, x) \/ x = m
    BY <2>2, AppendToList
  <2>4. r = q
    BY <2>1, <2>3
  <2> QED BY <2>1, <2>3, <2>4
<1> HIDE DEF q, p
<1>9. /\ \A x \in Modules : kids'[x] = IF x = p THEN q ELSE kids[x]
      /\ \A m \in Modules : life'[m] = IF m = c THEN "up" ELSE life[m]
      /\ kids' \in [Modules -> Seq(Modules)]
      /\ life' \in [Modules -> {"none", "new", "refused", "up", "stopped", "skipped"}]
  BY <1>2, <1>3, <1>5, <1>8, TypeFacts
<1>10. TypeOK'
  <2>1. \A i \in DOMAIN stack' : stack'[i].mod \in alloc' /\ stack'[i].at \in Places[stack'[i].op]
    BY <1>6, TypeFacts
  <2>2. started' \subseteq alloc'
    BY <1>2, <1>3, TypeFacts
  <2> QED BY <1>9, <2>1, <2>2 DEF IInv, TypeOK
<1>11. RootInv'
  BY <1>6 DEF IInv, RootInv
<1>12. OwnerInv'
  BY <1>3, <1>4 DEF IInv, OwnerInv
<1>13. KidsInv'
  <2> SUFFICES ASSUME NEW x \in Modules
               PROVE  /\ \A i, j \in 1 .. Len(kids'[x]) : kids'[x][i] = kids'[x][j] => i = j
                      /\ \A m \in Modules : Contains(kids'[x], m) =>
                            m \in alloc \ {Root} /\ owner[m] = x /\ ~ InHands(m)'
    BY DEF KidsInv
  <2>1. CASE x = p
    <3>1. kids'[x] = q
      BY <1>9, <2>1
    <3>2. ASSUME NEW m \in Modules, Contains(q, m)
          PROVE  m \in alloc \ {Root} /\ owner[m] = p /\ ~ InHands(m)'
      <4>1. CASE m = c
        BY <1>2, <1>4, <1>6, <4>1 DEF p
      <4>2. CASE m # c
        BY <1>5, <1>6, <1>8, <3>2, <4>2 DEF IInv, KidsInv
      <4> QED BY <4>1, <4>2
    <3> QED BY <1>8, <2>1, <3>1, <3>2
  <2>2. CASE x # p
    BY <1>6, <1>9, <2>2 DEF IInv, KidsInv
  <2> QED BY <2>1, <2>2
<1>14. PlaceInv'
  <2> SUFFICES ASSUME NEW m \in alloc \ {Root}
               PROVE  Contains(kids'[owner[m]], m) \/ InHands(m)'
    BY DEF PlaceInv
  <2>1. owner[m] \in Modules
    BY TypeFacts DEF IInv, OwnerInv
  <2>2. CASE m = c
    BY <1>8, <1>9, <2>1, <2>2 DEF p
  <2>3. CASE m # c
    BY <1>6, <1>8, <1>9, <2>1, <2>3 DEF IInv, PlaceInv
  <2> QED BY <2>2, <2>3
<1>15. StopAnswersStart'
  <2>1. \A m \in Modules : m \in started' <=> m \in started \/ m = c
    BY <1>3
  <2> QED BY <1>2, <1>6, <1>9, <2>1 DEF IInv, StopAnswersStart
<1> QED BY <1>6, <1>10, <1>11, <1>12, <1>13, <1>14, <1>15 DEF IInv

LEMMA LoadStartKeeps ==
  ASSUME IInv, LoadStart
  PROVE  IInv'
<1>1. CASE GoTo("starting") /\ UNCHANGED <<kids, started, life>>
  BY <1>1, LoadGoesOn DEF LoadStart
<1>2. CASE Starts /\ Keep
  BY <1>2, KeepKeeps DEF LoadStart
<1> QED BY <1>1, <1>2 DEF LoadStart

LEMMA StartReturnsKeeps ==
  ASSUME IInv, StartReturns
  PROVE  IInv'
BY KeepKeeps DEF StartReturns

LEMMA DestroyCloseKeeps ==
  ASSUME IInv, DestroyClose
  PROVE  IInv'
<1> DEFINE c == Mod
<1>1. PICK n \in Nat : n = Len(stack)
  BY TypeFacts
<1>2. /\ Running("destroy", "close") /\ image' = image \ {c} /\ alloc' = alloc \ {c}
      /\ owner' = [owner EXCEPT ![c] = Null]
      /\ life' = [life EXCEPT ![c] = IF @ = "up" THEN @ ELSE "none"]
      /\ stack' = Front(stack) /\ UNCHANGED <<started, loader, kids>>
  BY DEF DestroyClose, Return
<1>3. /\ n > 0 /\ n \in Calls /\ stack[n].op = "destroy" /\ stack[n].at = "close"
      /\ stack[n].mod = c /\ c \in Modules /\ c \in alloc /\ Holds(n) /\ Calls = 1 .. n
  BY <1>1, <1>2, RunningFacts, TypeFacts DEF Holds
<1> HIDE DEF c
<1>4. c \notin loader
  BY <1>3 DEF IInv, DestroyInv
<1>5. life[c] # "up" /\ c \notin started
  <2>1. At(c, {"close"})
    <3>1. n \in DOMAIN stack
      BY <1>1, <1>3, TypeFacts
    <3> QED BY <1>3, <3>1 DEF At
  <2> QED BY <1>3, <2>1 DEF IInv, StopAnswersStart
<1>6. /\ \A m \in Modules : owner'[m] = IF m = c THEN Null ELSE owner[m]
      /\ \A m \in Modules : life'[m] = IF m = c THEN "none" ELSE life[m]
      /\ owner' \in [Modules -> Modules \cup {Null}]
      /\ life' \in [Modules -> {"none", "new", "refused", "up", "stopped", "skipped"}]
  BY <1>2, <1>3, <1>5, TypeFacts
<1>7. /\ StackInv' /\ UniqueInv' /\ ChainInv' /\ RevokeInv' /\ LoadInv' /\ DestroyInv'
      /\ \A i \in Calls' : i \in Calls /\ stack'[i] = stack[i] /\ stack[i].mod # c
                           /\ (Holds(i)' <=> Holds(i))
      /\ DOMAIN stack' = Calls'
      /\ \A m : InHands(m)' <=> InHands(m) /\ m # c
      /\ \A m : /\ At(m, {"stopping"})' <=> m # c /\ At(m, {"stopping"})
                /\ At(m, {"close"})' <=> m # c /\ At(m, {"close"})
  <2>1. /\ \A m \in Modules : m # stack[n].mod => owner'[m] = owner[m]
        /\ image \subseteq image' \cup {stack[n].mod}
        /\ started' \subseteq started \cup {stack[n].mod}
    BY <1>2, <1>3, <1>6
  <2>2. /\ StackInv' /\ UniqueInv' /\ ChainInv' /\ RevokeInv' /\ LoadInv' /\ DestroyInv'
        /\ \A i \in Calls' : i \in Calls /\ stack'[i] = stack[i] /\ stack[i].mod # stack[n].mod
                             /\ (Holds(i)' <=> Holds(i))
        /\ DOMAIN stack' = Calls'
        /\ \A m : InHands(m)' <=> InHands(m) /\ m # stack[n].mod
        /\ \A m : /\ At(m, {"stopping"})' <=> m # stack[n].mod /\ At(m, {"stopping"})
                  /\ At(m, {"close"})' <=> m # stack[n].mod /\ At(m, {"close"})
    BY <1>1, <1>2, <1>3, <2>1, PopHolding
  <2> QED BY <1>3, <2>2
<1>8. TypeOK'
  <2>1. \A i \in DOMAIN stack' : stack'[i].mod \in alloc' /\ stack'[i].at \in Places[stack'[i].op]
    BY <1>2, <1>7, TypeFacts
  <2>2. /\ alloc' \subseteq Modules /\ image' \subseteq alloc' /\ started' \subseteq alloc'
        /\ loader' \subseteq alloc' /\ kids' \in [Modules -> Seq(Modules)]
    BY <1>2, <1>4, <1>5, TypeFacts
  <2> QED BY <1>6, <2>1, <2>2 DEF TypeOK
<1>9. \A m \in alloc' : m \in alloc /\ m \in Modules /\ m # c /\ owner'[m] = owner[m]
  BY <1>2, <1>6, TypeFacts
<1>10. RootInv'
  <2>1. owner'[Root] = Null
    BY <1>6, ModuleLoaderAssumption DEF IInv, RootInv
  <2>2. \A i \in Calls' : Holds(i)' /\ stack'[i].mod = Root => i = 1 /\ stack'[i].op = "destroy"
    BY <1>7 DEF IInv, RootInv
  <2>3. CASE c # Root
    BY <1>2, <2>1, <2>2, <2>3 DEF IInv, RootInv
  <2>4. CASE c = Root
    <3>1. \A m \in alloc \ {Root} : owner[m] \in alloc \ {Root}
      BY <1>4, <2>4, TypeFacts DEF IInv, OwnerInv
    <3>2. alloc \ {Root} = {}
      <4>1. PICK S : S = alloc \ {Root}
        OBVIOUS
      <4>2. S \in SUBSET (alloc \ {Root}) /\ ~ \E m \in S : owner[m] \notin S
        BY <3>1, <4>1
      <4>3. S = {}
        BY <4>2 DEF IInv, OwnerInv
      <4> QED BY <4>1, <4>3
    <3> QED BY <1>2, <2>1, <2>2, <2>4, <3>2 DEF RootInv
  <2> QED BY <2>3, <2>4
<1>11. OwnerInv'
  <2>1. loader' \subseteq image' /\ started' \subseteq image'
    BY <1>2, <1>4, <1>5 DEF IInv, OwnerInv
  <2>2. \A m \in alloc' \ {Root} : owner'[m] \in loader'
    BY <1>2, <1>9 DEF IInv, OwnerInv
  <2>3. ASSUME NEW S \in SUBSET (alloc' \ {Root}), S # {}
        PROVE  \E m \in S : owner'[m] \notin S
    <3>1. S \in SUBSET (alloc \ {Root})
      BY <1>9
    <3>2. PICK m \in S : owner[m] \notin S
      BY <2>3, <3>1 DEF IInv, OwnerInv
    <3> QED BY <1>9, <3>2
  <2> QED BY <2>1, <2>2, <2>3 DEF OwnerInv
<1>12. KidsInv'
  <2>1. InHands(c)
    BY <1>3 DEF InHands
  <2> SUFFICES ASSUME NEW x \in Modules
               PROVE  /\ \A i, j \in 1 .. Len(kids[x]) : kids[x][i] = kids[x][j] => i = j
                      /\ \A m \in Modules : Contains(kids[x], m) =>
                            m \in alloc' \ {Root} /\ owner'[m] = x /\ ~ InHands(m)'
    BY <1>2 DEF KidsInv
  <2> QED BY <1>2, <1>6, <1>7, <2>1 DEF IInv, KidsInv
<1>13. PlaceInv'
  BY <1>2, <1>7, <1>9 DEF IInv, PlaceInv
<1>14. StopAnswersStart'
  BY <1>2, <1>3, <1>5, <1>6, <1>7 DEF IInv, StopAnswersStart
<1> QED BY <1>7, <1>8, <1>10, <1>11, <1>12, <1>13, <1>14 DEF IInv

\* Whose loader is revoked has no child left when the list is empty.
LEMMA NoChildLeft ==
  ASSUME IInv, Running("revoke", "loop"), kids[Mod] = <<>>
  PROVE  \A c \in alloc \ {Root} : owner[c] # Mod
<1> SUFFICES ASSUME NEW c \in alloc \ {Root}, owner[c] = Mod PROVE FALSE
  OBVIOUS
<1>1. PICK n \in Nat : n = Len(stack)
  BY TypeFacts
<1>2. /\ n > 0 /\ n \in Calls /\ stack[n].op = "revoke" /\ stack[n].mod = Mod
      /\ Calls = 1 .. n /\ ~ Holds(n)
  BY <1>1, RunningFacts, TypeFacts DEF Holds
<1>3. ~ Contains(kids[Mod], c)
  BY DEF Contains
<1>4. PICK i \in Calls : Holds(i) /\ stack[i].mod = c
  BY <1>3 DEF IInv, PlaceInv, InHands
<1>5. i \in 1 .. n - 1 /\ n - 1 \in Calls /\ n > 1
  <2>1. i # n
    BY <1>2, <1>4
  <2> QED BY <1>2, <2>1
<1>6. Holds(n - 1) /\ stack[n - 1].mod = Mod
  <2>1. ~ Starting(n - 1)
    BY <1>2, <1>4, <1>5 DEF Starting, Holds
  <2> QED BY <1>2, <1>5, <2>1 DEF IInv, RevokeInv
<1>7. Mod # Base
  BY <1>5, <1>6 DEF IInv, ChainInv
<1>8. Known(owner[stack[i].mod], i)
  BY <1>4 DEF IInv, ChainInv
<1>9. PICK k \in 1 .. i - 1 : Holds(k) /\ stack[k].mod = Mod
  BY <1>4, <1>7, <1>8 DEF Known
<1>10. k \in Calls /\ k # n - 1
  BY <1>2, <1>5, <1>9
<1> QED BY <1>5, <1>6, <1>9, <1>10 DEF IInv, UniqueInv

LEMMA UnloadEndKeeps ==
  ASSUME IInv, UnloadEnd
  PROVE  IInv'
<1>1. /\ InLoop /\ kids[Mod] = <<>> /\ stack' = Front(stack)
      /\ loader' = IF Last(stack).op = "revoke" THEN loader \ {Mod} ELSE loader
      /\ UNCHANGED <<alloc, owner, image, kids, started, life>>
  BY DEF UnloadEnd, Return
<1>2. PICK n \in Nat : n = Len(stack)
  BY TypeFacts
<1>3. /\ ~ Idle /\ n > 0 /\ n \in Calls /\ stack[n].op \in {"revoke", "unload"}
      /\ stack[n].at = "loop" /\ stack[n].mod = Mod /\ Last(stack) = stack[n]
      /\ Calls = 1 .. n /\ ~ Holds(n)
  BY <1>1, <1>2, RunningFacts, TypeFacts DEF InLoop, Holds
<1>4. CallsInv'
  BY <1>1, <1>2, <1>3, PopKeeps
<1>5. stack' \in Seq(Frame) /\ Len(stack') = n - 1 /\ \A i \in 1 .. n - 1 : stack'[i] = stack[i]
  BY <1>1, <1>2, <1>3, FrontFacts DEF IInv
<1>6. Calls' = 1 .. n - 1 /\ DOMAIN stack' = Calls' /\ DOMAIN stack = Calls
  BY <1>2, <1>3, <1>5, TypeFacts DEF Calls
<1>7. \A i \in Calls' : i \in Calls /\ stack'[i] = stack[i] /\ i # n
  BY <1>3, <1>5, <1>6
<1>8. loader' \subseteq loader /\ (stack[n].op = "revoke" => loader' = loader \ {Mod})
  BY <1>1, <1>3
<1>9. TypeOK'
  <2>1. \A i \in DOMAIN stack' : stack'[i].mod \in alloc' /\ stack'[i].at \in Places[stack'[i].op]
    BY <1>1, <1>6, <1>7, TypeFacts
  <2>2. loader' \subseteq alloc'
    BY <1>1, <1>8, TypeFacts
  <2> QED BY <1>1, <2>1, <2>2 DEF IInv, TypeOK
<1>10. OwnerInv'
  <2>1. \A c \in alloc \ {Root} : owner[c] \in loader'
    <3>1. CASE stack[n].op = "revoke"
      <4>1. Running("revoke", "loop")
        BY <1>3, <3>1 DEF Running
      <4>2. \A c \in alloc \ {Root} : owner[c] # Mod
        BY <1>1, <4>1, NoChildLeft
      <4> QED BY <1>8, <3>1, <4>2 DEF IInv, OwnerInv
    <3>2. CASE stack[n].op = "unload"
      BY <1>1, <1>3, <3>2 DEF IInv, OwnerInv
    <3> QED BY <1>3, <3>1, <3>2
  <2> QED BY <1>1, <1>8, <2>1 DEF IInv, OwnerInv
<1>11. LoadInv'
  BY <1>1, <1>7 DEF IInv, LoadInv
<1>12. DestroyInv'
  <2> SUFFICES ASSUME NEW i \in Calls', stack'[i].op = "destroy"
               PROVE  /\ stack'[i].at \in {"stopping", "close"} => stack'[i].mod \notin loader'
                      /\ stack'[i].at = "method" =>
                            IF i = Len(stack') THEN stack'[i].mod \notin loader'
                            ELSE stack'[i + 1].op = "revoke" /\ stack'[i + 1].mod = stack'[i].mod
    BY DEF DestroyInv
  <2>1. /\ stack[i].at \in {"stopping", "close"} => stack[i].mod \notin loader
        /\ stack[i].at = "method" =>
              stack[i + 1].op = "revoke" /\ stack[i + 1].mod = stack[i].mod
    BY <1>2, <1>7 DEF IInv, DestroyInv
  <2>2. CASE i = Len(stack')
    <3>1. i + 1 = n
      BY <1>5, <2>2
    <3> QED BY <1>3, <1>7, <1>8, <2>1, <2>2, <3>1
  <2>3. CASE i # Len(stack')
    <3>1. i + 1 \in Calls'
      BY <1>5, <1>6, <2>3
    <3> QED BY <1>7, <1>8, <2>1, <2>3, <3>1
  <2> QED BY <2>2, <2>3
<1>13. StopAnswersStart'
  <2>1. \A m : (At(m, {"stopping"})' => At(m, {"stopping"})) /\ (At(m, {"close"})' => At(m, {"close"}))
    BY <1>6, <1>7 DEF At
  <2> QED BY <1>1, <2>1 DEF IInv, StopAnswersStart
<1> QED BY <1>4, <1>5, <1>9, <1>10, <1>11, <1>12, <1>13 DEF IInv, CallsInv, StackInv

LEMMA StutterKeeps ==
  ASSUME IInv, UNCHANGED vars
  PROVE  IInv'
<1>1. UNCHANGED <<alloc, owner, image, started, loader, kids, stack, life>>
  BY DEF vars
<1>2. PICK n \in Nat : n = Len(stack)
  BY TypeFacts
<1>3. CallsInv'
  <2>1. stack' \in Seq(Frame) /\ Len(stack') = n /\ \A i \in 1 .. n : stack'[i] = stack[i]
    BY <1>1, <1>2, TypeFacts
  <2> QED BY <1>1, <1>2, <2>1, ShapeKeeps
<1>4. TypeOK' /\ StackInv' /\ OwnerInv'
  BY <1>1 DEF IInv, TypeOK, StackInv, OwnerInv
<1>5. LoadInv' /\ DestroyInv' /\ StopAnswersStart'
  BY <1>1 DEF IInv, LoadInv, DestroyInv, StopAnswersStart, Calls, At
<1> QED BY <1>3, <1>4, <1>5 DEF IInv, CallsInv

LEMMA InitHolds == Init => IInv
<1> SUFFICES ASSUME Init PROVE IInv
  OBVIOUS
<1>1. /\ stack = <<>> /\ alloc = {Root} /\ image = {Root} /\ started = {} /\ loader = {}
      /\ \A m \in Modules : /\ owner[m] = Null /\ kids[m] = <<>>
                            /\ life[m] = IF m = Root THEN "new" ELSE "none"
  BY DEF Init
<1>2. Calls = {} /\ DOMAIN stack = {} /\ stack \in Seq(Frame)
  BY <1>1 DEF Calls
<1>3. TypeOK
  <2>1. /\ owner \in [Modules -> Modules \cup {Null}]
        /\ life \in [Modules -> {"none", "new", "refused", "up", "stopped", "skipped"}]
    BY DEF Init
  <2>2. kids \in [Modules -> Seq(Modules)]
    <3>1. <<>> \in Seq(Modules)
      OBVIOUS
    <3> QED BY <3>1 DEF Init
  <2> QED BY <1>1, <1>2, <2>1, <2>2, ModuleLoaderAssumption DEF TypeOK
<1>4. RootInv /\ OwnerInv
  BY <1>1, <1>2, ModuleLoaderAssumption DEF RootInv, OwnerInv
<1>5. KidsInv
  <2>1. \A m \in Modules : Len(kids[m]) = 0
    BY <1>1
  <2> QED BY <2>1 DEF KidsInv, Contains
<1>6. PlaceInv /\ UniqueInv /\ ChainInv /\ RevokeInv /\ LoadInv /\ DestroyInv
  BY <1>1, <1>2 DEF PlaceInv, UniqueInv, ChainInv, RevokeInv, LoadInv, DestroyInv
<1>7. StopAnswersStart
  BY <1>1, <1>2 DEF StopAnswersStart, At
<1> QED BY <1>2, <1>3, <1>4, <1>5, <1>6, <1>7 DEF IInv, StackInv

LEMMA NextKeeps ==
  ASSUME IInv, [Next]_vars
  PROVE  IInv'
<1>1. CASE \E m \in Modules : \/ GrantLoader(m) \/ RevokeLoader(m) \/ Load(m) \/ Unload(m)
                              \/ \E c \in Modules : UnloadChild(m, c)
  BY <1>1, GrantLoaderKeeps, RevokeLoaderKeeps, LoadKeeps, UnloadKeeps, UnloadChildKeeps
<1>2. CASE LoadOpen \/ LoadLookup \/ LoadStart \/ StartReturns \/ StartRefuses \/ LoadUndo
  BY <1>2, LoadOpenKeeps, LoadLookupKeeps, LoadStartKeeps, StartReturnsKeeps,
     StartRefusesKeeps, LoadUndoKeeps
<1>3. CASE DestroyStop \/ DestroyMethod \/ StopReturns \/ DestroyClose
  BY <1>3, DestroyStopKeeps, DestroyMethodKeeps, StopReturnsKeeps, DestroyCloseKeeps
<1>4. CASE UnloadNext \/ UnloadEnd
  BY <1>4, UnloadNextKeeps, UnloadEndKeeps
<1>5. CASE RootDeinit \/ RootInit \/ RootStart \/ RootStarts \/ RootRefuses
  BY <1>5, RootDeinitKeeps, RootInitKeeps, RootStartKeeps, RootStartsKeeps, RootRefusesKeeps
<1>6. CASE UNCHANGED vars
  BY <1>6, StutterKeeps
<1> QED BY <1>1, <1>2, <1>3, <1>4, <1>5, <1>6 DEF Next

------------------------------------------------------------------------------
(* The theorems. *)

\* Loads that fail at any step, refused starts and unloads from inside the
\* methods keep the inductive invariant.
THEOREM InductiveInvariant == Spec => []IInv
<1>1. Init => IInv
  BY InitHolds
<1>2. IInv /\ [Next]_vars => IInv'
  BY NextKeeps
<1> QED BY <1>1, <1>2, PTL DEF Spec

\* Every module in memory is in exactly one place, the list of its loader or
\* the hands of one load or destroy, and a failed load leaves nothing behind.
THEOREM TreeSoundTheorem == Spec => []TreeSound
<1>1. ASSUME IInv PROVE Accounted
  <2> SUFFICES ASSUME NEW m \in Modules \ {Root}
               PROVE  /\ Cardinality({p \in Modules : Contains(kids[p], m)})
                           + Cardinality({i \in DOMAIN stack :
                                 stack[i].mod = m /\ stack[i].op \in {"load", "destroy"}})
                         = IF m \in alloc THEN 1 ELSE 0
                      /\ {p \in Modules : Contains(kids[p], m)} \subseteq {owner[m]}
    BY DEF Accounted
  <2> DEFINE lists == {p \in Modules : Contains(kids[p], m)}
             calls == {i \in DOMAIN stack :
                          stack[i].mod = m /\ stack[i].op \in {"load", "destroy"}}
  <2>1. DOMAIN stack = Calls
    BY <1>1, TypeFacts DEF Calls
  <2>2. \A i : i \in calls <=> i \in Calls /\ Holds(i) /\ stack[i].mod = m
    BY <2>1 DEF Holds
  <2>3. lists \subseteq {owner[m]} /\ (lists # {} => m \in alloc /\ calls = {})
    BY <1>1, <2>2 DEF IInv, KidsInv, InHands
  <2>4. \A i, j \in calls : i = j
    BY <1>1, <2>2 DEF IInv, UniqueInv
  <2>5. calls # {} => m \in alloc
    BY <1>1, <2>2, TypeFacts
  <2>6. m \in alloc => lists # {} \/ calls # {}
    <3> HAVE m \in alloc
    <3>1. owner[m] \in Modules
      BY <1>1, TypeFacts DEF IInv, OwnerInv
    <3> QED BY <1>1, <2>2, <3>1 DEF IInv, PlaceInv, InHands
  <2> HIDE DEF lists, calls
  <2>7. \A x : Cardinality({x}) = 1
    BY FS_Singleton
  <2>8. Cardinality({}) = 0
    BY FS_EmptySet
  <2>9. CASE lists # {}
    <3>1. lists = {owner[m]} /\ calls = {} /\ m \in alloc
      BY <2>3, <2>9
    <3>2. Cardinality(lists) = 1 /\ Cardinality(calls) = 0
      BY <2>7, <2>8, <3>1
    <3> QED BY <2>3, <3>1, <3>2 DEF lists, calls
  <2>10. CASE calls # {}
    <3>1. PICK i : calls = {i}
      BY <2>4, <2>10
    <3>2. lists = {} /\ m \in alloc
      BY <2>3, <2>5, <2>10
    <3>3. Cardinality(lists) = 0 /\ Cardinality(calls) = 1
      BY <2>7, <2>8, <3>1, <3>2
    <3> QED BY <2>3, <3>2, <3>3 DEF lists, calls
  <2>11. CASE lists = {} /\ calls = {}
    <3>1. m \notin alloc
      BY <2>6, <2>11
    <3>2. Cardinality(lists) = 0 /\ Cardinality(calls) = 0
      BY <2>8, <2>11
    <3> QED BY <2>3, <3>1, <3>2 DEF lists, calls
  <2> QED BY <2>9, <2>10, <2>11
<1>2. IInv => TreeSound
  BY <1>1 DEF IInv, TreeSound
<1> QED BY <1>2, InductiveInvariant, PTL

\* As long as a module is in memory its owner's loader exists, the owner's image
\* is mapped and its stop has not begun; and methods run in mapped images only.
THEOREM ProvidersAliveTheorem == Spec => []ProvidersAlive
<1>1. ASSUME IInv PROVE ProvidersAlive
  <2>1. DOMAIN stack = Calls
    BY <1>1, TypeFacts DEF Calls
  <2>2. ASSUME NEW c \in alloc \ {Root}
        PROVE  owner[c] \in loader \cap image /\ ~ At(owner[c], {"stopping", "close"})
    <3>1. owner[c] \in loader /\ owner[c] \in image
      BY <1>1 DEF IInv, OwnerInv
    <3>2. ASSUME NEW i \in Calls, stack[i].mod = owner[c], stack[i].at \in {"stopping", "close"}
          PROVE  FALSE
      <4>1. stack[i].op = "destroy"
        BY <1>1, <3>2, DestroyPlaces
      <4> QED BY <1>1, <3>1, <3>2, <4>1 DEF IInv, DestroyInv
    <3> QED BY <2>1, <3>1, <3>2 DEF At
  <2>3. ASSUME NEW i \in Calls, stack[i].at \in {"starting", "stopping"}
        PROVE  stack[i].mod \in image
    <3>1. CASE stack[i].at = "starting"
      <4>1. stack[i].op \in {"load", "start"}
        BY <1>1, <3>1, TypeFacts, PlacesFacts DEF Ops
      <4> QED BY <1>1, <3>1, <4>1 DEF IInv, LoadInv
    <3>2. CASE stack[i].at = "stopping"
      <4>1. stack[i].mod \in Modules /\ At(stack[i].mod, {"stopping"})
        BY <1>1, <2>1, <3>2, TypeFacts DEF At
      <4>2. stack[i].mod \in started
        BY <1>1, <4>1 DEF IInv, StopAnswersStart
      <4> QED BY <1>1, <4>2 DEF IInv, OwnerInv
    <3> QED BY <2>3, <3>1, <3>2
  <2> QED BY <2>1, <2>2, <2>3 DEF ProvidersAlive, At
<1>2. IInv => ProvidersAlive
  BY <1>1
<1> QED BY <1>2, InductiveInvariant, PTL

\* The stop method runs once, before the image is closed, for exactly the modules
\* whose start succeeded.
THEOREM StopAnswersStartTheorem == Spec => []StopAnswersStart
<1>1. IInv => StopAnswersStart
  BY DEF IInv
<1> QED BY <1>1, InductiveInvariant, PTL
===============================================================================
