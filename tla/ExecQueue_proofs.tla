--------------------------- MODULE ExecQueue_proofs ---------------------------
(***************************************************************************)
(* Proofs about ExecQueue, for any number of producers and tasks.          *)
(***************************************************************************)
EXTENDS ExecQueue, SequenceTheorems, TLAPS

\* Where each thread's node is: outside every queue before its exchange, behind
\* the node it will link after it; no two threads push one node.
PushInv ==
    /\ \A p \in Procs :
          /\ push[p].at = "idle" <=> push[p].node = Null
          /\ p \in Producers => push[p].node # Stub
          /\ push[p].at = "exchange" => /\ ~ Contains(order, push[p].node)
                                        /\ next[push[p].node] = Null
          /\ push[p].at = "link" =>
                \E i \in 1 .. Len(order) - 1 : /\ push[p].prev = order[i]
                                               /\ push[p].node = order[i + 1]
                                               /\ next[order[i]] = Null
    /\ \A p, q \in Procs : p # q /\ push[p].node # Null => push[p].node # push[q].node

\* What the consumer knows at each point of try_pop.
PopInv ==
    /\ pop = "pushing" <=> push[Consumer].at # "idle"
    /\ pop = "pushing" => push[Consumer].node = Stub
    /\ pop \in {"second", "back", "stub", "pushing", "reread"} => front # Stub
    /\ pop \in {"second", "stub"} => ~ Contains(order, Stub)
    /\ pop = "reread" => Contains(order, Stub)
    /\ pop # "idle" => held = Null

\* The task handed out is nobody else's.
HeldInv ==
    held # Null => /\ ~ Contains(order, held)
                   /\ \A p \in Procs : push[p].node # held

\* While nobody overlaps the pop, no producer is inside a push, and what the
\* consumer read behind the front still holds.
QuietInv ==
    quiet => /\ \A p \in Producers : push[p].at = "idle"
             /\ pop = "back" => next[front] = Null

IInv == TypeOK /\ ChainIntact /\ PushInv /\ PopInv /\ HeldInv /\ QuietInv

------------------------------------------------------------------------------
(* Sequences. *)

\* What Append and Tail do to the length, the elements and membership.
LEMMA AppendFacts ==
    ASSUME NEW S, NEW s \in Seq(S), NEW e \in S
    PROVE  /\ Append(s, e) \in Seq(S)
           /\ Len(Append(s, e)) = Len(s) + 1
           /\ \A i \in 1 .. Len(s) : Append(s, e)[i] = s[i]
           /\ Append(s, e)[Len(s) + 1] = e
           /\ \A m : Contains(Append(s, e), m) <=> Contains(s, m) \/ m = e
<1>1. /\ Append(s, e) \in Seq(S)
      /\ Len(s) \in Nat
      /\ Len(Append(s, e)) = Len(s) + 1
      /\ \A i \in 1 .. Len(s) : Append(s, e)[i] = s[i]
      /\ Append(s, e)[Len(s) + 1] = e
  OBVIOUS
<1>2. \A i : i \in 1 .. Len(s) + 1 <=> i \in 1 .. Len(s) \/ i = Len(s) + 1
  BY <1>1
<1>3. \A m : Contains(Append(s, e), m) <=> Contains(s, m) \/ m = e
  BY <1>1, <1>2 DEF Contains
<1> QED BY <1>1, <1>3

\* The same for Tail: one element less, every other one moved forward.
LEMMA TailFacts ==
    ASSUME NEW S, NEW s \in Seq(S), s # <<>>
    PROVE  /\ Tail(s) \in Seq(S)
           /\ Len(s) \in Nat \ {0}
           /\ Len(Tail(s)) = Len(s) - 1
           /\ \A i \in 1 .. Len(s) - 1 : Tail(s)[i] = s[i + 1]
           /\ \A m : Contains(Tail(s), m) <=> \E i \in 2 .. Len(s) : s[i] = m
<1>1. /\ Tail(s) \in Seq(S)
      /\ Len(s) \in Nat \ {0}
      /\ Len(Tail(s)) = Len(s) - 1
      /\ \A i \in 1 .. Len(s) - 1 : Tail(s)[i] = s[i + 1]
  OBVIOUS
<1>2. ASSUME NEW m PROVE Contains(Tail(s), m) <=> \E i \in 2 .. Len(s) : s[i] = m
  <2>1. ASSUME Contains(Tail(s), m) PROVE \E i \in 2 .. Len(s) : s[i] = m
    <3>1. PICK i \in 1 .. Len(s) - 1 : Tail(s)[i] = m
      BY <2>1, <1>1 DEF Contains
    <3>2. i + 1 \in 2 .. Len(s) /\ s[i + 1] = m
      BY <3>1, <1>1
    <3> QED BY <3>2
  <2>2. ASSUME NEW i \in 2 .. Len(s), s[i] = m PROVE Contains(Tail(s), m)
    <3>1. i - 1 \in 1 .. Len(s) - 1 /\ Tail(s)[i - 1] = s[(i - 1) + 1] /\ (i - 1) + 1 = i
      BY <1>1
    <3> QED BY <3>1, <2>2, <1>1 DEF Contains
  <2> QED BY <2>1, <2>2
<1> QED BY <1>1, <1>2

------------------------------------------------------------------------------
(* The steps the actions are made of. *)

\* The first step of a push touches a node outside the queue only.
LEMMA ClearStep ==
    ASSUME IInv, NEW p \in Procs, NEW n \in Nodes, PushClear(p, n),
           UNCHANGED <<back, front, order>>,
           ~ Contains(order, n), \A q \in Procs : push[q].node # n,
           p \in Producers => n # Stub
    PROVE  ChainIntact' /\ PushInv' /\ next' \in [Nodes -> Nodes \cup {Null}]
           /\ push' \in [Procs -> PushStates]
<1> USE QueueAssumption
<1>1. /\ next' = [next EXCEPT ![n] = Null]
      /\ push' = [push EXCEPT ![p] = [at |-> "exchange", node |-> n, prev |-> Null]]
      /\ push[p].at = "idle"
      /\ TypeOK
  BY DEF PushClear, IInv
<1>2. /\ next' \in [Nodes -> Nodes \cup {Null}]
      /\ push' \in [Procs -> PushStates]
      /\ n # Null
  BY <1>1 DEF TypeOK, PushStates, Nodes
<1>3. /\ Len(order) \in Nat
      /\ \A i \in 1 .. Len(order) : order[i] \in Nodes /\ order[i] # n
  BY <1>1 DEF TypeOK, Contains
<1>4. \A i \in 1 .. Len(order) : next'[order[i]] = next[order[i]]
  BY <1>1, <1>3 DEF TypeOK
<1>5. /\ push'[p] = [at |-> "exchange", node |-> n, prev |-> Null]
      /\ \A q \in Procs : q # p => push'[q] = push[q]
  BY <1>1 DEF TypeOK
<1>6. ChainIntact'
  <2>1. ChainIntact BY DEF IInv
  <2>2. Len(order) >= 1 BY <1>1, <2>1 DEF TypeOK, ChainIntact
  <2>3. next'[back] = Null BY <2>1, <2>2, <1>4, <1>3 DEF ChainIntact
  <2>4. ASSUME NEW i \in 1 .. Len(order) - 1, next[order[i]] # order[i + 1]
        PROVE  /\ next'[order[i]] = Null
               /\ \E q \in Procs : /\ push'[q].at = "link"
                                   /\ push'[q].prev = order[i]
                                   /\ push'[q].node = order[i + 1]
    <3>0. i \in 1 .. Len(order) BY <1>3
    <3>1. PICK q \in Procs : /\ push[q].at = "link"
                             /\ push[q].prev = order[i]
                             /\ push[q].node = order[i + 1]
      BY <2>1, <2>4 DEF ChainIntact
    <3>2. q # p BY <3>1, <1>1
    <3>3. next[order[i]] = Null BY <2>1, <2>4 DEF ChainIntact
    <3> QED BY <3>0, <3>1, <3>2, <3>3, <1>4, <1>5
  <2>5. \A i \in 1 .. Len(order) - 1 : i \in 1 .. Len(order) BY <1>3
  <2> QED BY <2>1, <2>3, <2>4, <2>5, <1>4 DEF ChainIntact
<1>7. PushInv'
  <2>1. PushInv BY DEF IInv
  <2>2. next'[n] = Null BY <1>1 DEF TypeOK
  <2>3. ASSUME NEW q \in Procs, q # p
        PROVE  /\ push'[q].at = "idle" <=> push'[q].node = Null
               /\ q \in Producers => push'[q].node # Stub
               /\ push'[q].at = "exchange" => /\ ~ Contains(order, push'[q].node)
                                              /\ next'[push'[q].node] = Null
               /\ push'[q].at = "link" =>
                     \E i \in 1 .. Len(order) - 1 : /\ push'[q].prev = order[i]
                                                    /\ push'[q].node = order[i + 1]
                                                    /\ next'[order[i]] = Null
    <3>1. push'[q] = push[q] /\ push[q] \in PushStates BY <2>3, <1>5, <1>1 DEF TypeOK
    <3>2. push[q].at = "exchange" => next'[push[q].node] = next[push[q].node]
      BY <3>1, <1>1, <2>1 DEF TypeOK, PushStates, PushInv
    <3>3. \A i \in 1 .. Len(order) - 1 : next'[order[i]] = next[order[i]]
      BY <1>4, <1>3
    <3> QED BY <2>1, <3>1, <3>2, <3>3 DEF PushInv
  <2>4. \A q, r \in Procs : q # r /\ push'[q].node # Null => push'[q].node # push'[r].node
    BY <2>1, <1>5, <1>2 DEF PushInv
  <2>5. /\ push'[p].at = "exchange" /\ push'[p].node = n
        /\ push'[p].at # "idle" /\ push'[p].at # "link" /\ push'[p].node # Null
    BY <1>5, <1>2
  <2> QED BY <2>2, <2>3, <2>4, <2>5 DEF PushInv
<1> QED BY <1>2, <1>6, <1>7

\* The exchange appends the node to the order and makes its thread the one that
\* will link the node that was the back.
LEMMA ExchangeStep ==
    ASSUME IInv, NEW p \in Procs, PushExchange(p), UNCHANGED front
    PROVE  /\ ChainIntact' /\ PushInv'
           /\ back' \in Nodes /\ order' \in Seq(Nodes) /\ push' \in [Procs -> PushStates]
           /\ \A m : Contains(order', m) <=> Contains(order, m) \/ m = push[p].node
<1> USE QueueAssumption
<1> DEFINE n == push[p].node
           L == Len(order)
<1>1. /\ TypeOK /\ ChainIntact /\ PushInv
      /\ push[p].at = "exchange" /\ push[p] \in PushStates
      /\ n \in Nodes
      /\ next[n] = Null /\ ~ Contains(order, n)
      /\ next' = next /\ back' = n /\ order' = Append(order, n)
      /\ push' = [push EXCEPT ![p] = [at |-> "link", node |-> n, prev |-> back]]
  BY DEF IInv, PushExchange, PushInv, TypeOK, PushStates
<1>2. /\ order' \in Seq(Nodes)
      /\ Len(order') = L + 1
      /\ \A i \in 1 .. L : order'[i] = order[i]
      /\ order'[L + 1] = n
      /\ \A m : Contains(order', m) <=> Contains(order, m) \/ m = n
  BY <1>1, AppendFacts DEF TypeOK
<1>3. L \in Nat /\ L >= 1 /\ order[L] = back /\ order[1] = front /\ next[back] = Null
  BY <1>1 DEF TypeOK, ChainIntact
<1>4. /\ push'[p].at = "link" /\ push'[p].node = n /\ push'[p].prev = back
      /\ \A q \in Procs : q # p => push'[q] = push[q]
      /\ push' \in [Procs -> PushStates]
  BY <1>1 DEF TypeOK, PushStates
<1>5. ChainIntact'
  <2>1. order' # <<>> /\ order'[1] = front' /\ order'[Len(order')] = back' /\ next'[back'] = Null
    BY <1>1, <1>2, <1>3
  <2>2. \A i, j \in 1 .. Len(order') : order'[i] = order'[j] => i = j
    <3>1. \A i \in 1 .. L : order[i] # n BY <1>1, <1>3 DEF Contains
    <3> QED BY <1>1, <1>2, <1>3, <3>1 DEF ChainIntact
  <2>3. ASSUME NEW i \in 1 .. Len(order') - 1
        PROVE  \/ next'[order'[i]] = order'[i + 1]
               \/ /\ next'[order'[i]] = Null
                  /\ \E q \in Procs : /\ push'[q].at = "link"
                                      /\ push'[q].prev = order'[i]
                                      /\ push'[q].node = order'[i + 1]
    <3>1. CASE i = L
      <4>1. order'[i] = back /\ order'[i + 1] = n BY <3>1, <1>2, <1>3
      <4> QED BY <4>1, <1>1, <1>3, <1>4
    <3>2. CASE i # L
      <4>1. i \in 1 .. L - 1 /\ i \in 1 .. L /\ i + 1 \in 1 .. L BY <3>2, <1>2, <1>3
      <4>2. order'[i] = order[i] /\ order'[i + 1] = order[i + 1] BY <4>1, <1>2
      <4>3. CASE next[order[i]] = order[i + 1] BY <4>3, <4>2, <1>1
      <4>4. CASE next[order[i]] # order[i + 1]
        <5>1. next[order[i]] = Null BY <4>1, <4>4, <1>1 DEF ChainIntact
        <5>2. PICK q \in Procs : /\ push[q].at = "link"
                                 /\ push[q].prev = order[i]
                                 /\ push[q].node = order[i + 1]
          BY <4>1, <4>4, <1>1 DEF ChainIntact
        <5>3. q # p BY <5>2, <1>1
        <5> QED BY <5>1, <5>2, <5>3, <4>2, <1>1, <1>4
      <4> QED BY <4>3, <4>4
    <3> QED BY <3>1, <3>2
  <2> QED BY <2>1, <2>2, <2>3 DEF ChainIntact
<1>6. PushInv'
  <2>1. ASSUME NEW q \in Procs, q # p
        PROVE  /\ push'[q].at = "idle" <=> push'[q].node = Null
               /\ q \in Producers => push'[q].node # Stub
               /\ push'[q].at = "exchange" => /\ ~ Contains(order', push'[q].node)
                                              /\ next'[push'[q].node] = Null
               /\ push'[q].at = "link" =>
                     \E i \in 1 .. Len(order') - 1 : /\ push'[q].prev = order'[i]
                                                     /\ push'[q].node = order'[i + 1]
                                                     /\ next'[order'[i]] = Null
    <3>1. push'[q] = push[q] BY <2>1, <1>4
    <3>2. push[q].at = "exchange" => push[q].node # n
      BY <2>1, <1>1 DEF PushInv, Nodes
    <3>3. ASSUME push[q].at = "link"
          PROVE  \E i \in 1 .. Len(order') - 1 : /\ push[q].prev = order'[i]
                                                 /\ push[q].node = order'[i + 1]
                                                 /\ next[order'[i]] = Null
      <4>1. PICK i \in 1 .. L - 1 : /\ push[q].prev = order[i]
                                    /\ push[q].node = order[i + 1]
                                    /\ next[order[i]] = Null
        BY <3>3, <1>1 DEF PushInv
      <4>2. i \in 1 .. Len(order') - 1 /\ i \in 1 .. L /\ i + 1 \in 1 .. L BY <1>2, <1>3
      <4> QED BY <4>1, <4>2, <1>2
    <3>4. push[q].at = "exchange" => /\ ~ Contains(order', push[q].node)
                                     /\ next[push[q].node] = Null
      BY <3>2, <1>1, <1>2 DEF PushInv
    <3>5. /\ push[q].at = "idle" <=> push[q].node = Null
          /\ q \in Producers => push[q].node # Stub
      BY <1>1 DEF PushInv
    <3> QED BY <3>1, <3>3, <3>4, <3>5, <1>1
  <2>2. /\ push'[p].at # "idle" /\ push'[p].node # Null
        /\ p \in Producers => push'[p].node # Stub
        /\ \E i \in 1 .. Len(order') - 1 : /\ push'[p].prev = order'[i]
                                           /\ push'[p].node = order'[i + 1]
                                           /\ next'[order'[i]] = Null
    <3>1. L \in 1 .. Len(order') - 1 /\ order'[L] = back BY <1>2, <1>3
    <3> QED BY <3>1, <1>1, <1>2, <1>3, <1>4 DEF PushInv, Nodes
  <2>3. \A q, r \in Procs : q # r /\ push'[q].node # Null => push'[q].node # push'[r].node
    BY <1>1, <1>4 DEF PushInv
  <2>4. push'[p].at # "exchange" BY <1>4
  <2> QED BY <2>1, <2>2, <2>3, <2>4 DEF PushInv
<1> QED BY <1>1, <1>2, <1>4, <1>5, <1>6

\* The link fills the gap behind the node that was the back.
LEMMA LinkStep ==
    ASSUME IInv, NEW p \in Procs, PushLink(p), UNCHANGED front
    PROVE  /\ ChainIntact' /\ PushInv'
           /\ next' \in [Nodes -> Nodes \cup {Null}] /\ push' \in [Procs -> PushStates]
<1> USE QueueAssumption
<1> DEFINE L == Len(order)
<1>1. /\ TypeOK /\ ChainIntact /\ PushInv
      /\ push[p].at = "link" /\ push[p] \in PushStates
      /\ next' = [next EXCEPT ![push[p].prev] = push[p].node]
      /\ push' = [push EXCEPT ![p] = Idle]
      /\ back' = back /\ order' = order
  BY DEF IInv, PushLink, TypeOK
<1>2. /\ L \in Nat /\ L >= 1 /\ order[L] = back /\ order[1] = front /\ next[back] = Null
      /\ \A i \in 1 .. L : order[i] \in Nodes
      /\ \A i, j \in 1 .. L : order[i] = order[j] => i = j
  BY <1>1 DEF TypeOK, ChainIntact
<1>3. PICK g \in 1 .. L - 1 : /\ push[p].prev = order[g]
                              /\ push[p].node = order[g + 1]
                              /\ next[order[g]] = Null
  BY <1>1 DEF PushInv
<1>4. g \in 1 .. L /\ g + 1 \in 1 .. L
  BY <1>2
<1>5. /\ next'[order[g]] = order[g + 1]
      /\ \A m \in Nodes : m # order[g] => next'[m] = next[m]
      /\ \A i \in 1 .. L : i # g => next'[order[i]] = next[order[i]]
      /\ next' \in [Nodes -> Nodes \cup {Null}]
  BY <1>1, <1>2, <1>3, <1>4 DEF TypeOK
<1>6. /\ push'[p] = Idle
      /\ \A q \in Procs : q # p => push'[q] = push[q]
      /\ push' \in [Procs -> PushStates]
  BY <1>1 DEF TypeOK, PushStates, Idle
<1>7. ChainIntact'
  <2>1. next'[back'] = Null BY <1>1, <1>2, <1>5
  <2>2. ASSUME NEW i \in 1 .. L - 1, i # g, next[order[i]] # order[i + 1]
        PROVE  /\ next'[order[i]] = Null
               /\ \E q \in Procs : /\ push'[q].at = "link"
                                   /\ push'[q].prev = order[i]
                                   /\ push'[q].node = order[i + 1]
    <3>1. i \in 1 .. L BY <1>2
    <3>2. next[order[i]] = Null BY <2>2, <1>1 DEF ChainIntact
    <3>3. PICK q \in Procs : /\ push[q].at = "link"
                             /\ push[q].prev = order[i]
                             /\ push[q].node = order[i + 1]
      BY <2>2, <1>1 DEF ChainIntact
    <3>4. q # p BY <3>1, <3>3, <2>2, <1>2, <1>3, <1>4
    <3> QED BY <3>1, <3>2, <3>3, <3>4, <2>2, <1>5, <1>6
  <2>3. ASSUME NEW i \in 1 .. L - 1, i # g, next[order[i]] = order[i + 1]
        PROVE  next'[order[i]] = order[i + 1]
    BY <2>3, <1>2, <1>5
  <2> QED BY <2>1, <2>2, <2>3, <1>1, <1>5 DEF ChainIntact
<1>8. PushInv'
  <2>1. ASSUME NEW q \in Procs, q # p
        PROVE  /\ push'[q].at = "idle" <=> push'[q].node = Null
               /\ q \in Producers => push'[q].node # Stub
               /\ push'[q].at = "exchange" => /\ ~ Contains(order, push'[q].node)
                                              /\ next'[push'[q].node] = Null
               /\ push'[q].at = "link" =>
                     \E i \in 1 .. L - 1 : /\ push'[q].prev = order[i]
                                           /\ push'[q].node = order[i + 1]
                                           /\ next'[order[i]] = Null
    <3>1. push'[q] = push[q] /\ push[q] \in PushStates BY <2>1, <1>1, <1>6 DEF TypeOK
    <3>2. ASSUME push[q].at = "exchange"
          PROVE  /\ ~ Contains(order, push[q].node)
                 /\ next'[push[q].node] = Null
      <4>1. /\ ~ Contains(order, push[q].node) /\ next[push[q].node] = Null
            /\ push[q].node \in Nodes
        BY <3>1, <3>2, <1>1 DEF PushInv, PushStates
      <4>2. push[q].node # order[g] BY <4>1, <1>4 DEF Contains
      <4> QED BY <4>1, <4>2, <1>5
    <3>3. ASSUME push[q].at = "link"
          PROVE  \E i \in 1 .. L - 1 : /\ push[q].prev = order[i]
                                       /\ push[q].node = order[i + 1]
                                       /\ next'[order[i]] = Null
      <4>1. PICK i \in 1 .. L - 1 : /\ push[q].prev = order[i]
                                    /\ push[q].node = order[i + 1]
                                    /\ next[order[i]] = Null
        BY <3>3, <1>1 DEF PushInv
      <4>2. push[p].node # Null BY <1>1 DEF PushInv
      <4>3. i # g BY <4>1, <4>2, <2>1, <1>1, <1>3 DEF PushInv
      <4>4. i \in 1 .. L BY <1>2
      <4> QED BY <4>1, <4>3, <4>4, <1>5
    <3>4. /\ push[q].at = "idle" <=> push[q].node = Null
          /\ q \in Producers => push[q].node # Stub
      BY <1>1 DEF PushInv
    <3> QED BY <3>1, <3>2, <3>3, <3>4
  <2>2. /\ push'[p].at = "idle" /\ push'[p].node = Null
        /\ push'[p].at # "exchange" /\ push'[p].at # "link" /\ Null # Stub
    BY <1>6 DEF Idle, Nodes
  <2>3. \A q, r \in Procs : q # r /\ push'[q].node # Null => push'[q].node # push'[r].node
    BY <1>1, <1>6, <2>2 DEF PushInv
  <2> QED BY <2>1, <2>2, <2>3, <1>1 DEF PushInv
<1> QED BY <1>5, <1>6, <1>7, <1>8

\* Moving the front to the node linked behind it leaves the old front outside
\* the queue and everything else in it.
LEMMA FrontStep ==
    ASSUME IInv, StepFront, next[front] # Null
    PROVE  /\ ChainIntact' /\ PushInv'
           /\ front' \in Nodes /\ order' \in Seq(Nodes)
           /\ \A m : Contains(order', m) <=> Contains(order, m) /\ m # front
           /\ \A p \in Procs : push[p].node # front
<1> USE QueueAssumption
<1> DEFINE L == Len(order)
<1>1. /\ TypeOK /\ ChainIntact /\ PushInv
      /\ front' = next[front] /\ order' = Tail(order)
      /\ next' = next /\ back' = back /\ push' = push
  BY DEF IInv, StepFront
<1>2. /\ order # <<>> /\ L \in Nat /\ L >= 1 /\ order[L] = back /\ order[1] = front
      /\ next[back] = Null
      /\ \A i \in 1 .. L : order[i] \in Nodes
      /\ \A i, j \in 1 .. L : order[i] = order[j] => i = j
  BY <1>1 DEF TypeOK, ChainIntact
<1>3. /\ order' \in Seq(Nodes)
      /\ Len(order') = L - 1
      /\ \A i \in 1 .. L - 1 : order'[i] = order[i + 1]
      /\ \A m : Contains(order', m) <=> \E i \in 2 .. L : order[i] = m
  BY <1>1, <1>2, TailFacts DEF TypeOK
<1>4. L >= 2 BY <1>2
<1>5. front' = order[2]
  <2>1. 1 \in 1 .. L - 1 BY <1>2, <1>4
  <2>2. next[order[1]] = order[1 + 1] BY <2>1, <1>1, <1>2 DEF ChainIntact
  <2> QED BY <2>2, <1>1, <1>2
<1>6. \A m : Contains(order', m) <=> Contains(order, m) /\ m # front
  <2>1. \A i \in 2 .. L : i \in 1 .. L /\ order[i] # front BY <1>2
  <2>2. \A i \in 1 .. L : order[i] # front => i \in 2 .. L BY <1>2
  <2> QED BY <2>1, <2>2, <1>3 DEF Contains
<1>7. ChainIntact'
  <2>1. /\ order' # <<>> /\ order'[1] = front'
        /\ order'[Len(order')] = back' /\ next'[back'] = Null
    <3>1. 1 \in 1 .. L - 1 /\ L - 1 \in 1 .. L - 1 /\ (L - 1) + 1 = L BY <1>2, <1>4
    <3>2. order'[1] = order[1 + 1] /\ order'[L - 1] = order[(L - 1) + 1] BY <3>1, <1>3
    <3>3. order' # <<>> BY <1>3, <1>4
    <3> QED BY <3>1, <3>2, <3>3, <1>1, <1>2, <1>3, <1>5
  <2>2. \A i, j \in 1 .. Len(order') : order'[i] = order'[j] => i = j
    BY <1>2, <1>3
  <2>3. ASSUME NEW i \in 1 .. Len(order') - 1
        PROVE  \/ next'[order'[i]] = order'[i + 1]
               \/ /\ next'[order'[i]] = Null
                  /\ \E q \in Procs : /\ push'[q].at = "link"
                                      /\ push'[q].prev = order'[i]
                                      /\ push'[q].node = order'[i + 1]
    <3>1. i + 1 \in 1 .. L - 1 /\ i \in 1 .. L - 1 BY <1>2, <1>3
    <3>2. order'[i] = order[i + 1] /\ order'[i + 1] = order[(i + 1) + 1] BY <3>1, <1>3
    <3>3. \/ next[order[i + 1]] = order[(i + 1) + 1]
          \/ /\ next[order[i + 1]] = Null
             /\ \E q \in Procs : /\ push[q].at = "link"
                                 /\ push[q].prev = order[i + 1]
                                 /\ push[q].node = order[(i + 1) + 1]
      BY <3>1, <1>1 DEF ChainIntact
    <3> QED BY <3>2, <3>3, <1>1
  <2> QED BY <2>1, <2>2, <2>3 DEF ChainIntact
<1>8. PushInv'
  <2>1. ASSUME NEW q \in Procs, push[q].at = "link"
        PROVE  \E i \in 1 .. Len(order') - 1 : /\ push[q].prev = order'[i]
                                               /\ push[q].node = order'[i + 1]
                                               /\ next[order'[i]] = Null
    <3>1. PICK i \in 1 .. L - 1 : /\ push[q].prev = order[i]
                                  /\ push[q].node = order[i + 1]
                                  /\ next[order[i]] = Null
      BY <2>1, <1>1 DEF PushInv
    <3>2. i # 1 BY <3>1, <1>2
    <3>3. i - 1 \in 1 .. Len(order') - 1 /\ i - 1 \in 1 .. L - 1 /\ (i - 1) + 1 = i
      BY <3>2, <1>2, <1>3
    <3>4. order'[i - 1] = order[i] /\ order'[(i - 1) + 1] = order[i + 1] BY <3>3, <1>3
    <3> QED BY <3>1, <3>3, <3>4
  <2>2. \A q \in Procs : push[q].at = "exchange" =>
                           /\ ~ Contains(order', push[q].node)
                           /\ next[push[q].node] = Null
    BY <1>1, <1>6 DEF PushInv
  <2>3. /\ \A q \in Procs : /\ push[q].at = "idle" <=> push[q].node = Null
                            /\ q \in Producers => push[q].node # Stub
        /\ \A q, r \in Procs : q # r /\ push[q].node # Null => push[q].node # push[r].node
    BY <1>1 DEF PushInv
  <2> QED BY <2>1, <2>2, <2>3, <1>1 DEF PushInv
<1>9. ASSUME NEW q \in Procs PROVE push[q].node # front
  <2>1. push[q] \in PushStates BY <1>1 DEF TypeOK
  <2>2. CASE push[q].at = "idle" BY <2>2, <1>1, <1>2 DEF PushInv, TypeOK
  <2>3. CASE push[q].at = "exchange"
    BY <2>3, <1>1, <1>2 DEF PushInv, Contains
  <2>4. CASE push[q].at = "link"
    <3>1. PICK i \in 1 .. L - 1 : push[q].node = order[i + 1] BY <2>4, <1>1 DEF PushInv
    <3>2. i + 1 \in 1 .. L /\ i + 1 # 1 /\ 1 \in 1 .. L BY <1>2
    <3> QED BY <3>1, <3>2, <1>2
  <2> QED BY <2>1, <2>2, <2>3, <2>4 DEF PushStates
<1> QED BY <1>1, <1>2, <1>3, <1>4, <1>5, <1>6, <1>7, <1>8, <1>9

------------------------------------------------------------------------------
(* The inductive invariant. *)

\* lh_exec_queue_init leaves the stub alone in the queue, which satisfies the invariant.
LEMMA InitInv == Init => IInv
<1> SUFFICES ASSUME Init PROVE IInv OBVIOUS
<1> USE QueueAssumption
<1>1. Len(order) = 1 /\ order[1] = Stub /\ order # <<>> BY DEF Init
<1>2. \A p \in Procs : push[p] = Idle BY DEF Init
<1>3. TypeOK
  <2>1. /\ next \in [Nodes -> Nodes \cup {Null}] /\ back \in Nodes /\ front \in Nodes
        /\ pop \in PopStates /\ held \in Tasks \cup {Null} /\ quiet \in BOOLEAN
    BY DEF Init, PopStates, Nodes
  <2>2. Idle \in PushStates BY DEF Idle, PushStates
  <2>3. push \in [Procs -> PushStates] BY <2>2 DEF Init
  <2>4. Stub \in Nodes BY DEF Nodes
  <2>5. order \in Seq(Nodes) BY <2>4 DEF Init
  <2> QED BY <2>1, <2>3, <2>5 DEF TypeOK
<1>4. ChainIntact
  <2>1. \A i \in 1 .. Len(order) - 1 : FALSE BY <1>1
  <2>2. next[back] = Null BY DEF Init, Nodes
  <2>3. \A i, j \in 1 .. Len(order) : i = j BY <1>1
  <2> QED BY <1>1, <2>1, <2>2, <2>3 DEF Init, ChainIntact
<1>5. PushInv BY <1>2 DEF PushInv, Idle, Nodes
<1>6. PopInv /\ HeldInv /\ QuietInv
  <2>1. push[Consumer].at = "idle" BY <1>2 DEF Procs, Idle
  <2> QED BY <2>1 DEF Init, PopInv, HeldInv, QuietInv
<1> QED BY <1>3, <1>4, <1>5, <1>6 DEF IInv

\* Handing out the front keeps the invariant.
LEMMA HandOutStep ==
    ASSUME IInv, HandOut, pop \in {"first", "second", "reread"}, front # Stub
    PROVE  IInv'
<1> USE QueueAssumption
<1>1. /\ next[front] # Null /\ StepFront /\ held' = front /\ pop' = "idle"
      /\ next' = next /\ back' = back /\ push' = push /\ quiet' = quiet
  BY DEF HandOut, StepFront
<1>2. TypeOK /\ PopInv /\ QuietInv BY DEF IInv
<1>3. /\ ChainIntact' /\ PushInv'
      /\ front' \in Nodes /\ order' \in Seq(Nodes)
      /\ ~ Contains(order', front)
      /\ \A p \in Procs : push[p].node # front
  BY <1>1, FrontStep
<1>4. TypeOK' BY <1>1, <1>2, <1>3 DEF TypeOK, Nodes, PopStates
<1>5. PopInv' BY <1>1, <1>2 DEF PopInv
<1>6. HeldInv' BY <1>1, <1>3 DEF HeldInv
<1>7. QuietInv' BY <1>1, <1>2 DEF QuietInv
<1> QED BY <1>3, <1>4, <1>5, <1>6, <1>7 DEF IInv

\* Every step of a push and of a pop keeps the invariant.
LEMMA NextInv == IInv /\ [Next]_vars => IInv'
<1> SUFFICES ASSUME IInv, [Next]_vars PROVE IInv' OBVIOUS
<1> USE QueueAssumption
<1>0. TypeOK /\ ChainIntact /\ PushInv /\ PopInv /\ HeldInv /\ QuietInv BY DEF IInv
<1>p. Consumer \in Procs /\ \A p \in Producers : p \in Procs /\ p # Consumer BY DEF Procs
<1>n. Stub \in Nodes /\ Stub # Null /\ \A t \in Tasks : t \in Nodes /\ t # Stub /\ t # Null
  BY DEF Nodes
<1>1. ASSUME NEW p \in Producers, StartPush(p) PROVE IInv'
  <2>1. PICK t \in Tasks : /\ IsFree(t) /\ PushClear(p, t) /\ quiet' = FALSE
                           /\ UNCHANGED <<back, front, pop, held, order>>
    BY <1>1 DEF StartPush
  <2>2. t # held /\ ~ Contains(order, t) /\ \A q \in Procs : push[q].node # t
    BY <2>1 DEF IsFree
  <2>3. /\ ChainIntact' /\ PushInv' /\ next' \in [Nodes -> Nodes \cup {Null}]
        /\ push' \in [Procs -> PushStates]
    BY <2>1, <2>2, <1>p, <1>n, ClearStep
  <2>4. TypeOK' BY <2>1, <2>3, <1>0 DEF TypeOK
  <2>5. /\ push'[p].node = t
        /\ \A q \in Procs : q # p => push'[q] = push[q]
    BY <2>1, <1>0, <1>p DEF PushClear, TypeOK
  <2>6. PopInv' BY <2>1, <2>5, <1>0, <1>p DEF PopInv
  <2>7. HeldInv' BY <2>1, <2>2, <2>5, <1>0 DEF HeldInv
  <2>8. QuietInv' BY <2>1 DEF QuietInv
  <2> QED BY <2>3, <2>4, <2>6, <2>7, <2>8 DEF IInv
<1>2. ASSUME NEW p \in Producers, Exchange(p) PROVE IInv'
  <2>1. PushExchange(p) /\ quiet' = FALSE /\ UNCHANGED <<next, front, pop, held>>
    BY <1>2 DEF Exchange, PushExchange
  <2>2. /\ ChainIntact' /\ PushInv'
        /\ back' \in Nodes /\ order' \in Seq(Nodes) /\ push' \in [Procs -> PushStates]
        /\ \A m : Contains(order', m) <=> Contains(order, m) \/ m = push[p].node
    BY <2>1, <1>p, ExchangeStep
  <2>3. TypeOK' BY <2>1, <2>2, <1>0 DEF TypeOK
  <2>4. /\ push'[p].node = push[p].node
        /\ \A q \in Procs : q # p => push'[q] = push[q]
    BY <2>1, <1>0, <1>p DEF PushExchange, TypeOK
  <2>5. push[p].node # Stub BY <1>0, <1>p DEF PushInv
  <2>6. PopInv' BY <2>1, <2>2, <2>4, <2>5, <1>0, <1>p DEF PopInv
  <2>7. HeldInv' BY <2>1, <2>2, <2>4, <1>0, <1>p DEF HeldInv
  <2>8. QuietInv' BY <2>1 DEF QuietInv
  <2> QED BY <2>2, <2>3, <2>6, <2>7, <2>8 DEF IInv
<1>3. ASSUME NEW p \in Producers, Link(p) PROVE IInv'
  <2>1. PushLink(p) /\ quiet' = FALSE /\ UNCHANGED <<back, order, front, pop, held>>
    BY <1>3 DEF Link, PushLink
  <2>2. /\ ChainIntact' /\ PushInv'
        /\ next' \in [Nodes -> Nodes \cup {Null}] /\ push' \in [Procs -> PushStates]
    BY <2>1, <1>p, LinkStep
  <2>3. TypeOK' BY <2>1, <2>2, <1>0 DEF TypeOK
  <2>4. /\ push'[p] = Idle
        /\ \A q \in Procs : q # p => push'[q] = push[q]
    BY <2>1, <1>0, <1>p DEF PushLink, TypeOK
  <2>5. PopInv' BY <2>1, <2>4, <1>0, <1>p DEF PopInv
  <2>6. HeldInv' BY <2>1, <2>4, <1>0 DEF HeldInv, Idle
  <2>7. QuietInv' BY <2>1 DEF QuietInv
  <2> QED BY <2>2, <2>3, <2>5, <2>6, <2>7 DEF IInv
<1>4. CASE PopCall
  <2>1. UNCHANGED <<next, back, front, push, held, order>> /\ pop' = "first"
        /\ pop = "idle" /\ held = Null /\ quiet' = ~ ProducerActive
    BY <1>4 DEF PopCall
  <2>2. TypeOK' BY <2>1, <1>0 DEF TypeOK, PopStates, ProducerActive
  <2>3. ChainIntact' BY <2>1, <1>0 DEF ChainIntact
  <2>4. PushInv' BY <2>1, <1>0 DEF PushInv
  <2>5. PopInv' BY <2>1, <1>0 DEF PopInv
  <2>6. HeldInv' BY <2>1, <1>0 DEF HeldInv
  <2>7. QuietInv' BY <2>1 DEF QuietInv, ProducerActive
  <2> QED BY <2>2, <2>3, <2>4, <2>5, <2>6, <2>7 DEF IInv
<1>s. ASSUME pop' \in PopStates, UNCHANGED <<next, back, front, push, held, order, quiet>>,
             PopInv', pop' = "back" => pop = "back" \/ next[front] = Null
      PROVE  IInv'
  <2>1. TypeOK' BY <1>s, <1>0 DEF TypeOK
  <2>2. ChainIntact' BY <1>s, <1>0 DEF ChainIntact
  <2>3. PushInv' BY <1>s, <1>0 DEF PushInv
  <2>4. HeldInv' /\ QuietInv' BY <1>s, <1>0 DEF HeldInv, QuietInv
  <2> QED BY <2>1, <2>2, <2>3, <2>4, <1>s DEF IInv
<1>5. CASE PopFirst
  <2>1. CASE front = Stub /\ next[front] = Null /\ ReturnNull
    <3>1. PopInv' /\ pop' \in PopStates
      BY <2>1, <1>5, <1>0 DEF PopFirst, ReturnNull, PopInv, PopStates
    <3> QED BY <3>1, <2>1, <1>s DEF ReturnNull
  <2>2. CASE front = Stub /\ next[front] # Null /\ StepFront /\ pop' = "second" /\ UNCHANGED held
    <3>1. UNCHANGED <<next, back, push, quiet>> BY <2>2 DEF StepFront
    <3>2. /\ ChainIntact' /\ PushInv'
          /\ front' \in Nodes /\ order' \in Seq(Nodes)
          /\ \A m : Contains(order', m) <=> Contains(order, m) /\ m # front
      BY <2>2, FrontStep
    <3>3. TypeOK' BY <2>2, <3>1, <3>2, <1>0 DEF TypeOK, PopStates
    <3>4. front' # Stub
      <4>1. Contains(order', front') BY <3>2 DEF ChainIntact, Contains
      <4> QED BY <4>1, <3>2, <2>2
    <3>5. held = Null /\ push[Consumer].at = "idle" BY <1>5, <1>0 DEF PopFirst, PopInv
    <3>6. PopInv' BY <2>2, <3>1, <3>2, <3>4, <3>5 DEF PopInv
    <3>7. HeldInv' /\ QuietInv' BY <2>2, <3>1, <3>5, <1>0 DEF HeldInv, QuietInv
    <3> QED BY <3>2, <3>3, <3>6, <3>7 DEF IInv
  <2>3. CASE front # Stub /\ HandOut
    BY <2>3, <1>5, HandOutStep DEF PopFirst
  <2>4. CASE front # Stub /\ next[front] = Null /\ GoOn("back")
    <3>1. PopInv' /\ pop' \in PopStates
      BY <2>4, <1>5, <1>0 DEF PopFirst, GoOn, PopInv, PopStates
    <3> QED BY <3>1, <2>4, <1>s DEF GoOn
  <2> QED BY <1>5, <2>1, <2>2, <2>3, <2>4 DEF PopFirst
<1>6. CASE PopSecond
  <2>1. CASE HandOut
    BY <2>1, <1>6, <1>0, HandOutStep DEF PopSecond, PopInv
  <2>2. CASE next[front] = Null /\ GoOn("back")
    <3>1. PopInv' /\ pop' \in PopStates
      BY <2>2, <1>6, <1>0 DEF PopSecond, GoOn, PopInv, PopStates
    <3> QED BY <3>1, <2>2, <1>s DEF GoOn
  <2> QED BY <1>6, <2>1, <2>2 DEF PopSecond
<1>7. CASE PopBack
  <2>1. CASE front # back /\ ReturnNull
    <3>1. PopInv' /\ pop' \in PopStates
      BY <2>1, <1>7, <1>0 DEF PopBack, ReturnNull, PopInv, PopStates
    <3> QED BY <3>1, <2>1, <1>s DEF ReturnNull
  <2>2. CASE front = back /\ GoOn("stub")
    <3>1. ~ Contains(order, Stub)
      <4>1. Len(order) \in Nat /\ Len(order) >= 1 BY <1>0 DEF TypeOK, ChainIntact
      <4>2. 1 \in 1 .. Len(order) /\ Len(order) \in 1 .. Len(order) BY <4>1
      <4>3. Len(order) = 1
        <5>1. order[1] = order[Len(order)] BY <2>2, <1>0 DEF ChainIntact
        <5>2. \A i, j \in 1 .. Len(order) : order[i] = order[j] => i = j
          BY <1>0 DEF ChainIntact
        <5> QED BY <5>1, <5>2, <4>2
      <4>4. order[1] # Stub BY <1>7, <1>0 DEF PopBack, PopInv, ChainIntact
      <4> QED BY <4>3, <4>4 DEF Contains
    <3>2. PopInv' /\ pop' \in PopStates
      BY <3>1, <2>2, <1>7, <1>0 DEF PopBack, GoOn, PopInv, PopStates
    <3> QED BY <3>2, <2>2, <1>s DEF GoOn
  <2> QED BY <1>7, <2>1, <2>2 DEF PopBack
<1>8. CASE PopStubClear
  <2>1. /\ pop = "stub" /\ PushClear(Consumer, Stub) /\ pop' = "pushing"
        /\ UNCHANGED <<back, front, held, order, quiet>>
    BY <1>8 DEF PopStubClear
  <2>2. ~ Contains(order, Stub) /\ front # Stub /\ held = Null BY <2>1, <1>0 DEF PopInv
  <2>3. \A q \in Procs : push[q].node # Stub
    BY <2>1, <1>0, <1>n DEF PushInv, PopInv, Procs
  <2>4. /\ ChainIntact' /\ PushInv' /\ next' \in [Nodes -> Nodes \cup {Null}]
        /\ push' \in [Procs -> PushStates]
    BY <2>1, <2>2, <2>3, <1>p, <1>n, ClearStep
  <2>5. TypeOK' BY <2>1, <2>4, <1>0 DEF TypeOK, PopStates
  <2>6. /\ push'[Consumer] = [at |-> "exchange", node |-> Stub, prev |-> Null]
        /\ \A q \in Procs : q # Consumer => push'[q] = push[q]
    BY <2>1, <1>0, <1>p DEF PushClear, TypeOK
  <2>7. PopInv' BY <2>1, <2>2, <2>6 DEF PopInv
  <2>8. HeldInv' BY <2>1, <2>2 DEF HeldInv
  <2>9. QuietInv' BY <2>1, <2>6, <1>0, <1>p DEF QuietInv
  <2> QED BY <2>4, <2>5, <2>7, <2>8, <2>9 DEF IInv
<1>9. CASE PopStubExchange
  <2>1. /\ pop = "pushing" /\ PushExchange(Consumer) /\ push[Consumer].at = "exchange"
        /\ UNCHANGED <<next, front, pop, held, quiet>>
    BY <1>9 DEF PopStubExchange, PushExchange
  <2>2. /\ ChainIntact' /\ PushInv'
        /\ back' \in Nodes /\ order' \in Seq(Nodes) /\ push' \in [Procs -> PushStates]
        /\ \A m : Contains(order', m) <=> Contains(order, m) \/ m = push[Consumer].node
    BY <2>1, <1>p, ExchangeStep
  <2>3. TypeOK' BY <2>1, <2>2, <1>0 DEF TypeOK
  <2>4. /\ push'[Consumer].node = push[Consumer].node /\ push'[Consumer].at = "link"
        /\ \A q \in Procs : q # Consumer => push'[q] = push[q]
    BY <2>1, <1>0, <1>p DEF PushExchange, TypeOK
  <2>5. PopInv' BY <2>1, <2>2, <2>4, <1>0 DEF PopInv
  <2>6. HeldInv' BY <2>1, <1>0 DEF HeldInv, PopInv
  <2>7. QuietInv' BY <2>1, <2>4, <1>0, <1>p DEF QuietInv
  <2> QED BY <2>2, <2>3, <2>5, <2>6, <2>7 DEF IInv
<1>10. CASE PopStubLink
  <2>1. /\ pop = "pushing" /\ PushLink(Consumer) /\ push[Consumer].at = "link"
        /\ pop' = "reread" /\ UNCHANGED <<back, order, front, held, quiet>>
    BY <1>10 DEF PopStubLink, PushLink
  <2>2. /\ ChainIntact' /\ PushInv'
        /\ next' \in [Nodes -> Nodes \cup {Null}] /\ push' \in [Procs -> PushStates]
    BY <2>1, <1>p, LinkStep
  <2>3. TypeOK' BY <2>1, <2>2, <1>0 DEF TypeOK, PopStates
  <2>4. /\ push'[Consumer] = Idle
        /\ \A q \in Procs : q # Consumer => push'[q] = push[q]
    BY <2>1, <1>0, <1>p DEF PushLink, TypeOK
  <2>5. Contains(order, Stub)
    <3>1. push[Consumer].node = Stub BY <2>1, <1>0 DEF PopInv
    <3>2. PICK i \in 1 .. Len(order) - 1 : push[Consumer].node = order[i + 1]
      BY <2>1, <1>0, <1>p DEF PushInv
    <3>3. i + 1 \in 1 .. Len(order) BY <1>0 DEF TypeOK
    <3> QED BY <3>1, <3>2, <3>3 DEF Contains
  <2>6. PopInv' BY <2>1, <2>4, <2>5, <1>0 DEF PopInv, Idle
  <2>7. HeldInv' BY <2>1, <1>0 DEF HeldInv, PopInv
  <2>8. QuietInv' BY <2>1, <2>4, <1>0, <1>p DEF QuietInv
  <2> QED BY <2>2, <2>3, <2>6, <2>7, <2>8 DEF IInv
<1>11. CASE PopReread
  <2>1. CASE HandOut
    BY <2>1, <1>11, <1>0, HandOutStep DEF PopReread, PopInv
  <2>2. CASE next[front] = Null /\ ReturnNull
    <3>1. PopInv' /\ pop' \in PopStates
      BY <2>2, <1>11, <1>0 DEF PopReread, ReturnNull, PopInv, PopStates
    <3> QED BY <3>1, <2>2, <1>s DEF ReturnNull
  <2> QED BY <1>11, <2>1, <2>2 DEF PopReread
<1>12. CASE LetGo
  <2>1. /\ pop = "idle" /\ held' = Null
        /\ UNCHANGED <<next, back, front, push, pop, order, quiet>>
    BY <1>12 DEF LetGo
  <2>2. TypeOK' BY <2>1, <1>0 DEF TypeOK
  <2>3. ChainIntact' BY <2>1, <1>0 DEF ChainIntact
  <2>4. PushInv' BY <2>1, <1>0 DEF PushInv
  <2>5. PopInv' BY <2>1, <1>0 DEF PopInv
  <2>6. HeldInv' /\ QuietInv' BY <2>1, <1>0 DEF HeldInv, QuietInv
  <2> QED BY <2>2, <2>3, <2>4, <2>5, <2>6 DEF IInv
<1>13. CASE UNCHANGED vars
  <2>1. PopInv' /\ pop' \in PopStates BY <1>13, <1>0 DEF vars, PopInv, TypeOK
  <2> QED BY <2>1, <1>13, <1>s DEF vars
<1> QED
  BY <1>1, <1>2, <1>3, <1>4, <1>5, <1>6, <1>7, <1>8, <1>9, <1>10, <1>11, <1>12, <1>13
  DEF Next, Produce, Consume, PopStep

------------------------------------------------------------------------------
(* The theorems. *)

\* The inductive invariant holds in every reachable state.
THEOREM InductiveInvariant == Spec => []IInv
<1> QED BY InitInv, NextInv, PTL DEF Spec

\* The words of the queue and the threads' places keep their types.
THEOREM TypeCorrect == Spec => []TypeOK
<1>1. IInv => TypeOK BY DEF IInv
<1> QED BY <1>1, InductiveInvariant, PTL

\* From front to back the nodes stay one chain in the order of the exchanges,
\* with a gap only where a thread's link is still to come.
THEOREM ChainTheorem == Spec => []ChainIntact
<1>1. IInv => ChainIntact BY DEF IInv
<1> QED BY <1>1, InductiveInvariant, PTL

\* No push ever writes into a task the queue does not own.
THEOREM LinksStayInsideTheorem == Spec => []LinksStayInside
<1>1. ASSUME IInv, NEW p \in Procs, push[p].at = "link"
      PROVE  Contains(order, push[p].prev)
  <2>1. PICK i \in 1 .. Len(order) - 1 : push[p].prev = order[i]
    BY <1>1 DEF IInv, PushInv
  <2>2. i \in 1 .. Len(order) BY <1>1 DEF IInv, TypeOK
  <2> QED BY <2>1, <2>2 DEF Contains
<1>2. IInv => LinksStayInside BY <1>1 DEF LinksStayInside
<1> QED BY <1>2, InductiveInvariant, PTL

\* Nobody is inside a push, so nothing is missing behind the front.
LEMMA NoGap ==
    ASSUME IInv, quiet, push[Consumer].at = "idle", next[front] = Null
    PROVE  Len(order) = 1 /\ front = back
<1> DEFINE L == Len(order)
<1>1. TypeOK /\ ChainIntact /\ QuietInv BY DEF IInv
<1>2. L \in Nat /\ L >= 1 /\ order[1] = front /\ order[L] = back
  BY <1>1 DEF TypeOK, ChainIntact
<1>3. \A p \in Procs : push[p].at # "link" BY <1>1 DEF QuietInv, Procs
<1>4. ASSUME L >= 2 PROVE FALSE
  <2>1. 1 \in 1 .. L - 1 /\ 1 + 1 \in 1 .. L BY <1>2, <1>4
  <2>2. next[order[1]] = order[1 + 1] BY <2>1, <1>1, <1>3 DEF ChainIntact
  <2>3. order[1 + 1] \in Nodes BY <2>1, <1>1 DEF TypeOK
  <2> QED BY <2>2, <2>3, <1>2, QueueAssumption
<1>5. L = 1
  <2>1. ~ (L >= 2) BY <1>4
  <2>2. L \in Nat /\ L >= 1 BY <1>2
  <2> HIDE DEF L
  <2> QED BY <2>1, <2>2
<1> QED BY <1>2, <1>5

\* A pop that no push overlapped returns null only from a queue without tasks.
THEOREM NullIsHonestTheorem == Spec => NullIsHonest
<1> DEFINE Honest == (pop # "idle" /\ pop' = "idle" /\ held' = Null /\ quiet)
                        => \A t \in Tasks : ~ Contains(order, t)
<1>1. IInv /\ [Next]_vars => [Honest]_vars
  <2> SUFFICES ASSUME IInv, Next, pop # "idle", pop' = "idle", held' = Null, quiet
               PROVE  \A t \in Tasks : ~ Contains(order, t)
    BY DEF vars
  <2>0. TypeOK /\ ChainIntact /\ PopInv BY DEF IInv
  <2>h. ~ HandOut
    <3> SUFFICES ASSUME HandOut PROVE FALSE OBVIOUS
    <3>1. held' = front BY DEF HandOut
    <3> QED BY <3>1, <2>0, QueueAssumption DEF TypeOK
  <2>1. ASSUME pop = "first", front = Stub, next[front] = Null
        PROVE  \A t \in Tasks : ~ Contains(order, t)
    <3>1. push[Consumer].at = "idle" BY <2>1, <2>0 DEF PopInv
    <3>2. Len(order) = 1 BY <3>1, <2>1, NoGap
    <3>3. order[1] = Stub BY <2>0, <2>1 DEF ChainIntact
    <3> QED BY <3>2, <3>3, QueueAssumption DEF Contains
  <2>2. ASSUME PopBack PROVE FALSE
    <3>1. pop = "back" /\ front # back BY <2>2 DEF PopBack, GoOn
    <3>2. push[Consumer].at = "idle" /\ next[front] = Null
      BY <3>1, <2>0 DEF IInv, PopInv, QuietInv
    <3> QED BY <3>1, <3>2, NoGap
  <2>3. ASSUME pop = "reread", next[front] = Null PROVE FALSE
    <3>1. push[Consumer].at = "idle" BY <2>3, <2>0 DEF PopInv
    <3>2. Len(order) = 1 BY <3>1, <2>3, NoGap
    <3>3. Contains(order, Stub) /\ front # Stub BY <2>3, <2>0 DEF PopInv
    <3> QED BY <3>2, <3>3, <2>0 DEF Contains, ChainIntact
  <2> QED
    BY <2>1, <2>2, <2>3, <2>h
    DEF Next, Produce, Consume, PopStep, StartPush, Exchange, Link, PopCall, PopFirst,
        PopSecond, PopStubClear, PopStubExchange, PopStubLink, PopReread, LetGo, GoOn
<1> QED BY <1>1, InductiveInvariant, PTL DEF Spec, NullIsHonest

------------------------------------------------------------------------------
(* The queue implements FifoQueue. *)

Distinct(s) == \A i, j \in 1 .. Len(s) : s[i] = s[j] => i = j

\* The sequence without the stub, place by place.
LEMMA WithoutStub ==
    ASSUME NEW s \in Seq(Nodes), NEW k \in 1 .. Len(s), Distinct(s), s[k] = Stub
    PROVE  /\ RemoveFirst(s, Stub) \in Seq(Nodes)
           /\ Len(RemoveFirst(s, Stub)) = Len(s) - 1
           /\ \A i \in 1 .. Len(s) - 1 :
                 RemoveFirst(s, Stub)[i] = IF i < k THEN s[i] ELSE s[i + 1]
<1> DEFINE I == {i \in 1 .. Len(s) : s[i] = Stub}
           before == SubSeq(s, 1, k - 1)
           after == SubSeq(s, k + 1, Len(s))
           q == RemoveFirst(s, Stub)
<1>1. Len(s) \in Nat /\ \A i \in 1 .. Len(s) : s[i] \in Nodes OBVIOUS
<1>2. I = {k} BY DEF Distinct
<1>3. Min({k}) = k BY DEF Min
<1>4. RemoveFirst(s, Stub) = RemoveAt(s, k)
  BY <1>2, <1>3 DEF RemoveFirst, SelectInSeq
<1> HIDE DEF I
<1>5. /\ before \in Seq(Nodes) /\ Len(before) = k - 1
      /\ \A i \in 1 .. k - 1 : before[i] = s[i]
  BY <1>1
<1>6. /\ after \in Seq(Nodes) /\ Len(after) = Len(s) - k
      /\ \A i \in 1 .. Len(s) - k : after[i] = s[i + k]
  BY <1>1
<1>7. q = before \o after BY <1>4 DEF RemoveAt
<1> HIDE DEF before, after, q
<1>8. q \in Seq(Nodes) /\ Len(q) = Len(s) - 1
  <2>1. \A u, v \in Seq(Nodes) : u \o v \in Seq(Nodes) /\ Len(u \o v) = Len(u) + Len(v)
    OBVIOUS
  <2>2. q \in Seq(Nodes) /\ Len(q) = Len(before) + Len(after)
    BY ONLY <1>5, <1>6, <1>7, <2>1
  <2> QED BY <1>1, <1>5, <1>6, <2>2
<1>9. ASSUME NEW i \in 1 .. Len(s) - 1 PROVE q[i] = IF i < k THEN s[i] ELSE s[i + 1]
  <2>1. CASE i < k BY <1>1, <1>5, <1>6, <1>7, <2>1
  <2>2. CASE ~ (i < k)
    <3>1. i - (k - 1) \in 1 .. Len(s) - k /\ (i - (k - 1)) + k = i + 1 BY <1>1, <2>2
    <3>2. q[i] = after[i - (k - 1)] BY <1>1, <1>5, <1>6, <1>7, <2>2
    <3> QED BY <1>6, <2>2, <3>1, <3>2
  <2> QED BY <2>1, <2>2
<1> QED BY <1>8, <1>9 DEF q

LEMMA NoStub ==
    ASSUME NEW s \in Seq(Nodes), ~ Contains(s, Stub)
    PROVE  RemoveFirst(s, Stub) = s
BY DEF RemoveFirst, Contains

\* It holds the tasks of the sequence.
LEMMA ContentHolds ==
    ASSUME NEW s \in Seq(Nodes), Distinct(s), NEW t, Contains(RemoveFirst(s, Stub), t)
    PROVE  Contains(s, t)
<1>1. CASE ~ Contains(s, Stub) BY <1>1, NoStub
<1>2. CASE Contains(s, Stub)
  <2>1. PICK k \in 1 .. Len(s) : s[k] = Stub BY <1>2 DEF Contains
  <2>2. PICK q : q = RemoveFirst(s, Stub) OBVIOUS
  <2>3. /\ Len(q) = Len(s) - 1 /\ Len(s) \in Nat
        /\ \A i \in 1 .. Len(s) - 1 : q[i] = IF i < k THEN s[i] ELSE s[i + 1]
    BY <2>1, <2>2, WithoutStub
  <2>4. PICK i \in 1 .. Len(s) - 1 : q[i] = t BY <2>2, <2>3 DEF Contains
  <2>5. i \in 1 .. Len(s) /\ i + 1 \in 1 .. Len(s) BY <2>3
  <2> QED BY <2>3, <2>4, <2>5 DEF Contains
<1> QED BY <1>1, <1>2

\* An exchange appends the task, or nothing when it is the stub's.
LEMMA ContentAppend ==
    ASSUME NEW s \in Seq(Nodes), Distinct(s), NEW n \in Nodes, ~ Contains(s, n)
    PROVE  RemoveFirst(Append(s, n), Stub)
              = IF n = Stub THEN RemoveFirst(s, Stub) ELSE Append(RemoveFirst(s, Stub), n)
<1> DEFINE a == Append(s, n)
<1>1. /\ a \in Seq(Nodes) /\ Len(a) = Len(s) + 1 /\ Len(s) \in Nat
      /\ \A i \in 1 .. Len(s) : a[i] = s[i]
      /\ a[Len(s) + 1] = n
      /\ \A m : Contains(a, m) <=> Contains(s, m) \/ m = n
  BY AppendFacts
<1> HIDE DEF a
<1>2. Distinct(a)
  <2>1. \A i \in 1 .. Len(s) : s[i] # n BY DEF Contains
  <2> QED BY <1>1, <2>1 DEF Distinct
<1>3. CASE n = Stub
  <2>1. Len(s) + 1 \in 1 .. Len(a) /\ a[Len(s) + 1] = Stub /\ Len(a) - 1 = Len(s)
    BY <1>1, <1>3
  <2>2. PICK q : q = RemoveFirst(a, Stub) OBVIOUS
  <2>3. PICK k \in 1 .. Len(a) : k = Len(s) + 1 BY <2>1
  <2>4. /\ q \in Seq(Nodes) /\ Len(q) = Len(a) - 1
        /\ \A i \in 1 .. Len(a) - 1 : q[i] = IF i < k THEN a[i] ELSE a[i + 1]
    BY <1>1, <1>2, <2>1, <2>2, <2>3, WithoutStub
  <2>5. \A i \in 1 .. Len(s) : q[i] = s[i] BY <1>1, <2>1, <2>3, <2>4
  <2>6. q = s BY <2>1, <2>4, <2>5, SeqEqual
  <2> QED BY <1>3, <2>2, <2>6, NoStub DEF a
<1>4. CASE n # Stub /\ ~ Contains(s, Stub)
  <2>1. ~ Contains(a, Stub) BY <1>1, <1>4
  <2> QED BY <1>1, <1>4, <2>1, NoStub DEF a
<1>5. CASE n # Stub /\ Contains(s, Stub)
  <2>1. PICK k \in 1 .. Len(s) : s[k] = Stub BY <1>5 DEF Contains
  <2>2. k \in 1 .. Len(a) /\ a[k] = Stub BY <1>1, <2>1
  <2>3. PICK q : q = RemoveFirst(a, Stub) OBVIOUS
  <2>4. PICK r : r = RemoveFirst(s, Stub) OBVIOUS
  <2>5. /\ q \in Seq(Nodes) /\ Len(q) = Len(a) - 1
        /\ \A i \in 1 .. Len(a) - 1 : q[i] = IF i < k THEN a[i] ELSE a[i + 1]
    BY <1>1, <1>2, <2>2, <2>3, WithoutStub
  <2>6. /\ r \in Seq(Nodes) /\ Len(r) = Len(s) - 1
        /\ \A i \in 1 .. Len(s) - 1 : r[i] = IF i < k THEN s[i] ELSE s[i + 1]
    BY <2>1, <2>4, WithoutStub
  <2>7. PICK b : b = Append(r, n) OBVIOUS
  <2>8. /\ b \in Seq(Nodes) /\ Len(b) = Len(s)
        /\ \A i \in 1 .. Len(s) - 1 : b[i] = r[i]
        /\ b[Len(s)] = n
    <3>1. /\ b \in Seq(Nodes) /\ Len(b) = Len(r) + 1
          /\ \A i \in 1 .. Len(r) : b[i] = r[i]
          /\ b[Len(r) + 1] = n
      BY <2>6, <2>7, AppendFacts
    <3>2. Len(r) + 1 = Len(s) BY <1>1, <2>6
    <3> QED BY <2>6, <3>1, <3>2
  <2>9. ASSUME NEW i \in 1 .. Len(s) PROVE q[i] = b[i]
    <3>1. i \in 1 .. Len(a) - 1 BY <1>1
    <3>2. CASE i = Len(s)
      <4>1. ~ (i < k) BY <1>1, <2>1, <3>2
      <4> QED BY <1>1, <2>5, <2>8, <3>1, <3>2, <4>1
    <3>3. CASE i # Len(s)
      <4>1. i \in 1 .. Len(s) - 1 /\ i + 1 \in 1 .. Len(s) BY <1>1, <3>3
      <4> QED BY <1>1, <2>5, <2>6, <2>8, <3>1, <4>1
    <3> QED BY <3>2, <3>3
  <2>10. Len(q) = Len(b) BY <1>1, <2>5, <2>8
  <2>11. q = b BY <2>5, <2>8, <2>9, <2>10, SeqEqual
  <2> QED BY <1>5, <2>3, <2>4, <2>7, <2>11 DEF a
<1> QED BY <1>3, <1>4, <1>5

\* A move of the front takes the oldest task, or nothing when the stub is there.
LEMMA ContentTail ==
    ASSUME NEW s \in Seq(Nodes), s # <<>>, Distinct(s)
    PROVE  /\ s[1] = Stub => RemoveFirst(Tail(s), Stub) = RemoveFirst(s, Stub)
           /\ s[1] # Stub => /\ RemoveFirst(s, Stub) # <<>>
                             /\ Head(RemoveFirst(s, Stub)) = s[1]
                             /\ RemoveFirst(Tail(s), Stub) = Tail(RemoveFirst(s, Stub))
<1> DEFINE a == Tail(s)
<1>1. /\ a \in Seq(Nodes) /\ Len(s) \in Nat \ {0} /\ Len(a) = Len(s) - 1
      /\ \A i \in 1 .. Len(s) - 1 : a[i] = s[i + 1]
      /\ \A m : Contains(a, m) <=> \E i \in 2 .. Len(s) : s[i] = m
  BY TailFacts
<1> HIDE DEF a
<1>2. Distinct(a)
  <2>1. SUFFICES ASSUME NEW i \in 1 .. Len(a), NEW j \in 1 .. Len(a), a[i] = a[j] PROVE i = j
    BY DEF Distinct
  <2>2. i + 1 \in 1 .. Len(s) /\ j + 1 \in 1 .. Len(s) /\ s[i + 1] = s[j + 1] BY <1>1, <2>1
  <2>3. i + 1 = j + 1 BY <2>2 DEF Distinct
  <2> QED BY <2>3
<1>3. 1 \in 1 .. Len(s) BY <1>1
<1>4. ASSUME s[1] = Stub PROVE RemoveFirst(a, Stub) = RemoveFirst(s, Stub)
  <2>1. ~ Contains(a, Stub)
    <3>1. \A i \in 2 .. Len(s) : i \in 1 .. Len(s) /\ i # 1 BY <1>1
    <3> QED BY <1>1, <1>3, <1>4, <3>1 DEF Distinct
  <2>2. PICK q : q = RemoveFirst(s, Stub) OBVIOUS
  <2>3. PICK k \in 1 .. Len(s) : k = 1 BY <1>3
  <2>4. /\ q \in Seq(Nodes) /\ Len(q) = Len(s) - 1
        /\ \A i \in 1 .. Len(s) - 1 : q[i] = IF i < k THEN s[i] ELSE s[i + 1]
    BY <1>4, <2>2, <2>3, WithoutStub
  <2>5. \A i \in 1 .. Len(q) : q[i] = a[i] BY <1>1, <2>3, <2>4
  <2>6. q = a BY <1>1, <2>4, <2>5, SeqEqual
  <2> QED BY <1>1, <2>1, <2>2, <2>6, NoStub
<1>5. CASE s[1] # Stub /\ ~ Contains(s, Stub)
  <2>1. ~ Contains(a, Stub)
    <3>1. \A i \in 2 .. Len(s) : i \in 1 .. Len(s) BY <1>1
    <3> QED BY <1>1, <1>5, <3>1 DEF Contains
  <2>2. RemoveFirst(a, Stub) = a BY <1>1, <2>1, NoStub
  <2>3. RemoveFirst(s, Stub) = s BY <1>5, NoStub
  <2>4. Head(s) = s[1] OBVIOUS
  <2> QED BY <1>5, <2>2, <2>3, <2>4 DEF a
<1>6. CASE s[1] # Stub /\ Contains(s, Stub)
  <2>1. PICK k \in 1 .. Len(s) : s[k] = Stub BY <1>6 DEF Contains
  <2>2. k # 1 BY <1>6, <2>1
  <2>3. PICK m \in 1 .. Len(a) : m = k - 1 BY <1>1, <2>1, <2>2
  <2>4. a[m] = Stub /\ m + 1 = k BY <1>1, <2>1, <2>3
  <2>5. PICK q : q = RemoveFirst(s, Stub) OBVIOUS
  <2>6. PICK r : r = RemoveFirst(a, Stub) OBVIOUS
  <2>7. /\ q \in Seq(Nodes) /\ Len(q) = Len(s) - 1
        /\ \A i \in 1 .. Len(s) - 1 : q[i] = IF i < k THEN s[i] ELSE s[i + 1]
    BY <2>1, <2>5, WithoutStub
  <2>8. /\ r \in Seq(Nodes) /\ Len(r) = Len(a) - 1
        /\ \A i \in 1 .. Len(a) - 1 : r[i] = IF i < m THEN a[i] ELSE a[i + 1]
    BY <1>1, <1>2, <2>4, <2>6, WithoutStub
  <2>9. 1 \in 1 .. Len(s) - 1 /\ 1 < k /\ Len(q) # 0 BY <1>1, <2>1, <2>2, <2>7
  <2>10. q # <<>> /\ q[1] = s[1] BY <2>7, <2>9
  <2>11. Head(q) = s[1] BY <2>7, <2>10
  <2>12. PICK b : b = Tail(q) OBVIOUS
  <2>13. /\ b \in Seq(Nodes) /\ Len(b) = Len(q) - 1
         /\ \A i \in 1 .. Len(q) - 1 : b[i] = q[i + 1]
    BY <2>7, <2>10, <2>12, TailFacts
  <2>14. Len(r) = Len(b) /\ Len(q) - 1 = Len(s) - 2 /\ Len(r) = Len(s) - 2
    BY <1>1, <2>7, <2>8, <2>13
  <2>15. ASSUME NEW i \in 1 .. Len(s) - 2 PROVE r[i] = b[i]
    <3>1. /\ i \in 1 .. Len(a) - 1 /\ i + 1 \in 1 .. Len(s) - 1
          /\ i \in 1 .. Len(s) - 1 /\ (i < m <=> i + 1 < k)
      BY <1>1, <2>4
    <3>2. b[i] = q[i + 1] BY <2>13, <2>14
    <3>3. q[i + 1] = IF i + 1 < k THEN s[i + 1] ELSE s[(i + 1) + 1] BY <2>7, <3>1
    <3>4. r[i] = IF i < m THEN a[i] ELSE a[i + 1] BY <2>8, <3>1
    <3>5. a[i] = s[i + 1] /\ a[i + 1] = s[(i + 1) + 1] BY <1>1, <3>1
    <3> QED BY <3>1, <3>2, <3>3, <3>4, <3>5
  <2>16. r = b BY <2>8, <2>13, <2>14, <2>15, SeqEqual
  <2> QED BY <1>6, <2>5, <2>6, <2>10, <2>11, <2>12, <2>16 DEF a
<1> QED BY <1>4, <1>5, <1>6 DEF a

\* What a step does to the queue that FifoQueue describes.
LEMMA NextFifo ==
    ASSUME IInv, [Next]_vars
    PROVE  [Fifo!Next]_(Fifo!fifoVars)
<1> USE QueueAssumption
<1>1. TypeOK /\ ChainIntact /\ PushInv /\ PopInv /\ HeldInv BY DEF IInv
<1>2. order \in Seq(Nodes) /\ order # <<>> /\ Distinct(order) /\ order[1] = front
  BY <1>1 DEF TypeOK, ChainIntact, Distinct
<1>3. ASSUME UNCHANGED <<order, held>> PROVE [Fifo!Next]_(Fifo!fifoVars)
  BY <1>3 DEF Fifo!fifoVars, Content
<1>4. ASSUME NEW p \in Producers, Exchange(p) PROVE Fifo!Next
  <2>1. PICK t : t = push[p].node OBVIOUS
  <2>2. p \in Procs /\ push[p].at = "exchange" /\ order' = Append(order, t) /\ UNCHANGED held
    BY <1>4, <2>1 DEF Exchange, PushExchange, Procs
  <2>3. t \in Tasks /\ ~ Contains(order, t)
    <3>1. t \in Nodes \cup {Null} BY <1>1, <2>1, <2>2 DEF TypeOK, PushStates
    <3>2. t # Null /\ t # Stub /\ ~ Contains(order, t) BY <1>1, <1>4, <2>1, <2>2 DEF PushInv
    <3> QED BY <3>1, <3>2 DEF Nodes
  <2>4. t # held BY <1>1, <2>1, <2>2, <2>3 DEF HeldInv, Nodes
  <2>5. ~ Contains(Content, t) BY <1>2, <2>3, ContentHolds DEF Content
  <2>6. Content' = Append(Content, t)
    BY <1>2, <2>2, <2>3, ContentAppend DEF Content, Nodes
  <2> QED BY <2>2, <2>3, <2>4, <2>5, <2>6 DEF Fifo!Next, Fifo!Put, Fifo!Contains, Contains
<1>5. ASSUME HandOut, pop \in {"first", "second", "reread"}, front # Stub PROVE Fifo!Next
  <2>1. order' = Tail(order) /\ held' = front BY <1>5 DEF HandOut, StepFront
  <2>2. held = Null BY <1>1, <1>5 DEF PopInv
  <2>3. Content # <<>> /\ Head(Content) = front /\ Content' = Tail(Content)
    BY <1>2, <1>5, <2>1, ContentTail DEF Content
  <2> QED BY <2>1, <2>2, <2>3 DEF Fifo!Next, Fifo!Take
<1>6. ASSUME front = Stub, StepFront, UNCHANGED held PROVE UNCHANGED Fifo!fifoVars
  <2>1. Content' = Content BY <1>2, <1>6, ContentTail DEF Content, StepFront
  <2> QED BY <1>6, <2>1 DEF Fifo!fifoVars
<1>7. CASE PopStubExchange
  <2>1. push[Consumer].node = Stub /\ push[Consumer].at = "exchange"
    BY <1>1, <1>7 DEF PopStubExchange, PushExchange, PopInv
  <2>2. order' = Append(order, Stub) /\ UNCHANGED held
    BY <1>7, <2>1 DEF PopStubExchange, PushExchange
  <2>3. ~ Contains(order, Stub) BY <1>1, <2>1 DEF PushInv, Procs
  <2>4. Content' = Content BY <1>2, <2>2, <2>3, ContentAppend DEF Content, Nodes
  <2> QED BY <2>2, <2>4 DEF Fifo!fifoVars
<1>8. CASE PopFirst
  <2>1. CASE front = Stub /\ next[front] # Null /\ StepFront /\ UNCHANGED held
    BY <1>6, <2>1
  <2>2. CASE front # Stub /\ HandOut BY <1>5, <1>8, <2>2 DEF PopFirst
  <2>3. CASE ReturnNull \/ GoOn("back") BY <1>3, <2>3 DEF ReturnNull, GoOn
  <2> QED BY <1>8, <2>1, <2>2, <2>3 DEF PopFirst
<1>9. CASE PopSecond \/ PopReread
  <2>1. front # Stub /\ pop \in {"second", "reread"}
    BY <1>1, <1>9 DEF PopSecond, PopReread, PopInv
  <2>2. CASE HandOut BY <1>5, <2>1, <2>2
  <2>3. CASE ReturnNull \/ GoOn("back") BY <1>3, <2>3 DEF ReturnNull, GoOn
  <2> QED BY <1>9, <2>2, <2>3 DEF PopSecond, PopReread
<1>10. CASE LetGo
  <2>1. held # Null /\ held' = Null /\ Content' = Content BY <1>10 DEF LetGo, Content
  <2> QED BY <2>1 DEF Fifo!Next, Fifo!LetGo
<1>11. CASE UNCHANGED vars BY <1>3, <1>11 DEF vars
<1>12. ASSUME NEW p \in Producers, StartPush(p) \/ Link(p) PROVE UNCHANGED <<order, held>>
  BY <1>12 DEF StartPush, Link, PushLink
<1>13. CASE PopCall \/ PopBack \/ PopStubClear \/ PopStubLink
  <2>1. UNCHANGED <<order, held>>
    BY <1>13 DEF PopCall, PopBack, ReturnNull, GoOn, PopStubClear, PopStubLink, PushLink
  <2> QED BY <1>3, <2>1
<1> QED
  BY <1>3, <1>4, <1>7, <1>8, <1>9, <1>10, <1>11, <1>12, <1>13
  DEF Next, Produce, Consume, PopStep

\* What try_pop hands out is always the task whose exchange is the oldest, each
\* once: the queue implements FifoQueue (queue.c:26-89).
THEOREM ImplementsFifoTheorem == Spec => ImplementsFifo
<1>1. Init => Fifo!Init
  <2> SUFFICES ASSUME Init PROVE Fifo!Init OBVIOUS
  <2>1. order = <<Stub>> /\ held = Null BY DEF Init
  <2>2. order \in Seq(Nodes) /\ Len(order) = 1 /\ order[1] = Stub BY <2>1 DEF Nodes
  <2>3. Distinct(order) BY <2>2 DEF Distinct
  <2>4. PICK k \in 1 .. Len(order) : order[k] = Stub BY <2>2
  <2>5. Content \in Seq(Nodes) /\ Len(Content) = 0 BY <2>2, <2>3, <2>4, WithoutStub DEF Content
  <2>6. Content = <<>> BY <2>5
  <2> QED BY <2>1, <2>6 DEF Fifo!Init
<1>2. IInv /\ [Next]_vars => [Fifo!Next]_(Fifo!fifoVars) BY NextFifo
<1> QED BY <1>1, <1>2, InductiveInvariant, PTL DEF Spec, ImplementsFifo, Fifo!Spec

==============================================================================
