------------------------- MODULE LoggerQueue_proofs -------------------------
(***************************************************************************)
(* Proofs of the safety properties of LoggerQueue, for every set of        *)
(* syncers, every capacity and every range of the counters, and of Spsc,   *)
(* the ring it keeps its records in.                                       *)
(***************************************************************************)
EXTENDS LoggerQueue, Spsc, TLAPS

------------------------------------------------------------------------------
(* The inductive invariant. *)

\* How far a request is ahead of what is completed, in the order of requests.
Ahead(request) == Minus(request, completed, RequestModulus)

\* The places of a round between the load of the request and its answer.
Answering == {"emit", "release", "drops", "reported", "due", "flush", "complete"}

\* The caller's records are written and flushed.
Kept(s) == sync[s].left = 0 /\ sync[s].flushed

\* The caller's request is made and not answered.
Open(s) == Ahead(sync[s].request) > 0 /\ Ahead(sync[s].request) <= Ahead(requested)

\* The request that the round answers includes the caller's.
Covered(s) == Ahead(sync[s].request) <= Ahead(worker.request)

\* A record that is released is in the ring and in the budget; only a sink that
\* hears of drops is told of them; the last round comes after the stop.
PlaceInv ==
    /\ worker.at = "reported" => sink.hears
    /\ worker.at = "release" => count > 0 /\ worker.budget > 0
    /\ worker.last => stopping

\* What the last round has done by the time it is at each of its places.
LastInv ==
    /\ worker.last /\ worker.at \in {"drops", "reported", "due", "flush", "complete", "close"}
          => count = 0
    /\ worker.last /\ worker.at \in {"reported", "due", "flush", "complete", "close"}
          => untold = 0
    /\ worker.last /\ worker.at \in {"complete", "close"} => ~ sink.dirty
    /\ worker.at = "ended" => stopping /\ count = 0 /\ untold = 0 /\ ~ sink.dirty
    /\ sink.closed => worker.at = "ended"

\* Requests do not run half a range ahead, so their order can be told.
RequestInv == Ahead(requested) < RequestModulus \div 2

\* A caller waits for records that are in the ring, and either has what it asked
\* for or has its request open.
CallerInv ==
    /\ stopping => \A s \in Syncers : sync[s].at = "idle"
    /\ \A s \in Syncers : sync[s].left <= Waiting
    /\ \A s \in Syncers : sync[s].at # "idle" => Kept(s) \/ Open(s)

\* The batch is long enough for the records of every caller the round answers.
RoundInv ==
    worker.at \in Answering =>
        /\ Ahead(worker.request) <= Ahead(requested)
        /\ \A s \in Syncers : sync[s].at # "idle" /\ Covered(s) =>
              /\ worker.at = "emit" => sync[s].left <= worker.budget
              /\ worker.at = "release" => sync[s].left < worker.budget
              /\ worker.at \notin {"emit", "release"} => sync[s].left = 0
              /\ worker.at = "complete" => sync[s].flushed

IInv ==
    /\ TypeOK /\ DropsExact /\ SyncKept
    /\ PlaceInv /\ LastInv /\ RequestInv /\ CallerInv /\ RoundInv

------------------------------------------------------------------------------
(* Counters that wrap. *)

\* A wrapped difference, without the remainder.
LEMMA MinusDef ==
  ASSUME NEW m \in Nat \ {0}, NEW a \in 0 .. m - 1, NEW b \in 0 .. m - 1
  PROVE  Minus(a, b, m) = IF b <= a THEN a - b ELSE a + m - b
<1>1. CASE b <= a
  <2>1. a - b \in Nat /\ a - b < m /\ a + m - b = (a - b) + m
    BY <1>1
  <2>2. \A x \in Nat : x < m => (x + m) % m = x
    OBVIOUS
  <2> QED BY <1>1, <2>1, <2>2 DEF Minus
<1>2. CASE ~ (b <= a)
  <2>1. a + m - b \in Nat /\ a + m - b < m
    BY <1>2
  <2>2. \A x \in Nat : x < m => x % m = x
    OBVIOUS
  <2> QED BY <1>2, <2>1, <2>2 DEF Minus
<1> QED BY <1>1, <1>2

\* The next value of a counter.
LEMMA NextDef ==
  ASSUME NEW m \in Nat \ {0}, NEW a \in 0 .. m - 1
  PROVE  (a + 1) % m = IF a + 1 = m THEN 0 ELSE a + 1
<1>1. \A x \in Nat : x < m => x % m = x
  OBVIOUS
<1>2. \A x \in Nat : x < m => (x + m) % m = x
  OBVIOUS
<1>3. CASE a + 1 = m
  BY <1>2, <1>3
<1>4. CASE a + 1 # m
  BY <1>1, <1>4
<1> QED BY <1>3, <1>4

\* How wrapped differences behave: in their range, when a counter goes on, and
\* seen from a later value.
LEMMA MinusFacts ==
  ASSUME NEW m \in Nat \ {0}, NEW a \in 0 .. m - 1, NEW b \in 0 .. m - 1
  PROVE  /\ Minus(a, b, m) \in 0 .. m - 1
         /\ Minus(a, a, m) = 0
         /\ (a + 1) % m \in 0 .. m - 1
         /\ Minus(a, b, m) < m - 1 => Minus((a + 1) % m, b, m) = Minus(a, b, m) + 1
         /\ Minus(a, b, m) > 0 => Minus(b, a, m) = m - Minus(a, b, m)
<1>1. (a + 1) % m = IF a + 1 = m THEN 0 ELSE a + 1
  BY NextDef
<1>2. (a + 1) % m \in 0 .. m - 1
  BY <1>1
<1>3. Minus((a + 1) % m, b, m)
         = IF b <= (a + 1) % m THEN ((a + 1) % m) - b ELSE ((a + 1) % m) + m - b
  BY <1>2, MinusDef
<1>4. /\ Minus(a, b, m) = IF b <= a THEN a - b ELSE a + m - b
      /\ Minus(b, a, m) = IF a <= b THEN b - a ELSE b + m - a
      /\ Minus(a, a, m) = IF a <= a THEN a - a ELSE a + m - a
  BY MinusDef
<1> QED BY <1>1, <1>2, <1>3, <1>4

LEMMA MinusShift ==
  ASSUME NEW m \in Nat \ {0}, NEW a \in 0 .. m - 1, NEW b \in 0 .. m - 1,
         NEW c \in 0 .. m - 1, Minus(b, c, m) <= Minus(a, c, m)
  PROVE  Minus(a, b, m) = Minus(a, c, m) - Minus(b, c, m)
BY MinusDef

\* Half of the range of requests.
LEMMA HalfFact ==
  /\ RequestModulus \in Nat \ {0}
  /\ RequestModulus \div 2 \in Nat \ {0}
  /\ RequestModulus = 2 * (RequestModulus \div 2)
BY LoggerAssumption

\* A request that is open has not been reached.
LEMMA OpenNotReached ==
  ASSUME TypeOK, RequestInv, NEW s \in Syncers, Open(s)
  PROVE  ~ HasReached(completed, sync[s].request)
<1>1. sync[s].request \in 0 .. RequestModulus - 1 /\ completed \in 0 .. RequestModulus - 1
      /\ requested \in 0 .. RequestModulus - 1
  BY DEF TypeOK
<1>2. Minus(completed, sync[s].request, RequestModulus)
         = RequestModulus - Minus(sync[s].request, completed, RequestModulus)
  BY <1>1, HalfFact, MinusFacts DEF Open, Ahead
<1>3. /\ Minus(sync[s].request, completed, RequestModulus) \in 0 .. RequestModulus - 1
      /\ Minus(requested, completed, RequestModulus) \in 0 .. RequestModulus - 1
  BY <1>1, HalfFact, MinusFacts
<1> QED BY <1>2, <1>3, HalfFact DEF Open, Ahead, RequestInv, HasReached

\* Distances from what is completed are numbers below the range.
LEMMA AheadFacts ==
  ASSUME TypeOK
  PROVE  /\ Ahead(requested) \in Nat /\ Ahead(requested) < RequestModulus
         /\ Ahead(worker.request) \in Nat
         /\ \A s \in Syncers : Ahead(sync[s].request) \in Nat
<1>1. /\ requested \in 0 .. RequestModulus - 1 /\ completed \in 0 .. RequestModulus - 1
      /\ worker.request \in 0 .. RequestModulus - 1
      /\ \A s \in Syncers : sync[s].request \in 0 .. RequestModulus - 1
  BY DEF TypeOK
<1>2. \A r \in 0 .. RequestModulus - 1 : Ahead(r) \in 0 .. RequestModulus - 1
  BY <1>1, HalfFact, MinusFacts DEF Ahead
<1> QED BY <1>1, <1>2, HalfFact

------------------------------------------------------------------------------
(* The steps. *)

LEMMA InitStep == Init => IInv
<1> SUFFICES ASSUME Init PROVE IInv
  OBVIOUS
<1>0. /\ 0 \in 0 .. RequestModulus - 1 /\ 0 \in 0 .. DropModulus - 1 /\ 0 \in 0 .. Capacity
  BY HalfFact, LoggerAssumption
<1>1. Minus(0, 0, RequestModulus) = 0
  BY <1>0, HalfFact, MinusFacts
<1>2. Minus(0, 0, DropModulus) = 0
  BY <1>0, LoggerAssumption, MinusFacts
<1>3. TypeOK
  BY <1>0, ZenonT(30) DEF Init, TypeOK, Resting, NoSync
<1>4. sink.dirty = FALSE /\ sink.closed = FALSE
  BY DEF Init
<1>5. DropsExact
  BY <1>2 DEF Init, Resting, DropsExact
<1>6. PlaceInv /\ LastInv
  BY <1>4 DEF Init, Resting, PlaceInv, LastInv
<1> QED
  BY <1>1, <1>3, <1>5, <1>6, HalfFact, LoggerAssumption
  DEF Init, IInv, Resting, NoSync, SyncKept, RequestInv, CallerInv, RoundInv, Ahead, Waiting,
      Answering

\* A record enters the ring.
LEMMA PushStep ==
  ASSUME IInv, Push
  PROVE  IInv'
<1> USE LoggerAssumption, HalfFact
<1>1. TypeOK'
  <2>1. woken' \in BOOLEAN
    BY Zenon DEF IInv, TypeOK, Push
  <2>2. count' \in 0 .. Capacity
    BY DEF IInv, TypeOK, Push
  <2> QED BY <2>1, <2>2 DEF IInv, TypeOK, Push
<1>2. DropsExact'
  BY DEF IInv, TypeOK, DropsExact, Push
<1>3. PlaceInv' /\ LastInv'
  BY DEF IInv, TypeOK, PlaceInv, LastInv, Push
<1>4. RequestInv'
  BY DEF IInv, TypeOK, RequestInv, Ahead, Push
<1>5. SyncKept'
  BY OpenNotReached DEF IInv, TypeOK, SyncKept, CallerInv, Kept, Push
<1>6. CallerInv'
  BY DEF IInv, TypeOK, CallerInv, Kept, Open, Ahead, Waiting, PlaceInv, Push
<1>7. RoundInv'
  BY DEF IInv, TypeOK, CallerInv, RoundInv, Answering, Covered, Ahead, PlaceInv, Waiting, Push
<1> QED BY <1>1, <1>2, <1>3, <1>4, <1>5, <1>6, <1>7 DEF IInv

\* A drop is counted.
LEMMA PushDropStep ==
  ASSUME IInv, PushDrop
  PROVE  IInv'
<1> USE LoggerAssumption, HalfFact
<1>a. dropped \in 0 .. DropModulus - 1 /\ reported \in 0 .. DropModulus - 1
      /\ worker.losses \in 0 .. DropModulus - 1
  BY DEF IInv, TypeOK
<1>b. /\ (dropped + 1) % DropModulus \in 0 .. DropModulus - 1
      /\ \A b \in 0 .. DropModulus - 1 :
            Minus(dropped, b, DropModulus) < DropModulus - 1 =>
               Minus((dropped + 1) % DropModulus, b, DropModulus)
                  = Minus(dropped, b, DropModulus) + 1
  BY <1>a, MinusFacts
<1>1. TypeOK'
  BY <1>b DEF IInv, TypeOK, PushDrop, DropBound
<1>2. DropsExact'
  BY <1>a, <1>b DEF IInv, TypeOK, DropsExact, PushDrop, DropBound
<1>3. PlaceInv' /\ LastInv'
  BY DEF IInv, TypeOK, PlaceInv, LastInv, PushDrop, DropBound
<1>4. RequestInv'
  BY DEF IInv, TypeOK, RequestInv, Ahead, PushDrop, DropBound
<1>5. SyncKept'
  BY OpenNotReached DEF IInv, TypeOK, SyncKept, CallerInv, Kept, PushDrop, DropBound
<1>6. CallerInv'
  BY DEF IInv, TypeOK, CallerInv, Kept, Open, Ahead, Waiting, PlaceInv, PushDrop, DropBound
<1>7. RoundInv'
  BY DEF IInv, TypeOK, CallerInv, RoundInv, Answering, Covered, Ahead, PlaceInv, Waiting,
      PushDrop, DropBound
<1> QED BY <1>1, <1>2, <1>3, <1>4, <1>5, <1>6, <1>7 DEF IInv

\* A request is made: it is open, and no round under way covers it.
LEMMA SyncRequestStep ==
  ASSUME IInv, NEW s \in Syncers, SyncRequest(s)
  PROVE  IInv'
<1> USE LoggerAssumption, HalfFact
<1>a. /\ requested \in 0 .. RequestModulus - 1 /\ completed \in 0 .. RequestModulus - 1
      /\ requested' = (requested + 1) % RequestModulus
      /\ Waiting \in 0 .. Capacity
  BY DEF IInv, TypeOK, SyncRequest, PlaceInv, Waiting
<1>b. /\ Ahead(requested) \in 0 .. RequestModulus - 1
      /\ Ahead(requested) < RequestModulus \div 2 - 1
  BY <1>a, MinusFacts DEF Ahead, SyncRequest, RequestBound
<1>c. requested' \in 0 .. RequestModulus - 1
  BY <1>a, MinusFacts
<1>d. Minus(requested', completed, RequestModulus) = Ahead(requested) + 1
  <2>1. Minus(requested, completed, RequestModulus) < RequestModulus - 1
    BY <1>b DEF Ahead
  <2> QED BY <1>a, <2>1, MinusFacts DEF Ahead
<1>e. \A t \in Syncers : t # s => sync'[t] = sync[t]
  BY DEF IInv, TypeOK, SyncRequest
<1>f. /\ sync'[s].left = Waiting /\ sync'[s].request = requested' /\ sync'[s].at = "locked"
      /\ Waiting' = Waiting
  BY DEF IInv, TypeOK, SyncRequest, Waiting
<1>1. TypeOK'
  BY <1>a, <1>c, ZenonT(30) DEF IInv, TypeOK, SyncRequest
<1>2. DropsExact'
  BY DEF IInv, TypeOK, DropsExact, SyncRequest, RequestBound, MutexFree
<1>3. PlaceInv' /\ LastInv'
  BY DEF IInv, TypeOK, PlaceInv, LastInv, SyncRequest, RequestBound, MutexFree
<1>4. RequestInv'
  BY <1>b, <1>d, HalfFact DEF RequestInv, Ahead, SyncRequest
<1>5. SyncKept'
  BY OpenNotReached DEF IInv, TypeOK, SyncKept, CallerInv, Kept, SyncRequest, RequestBound,
      MutexFree
<1>6. CallerInv'
  <2>1. ~ stopping'
    BY DEF SyncRequest
  <2>2. \A t \in Syncers : sync'[t].left <= Waiting'
    BY <1>a, <1>e, <1>f DEF IInv, CallerInv
  <2>3. ASSUME NEW t \in Syncers, sync'[t].at # "idle" PROVE Kept(t)' \/ Open(t)'
    <3>1. CASE t = s
      BY <1>b, <1>d, <1>f, <3>1 DEF Open, Ahead, SyncRequest
    <3>2. CASE t # s
      BY <1>b, <1>d, <1>e, <2>3, <3>2, AheadFacts
      DEF IInv, CallerInv, Kept, Open, Ahead, SyncRequest
    <3> QED BY <3>1, <3>2
  <2> QED BY <2>1, <2>2, <2>3 DEF CallerInv
<1>7. RoundInv'
  <2> SUFFICES ASSUME worker.at \in Answering PROVE RoundInv'
    BY DEF RoundInv, SyncRequest
  <2>1. Ahead(worker.request)' <= Ahead(requested)'
    BY <1>b, <1>d, AheadFacts DEF IInv, RoundInv, Ahead, SyncRequest
  <2>2. ~ Covered(s)'
    BY <1>b, <1>d, <1>f, AheadFacts DEF IInv, RoundInv, Covered, Ahead, SyncRequest
  <2>3. ASSUME NEW t \in Syncers, t # s PROVE Covered(t)' <=> Covered(t)
    BY <1>e, <2>3 DEF Covered, Ahead, SyncRequest
  <2> QED BY <1>e, <2>1, <2>2, <2>3 DEF IInv, RoundInv, SyncRequest
<1> QED BY <1>1, <1>2, <1>3, <1>4, <1>5, <1>6, <1>7 DEF IInv

\* The caller looks the first time.
LEMMA SyncWakeStep ==
  ASSUME IInv, NEW s \in Syncers, SyncWake(s)
  PROVE  IInv'
<1> USE LoggerAssumption, HalfFact
<1>1. TypeOK'
  BY DEF IInv, TypeOK, PlaceInv, Waiting, SyncWake, SyncTo
<1>2. DropsExact'
  BY DEF IInv, TypeOK, DropsExact, SyncWake, SyncTo
<1>3. PlaceInv' /\ LastInv'
  BY DEF IInv, TypeOK, PlaceInv, LastInv, SyncWake, SyncTo
<1>4. RequestInv'
  BY DEF IInv, TypeOK, RequestInv, Ahead, SyncWake, SyncTo
<1>5. SyncKept'
  BY OpenNotReached DEF IInv, TypeOK, SyncKept, CallerInv, Kept, SyncWake, SyncTo
<1>6. CallerInv'
  BY DEF IInv, TypeOK, CallerInv, Kept, Open, Ahead, Waiting, PlaceInv, SyncWake, SyncTo
<1>7. RoundInv'
  BY DEF IInv, TypeOK, CallerInv, RoundInv, Answering, Covered, Ahead, PlaceInv, Waiting,
      SyncWake, SyncTo
<1> QED BY <1>1, <1>2, <1>3, <1>4, <1>5, <1>6, <1>7 DEF IInv

\* The caller looks again.
LEMMA SyncCheckStep ==
  ASSUME IInv, NEW s \in Syncers, SyncCheck(s)
  PROVE  IInv'
<1> USE LoggerAssumption, HalfFact
<1>1. TypeOK'
  BY DEF IInv, TypeOK, PlaceInv, Waiting, SyncCheck, SyncTo
<1>2. DropsExact'
  BY DEF IInv, TypeOK, DropsExact, SyncCheck, SyncTo
<1>3. PlaceInv' /\ LastInv'
  BY DEF IInv, TypeOK, PlaceInv, LastInv, SyncCheck, SyncTo
<1>4. RequestInv'
  BY DEF IInv, TypeOK, RequestInv, Ahead, SyncCheck, SyncTo
<1>5. SyncKept'
  BY OpenNotReached DEF IInv, TypeOK, SyncKept, CallerInv, Kept, SyncCheck, SyncTo
<1>6. CallerInv'
  BY DEF IInv, TypeOK, CallerInv, Kept, Open, Ahead, Waiting, PlaceInv, SyncCheck, SyncTo
<1>7. RoundInv'
  BY DEF IInv, TypeOK, CallerInv, RoundInv, Answering, Covered, Ahead, PlaceInv, Waiting,
      SyncCheck, SyncTo
<1> QED BY <1>1, <1>2, <1>3, <1>4, <1>5, <1>6, <1>7 DEF IInv

\* The caller's time is over.
LEMMA SyncTimeoutStep ==
  ASSUME IInv, NEW s \in Syncers, SyncTimeout(s)
  PROVE  IInv'
<1> USE LoggerAssumption, HalfFact
<1>1. TypeOK'
  BY DEF IInv, TypeOK, PlaceInv, Waiting, SyncTimeout, SyncTo
<1>2. DropsExact'
  BY DEF IInv, TypeOK, DropsExact, SyncTimeout, SyncTo
<1>3. PlaceInv' /\ LastInv'
  BY DEF IInv, TypeOK, PlaceInv, LastInv, SyncTimeout, SyncTo
<1>4. RequestInv'
  BY DEF IInv, TypeOK, RequestInv, Ahead, SyncTimeout, SyncTo
<1>5. SyncKept'
  BY OpenNotReached DEF IInv, TypeOK, SyncKept, CallerInv, Kept, SyncTimeout, SyncTo
<1>6. CallerInv'
  BY DEF IInv, TypeOK, CallerInv, Kept, Open, Ahead, Waiting, PlaceInv, SyncTimeout, SyncTo
<1>7. RoundInv'
  BY DEF IInv, TypeOK, CallerInv, RoundInv, Answering, Covered, Ahead, PlaceInv, Waiting,
      SyncTimeout, SyncTo
<1> QED BY <1>1, <1>2, <1>3, <1>4, <1>5, <1>6, <1>7 DEF IInv

\* The caller goes on.
LEMMA SyncReturnStep ==
  ASSUME IInv, NEW s \in Syncers, SyncReturn(s)
  PROVE  IInv'
<1> USE LoggerAssumption, HalfFact
<1>1. TypeOK'
  BY DEF IInv, TypeOK, PlaceInv, Waiting, SyncReturn, NoSync
<1>2. DropsExact'
  BY DEF IInv, TypeOK, DropsExact, SyncReturn, NoSync
<1>3. PlaceInv' /\ LastInv'
  BY DEF IInv, TypeOK, PlaceInv, LastInv, SyncReturn, NoSync
<1>4. RequestInv'
  BY DEF IInv, TypeOK, RequestInv, Ahead, SyncReturn, NoSync
<1>5. SyncKept'
  BY OpenNotReached DEF IInv, TypeOK, SyncKept, CallerInv, Kept, SyncReturn, NoSync
<1>6. CallerInv'
  BY DEF IInv, TypeOK, CallerInv, Kept, Open, Ahead, Waiting, PlaceInv, SyncReturn, NoSync
<1>7. RoundInv'
  BY DEF IInv, TypeOK, CallerInv, RoundInv, Answering, Covered, Ahead, PlaceInv, Waiting,
      SyncReturn, NoSync
<1> QED BY <1>1, <1>2, <1>3, <1>4, <1>5, <1>6, <1>7 DEF IInv

\* The stop is asked when nobody syncs.
LEMMA DestroyStep ==
  ASSUME IInv, Destroy
  PROVE  IInv'
<1> USE LoggerAssumption, HalfFact
<1>1. TypeOK'
  BY DEF IInv, TypeOK, PlaceInv, Waiting, Destroy
<1>2. DropsExact'
  BY DEF IInv, TypeOK, DropsExact, Destroy
<1>3. PlaceInv' /\ LastInv'
  BY DEF IInv, TypeOK, PlaceInv, LastInv, Destroy
<1>4. RequestInv'
  BY DEF IInv, TypeOK, RequestInv, Ahead, Destroy
<1>5. SyncKept'
  BY OpenNotReached DEF IInv, TypeOK, SyncKept, CallerInv, Kept, Destroy
<1>6. CallerInv'
  BY DEF IInv, TypeOK, CallerInv, Kept, Open, Ahead, Waiting, PlaceInv, Destroy
<1>7. RoundInv'
  BY DEF IInv, TypeOK, CallerInv, RoundInv, Answering, Covered, Ahead, PlaceInv, Waiting, Destroy
<1> QED BY <1>1, <1>2, <1>3, <1>4, <1>5, <1>6, <1>7 DEF IInv

\* Destroy returns.
LEMMA DestroyFreeStep ==
  ASSUME IInv, DestroyFree
  PROVE  IInv'
<1> USE LoggerAssumption, HalfFact
<1>1. TypeOK'
  BY DEF IInv, TypeOK, PlaceInv, Waiting, DestroyFree
<1>2. DropsExact'
  BY DEF IInv, TypeOK, DropsExact, DestroyFree
<1>3. PlaceInv' /\ LastInv'
  BY DEF IInv, TypeOK, PlaceInv, LastInv, DestroyFree
<1>4. RequestInv'
  BY DEF IInv, TypeOK, RequestInv, Ahead, DestroyFree
<1>5. SyncKept'
  BY OpenNotReached DEF IInv, TypeOK, SyncKept, CallerInv, Kept, DestroyFree
<1>6. CallerInv'
  BY DEF IInv, TypeOK, CallerInv, Kept, Open, Ahead, Waiting, PlaceInv, DestroyFree
<1>7. RoundInv'
  BY DEF IInv, TypeOK, CallerInv, RoundInv, Answering, Covered, Ahead, PlaceInv, Waiting,
      DestroyFree
<1> QED BY <1>1, <1>2, <1>3, <1>4, <1>5, <1>6, <1>7 DEF IInv

\* A round begins.
LEMMA RoundBeginsStep ==
  ASSUME IInv, RoundBegins
  PROVE  IInv'
<1> USE LoggerAssumption, HalfFact
<1>1. TypeOK'
  BY DEF IInv, TypeOK, PlaceInv, Waiting, RoundBegins
<1>2. DropsExact'
  BY DEF IInv, TypeOK, DropsExact, RoundBegins
<1>3. PlaceInv' /\ LastInv'
  BY DEF IInv, TypeOK, PlaceInv, LastInv, RoundBegins
<1>4. RequestInv'
  BY DEF IInv, TypeOK, RequestInv, Ahead, RoundBegins
<1>5. SyncKept'
  BY OpenNotReached DEF IInv, TypeOK, SyncKept, CallerInv, Kept, RoundBegins
<1>6. CallerInv'
  BY DEF IInv, TypeOK, CallerInv, Kept, Open, Ahead, Waiting, PlaceInv, RoundBegins
<1>7. RoundInv'
  BY DEF IInv, TypeOK, CallerInv, RoundInv, Answering, Covered, Ahead, PlaceInv, Waiting,
      RoundBegins
<1> QED BY <1>1, <1>2, <1>3, <1>4, <1>5, <1>6, <1>7 DEF IInv

\* The round covers every request made by now.
LEMMA LoadRequestStep ==
  ASSUME IInv, LoadRequest
  PROVE  IInv'
<1> USE LoggerAssumption, HalfFact
<1>1. TypeOK'
  <2>1. Capacity \in 0 .. Capacity
    OBVIOUS
  <2> QED BY <2>1, ZenonT(30) DEF IInv, TypeOK, LoadRequest
<1>2. DropsExact'
  BY DEF IInv, TypeOK, DropsExact, LoadRequest
<1>3. PlaceInv' /\ LastInv'
  BY DEF IInv, TypeOK, PlaceInv, LastInv, LoadRequest
<1>4. RequestInv'
  BY DEF IInv, TypeOK, RequestInv, Ahead, LoadRequest
<1>5. SyncKept'
  BY OpenNotReached DEF IInv, TypeOK, SyncKept, CallerInv, Kept, LoadRequest
<1>6. CallerInv'
  BY DEF IInv, TypeOK, CallerInv, Kept, Open, Ahead, Waiting, PlaceInv, LoadRequest
<1>7. RoundInv'
  BY AheadFacts DEF IInv, TypeOK, CallerInv, RoundInv, Answering, Covered, Ahead, Waiting,
      LoadRequest
<1> QED BY <1>1, <1>2, <1>3, <1>4, <1>5, <1>6, <1>7 DEF IInv

\* A record is written, one of those that every covered caller waits for.
LEMMA EmitRecordStep ==
  ASSUME IInv, EmitRecord
  PROVE  IInv'
<1> USE LoggerAssumption, HalfFact
<1>1. TypeOK'
  <2>1. \A s \in Syncers : sync[s].left # 0 => sync[s].left - 1 \in 0 .. Capacity
    BY DEF IInv, TypeOK
  <2>2. sync' \in [Syncers -> [at : {"idle", "locked", "waiting", "signalled", "true", "false"},
                               request : 0 .. RequestModulus - 1, left : 0 .. Capacity,
                               flushed : BOOLEAN]]
    BY <2>1, ZenonT(30) DEF IInv, TypeOK, EmitRecord
  <2> QED BY <2>2 DEF IInv, TypeOK, EmitRecord
<1>2. DropsExact'
  BY DEF IInv, TypeOK, DropsExact, EmitRecord
<1>3. PlaceInv' /\ LastInv'
  BY DEF IInv, TypeOK, PlaceInv, LastInv, EmitRecord
<1>4. RequestInv'
  BY DEF IInv, TypeOK, RequestInv, Ahead, EmitRecord
<1>5. SyncKept'
  BY OpenNotReached DEF IInv, TypeOK, SyncKept, CallerInv, Kept, EmitRecord
<1>6. CallerInv'
  BY DEF IInv, TypeOK, CallerInv, Kept, Open, Ahead, Waiting, PlaceInv, EmitRecord
<1>7. RoundInv'
  BY DEF IInv, TypeOK, CallerInv, RoundInv, Answering, Covered, Ahead, PlaceInv, Waiting,
      EmitRecord
<1> QED BY <1>1, <1>2, <1>3, <1>4, <1>5, <1>6, <1>7 DEF IInv

\* The record leaves the ring.
LEMMA ReleaseRecordStep ==
  ASSUME IInv, ReleaseRecord
  PROVE  IInv'
<1> USE LoggerAssumption, HalfFact
<1>1. TypeOK'
  <2>1. count - 1 \in 0 .. Capacity /\ worker.budget - 1 \in 0 .. Capacity
    BY DEF IInv, TypeOK, PlaceInv, ReleaseRecord
  <2> QED BY <2>1, ZenonT(30) DEF IInv, TypeOK, ReleaseRecord, BudgetLeft
<1>2. DropsExact'
  BY DEF IInv, TypeOK, DropsExact, ReleaseRecord, BudgetLeft
<1>3. PlaceInv' /\ LastInv'
  BY DEF IInv, TypeOK, PlaceInv, LastInv, ReleaseRecord, BudgetLeft
<1>4. RequestInv'
  BY DEF IInv, TypeOK, RequestInv, Ahead, ReleaseRecord, BudgetLeft
<1>5. SyncKept'
  BY OpenNotReached DEF IInv, TypeOK, SyncKept, CallerInv, Kept, ReleaseRecord, BudgetLeft
<1>6. CallerInv'
  BY DEF IInv, TypeOK, CallerInv, Kept, Open, Ahead, Waiting, PlaceInv, ReleaseRecord, BudgetLeft
<1>7. RoundInv'
  BY DEF IInv, TypeOK, CallerInv, RoundInv, Answering, Covered, Ahead, PlaceInv, Waiting,
      ReleaseRecord, BudgetLeft
<1> QED BY <1>1, <1>2, <1>3, <1>4, <1>5, <1>6, <1>7 DEF IInv

\* The batch ends: nothing is left of what the round covers.
LEMMA EmitEndsStep ==
  ASSUME IInv, EmitEnds
  PROVE  IInv'
<1> USE LoggerAssumption, HalfFact
<1>1. TypeOK'
  <2>1. Capacity \in 0 .. Capacity /\ 0 \in 0 .. Capacity
    OBVIOUS
  <2> QED BY <2>1, ZenonT(30) DEF IInv, TypeOK, EmitEnds
<1>2. DropsExact'
  BY DEF IInv, TypeOK, DropsExact, EmitEnds
<1>3. PlaceInv' /\ LastInv'
  BY DEF IInv, TypeOK, PlaceInv, LastInv, EmitEnds
<1>4. RequestInv'
  BY DEF IInv, TypeOK, RequestInv, Ahead, EmitEnds
<1>5. SyncKept'
  BY OpenNotReached DEF IInv, TypeOK, SyncKept, CallerInv, Kept, EmitEnds
<1>6. CallerInv'
  BY DEF IInv, TypeOK, CallerInv, Kept, Open, Ahead, Waiting, PlaceInv, EmitEnds
<1>7. RoundInv'
  BY DEF IInv, TypeOK, CallerInv, RoundInv, Answering, Covered, Ahead, PlaceInv, Waiting,
      EmitEnds
<1> QED BY <1>1, <1>2, <1>3, <1>4, <1>5, <1>6, <1>7 DEF IInv

\* The sink is told of the drops.
LEMMA ReportDropsStep ==
  ASSUME IInv, ReportDrops
  PROVE  IInv'
<1> USE LoggerAssumption, HalfFact
<1>a. untold' = 0 /\ dropped \in 0 .. DropModulus - 1 /\ 0 \in 0 .. DropModulus - 1
  BY DEF IInv, TypeOK, DropsExact, ReportDrops
<1>b. Minus(dropped, dropped, DropModulus) = 0
  BY <1>a, MinusFacts
<1>1. TypeOK'
  BY <1>a, ZenonT(30) DEF IInv, TypeOK, ReportDrops
<1>2. DropsExact'
  BY <1>a, <1>b DEF IInv, TypeOK, DropsExact, ReportDrops
<1>3. PlaceInv' /\ LastInv'
  BY <1>a DEF IInv, TypeOK, PlaceInv, LastInv, ReportDrops
<1>4. RequestInv'
  BY DEF IInv, TypeOK, RequestInv, Ahead, ReportDrops
<1>5. SyncKept'
  BY OpenNotReached DEF IInv, TypeOK, SyncKept, CallerInv, Kept, ReportDrops
<1>6. CallerInv'
  BY DEF IInv, TypeOK, CallerInv, Kept, Open, Ahead, Waiting, PlaceInv, ReportDrops
<1>7. RoundInv'
  BY DEF IInv, TypeOK, CallerInv, RoundInv, Answering, Covered, Ahead, PlaceInv, Waiting,
      ReportDrops
<1> QED BY <1>1, <1>2, <1>3, <1>4, <1>5, <1>6, <1>7 DEF IInv

\* What it was told is noted.
LEMMA ReportStoreStep ==
  ASSUME IInv, ReportStore
  PROVE  IInv'
<1> USE LoggerAssumption, HalfFact
<1>1. TypeOK'
  <2>1. 0 \in 0 .. DropModulus - 1
    OBVIOUS
  <2> QED BY <2>1, ZenonT(30) DEF IInv, TypeOK, ReportStore, Told
<1>2. DropsExact'
  BY DEF IInv, TypeOK, DropsExact, PlaceInv, ReportStore, Told
<1>3. PlaceInv' /\ LastInv'
  BY DEF IInv, TypeOK, PlaceInv, LastInv, ReportStore, Told
<1>4. RequestInv'
  BY DEF IInv, TypeOK, RequestInv, Ahead, ReportStore, Told
<1>5. SyncKept'
  BY OpenNotReached DEF IInv, TypeOK, SyncKept, CallerInv, Kept, ReportStore, Told
<1>6. CallerInv'
  BY DEF IInv, TypeOK, CallerInv, Kept, Open, Ahead, Waiting, PlaceInv, ReportStore, Told
<1>7. RoundInv'
  BY DEF IInv, TypeOK, CallerInv, RoundInv, Answering, Covered, Ahead, PlaceInv, Waiting,
      ReportStore, Told
<1> QED BY <1>1, <1>2, <1>3, <1>4, <1>5, <1>6, <1>7 DEF IInv

\* A sink without the callback is told nothing.
LEMMA ReportSkippedStep ==
  ASSUME IInv, ReportSkipped
  PROVE  IInv'
<1> USE LoggerAssumption, HalfFact
<1>1. TypeOK'
  <2>1. 0 \in 0 .. DropModulus - 1
    OBVIOUS
  <2> QED BY <2>1, ZenonT(30) DEF IInv, TypeOK, ReportSkipped
<1>2. DropsExact'
  BY DEF IInv, TypeOK, DropsExact, PlaceInv, ReportSkipped
<1>3. PlaceInv' /\ LastInv'
  BY DEF IInv, TypeOK, DropsExact, PlaceInv, LastInv, ReportSkipped
<1>4. RequestInv'
  BY DEF IInv, TypeOK, RequestInv, Ahead, ReportSkipped
<1>5. SyncKept'
  BY OpenNotReached DEF IInv, TypeOK, SyncKept, CallerInv, Kept, ReportSkipped
<1>6. CallerInv'
  BY DEF IInv, TypeOK, CallerInv, Kept, Open, Ahead, Waiting, PlaceInv, ReportSkipped
<1>7. RoundInv'
  BY DEF IInv, TypeOK, CallerInv, RoundInv, Answering, Covered, Ahead, PlaceInv, Waiting,
      ReportSkipped
<1> QED BY <1>1, <1>2, <1>3, <1>4, <1>5, <1>6, <1>7 DEF IInv

\* The last round answers everybody, and nobody waits by then.
LEMMA FlushDueStep ==
  ASSUME IInv, FlushDue
  PROVE  IInv'
<1> USE LoggerAssumption, HalfFact
<1>1. TypeOK'
  BY DEF IInv, TypeOK, PlaceInv, Waiting, FlushDue, Answers
<1>2. DropsExact'
  BY DEF IInv, TypeOK, DropsExact, FlushDue, Answers
<1>3. PlaceInv' /\ LastInv'
  BY DEF IInv, TypeOK, PlaceInv, LastInv, FlushDue, Answers
<1>4. RequestInv'
  BY DEF IInv, TypeOK, RequestInv, Ahead, FlushDue, Answers
<1>5. SyncKept'
  BY OpenNotReached DEF IInv, TypeOK, SyncKept, CallerInv, Kept, FlushDue, Answers
<1>6. CallerInv'
  BY DEF IInv, TypeOK, CallerInv, Kept, Open, Ahead, Waiting, PlaceInv, FlushDue, Answers
<1>7. RoundInv'
  <2>1. CASE worker.last
    BY <2>1, AheadFacts
    DEF IInv, TypeOK, CallerInv, RoundInv, Ahead, PlaceInv, FlushDue, Answers
  <2>2. CASE ~ worker.last
    BY <2>2, AheadFacts
    DEF IInv, TypeOK, RoundInv, Answering, Covered, Ahead, FlushDue, Answers
  <2> QED BY <2>1, <2>2
<1> QED BY <1>1, <1>2, <1>3, <1>4, <1>5, <1>6, <1>7 DEF IInv

\* No flush is due.
LEMMA FlushSkippedStep ==
  ASSUME IInv, FlushSkipped
  PROVE  IInv'
<1> USE LoggerAssumption, HalfFact
<1>1. TypeOK'
  BY DEF IInv, TypeOK, PlaceInv, Waiting, FlushSkipped, MaySkip
<1>2. DropsExact'
  BY DEF IInv, TypeOK, DropsExact, FlushSkipped, MaySkip
<1>3. PlaceInv' /\ LastInv'
  BY DEF IInv, TypeOK, PlaceInv, LastInv, FlushSkipped, MaySkip
<1>4. RequestInv'
  BY DEF IInv, TypeOK, RequestInv, Ahead, FlushSkipped, MaySkip
<1>5. SyncKept'
  BY OpenNotReached DEF IInv, TypeOK, SyncKept, CallerInv, Kept, FlushSkipped, MaySkip
<1>6. CallerInv'
  BY DEF IInv, TypeOK, CallerInv, Kept, Open, Ahead, Waiting, PlaceInv, FlushSkipped, MaySkip
<1>7. RoundInv'
  BY DEF IInv, TypeOK, CallerInv, RoundInv, Answering, Covered, Ahead, PlaceInv, Waiting,
      FlushSkipped, MaySkip
<1> QED BY <1>1, <1>2, <1>3, <1>4, <1>5, <1>6, <1>7 DEF IInv

\* The sink flushes what was written.
LEMMA FlushSinkStep ==
  ASSUME IInv, FlushSink
  PROVE  IInv'
<1> USE LoggerAssumption, HalfFact
<1>1. TypeOK'
  BY ZenonT(30) DEF IInv, TypeOK, PlaceInv, Waiting, FlushSink
<1>2. DropsExact'
  BY DEF IInv, TypeOK, DropsExact, FlushSink
<1>3. PlaceInv' /\ LastInv'
  BY DEF IInv, TypeOK, PlaceInv, LastInv, FlushSink
<1>4. RequestInv'
  BY DEF IInv, TypeOK, RequestInv, Ahead, FlushSink
<1>5. SyncKept'
  BY OpenNotReached DEF IInv, TypeOK, SyncKept, CallerInv, Kept, FlushSink
<1>6. CallerInv'
  BY DEF IInv, TypeOK, CallerInv, Kept, Open, Ahead, Waiting, PlaceInv, FlushSink
<1>7. RoundInv'
  BY DEF IInv, TypeOK, CallerInv, RoundInv, Answering, Covered, Ahead, PlaceInv, Waiting,
      FlushSink
<1> QED BY <1>1, <1>2, <1>3, <1>4, <1>5, <1>6, <1>7 DEF IInv

\* The answer: requests the round does not cover stay open.
LEMMA FlushCompleteStep ==
  ASSUME IInv, FlushComplete
  PROVE  IInv'
<1> USE LoggerAssumption, HalfFact
<1>a. /\ requested \in 0 .. RequestModulus - 1 /\ completed \in 0 .. RequestModulus - 1
      /\ completed' = worker.request
      /\ worker.request \in 0 .. RequestModulus - 1
      /\ \A s \in Syncers : sync[s].request \in 0 .. RequestModulus - 1
  BY DEF IInv, TypeOK, FlushComplete
<1>b. ASSUME NEW r \in 0 .. RequestModulus - 1, Ahead(worker.request) <= Ahead(r)
      PROVE  Minus(r, worker.request, RequestModulus) = Ahead(r) - Ahead(worker.request)
  BY <1>a, <1>b, HalfFact, MinusShift DEF Ahead
<1>c. Ahead(worker.request) <= Ahead(requested)
  BY DEF IInv, RoundInv, FlushComplete, Answering
<1>d. Ahead(requested)' = Ahead(requested) - Ahead(worker.request)
  BY <1>a, <1>b, <1>c DEF Ahead, FlushComplete
<1>1. TypeOK'
  BY DEF IInv, TypeOK, PlaceInv, Waiting, FlushComplete
<1>2. DropsExact'
  BY DEF IInv, TypeOK, DropsExact, FlushComplete
<1>3. PlaceInv' /\ LastInv'
  BY DEF IInv, TypeOK, PlaceInv, LastInv, FlushComplete
<1>4. RequestInv'
  BY <1>d, AheadFacts, HalfFact DEF IInv, RequestInv
<1>5. SyncKept'
  BY OpenNotReached DEF IInv, TypeOK, SyncKept, CallerInv, Kept, FlushComplete
<1>6. CallerInv'
  <2>1. ASSUME NEW s \in Syncers
        PROVE  /\ sync'[s].left = sync[s].left /\ sync'[s].flushed = sync[s].flushed
               /\ sync'[s].request = sync[s].request
               /\ sync'[s].at = "idle" <=> sync[s].at = "idle"
    BY DEF IInv, TypeOK, FlushComplete
  <2>2. Waiting' = Waiting /\ stopping' = stopping
    BY DEF FlushComplete, Waiting, IInv, TypeOK
  <2>3. ASSUME NEW s \in Syncers, sync[s].at # "idle", ~ Kept(s) PROVE Open(s)'
    <3>1. Open(s) /\ ~ Covered(s)
      BY <2>3 DEF IInv, CallerInv, RoundInv, Answering, FlushComplete, Kept
    <3>2. Minus(sync[s].request, worker.request, RequestModulus)
             = Ahead(sync[s].request) - Ahead(worker.request)
      BY <1>a, <1>b, <3>1, AheadFacts DEF Covered, IInv
    <3>3. Ahead(sync[s].request)' = Ahead(sync[s].request) - Ahead(worker.request)
      BY <1>a, <2>1, <3>2 DEF Ahead
    <3> QED BY <1>d, <3>1, <3>3, AheadFacts DEF Open, Covered, IInv
  <2> QED BY <2>1, <2>2, <2>3 DEF IInv, CallerInv, Kept
<1>7. RoundInv'
  BY DEF IInv, TypeOK, CallerInv, RoundInv, Answering, Covered, Ahead, PlaceInv, Waiting,
      FlushComplete
<1> QED BY <1>1, <1>2, <1>3, <1>4, <1>5, <1>6, <1>7 DEF IInv

\* The round ends, the last one with the sink closed.
LEMMA RoundEndsStep ==
  ASSUME IInv, RoundEnds
  PROVE  IInv'
<1> USE LoggerAssumption, HalfFact
<1>1. TypeOK'
  <2>1. 0 \in 0 .. Capacity /\ 0 \in 0 .. RequestModulus - 1 /\ 0 \in 0 .. DropModulus - 1
    OBVIOUS
  <2>2. worker' \in [at : {"sleep", "request", "emit", "release", "drops", "reported", "due",
                           "flush", "complete", "close", "ended"},
                     last : BOOLEAN, request : 0 .. RequestModulus - 1, budget : 0 .. Capacity,
                     losses : 0 .. DropModulus - 1]
    BY <2>1, ZenonT(30) DEF RoundEnds, Resting, AfterRound
  <2>3. woken' \in BOOLEAN
    BY Zenon DEF IInv, TypeOK, RoundEnds
  <2> QED BY <2>2, <2>3, ZenonT(30) DEF IInv, TypeOK, RoundEnds
<1>2. DropsExact'
  BY DEF IInv, TypeOK, DropsExact, RoundEnds, Resting, AfterRound
<1>3. PlaceInv' /\ LastInv'
  BY DEF IInv, TypeOK, PlaceInv, LastInv, RoundEnds, Resting, AfterRound
<1>4. RequestInv'
  BY DEF IInv, TypeOK, RequestInv, Ahead, RoundEnds, Resting, AfterRound
<1>5. SyncKept'
  BY OpenNotReached DEF IInv, TypeOK, SyncKept, CallerInv, Kept, RoundEnds, Resting, AfterRound
<1>6. CallerInv'
  BY DEF IInv, TypeOK, CallerInv, Kept, Open, Ahead, Waiting, PlaceInv, RoundEnds, Resting,
      AfterRound
<1>7. RoundInv'
  BY DEF IInv, TypeOK, CallerInv, RoundInv, Answering, Covered, Ahead, PlaceInv, Waiting,
      RoundEnds, Resting, AfterRound
<1> QED BY <1>1, <1>2, <1>3, <1>4, <1>5, <1>6, <1>7 DEF IInv

LEMMA NextStep == IInv /\ [Next]_vars => IInv'
<1> SUFFICES ASSUME IInv, [Next]_vars PROVE IInv'
  OBVIOUS
<1>1. CASE Push \/ PushDrop
  BY <1>1, PushStep, PushDropStep
<1>2. ASSUME NEW s \in Syncers,
             SyncRequest(s) \/ SyncStep(s) \/ SyncTimeout(s) \/ SyncReturn(s)
      PROVE  IInv'
  BY <1>2, SyncRequestStep, SyncWakeStep, SyncCheckStep, SyncTimeoutStep, SyncReturnStep
  DEF SyncStep
<1>3. CASE Destroy \/ DestroyFree
  BY <1>3, DestroyStep, DestroyFreeStep
<1>4. CASE RoundWoken \/ RoundTimed \/ LoadRequest \/ EmitRecord \/ ReleaseRecord \/ EmitEnds
  BY <1>4, RoundBeginsStep, LoadRequestStep, EmitRecordStep, ReleaseRecordStep, EmitEndsStep
  DEF RoundWoken, RoundTimed
<1>5. CASE ReportDrops \/ ReportStore \/ ReportSkipped \/ FlushDue \/ FlushSkipped
  BY <1>5, ReportDropsStep, ReportStoreStep, ReportSkippedStep, FlushDueStep, FlushSkippedStep
<1>6. CASE FlushSink \/ FlushComplete \/ RoundEnds
  BY <1>6, FlushSinkStep, FlushCompleteStep, RoundEndsStep
<1>7. CASE UNCHANGED vars
  BY <1>7
  DEF vars, IInv, TypeOK, DropsExact, SyncKept, PlaceInv, LastInv, RequestInv, CallerInv, RoundInv,
      Kept, Open, Covered, Ahead, Waiting
<1> QED BY <1>1, <1>2, <1>3, <1>4, <1>5, <1>6, <1>7 DEF Next, WorkerStep, Done

------------------------------------------------------------------------------
(* Theorems. *)

\* IInv holds in every state of every behaviour of the queue.
THEOREM InductiveInvariant == Spec => []IInv
<1>1. Init => IInv
  BY InitStep
<1>2. IInv /\ [Next]_vars => IInv'
  BY NextStep
<1> QED BY <1>1, <1>2, PTL DEF Spec

\* A sync that returned true kept its promise (queue.c, lh_os_logger_queue_sync):
\* what was pushed before the call is written and flushed, although requests
\* wrap and rounds answer them in bulk.
THEOREM SyncKeptTheorem == Spec => []SyncKept
<1>1. IInv => SyncKept
  BY DEF IInv
<1> QED BY <1>1, InductiveInvariant, PTL

\* The counters stay in their ranges and every drop is told once (queue.c,
\* lh_os_logger_queue_push and lh_os_logger_queue_report_drops).
THEOREM QueueSoundTheorem == Spec => []QueueSound
<1>1. IInv => QueueSound
  BY DEF IInv, QueueSound
<1> QED BY <1>1, InductiveInvariant, PTL

\* When the sink is closed nothing is left in the ring, in the sink or in the
\* count of drops (queue.c, the last round of lh_os_logger_queue_step).
THEOREM ClosedIsCompleteTheorem == Spec => []ClosedIsComplete
<1>1. IInv => ClosedIsComplete
  BY DEF IInv, LastInv, ClosedIsComplete
<1> QED BY <1>1, InductiveInvariant, PTL

------------------------------------------------------------------------------
(* The ring: an lh_spsc_t (core/spsc.c), of which LoggerQueue keeps only the  *)
(* number of records.                                                         *)

\* Multiples of a number are at least that number apart.
LEMMA Scaled ==
  ASSUME NEW C \in Nat, NEW p \in Nat, NEW q \in Nat, p < q
  PROVE  C * p + C <= C * q
<1>1. PICK d \in Nat : q = p + 1 + d
  BY q - p - 1 \in Nat
<1>2. C * q = C * p + C + C * d
  BY <1>1
<1>3. C * d >= 0 /\ C * d \in Nat /\ C * p \in Nat
  OBVIOUS
<1> QED BY <1>2, <1>3

\* A number is a multiple and a rest, in one way.
LEMMA Parts ==
  ASSUME NEW C \in Nat, C > 0, NEW x \in Nat
  PROVE  \E q \in Nat : \E r \in 0 .. C - 1 : x = C * q + r /\ x % C = r
<1>1. x \div C \in Nat /\ x % C \in 0 .. C - 1 /\ x = C * (x \div C) + (x % C)
  OBVIOUS
<1> QED BY <1>1

LEMMA OnePart ==
  ASSUME NEW C \in Nat, C > 0, NEW q \in Nat, NEW r \in 0 .. C - 1, NEW x, x = C * q + r
  PROVE  x % C = r
<1>1. x \in Nat /\ C * q \in Nat
  OBVIOUS
<1>2. PICK p \in Nat : \E t \in 0 .. C - 1 : x = C * p + t /\ x % C = t
  BY <1>1, Parts
<1>3. PICK t \in 0 .. C - 1 : x = C * p + t /\ x % C = t
  BY <1>2
<1>4. C * p \in Nat
  OBVIOUS
<1>5. CASE p < q
  BY <1>1, <1>3, <1>4, <1>5, Scaled
<1>6. CASE q < p
  BY <1>1, <1>3, <1>4, <1>6, Scaled
<1>7. CASE p = q
  BY <1>1, <1>3, <1>7
<1> QED BY <1>5, <1>6, <1>7

\* Fewer places than there are slots apart, two records have different slots.
LEMMA SlotsDiffer ==
  ASSUME NEW C \in Nat, C > 0, NEW x \in Nat, NEW y \in Nat, x < y, y < x + C
  PROVE  x % C # y % C
<1>1. PICK p \in Nat : \E r \in 0 .. C - 1 : x = C * p + r /\ x % C = r
  BY Parts
<1>2. PICK q \in Nat : \E r \in 0 .. C - 1 : y = C * q + r /\ y % C = r
  BY Parts
<1>3. PICK r \in 0 .. C - 1 : x = C * p + r /\ x % C = r
  BY <1>1
<1>4. PICK t \in 0 .. C - 1 : y = C * q + t /\ y % C = t
  BY <1>2
<1>5. C * p \in Nat /\ C * q \in Nat
  OBVIOUS
<1>6. CASE p < q
  BY <1>3, <1>4, <1>5, <1>6, Scaled
<1>7. CASE q < p
  BY <1>3, <1>4, <1>5, <1>7, Scaled
<1>8. CASE p = q
  BY <1>3, <1>4, <1>8
<1> QED BY <1>6, <1>7, <1>8

\* The slot of a record does not depend on the wrap of the counter.
LEMMA SlotWraps ==
  ASSUME NEW C \in Nat, C > 0, NEW M \in Nat, M % C = 0, NEW x \in Nat
  PROVE  (x + M) % C = x % C
<1>1. PICK k \in Nat : M = C * k
  <2>1. PICK k \in Nat : \E t \in 0 .. C - 1 : M = C * k + t /\ M % C = t
    BY Parts
  <2>2. M = C * k + 0 /\ C * k \in Nat
    BY <2>1
  <2>3. M = C * k
    BY <2>2
  <2> QED BY <2>3
<1>2. PICK p \in Nat : \E r \in 0 .. C - 1 : x = C * p + r /\ x % C = r
  BY Parts
<1>3. PICK r \in 0 .. C - 1 : x = C * p + r /\ x % C = r
  BY <1>2
<1>4. PICK q \in Nat : q = p + k
  OBVIOUS
<1>5. x + M = C * q + r
  <2>1. C * (p + k) = C * p + C * k
    OBVIOUS
  <2>2. C * p \in Nat /\ C * k \in Nat
    OBVIOUS
  <2> QED BY <1>1, <1>3, <1>4, <2>1, <2>2
<1>6. PICK y : y = x + M
  OBVIOUS
<1>7. y % C = r
  <2>1. y = C * q + r
    BY <1>5, <1>6
  <2> QED BY ONLY C > 0, <2>1, OnePart
<1> QED BY <1>3, <1>6, <1>7

\* The difference of two counters.
LEMMA CounterDistance ==
  ASSUME NEW M \in Nat, NEW w \in 0 .. M - 1, NEW r \in 0 .. M - 1,
         NEW n, n = (w + M - r) % M
  PROVE  n \in 0 .. M - 1 /\ w = (IF r + n < M THEN r + n ELSE r + n - M)
<1>1. CASE w < r
  <2>1. PICK x \in 0 .. M - 1 : x = w + M - r
    BY <1>1
  <2>2. x % M = x
    BY <2>1
  <2> QED BY <1>1, <2>1, <2>2
<1>2. CASE w >= r
  <2>1. PICK x \in M .. 2 * M - 1 : x = w + M - r
    BY <1>2
  <2>2. x % M = x - M
    BY <2>1
  <2> QED BY <1>2, <2>1, <2>2
<1> QED BY <1>1, <1>2

\* One more.
LEMMA UpFacts ==
  ASSUME NEW M \in Nat, NEW r \in 0 .. M - 1
  PROVE  (r + 1) % M = (IF r + 1 = M THEN 0 ELSE r + 1)
OBVIOUS

LEMMA ShapeFacts ==
    /\ Size \in Nat /\ Size > 0 /\ Modulus \in Nat /\ 2 * Size < Modulus
    /\ Modulus % Size = 0 /\ Torn \notin Items
BY SpscAssumption DEF Shape, IsValidShape

\* How far two counters are apart, and where the next record goes.
Apart(w, r, n) ==
    n \in 0 .. Modulus - 1 /\ w = (IF r + n < Modulus THEN r + n ELSE r + n - Modulus)

LEMMA CounterFacts ==
  ASSUME NEW w \in 0 .. Modulus - 1, NEW r \in 0 .. Modulus - 1,
         NEW n, n = Difference(w, r)
  PROVE  Apart(w, r, n) /\ Slot(w) = (r + n) % Size
<1>1. /\ Size \in Nat /\ Size > 0 /\ Modulus \in Nat /\ Modulus % Size = 0
  BY ShapeFacts
<1>2. n = (w + Modulus - r) % Modulus
  BY DEF Difference
<1>3. n \in 0 .. Modulus - 1 /\ w = (IF r + n < Modulus THEN r + n ELSE r + n - Modulus)
  BY ONLY <1>1, <1>2, w \in 0 .. Modulus - 1, r \in 0 .. Modulus - 1, CounterDistance
<1>4. w \in Nat /\ (w = r + n \/ w + Modulus = r + n)
  BY <1>1, <1>3
<1>5. (w + Modulus) % Size = w % Size
  BY <1>1, <1>4, SlotWraps
<1>6. w % Size = (r + n) % Size
  BY <1>4, <1>5
<1> QED BY <1>3, <1>6 DEF Slot, Apart

\* A record more, and a record less.
LEMMA CounterSteps ==
  ASSUME NEW w \in 0 .. Modulus - 1, NEW r \in 0 .. Modulus - 1,
         NEW n, n = Difference(w, r), n <= Size,
         NEW v, v = (w + 1) % Modulus, NEW q, q = (r + 1) % Modulus
  PROVE  /\ v \in 0 .. Modulus - 1 /\ Difference(v, r) = n + 1
         /\ q \in 0 .. Modulus - 1 /\ (n > 0 => Difference(w, q) = n - 1)
<1>1. Size \in Nat /\ Size > 0 /\ Modulus \in Nat /\ 2 * Size < Modulus
  BY ShapeFacts
<1>2. Apart(w, r, n)
  BY CounterFacts
<1>3. /\ v = (IF w + 1 = Modulus THEN 0 ELSE w + 1)
      /\ q = (IF r + 1 = Modulus THEN 0 ELSE r + 1)
  BY <1>1, UpFacts
<1>4. v \in 0 .. Modulus - 1 /\ q \in 0 .. Modulus - 1
  BY <1>1, <1>3
<1>5. PICK m, k : m = Difference(v, r) /\ k = Difference(w, q)
  OBVIOUS
<1>6. Apart(v, r, m)
  BY <1>4, <1>5, CounterFacts
<1>7. Apart(w, q, k)
  BY <1>4, <1>5, CounterFacts
<1>8. m = n + 1
  BY <1>1, <1>2, <1>3, <1>6 DEF Apart
<1>9. ASSUME n > 0 PROVE k = n - 1
  <2>1. n \in Nat /\ k \in Nat /\ n < Modulus /\ k < Modulus
    BY <1>1, <1>2, <1>7 DEF Apart
  <2>2. CASE r + 1 = Modulus
    <3>1. q = 0 /\ w = n - 1
      BY <1>1, <1>2, <1>3, <1>9, <2>1, <2>2 DEF Apart
    <3> QED BY <1>1, <1>7, <2>1, <3>1 DEF Apart
  <2>3. CASE r + 1 # Modulus
    <3>1. q = r + 1
      BY <1>3, <2>3
    <3>2. w = r + n \/ w = r + n - Modulus
      BY <1>2 DEF Apart
    <3>3. w = q + k \/ w = q + k - Modulus
      BY <1>7 DEF Apart
    <3> QED BY <1>1, <1>9, <2>1, <3>1, <3>2, <3>3
  <2> QED BY <2>2, <2>3
<1> QED BY <1>4, <1>5, <1>8, <1>9

\* The records in the ring.
Held == Difference(written, read)

\* The inductive invariant: the ring is never over-full, the producer writes only
\* when there is room and publishes what it wrote, and the consumer holds a record
\* only when there is one.
RingInv ==
    /\ RingTypeOK
    /\ Held <= Size
    /\ producer.at \in {"copy", "copying", "publish"} => Held < Size /\ producer.item \in Items
    /\ producer.at = "publish" => slots[Slot(written)] = producer.item
    /\ consumer = "holding" => Held > 0

LEMMA RingFacts ==
  ASSUME RingInv
  PROVE  /\ Held \in Nat /\ Held <= Size
         /\ read \in 0 .. Modulus - 1 /\ written \in 0 .. Modulus - 1
         /\ slots \in [0 .. Size - 1 -> Items \cup {Torn}]
         /\ Slot(written) \in 0 .. Size - 1
         /\ Slot(written) = (read + Held) % Size
         /\ \A i \in 0 .. Held : (read + i) % Size \in 0 .. Size - 1
         /\ \A i \in 0 .. Held - 1 : Held < Size => (read + i) % Size # Slot(written)
<1>1. /\ read \in 0 .. Modulus - 1 /\ written \in 0 .. Modulus - 1 /\ Held <= Size
      /\ slots \in [0 .. Size - 1 -> Items \cup {Torn}]
  BY DEF RingInv, RingTypeOK
<1>2. Size \in Nat /\ Size > 0 /\ Modulus \in Nat
  BY ShapeFacts
<1>3. PICK n : n = Held
  OBVIOUS
<1>4. Apart(written, read, n) /\ Slot(written) = (read + n) % Size
  BY <1>1, <1>3, CounterFacts DEF Held
<1>5. n \in Nat /\ read \in Nat
  BY <1>1, <1>2, <1>4 DEF Apart
<1>6. \A x \in Nat : x % Size \in 0 .. Size - 1
  BY <1>2
<1>7. \A i \in 0 .. n : read + i \in Nat
  BY <1>5
<1>8. ASSUME NEW i \in 0 .. n - 1, n < Size PROVE (read + i) % Size # (read + n) % Size
  <2>1. PICK x \in Nat, y \in Nat : x = read + i /\ y = read + n
    BY <1>5
  <2>2. x < y /\ y < x + Size
    BY <1>2, <1>5, <1>8, <2>1
  <2>3. x % Size # y % Size
    BY <1>2, <2>2, SlotsDiffer
  <2> QED BY <2>1, <2>3
<1>9. \A i \in 0 .. n : (read + i) % Size \in 0 .. Size - 1
  BY <1>6, <1>7
<1>10. (read + n) % Size \in 0 .. Size - 1
  BY <1>5, <1>9
<1>11. \A i \in 0 .. n - 1 : n < Size => (read + i) % Size # Slot(written)
  BY <1>4, <1>8
<1> QED BY ONLY <1>1, <1>3, <1>4, <1>5, <1>9, <1>10, <1>11

LEMMA RingInitHolds == RingInit => RingInv
<1> SUFFICES ASSUME RingInit PROVE RingInv
  OBVIOUS
<1>1. Size \in Nat /\ Size > 0 /\ Modulus \in Nat /\ 2 * Size < Modulus
  BY ShapeFacts
<1>2. RingTypeOK
  BY <1>1 DEF RingInit, RingTypeOK
<1>3. Held = 0
  BY <1>1 DEF RingInit, Held, Difference
<1> QED BY <1>1, <1>2, <1>3 DEF RingInit, RingInv

\* The producer's places are a record.
LEMMA ProducerFacts ==
  ASSUME RingInv
  PROVE  /\ producer = [at |-> producer.at, item |-> producer.item]
         /\ producer.at \in {"idle", "refused", "copy", "copying", "publish"}
         /\ producer.item \in Items \cup {Torn}
         /\ consumer \in {"idle", "empty", "holding"}
BY DEF RingInv, RingTypeOK

LEMMA RingStep ==
  ASSUME RingInv, [RingNext]_ringVars
  PROVE  RingInv'
<1>1. Size \in Nat /\ Size > 0 /\ Modulus \in Nat /\ 2 * Size < Modulus
  BY ShapeFacts
<1>2. /\ Held \in Nat /\ Held <= Size
      /\ read \in 0 .. Modulus - 1 /\ written \in 0 .. Modulus - 1
      /\ slots \in [0 .. Size - 1 -> Items \cup {Torn}]
      /\ Slot(written) \in 0 .. Size - 1
      /\ Slot(written) = (read + Held) % Size
      /\ \A i \in 0 .. Held - 1 : Held < Size => (read + i) % Size # Slot(written)
  BY RingFacts
<1>3. ASSUME NEW x \in Items, PushLoad(x) PROVE RingInv'
  <2>1. UNCHANGED <<written, read, slots, consumer>> /\ Held' = Held
    BY <1>3 DEF PushLoad, Held
  <2>2. \/ producer' = [at |-> "refused", item |-> x]
        \/ producer' = [at |-> "copy", item |-> x] /\ Held < Size
    BY <1>1, <1>2, <1>3 DEF PushLoad, IsFull, Held
  <2>3. producer'.at \in {"refused", "copy"} /\ producer'.item = x /\ RingTypeOK'
    BY <2>1, <2>2 DEF RingInv, RingTypeOK
  <2> QED BY <1>2, <2>1, <2>2, <2>3 DEF RingInv
<1>4. CASE PushCopy
  <2>1. /\ UNCHANGED <<written, read, consumer>> /\ Held' = Held
        /\ producer.at = "copy" /\ slots' = [slots EXCEPT ![Slot(written)] = Torn]
    BY <1>4 DEF PushCopy, Held
  <2>2. producer' = [at |-> "copying", item |-> producer.item]
    BY <1>4, ProducerFacts DEF PushCopy
  <2>3. producer'.at = "copying" /\ producer'.item = producer.item
    BY <2>2
  <2>4. RingTypeOK'
    BY <1>2, <2>1, <2>2, ProducerFacts DEF RingInv, RingTypeOK
  <2> QED BY <2>1, <2>3, <2>4 DEF RingInv
<1>5. CASE PushCopied
  <2>1. /\ UNCHANGED <<written, read, consumer>> /\ Held' = Held
        /\ producer.at = "copying" /\ slots' = [slots EXCEPT ![Slot(written)] = producer.item]
    BY <1>5 DEF PushCopied, Held
  <2>2. producer' = [at |-> "publish", item |-> producer.item]
    BY <1>5, ProducerFacts DEF PushCopied
  <2>3. producer'.at = "publish" /\ producer'.item = producer.item
    BY <2>2
  <2>4. RingTypeOK'
    BY <1>2, <2>1, <2>2, ProducerFacts DEF RingInv, RingTypeOK
  <2>5. Slot(written)' = Slot(written) /\ slots'[Slot(written)] = producer.item
    BY <1>2, <2>1 DEF Slot
  <2> QED BY <2>1, <2>3, <2>4, <2>5 DEF RingInv
<1>6. CASE PushPublish
  <2>1. /\ UNCHANGED <<read, slots, consumer>> /\ producer.at = "publish"
        /\ written' = (written + 1) % Modulus
    BY <1>6 DEF PushPublish
  <2>2. producer' = [at |-> "idle", item |-> producer.item]
    BY <1>6, ProducerFacts DEF PushPublish
  <2>3. Held < Size
    BY <2>1 DEF RingInv
  <2>4. written' \in 0 .. Modulus - 1 /\ Held' = Held + 1
    BY <1>2, <2>1, CounterSteps DEF Held
  <2>5. RingTypeOK'
    BY <1>2, <2>1, <2>2, <2>4, ProducerFacts DEF RingInv, RingTypeOK
  <2>6. Held' <= Size /\ Held' > 0
    BY <1>1, <1>2, <2>3, <2>4
  <2>7. producer'.at = "idle"
    BY <2>2
  <2> QED BY <2>5, <2>6, <2>7 DEF RingInv
<1>7. CASE Peek
  <2>1. /\ UNCHANGED <<written, read, slots, producer>> /\ Held' = Held
        /\ consumer' = IF read = written THEN "empty" ELSE "holding"
    BY <1>7 DEF Peek, Held
  <2>2. RingTypeOK'
    BY <2>1 DEF RingInv, RingTypeOK
  <2>3. read # written => Held > 0
    <3>1. PICK n : n = Held
      OBVIOUS
    <3>2. Apart(written, read, n)
      BY <1>2, <3>1, CounterFacts DEF Held
    <3> QED BY <1>1, <1>2, <3>1, <3>2 DEF Apart
  <2>4. Slot(written)' = Slot(written)
    BY <2>1 DEF Slot
  <2> QED BY <2>1, <2>2, <2>3, <2>4 DEF RingInv
<1>8. CASE Release
  <2>1. /\ UNCHANGED <<written, slots, producer>> /\ consumer = "holding" /\ consumer' = "idle"
        /\ read' = (read + 1) % Modulus
    BY <1>8 DEF Release
  <2>2. Held > 0
    BY <2>1 DEF RingInv
  <2>3. read' \in 0 .. Modulus - 1 /\ Held' = Held - 1
    BY <1>2, <2>1, <2>2, CounterSteps DEF Held
  <2>4. Held' <= Size /\ (Held < Size => Held' < Size)
    BY <1>1, <1>2, <2>3
  <2>5. RingTypeOK'
    BY <2>1, <2>3 DEF RingInv, RingTypeOK
  <2>6. Slot(written)' = Slot(written)
    BY <2>1 DEF Slot
  <2> QED BY <2>1, <2>4, <2>5, <2>6 DEF RingInv
<1>9. CASE UNCHANGED ringVars
  BY <1>9 DEF ringVars, RingInv, RingTypeOK, Held, Difference, Slot
<1> QED BY <1>3, <1>4, <1>5, <1>6, <1>7, <1>8, <1>9 DEF RingNext

------------------------------------------------------------------------------

\* The producer and the consumer keep the inductive invariant, for every size of
\* the ring and every width of the counters, however their steps interleave.
THEOREM RingInvariant == RingSpec => []RingInv
<1>1. RingInit => RingInv
  BY RingInitHolds
<1>2. RingInv /\ [RingNext]_ringVars => RingInv'
  BY RingStep
<1> QED BY <1>1, <1>2, PTL DEF RingSpec

\* What is in the ring, as a sequence.
LEMMA ContentFacts ==
  ASSUME RingInv, NEW p, p = Content
  PROVE  /\ p \in Seq(Items \cup {Torn}) /\ Len(p) = Held /\ Held \in Nat
         /\ \A i \in 1 .. Held : p[i] = slots[(read + i - 1) % Size]
<1>1. PICK n : n = Held
  OBVIOUS
<1>2. n \in Nat /\ read \in Nat
  BY <1>1, RingFacts, ShapeFacts
<1>3. \A i \in 1 .. n : (read + i - 1) % Size \in 0 .. Size - 1
  <2>1. ASSUME NEW i \in 1 .. n PROVE (read + i - 1) % Size \in 0 .. Size - 1
    <3>1. PICK j \in 0 .. n : j = i - 1
      BY <1>2
    <3>2. (read + j) % Size \in 0 .. Size - 1
      BY <1>1, RingFacts
    <3>3. read + i - 1 = read + j
      BY <1>2, <3>1
    <3> QED BY <3>2, <3>3
  <2> QED BY <2>1
<1>4. p = [i \in 1 .. n |-> slots[(read + i - 1) % Size]]
  BY <1>1 DEF Content, Held, Slot
<1>5. p \in [1 .. n -> Items \cup {Torn}]
  BY <1>3, <1>4, RingFacts
<1>6. p \in Seq(Items \cup {Torn})
  BY <1>2, <1>5
<1>7. Len(p) = n
  BY <1>2, <1>5, <1>6
<1> QED BY <1>1, <1>2, <1>4, <1>6, <1>7

LEMMA SameContent ==
  ASSUME NEW p \in Seq(Items \cup {Torn}), NEW q \in Seq(Items \cup {Torn}), Len(p) = Len(q),
         \A i \in 1 .. Len(p) : p[i] = q[i]
  PROVE  p = q
OBVIOUS

\* A write goes to a slot behind the records in the ring.
LEMMA WritesAside ==
  ASSUME RingInv, PushCopy \/ PushCopied
  PROVE  /\ \A i \in 0 .. Held - 1 : slots'[(read + i) % Size] = slots[(read + i) % Size]
         /\ UNCHANGED <<written, read, consumer>> /\ Held' = Held
<1>1. PICK e : slots' = [slots EXCEPT ![Slot(written)] = e]
  BY DEF PushCopy, PushCopied
<1>2. /\ UNCHANGED <<written, read, consumer>> /\ Held' = Held
      /\ producer.at \in {"copy", "copying"}
  BY DEF PushCopy, PushCopied, Held
<1>3. Held < Size
  BY <1>2 DEF RingInv
<1>4. \A i \in 0 .. Held - 1 : (read + i) % Size # Slot(written)
  BY <1>3, RingFacts
<1>5. \A i \in 0 .. Held - 1 : (read + i) % Size \in 0 .. Size - 1
  <2>1. \A i \in 0 .. Held - 1 : i \in 0 .. Held
    BY RingFacts
  <2> QED BY <2>1, RingFacts
<1> QED BY <1>1, <1>2, <1>4, <1>5, RingFacts

\* What the consumer reads through its pointer never changes while it holds it; a
\* push is refused by a full ring only and a peek is null on an empty one only,
\* across every wrap of the counters (spsc.c:187-215).
THEOREM RingStaysExact == RingSpec => RingExact
<1>1. RingInv => RingTypeOK
  BY DEF RingInv
<1>2. RingInv /\ [RingNext]_ringVars =>
        [consumer = "holding" /\ consumer' = "holding"
           => slots'[Slot(read)] = slots[Slot(read)]]_ringVars
  <2> SUFFICES ASSUME RingInv, [RingNext]_ringVars, consumer = "holding", consumer' = "holding"
               PROVE  slots'[Slot(read)] = slots[Slot(read)]
    OBVIOUS
  <2>1. Held > 0 /\ Held \in Nat /\ read \in Nat
    BY RingFacts, ShapeFacts DEF RingInv
  <2>2. CASE PushCopy \/ PushCopied
    <3>1. 0 \in 0 .. Held - 1 /\ read + 0 = read
      BY <2>1
    <3>2. slots'[(read + 0) % Size] = slots[(read + 0) % Size]
      BY <2>2, <3>1, WritesAside
    <3> QED BY <3>1, <3>2 DEF Slot
  <2>3. CASE UNCHANGED slots
    BY <2>3
  <2> QED BY <2>2, <2>3 DEF RingNext, ringVars, PushLoad, PushPublish, Peek,
                           Release
<1>3. RingInv /\ [RingNext]_ringVars =>
        [/\ producer'.at = "refused" /\ producer.at # "refused" => Len(Content) = Size
         /\ consumer' = "empty" /\ consumer # "empty" => Content = <<>>]_ringVars
  <2> SUFFICES ASSUME RingInv, RingNext
               PROVE  /\ producer'.at = "refused" /\ producer.at # "refused" =>
                            Len(Content) = Size
                      /\ consumer' = "empty" /\ consumer # "empty" => Content = <<>>
    OBVIOUS
  <2>1. PICK p : p = Content
    OBVIOUS
  <2>2. p \in Seq(Items \cup {Torn}) /\ Len(p) = Held /\ Held \in Nat /\ Held <= Size /\ Size \in Nat
    BY <2>1, ContentFacts, RingFacts, ShapeFacts
  <2>3. ASSUME producer'.at = "refused", producer.at # "refused" PROVE Len(p) = Size
    <3>1. PICK x \in Items : PushLoad(x)
      BY <2>3, ProducerFacts DEF RingNext, PushCopy, PushCopied, PushPublish,
                                 Peek, Release
    <3>2. Held >= Size
      BY <2>3, <3>1 DEF PushLoad, IsFull, Held
    <3> QED BY <2>2, <3>2
  <2>4. ASSUME consumer' = "empty", consumer # "empty" PROVE p = <<>>
    <3>1. Peek
      BY <2>4 DEF RingNext, PushLoad, PushCopy, PushCopied, PushPublish,
                  Release
    <3>2. read = written
      BY <2>4, <3>1 DEF Peek
    <3>3. Held = 0
      <4>1. PICK n : n = Held
        OBVIOUS
      <4>2. Apart(written, read, n)
        BY <4>1, RingFacts, CounterFacts DEF Held
      <4>3. read \in 0 .. Modulus - 1 /\ Modulus \in Nat
        BY RingFacts, ShapeFacts
      <4> QED BY <3>2, <4>1, <4>2, <4>3 DEF Apart
    <3> QED BY <2>2, <3>3
  <2> QED BY <2>1, <2>3, <2>4
<1>4. RingSpec => []RingInv
  BY RingInvariant
<1> QED BY <1>1, <1>2, <1>3, <1>4, PTL
        DEF RingSpec, RingExact, PeekStays, AnswersExact

------------------------------------------------------------------------------
(* The refinement. *)

\* A sequence of n records that begins at the counter r.
Runs(p, n, r, s) ==
    /\ p \in Seq(Items \cup {Torn}) /\ n \in Nat /\ Len(p) = n
    /\ \A i \in 1 .. n : p[i] = s[(r + i - 1) % Size]

ContentRuns == Runs(Content, Held, read, slots)

LEMMA ContentIsRun == RingInv => ContentRuns
<1> SUFFICES ASSUME RingInv PROVE ContentRuns
  OBVIOUS
<1>1. PICK p : p = Content
  OBVIOUS
<1>2. Runs(p, Held, read, slots)
  BY <1>1, ContentFacts DEF Runs
<1> QED BY <1>1, <1>2 DEF ContentRuns

LEMMA NextContentIsRun == RingInv' => ContentRuns'
BY ContentIsRun, PTL

Longer(q, p, x) == q = Append(p, x)

\* The record that is published is the last of the ring ...
LEMMA RunGrows ==
  ASSUME NEW p, NEW q, NEW n, NEW m, NEW r \in Nat, NEW s, Runs(p, n, r, s), Runs(q, m, r, s),
         m = n + 1, NEW x, x = s[(r + n) % Size]
  PROVE  Longer(q, p, x)
<1>1. /\ p \in Seq(Items \cup {Torn}) /\ n \in Nat /\ Len(p) = n
      /\ \A i \in 1 .. n : p[i] = s[(r + i - 1) % Size]
  BY DEF Runs
<1>2. /\ q \in Seq(Items \cup {Torn}) /\ Len(q) = n + 1
      /\ \A i \in 1 .. n + 1 : q[i] = s[(r + i - 1) % Size]
  BY DEF Runs
<1>3. q[n + 1] = x
  <2>1. r + (n + 1) - 1 = r + n /\ n + 1 \in 1 .. n + 1
    BY <1>1
  <2>2. q[n + 1] = s[(r + (n + 1) - 1) % Size]
    BY <1>2, <2>1
  <2> QED BY <2>1, <2>2
<1>4. x \in Items \cup {Torn}
  BY <1>1, <1>2, <1>3
<1>5. PICK a : a = Append(p, x)
  OBVIOUS
<1>6. /\ a \in Seq(Items \cup {Torn}) /\ Len(a) = n + 1 /\ a[n + 1] = x
      /\ \A i \in 1 .. n : a[i] = p[i]
  BY <1>1, <1>4, <1>5
<1>7. \A i \in 1 .. n : a[i] = q[i]
  <2>1. \A i \in 1 .. n : i \in 1 .. n + 1
    BY <1>1
  <2> QED BY <1>1, <1>2, <1>6, <2>1
<1>8. \A i \in 1 .. n + 1 : q[i] = a[i]
  <2>1. \A i \in 1 .. n + 1 : i \in 1 .. n \/ i = n + 1
    BY <1>1
  <2> QED BY <1>3, <1>6, <1>7, <2>1
<1>9. q = a
  BY <1>2, <1>6, <1>8, SameContent
<1> QED BY <1>5, <1>9 DEF Longer

\* ... and the one that is released the first, whatever the counter wraps to.
LEMMA RunShrinks ==
  ASSUME NEW p, NEW q, NEW n, NEW m, NEW r \in 0 .. Modulus - 1, NEW t, NEW s,
         Runs(p, n, r, s), Runs(q, m, t, s), n > 0, m = n - 1, t = (r + 1) % Modulus
  PROVE  q = Tail(p)
<1>0. Size \in Nat /\ Size > 0 /\ Modulus \in Nat /\ Modulus % Size = 0
  BY ShapeFacts
<1>1. /\ p \in Seq(Items \cup {Torn}) /\ n \in Nat /\ Len(p) = n
      /\ \A i \in 1 .. n : p[i] = s[(r + i - 1) % Size]
  BY DEF Runs
<1>2. /\ q \in Seq(Items \cup {Torn}) /\ Len(q) = n - 1
      /\ \A i \in 1 .. n - 1 : q[i] = s[(t + i - 1) % Size]
  BY DEF Runs
<1>3. t = (IF r + 1 = Modulus THEN 0 ELSE r + 1)
  BY <1>0, UpFacts
<1>4. ASSUME NEW i \in 1 .. n - 1 PROVE (t + i - 1) % Size = (r + (i + 1) - 1) % Size
  <2>1. PICK x \in Nat : x = i - 1
    BY <1>1
  <2>2. CASE r + 1 = Modulus
    <3>1. t + i - 1 = x /\ r + (i + 1) - 1 = x + Modulus
      BY <1>0, <1>1, <1>3, <2>1, <2>2
    <3>2. (x + Modulus) % Size = x % Size
      BY ONLY <1>0, <2>1, SlotWraps
    <3> QED BY <3>1, <3>2
  <2>3. CASE r + 1 # Modulus
    <3>1. t + i - 1 = r + (i + 1) - 1
      BY <1>0, <1>1, <1>3, <2>3
    <3> QED BY <3>1
  <2> QED BY <2>2, <2>3
<1>5. PICK a : a = Tail(p)
  OBVIOUS
<1>6. /\ a \in Seq(Items \cup {Torn}) /\ Len(a) = n - 1
      /\ \A i \in 1 .. n - 1 : a[i] = p[i + 1]
  BY <1>1, <1>5
<1>7. \A i \in 1 .. n - 1 : q[i] = a[i]
  <2>1. ASSUME NEW i \in 1 .. n - 1 PROVE q[i] = a[i]
    <3>1. i + 1 \in 1 .. n
      BY <1>1
    <3>2. p[i + 1] = s[(r + (i + 1) - 1) % Size]
      BY <1>1, <3>1
    <3> QED BY <1>2, <1>4, <1>6, <3>2
  <2> QED BY <2>1
<1>8. q = a
  BY <1>2, <1>6, <1>7, SameContent
<1> QED BY <1>5, <1>8

LEMMA RunStays ==
  ASSUME NEW p, NEW q, NEW n, NEW r \in Nat, NEW s, NEW z, Runs(p, n, r, s), Runs(q, n, r, z),
         \A i \in 0 .. n - 1 : z[(r + i) % Size] = s[(r + i) % Size]
  PROVE  q = p
<1>1. /\ p \in Seq(Items \cup {Torn}) /\ n \in Nat /\ Len(p) = n
      /\ \A i \in 1 .. n : p[i] = s[(r + i - 1) % Size]
  BY DEF Runs
<1>2. /\ q \in Seq(Items \cup {Torn}) /\ Len(q) = n
      /\ \A i \in 1 .. n : q[i] = z[(r + i - 1) % Size]
  BY DEF Runs
<1>3. ASSUME NEW i \in 1 .. n PROVE q[i] = p[i]
  <2>1. PICK j \in 0 .. n - 1 : j = i - 1
    BY <1>1
  <2>2. r + i - 1 = r + j
    BY <1>1, <2>1
  <2> QED BY <1>1, <1>2, <2>2
<1> QED BY <1>1, <1>2, <1>3, SameContent

LEMMA ContentStep ==
  ASSUME RingInv, RingInv', [RingNext]_ringVars
  PROVE  [Fifo!Next]_Content
<1>1. PICK p, q : p = Content /\ q = Content'
  OBVIOUS
<1>2. Runs(p, Held, read, slots) /\ Runs(q, Held', read', slots')
  BY <1>1, ContentIsRun, NextContentIsRun DEF ContentRuns
<1>3. /\ Held \in Nat /\ Held <= Size /\ read \in Nat /\ Size \in Nat
      /\ read \in 0 .. Modulus - 1 /\ written \in 0 .. Modulus - 1
  BY RingFacts, ShapeFacts
<1>4. Len(p) = Held /\ p \in Seq(Items \cup {Torn})
  BY <1>2 DEF Runs
<1>5. CASE PushCopy \/ PushCopied
  <2>1. /\ \A i \in 0 .. Held - 1 : slots'[(read + i) % Size] = slots[(read + i) % Size]
        /\ read' = read /\ Held' = Held
    BY <1>5, WritesAside
  <2>2. q = p
    BY <1>2, <1>3, <2>1, RunStays
  <2> QED BY <1>1, <2>2
<1>6. CASE PushPublish
  <2>1. /\ UNCHANGED <<read, slots, consumer>> /\ producer.at = "publish"
        /\ written' = (written + 1) % Modulus
    BY <1>6 DEF PushPublish
  <2>2. Held < Size /\ producer.item \in Items /\ slots[Slot(written)] = producer.item
    BY <2>1 DEF RingInv
  <2>3. Held' = Held + 1
    BY <1>3, <2>1, CounterSteps DEF Held
  <2>4. PICK x \in Items : x = producer.item
    BY <2>2
  <2>5. x = slots[(read + Held) % Size]
    BY <2>2, <2>4, RingFacts
  <2>6. Runs(q, Held', read, slots)
    BY <1>2, <2>1
  <2>7. q = Append(p, x)
    <3>1. PICK n, m, r, s : n = Held /\ m = Held' /\ r = read /\ s = slots
      OBVIOUS
    <3>2. /\ Runs(p, n, r, s) /\ Runs(q, m, r, s) /\ m = n + 1 /\ r \in Nat
          /\ x = s[(r + n) % Size]
      BY <1>2, <1>3, <2>3, <2>5, <2>6, <3>1
    <3>3. Longer(q, p, x)
      BY ONLY <3>2, RunGrows
    <3> QED BY <3>3 DEF Longer
  <2>8. Fifo!Put(x)
    BY <1>1, <1>4, <2>2, <2>7 DEF Fifo!Put
  <2> QED BY <2>4, <2>8 DEF Fifo!Next
<1>7. CASE Release
  <2>1. /\ UNCHANGED <<written, slots, producer>> /\ consumer = "holding"
        /\ read' = (read + 1) % Modulus
    BY <1>7 DEF Release
  <2>2. Held > 0
    BY <2>1 DEF RingInv
  <2>3. Held' = Held - 1
    BY <1>3, <2>1, <2>2, CounterSteps DEF Held
  <2>4. Runs(q, Held', read', slots)
    BY <1>2, <2>1
  <2>5. q = Tail(p)
    BY ONLY <1>2, <1>3, <2>1, <2>2, <2>3, <2>4, RunShrinks
  <2>6. p # <<>>
    BY <1>3, <1>4, <2>2
  <2>7. Fifo!Take
    BY <1>1, <2>5, <2>6 DEF Fifo!Take
  <2> QED BY <2>7 DEF Fifo!Next
<1>8. CASE UNCHANGED <<written, read, slots>>
  <2>1. Content' = Content
    BY <1>8 DEF Content, Difference, Slot
  <2> QED BY <2>1
<1>9. ASSUME NEW x \in Items, PushLoad(x) PROVE UNCHANGED <<written, read, slots>>
  BY <1>9 DEF PushLoad
<1>10. Peek \/ UNCHANGED ringVars => UNCHANGED <<written, read, slots>>
  BY DEF Peek, ringVars
<1> QED BY <1>5, <1>6, <1>7, <1>8, <1>9, <1>10 DEF RingNext

\* The ring is a bounded first-in, first-out queue: a record enters when its count
\* is published and leaves when it is released, whole and in order, for every size
\* and width of the counters (spsc.c:187-241).
THEOREM RingKeepsOrder == RingSpec => ImplementsFifo
<1>1. RingInit => Fifo!Init
  <2> SUFFICES ASSUME RingInit PROVE Content = <<>>
    BY DEF Fifo!Init
  <2>1. RingInv /\ Held = 0
    BY RingInitHolds, ShapeFacts DEF RingInit, Held, Difference
  <2>2. PICK p : p = Content
    OBVIOUS
  <2>3. Len(p) = 0 /\ p \in Seq(Items \cup {Torn})
    BY <2>1, <2>2, ContentFacts
  <2> QED BY <2>2, <2>3
<1>2. RingInv /\ RingInv' /\ [RingNext]_ringVars => [Fifo!Next]_Content
  BY ContentStep
<1>3. RingSpec => []RingInv
  BY RingInvariant
<1> QED BY <1>1, <1>2, <1>3, PTL DEF RingSpec, ImplementsFifo, Fifo!Spec
=============================================================================
