---------------------------- MODULE WebHost_proofs ----------------------------
(***************************************************************************)
(* Proofs of the safety properties of WebHost, for any number of slots,    *)
(* any finite set of handles and any backlog.                              *)
(***************************************************************************)
EXTENDS WebHost, TLAPS, FiniteSetTheorems, WellFoundedInduction

------------------------------------------------------------------------------
(* The inductive invariant. *)

\* There is something to receive, be it the end.
HasNews(h) == socket[h] \in {"data", "ended"}

\* A slot without a connection holds nothing, and one with a connection a handle.
SlotInv ==
    \A i \in Conns :
        /\ conn[i].phase = "free" => conn[i] = NoConn
        /\ IsActive(conn[i]) => conn[i].sock \in Handles

\* Held handles are open, held once, and all that are open are held.
HeldOpen ==
    /\ \A i \in Conns : IsActive(conn[i]) => socket[conn[i].sock] # "closed"
    /\ \A j \in Clients : client[j] # NoHandle => socket[client[j]] # "closed"

HeldOnce ==
    /\ \A i, k \in Conns :
          IsActive(conn[i]) /\ IsActive(conn[k]) /\ conn[i].sock = conn[k].sock => i = k
    /\ \A j, k \in Clients : client[j] # NoHandle /\ client[j] = client[k] => j = k
    /\ \A i \in Conns, j \in Clients : IsActive(conn[i]) => conn[i].sock # client[j]

OpenHeld ==
    \A h \in Handles : socket[h] # "closed" =>
          \/ \E i \in Conns : IsActive(conn[i]) /\ conn[i].sock = h
          \/ \E j \in Clients : client[j] = h

\* The connection whose reply is being sent: its slot still says what it was before.
AtSend(i) == at = "send" /\ i = index

\* A gate that was left open belongs to a stream and has something behind it.
GateInv ==
    \A i \in Conns : IsActive(conn[i]) /\ conn[i].gate /\ ~ AtSend(i) =>
        conn[i].phase = "stream" /\ HasNews(conn[i].sock)

\* Readiness is gone when a step may begin without a poll, and is true of the
\* connections a step has yet to come to.
ReadyInv ==
    /\ at = "wait" => \A i \in Conns : ~ entry[i].ready
    /\ at \in {"advance", "send"} =>
          \A i \in Conns : i >= index /\ ~ AtSend(i) /\ IsActive(conn[i]) /\ IsReadable(i)
                              => HasNews(conn[i].sock)

Streams(c) == IF c.phase = "stream" THEN 1 ELSE 0

\* A reply is being sent: what its step comes to fits the slot it was taken from.
Sending ==
    /\ index \in Conns /\ IsActive(conn[index])
    /\ outcome.conn.phase # "free" /\ outcome.conn.sock = conn[index].sock
    /\ outcome.conn.gate => ~ IsActive(outcome.conn)
    /\ outcome.owes = Streams(outcome.conn) - Streams(conn[index])

\* The slot a pass is at.
IndexInv ==
    /\ at = "advance" => index \in 1 .. ConnMax + 1
    /\ at = "send" => Sending
    /\ at = "pump" => index \in 1 .. WsMax + 1

IInv ==
    /\ TypeOK /\ NeverBlocks /\ OneOutcomeEach
    /\ SlotInv /\ HeldOpen /\ HeldOnce /\ OpenHeld
    /\ GateInv /\ ReadyInv /\ IndexInv

------------------------------------------------------------------------------
(* What a step of one connection may leave. *)

\* The least of a set of numbers is one of them.
LEMMA MinFact ==
  ASSUME NEW S \in SUBSET Nat, S # {}
  PROVE  Min(S) \in S
<1>1. PICK x \in S : \A y \in S : ~ (<<y, x>> \in OpToRel(<, Nat))
  BY NatLessThanWellFounded, WFMin
<1>2. \A a, b \in Nat : a < b => <<a, b>> \in OpToRel(<, Nat)
  BY Zenon DEF OpToRel
<1>3. \A y \in S : ~ (y < x)
  BY <1>1, <1>2, Zenon
<1>4. \A y \in S : x <= y
  BY <1>3
<1> QED BY <1>4 DEF Min

\* What a result of a pipe's step may be, for a connection whose gate was gate.
PipeResult(c, gate, r) ==
    /\ r = Result(r.conn, r.took, r.owes)
    /\ r.conn \in Stepped /\ r.conn.sock = c.sock
    /\ r.took \in BOOLEAN /\ (r.took => gate)
    /\ \/ r.conn.phase = "done" /\ r.owes = -1
       \/ r.conn.phase = "stream" /\ r.owes = 0 /\ (r.conn.gate => gate /\ ~ r.took)

\* A read that received was let through by the gate and leaves it shut.
ReadResult(gate, r) ==
    /\ r.gate \in BOOLEAN /\ r.took \in BOOLEAN
    /\ r.took => gate /\ ~ r.gate
    /\ r.gate => gate

LEMMA ReadsFacts ==
  ASSUME NEW gate \in BOOLEAN, NEW s, NEW r \in Reads(gate, s)
  PROVE  ReadResult(gate, r)
<1> DEFINE over(last, took) == [last |-> last, gate |-> gate /\ ~ took, took |-> took]
<1>1. (\E last : r = over(last, FALSE)) \/ (gate /\ \E last : r = over(last, TRUE))
  BY DEF Reads
<1>2. ASSUME NEW last, NEW took \in BOOLEAN, took => gate, r = over(last, took)
      PROVE  ReadResult(gate, r)
  <2>1. r.took = took /\ r.gate = (gate /\ ~ took)
    BY <1>2
  <2> QED BY <1>2, <2>1 DEF ReadResult
<1> QED BY <1>1, <1>2

LEMMA FinishedFacts ==
  ASSUME NEW c \in Stepped, NEW took \in BOOLEAN, NEW gate \in BOOLEAN, took => gate
  PROVE  PipeResult(c, gate, Finished(c, took))
BY DEF PipeResult, Finished, Done, Result, Stepped, ConnOf

LEMMA DrainedFacts ==
  ASSUME NEW c \in Stepped, c.phase = "stream", NEW gate \in BOOLEAN,
         NEW r, ReadResult(gate, r), NEW s,
         NEW q \in Drained(c, r, s)
  PROVE  PipeResult(c, gate, q)
<1>1. PICK x \in Reads(r.gate, s) :
         q = IF x.last = "pending"
             THEN Result([c EXCEPT !.draining = TRUE, !.tap = "pending", !.gate = x.gate],
                         r.took \/ x.took, 0)
             ELSE Finished(c, r.took \/ x.took)
  BY DEF Drained
<1>2. ReadResult(r.gate, x) /\ r.gate \in BOOLEAN
  BY ReadsFacts DEF ReadResult
<1>3. (r.took \/ x.took) \in BOOLEAN /\ ((r.took \/ x.took) => gate)
  BY <1>2 DEF ReadResult
<1>4. CASE x.last = "pending"
  BY <1>1, <1>2, <1>3, <1>4 DEF PipeResult, Result, Stepped, ConnOf, ReadResult
<1>5. CASE x.last # "pending"
  BY <1>1, <1>3, <1>5, FinishedFacts
<1> QED BY <1>4, <1>5

\* A step of a pipe finishes the body or leaves the stream; the gate never opens.
LEMMA PipeFacts ==
  ASSUME NEW c \in Stepped, c.phase = "stream", NEW s, NEW q \in PipeStep(c, s)
  PROVE  PipeResult(c, c.gate, q)
<1> DEFINE unread == [last |-> c.tap, gate |-> c.gate, took |-> FALSE]
           called == {unread} \cup Reads(c.gate, s)
<1>0. c.gate \in BOOLEAN
  BY DEF Stepped, ConnOf
<1>1. \A r \in called : ReadResult(c.gate, r)
  <2>1. ReadResult(c.gate, unread)
    BY <1>0 DEF ReadResult
  <2> QED BY <1>0, <2>1, ReadsFacts
<1>2. ReadResult(c.gate, unread)
  BY <1>1
<1>3. CASE q \in Expired(c)
  BY <1>0, <1>3, FinishedFacts DEF Expired
<1>4. CASE q \in Drained(c, unread, s)
  <2> HIDE DEF unread
  <2> QED BY <1>0, <1>2, <1>4, DrainedFacts
<1>5. ASSUME NEW r \in called, q = Finished(c, r.took) PROVE PipeResult(c, c.gate, q)
  <2> HIDE DEF called
  <2> QED BY <1>0, <1>1, <1>5, FinishedFacts DEF ReadResult
<1>6. ASSUME NEW r \in called, r.last = "pending",
             q = Result([c EXCEPT !.tap = r.last, !.gate = r.gate], r.took, 0)
      PROVE  PipeResult(c, c.gate, q)
  <2> HIDE DEF called
  <2> QED BY <1>0, <1>1, <1>6 DEF ReadResult, PipeResult, Result, Stepped, ConnOf
<1>7. ASSUME NEW r \in called, q \in Drained(c, r, s) PROVE PipeResult(c, c.gate, q)
  <2> HIDE DEF called
  <2> QED BY <1>0, <1>1, <1>7, DrainedFacts
<1>8. \/ q \in Expired(c)
      \/ q \in Drained(c, unread, s)
      \/ \E r \in called : q = Finished(c, r.took)
      \/ \E r \in called :
            /\ r.last = "pending"
            /\ q = Result([c EXCEPT !.tap = r.last, !.gate = r.gate], r.took, 0)
      \/ \E r \in called : q \in Drained(c, r, s)
  BY DEF PipeStep
<1> QED BY <1>3, <1>4, <1>5, <1>6, <1>7, <1>8

\* What a step of a connection may leave.
StepResult(c, readable, r) ==
    /\ r.conn \in Stepped /\ r.conn.phase # "free" /\ r.conn.sock = c.sock
    /\ r.took \in BOOLEAN /\ (r.took => c.gate \/ readable)
    /\ r.conn.gate /\ IsActive(r.conn) =>
          r.conn.phase = "stream" /\ ~ r.took /\ (c.gate \/ readable)
    /\ r.owes = (IF r.conn.phase = "stream" THEN 1 ELSE 0) - (IF c.phase = "stream" THEN 1 ELSE 0)

LEMMA BeginFacts ==
  ASSUME NEW c \in Stepped, c.phase = "head", ~ c.gate, NEW q \in Begin(c)
  PROVE  StepResult(c, TRUE, q)
<1> DEFINE stream == PipeBegun(c)
<1>1. stream \in Stepped /\ stream.phase = "stream" /\ ~ stream.gate /\ stream.sock = c.sock
  BY DEF PipeBegun, Stepped, ConnOf
<1>2. ASSUME NEW r \in PipeStep(stream, "quiet"), q = [r EXCEPT !.took = TRUE, !.owes = @ + 1]
      PROVE  StepResult(c, TRUE, q)
  <2> HIDE DEF stream
  <2>1. PipeResult(stream, stream.gate, r)
    BY <1>1, PipeFacts
  <2>2. q.conn = r.conn /\ q.took = TRUE /\ q.owes = r.owes + 1
    BY <1>2, <2>1 DEF PipeResult, Result
  <2>3. q.conn \in Stepped /\ q.conn.sock = c.sock /\ q.took \in BOOLEAN
    BY <1>1, <2>1, <2>2 DEF PipeResult
  <2>4. \/ q.conn.phase = "done" /\ q.owes = 0
        \/ q.conn.phase = "stream" /\ q.owes = 1 /\ ~ q.conn.gate
    BY <1>1, <2>1, <2>2 DEF PipeResult
  <2> QED BY <2>3, <2>4 DEF StepResult, IsActive
<1>3. ASSUME NEW d \in {BodyBegun(c, TRUE), BodyBegun(c, FALSE), Done(c), Upgraded(c)},
             q = Result(d, TRUE, 0)
      PROVE  StepResult(c, TRUE, q)
  <2>1. /\ d \in Stepped /\ d.sock = c.sock /\ ~ d.gate
        /\ d.phase \in {"body", "done", "upgraded"}
    BY <1>3 DEF Done, BodyBegun, Upgraded, Stepped, ConnOf
  <2> QED BY <1>3, <2>1 DEF StepResult, Result
<1>4. \/ \E r \in PipeStep(stream, "quiet") : q = [r EXCEPT !.took = TRUE, !.owes = @ + 1]
      \/ \E d \in {BodyBegun(c, TRUE), BodyBegun(c, FALSE), Done(c), Upgraded(c)} :
            q = Result(d, TRUE, 0)
  BY DEF Begin
<1> QED BY <1>2, <1>3, <1>4

\* A step receives only if it may, and owes an outcome exactly while it streams.
LEMMA StepFacts ==
  ASSUME NEW c \in Stepped, IsActive(c), c.gate => c.phase = "stream", NEW s,
         NEW readable \in BOOLEAN, NEW q \in ConnStep(c, s, readable)
  PROVE  StepResult(c, readable, q)
<1>1. CASE c.phase = "stream"
  <2> DEFINE d == [c EXCEPT !.gate = @ \/ readable]
  <2>1. d \in Stepped /\ d.phase = "stream" /\ d.sock = c.sock /\ d.gate = (c.gate \/ readable)
    BY <1>1 DEF Stepped, ConnOf
  <2>2. q \in PipeStep(d, s)
    BY <1>1 DEF ConnStep
  <2> HIDE DEF d
  <2>3. PipeResult(d, d.gate, q)
    BY <2>1, <2>2, PipeFacts
  <2> QED BY <1>1, <2>1, <2>3 DEF PipeResult, StepResult, IsActive
<1>2. CASE c.phase # "stream"
  <2>1. ~ c.gate /\ c.phase \in {"head", "body"}
    BY <1>2 DEF IsActive
  <2>2. ASSUME NEW took \in BOOLEAN, took => readable,
               q = Result(Done(c), took, 0) \/ q = Result(c, took, 0)
                  \/ q = Result(Upgraded(c), took, 0)
        PROVE  StepResult(c, readable, q)
    BY <1>2, <2>1, <2>2 DEF StepResult, Result, Done, Upgraded, Stepped, ConnOf, IsActive
  <2>3. CASE c.phase = "head" /\ readable /\ q \in Begin(c)
    BY <2>1, <2>3, BeginFacts
  <2>4. \/ c.phase = "head" /\ readable /\ q \in Begin(c)
        \/ q = Result(Done(c), FALSE, 0) \/ q = Result(c, FALSE, 0)
        \/ readable /\ \/ q = Result(Done(c), TRUE, 0) \/ q = Result(c, TRUE, 0)
                       \/ q = Result(Upgraded(c), TRUE, 0)
    BY <1>2 DEF ConnStep, Received
  <2> QED BY <2>2, <2>3, <2>4
<1> QED BY <1>1, <1>2

------------------------------------------------------------------------------
(* Facts the actions share. *)

LEMMA MaxFact ==
  Max({ConnMax, WsMax}) \in Nat /\ Max({ConnMax, WsMax}) >= ConnMax
                               /\ Max({ConnMax, WsMax}) >= WsMax
<1>1. \E x \in {ConnMax, WsMax} : \A y \in {ConnMax, WsMax} : x >= y
  BY WebHostAssumption
<1> QED BY <1>1, WebHostAssumption DEF Max

LEMMA NoConnFacts ==
  /\ NoConn \in ConnType /\ ~ IsActive(NoConn) /\ NoConn.phase = "free"
  /\ ~ NoConn.gate
BY DEF NoConn, ConnType, ConnOf, IsActive

LEMMA NoOutcomeFacts ==
  NoOutcome \in [conn : Stepped, owes : Int]
<1>1. NoConn \in Stepped /\ 0 \in Int
  BY DEF NoConn, Stepped, ConnOf
<1> QED BY <1>1, Zenon DEF NoOutcome, Outcome

LEMMA OpenedFacts ==
  ASSUME NEW h \in Handles
  PROVE  /\ Opened(h) \in ConnType /\ IsActive(Opened(h)) /\ Opened(h).sock = h
         /\ Opened(h).phase = "head" /\ ~ Opened(h).gate
BY DEF Opened, NoConn, ConnType, ConnOf, IsActive

LEMMA SteppedFacts ==
  /\ \A c \in ConnType : c \in Stepped
  /\ \A c \in Stepped : IsActive(c) => c \in ConnType
BY DEF ConnType, Stepped, ConnOf, IsActive

LEMMA ActiveFacts ==
  ASSUME NEW c \in ConnType
  PROVE  /\ IsActive(c) = (c.phase # "free")
         /\ c.gate \in BOOLEAN /\ c.sock \in Handles \cup {NoHandle}
BY DEF ConnType, ConnOf, IsActive

\* The parts that only speak of slots, sockets and outcomes.
Held == OneOutcomeEach /\ SlotInv /\ HeldOpen /\ HeldOnce /\ OpenHeld /\ GateInv

LEMMA HeldKept ==
  ASSUME Held, UNCHANGED <<conn, client, socket, owed>>,
         at = "send" => UNCHANGED <<at, index>>
  PROVE  Held'
BY DEF Held, OneOutcomeEach, SlotInv, HeldOpen, HeldOnce, OpenHeld, GateInv, HasNews, AtSend

LEMMA Parts ==
  ASSUME IInv
  PROVE  TypeOK /\ NeverBlocks /\ Held /\ ReadyInv /\ IndexInv
BY DEF IInv, Held

LEMMA InitStep == Init => IInv
<1> SUFFICES ASSUME Init PROVE IInv
  OBVIOUS
<1>1. TypeOK
  BY NoConnFacts, NoOutcomeFacts, MaxFact, WebHostAssumption DEF Init, TypeOK
<1>2. OneOutcomeEach /\ SlotInv /\ HeldOpen /\ HeldOnce /\ OpenHeld /\ GateInv
  BY NoConnFacts DEF Init, OneOutcomeEach, SlotInv, HeldOpen, HeldOnce, OpenHeld, GateInv
<1>3. NeverBlocks /\ ReadyInv /\ IndexInv
  BY WebHostAssumption DEF Init, NeverBlocks, ReadyInv, IndexInv
<1> QED BY <1>1, <1>2, <1>3 DEF IInv

------------------------------------------------------------------------------
(* The steps that move the loop, the backlog or the stop only. *)

LEMMA BeginStepFacts ==
  ASSUME TypeOK, BeginStep
  PROVE  /\ at' = "advance" /\ index' = 1 /\ stopping' \in {"no", "asked", "seen"}
         /\ at = "wait" /\ index' \in 1 .. Max({ConnMax, WsMax}) + 1
BY MaxFact DEF TypeOK, BeginStep, GoTo

LEMMA WaitStep ==
  ASSUME IInv, Wait
  PROVE  IInv'
<1>0. TypeOK /\ NeverBlocks /\ Held /\ ReadyInv /\ IndexInv
  BY Parts
<1> USE <1>0
<1>1. PICK works \in BOOLEAN :
        entry' = [i \in Conns |->
            [handle |-> conn[i].sock,
             ready |-> works /\ IsActive(conn[i]) /\ socket[conn[i].sock] \in {"data", "ended"}]]
  BY DEF Wait
<1>2. UNCHANGED <<conn, client, socket, backlog, owed, outcome>>
  BY DEF Wait
<1>3. entry' \in [Conns -> [handle : Handles \cup {NoHandle}, ready : BOOLEAN]]
  <2>1. \A i \in Conns : conn[i].sock \in Handles \cup {NoHandle}
    BY ActiveFacts DEF TypeOK
  <2> QED BY <1>1, <2>1, ZenonT(30)
<1>4. TypeOK'
  BY <1>2, <1>3, BeginStepFacts DEF TypeOK, Wait
<1>5. Held'
  BY <1>2, BeginStepFacts, HeldKept DEF Wait
<1>6. ReadyInv'
  BY <1>1, <1>2, BeginStepFacts DEF ReadyInv, Wait, IsReadable, HasNews
<1>7. (NeverBlocks /\ IndexInv)'
  BY BeginStepFacts, WebHostAssumption DEF Wait, NeverBlocks, IndexInv
<1> QED BY <1>4, <1>5, <1>6, <1>7 DEF IInv, Held

LEMMA StepWithoutWaitStep ==
  ASSUME IInv, StepWithoutWait
  PROVE  IInv'
<1>0. TypeOK /\ NeverBlocks /\ Held /\ ReadyInv /\ IndexInv
  BY Parts
<1> USE <1>0
<1>1. UNCHANGED <<conn, client, entry, socket, backlog, owed, outcome>>
  BY DEF StepWithoutWait
<1>2. TypeOK'
  BY <1>1, BeginStepFacts DEF TypeOK, StepWithoutWait
<1>3. Held'
  BY <1>1, BeginStepFacts, HeldKept DEF StepWithoutWait
<1>4. ReadyInv'
  BY <1>1, BeginStepFacts DEF ReadyInv, StepWithoutWait, IsReadable
<1>5. (NeverBlocks /\ IndexInv)'
  BY BeginStepFacts, WebHostAssumption DEF StepWithoutWait, NeverBlocks, IndexInv
<1> QED BY <1>2, <1>3, <1>4, <1>5 DEF IInv, Held

LEMMA AdvanceSkipsStep ==
  ASSUME IInv, AdvanceSkips
  PROVE  IInv'
<1>0. TypeOK /\ NeverBlocks /\ Held /\ ReadyInv /\ IndexInv
  BY Parts
<1> USE <1>0
<1>1. UNCHANGED <<conn, client, entry, socket, backlog, at, stopping, owed, outcome>>
  BY DEF AdvanceSkips
<1>2. index \in 1 .. ConnMax /\ index' = index + 1 /\ at = "advance"
  BY DEF AdvanceSkips, Conns
<1>3. TypeOK'
  <2>1. index' \in 1 .. Max({ConnMax, WsMax}) + 1
    BY <1>2, MaxFact, WebHostAssumption
  <2> QED BY <1>1, <2>1 DEF TypeOK
<1>4. Held'
  BY <1>1, <1>2, HeldKept
<1>5. ReadyInv'
  <2>1. \A i \in Conns : i >= index' => i >= index
    BY <1>2, WebHostAssumption DEF Conns
  <2> QED BY <1>1, <1>2, <2>1 DEF ReadyInv, IsReadable, HasNews, AtSend
<1>6. (NeverBlocks /\ IndexInv)'
  BY <1>1, <1>2, WebHostAssumption DEF NeverBlocks, IndexInv
<1> QED BY <1>3, <1>4, <1>5, <1>6 DEF IInv, Held

\* A pass of the loop ends and the next one begins at the first slot.
LEMMA EndsStep ==
  ASSUME IInv, at # "send", NEW place \in {"accept", "pump"}, GoTo(place),
         UNCHANGED <<conn, client, entry, socket, backlog, stopping, owed, outcome>>
  PROVE  IInv'
<1>0. TypeOK /\ NeverBlocks /\ Held /\ ReadyInv /\ IndexInv
  BY Parts
<1> USE <1>0
<1>1. at' = place /\ index' = 1
  BY DEF GoTo
<1>2. TypeOK'
  <2>1. index' \in 1 .. Max({ConnMax, WsMax}) + 1
    BY <1>1, MaxFact
  <2> QED BY <1>1, <2>1 DEF TypeOK
<1>3. Held'
  BY HeldKept
<1>4. (ReadyInv /\ NeverBlocks /\ IndexInv)'
  BY <1>1, WebHostAssumption DEF ReadyInv, NeverBlocks, IndexInv
<1> QED BY <1>2, <1>3, <1>4 DEF IInv, Held

LEMMA PumpEndsStep ==
  ASSUME IInv, PumpEnds
  PROVE  IInv'
<1>0. TypeOK /\ NeverBlocks /\ Held /\ ReadyInv /\ IndexInv
  BY Parts
<1> USE <1>0
<1>1. /\ at' = "frame" /\ index' = 1
      /\ UNCHANGED <<conn, client, entry, socket, backlog, stopping, owed, outcome>>
  BY DEF PumpEnds, GoTo
<1>5. at # "send"
  BY DEF PumpEnds
<1>2. TypeOK'
  <2>1. index' \in 1 .. Max({ConnMax, WsMax}) + 1
    BY <1>1, MaxFact
  <2> QED BY <1>1, <2>1 DEF TypeOK
<1>3. Held'
  BY <1>1, <1>5, HeldKept
<1>4. (ReadyInv /\ NeverBlocks /\ IndexInv)'
  BY <1>1, WebHostAssumption DEF ReadyInv, NeverBlocks, IndexInv
<1> QED BY <1>2, <1>3, <1>4 DEF IInv, Held

\* The backlog or the stop changes, and nothing else.
LEMMA OutsideStep ==
  ASSUME IInv, UNCHANGED <<conn, client, entry, socket, at, index, owed, outcome>>,
         backlog' \in 0 .. MaxBacklog, stopping' \in {"no", "asked", "seen"}
  PROVE  IInv'
<1>0. TypeOK /\ NeverBlocks /\ Held /\ ReadyInv /\ IndexInv
  BY Parts
<1> USE <1>0
<1>1. TypeOK'
  BY DEF TypeOK
<1>2. Held'
  BY HeldKept
<1>3. (ReadyInv /\ NeverBlocks /\ IndexInv)'
  BY DEF ReadyInv, NeverBlocks, IndexInv, IsReadable, HasNews, AtSend, Sending
<1> QED BY <1>1, <1>2, <1>3 DEF IInv, Held

LEMMA AcceptRefusesStep ==
  ASSUME IInv, AcceptRefuses
  PROVE  IInv'
BY OutsideStep, WebHostAssumption DEF IInv, TypeOK, AcceptRefuses

LEMMA StopStep ==
  ASSUME IInv, Stop
  PROVE  IInv'
BY OutsideStep DEF IInv, TypeOK, Stop

LEMMA ConnectStep ==
  ASSUME IInv, Connect
  PROVE  IInv'
BY OutsideStep, WebHostAssumption DEF IInv, TypeOK, Connect

------------------------------------------------------------------------------
(* The steps that open, hand over, read or close sockets. *)

\* Only the sockets change, none from or to closed, and none that has news loses it.
LEMMA NewsStep ==
  ASSUME IInv, NEW h \in Handles, socket[h] # "closed",
         NEW s \in {"data", "ended"}, socket' = [socket EXCEPT ![h] = s],
         UNCHANGED <<conn, client, entry, backlog, at, index, stopping, owed, outcome>>
  PROVE  IInv'
<1>0. TypeOK /\ NeverBlocks /\ Held /\ ReadyInv /\ IndexInv
  BY Parts
<1> USE <1>0
<1>1. TypeOK'
  BY DEF TypeOK
<1>2. \A g \in Handles : socket'[g] = "closed" <=> socket[g] = "closed"
  BY DEF TypeOK
<1>3. \A g \in Handles : HasNews(g) => HasNews(g)'
  BY DEF TypeOK, HasNews
<1>4. \A i \in Conns : IsActive(conn[i]) => conn[i].sock \in Handles
  BY DEF Held, SlotInv
<1>5. \A j \in Clients : client[j] # NoHandle => client[j] \in Handles
  BY DEF TypeOK
<1>6. (OneOutcomeEach /\ SlotInv /\ HeldOnce)'
  BY DEF Held, OneOutcomeEach, SlotInv, HeldOnce
<1>7. (HeldOpen /\ OpenHeld)'
  BY <1>2, <1>4, <1>5 DEF Held, HeldOpen, OpenHeld
<1>8. GateInv'
  BY <1>3, <1>4 DEF Held, GateInv, AtSend
<1>9. ReadyInv'
  BY <1>3, <1>4 DEF ReadyInv, IsReadable, AtSend
<1>10. (NeverBlocks /\ IndexInv)'
  BY DEF NeverBlocks, IndexInv, Sending
<1> QED BY <1>1, <1>6, <1>7, <1>8, <1>9, <1>10 DEF IInv

LEMMA SendStep ==
  ASSUME IInv, NEW h \in Handles, Send(h)
  PROVE  IInv'
BY NewsStep DEF Send

LEMMA HangUpStep ==
  ASSUME IInv, NEW h \in Handles, HangUp(h)
  PROVE  IInv'
BY NewsStep DEF HangUp

LEMMA RunLateStep ==
  ASSUME IInv, NEW i \in Conns, RunLate(i)
  PROVE  IInv'
<1>0. TypeOK /\ NeverBlocks /\ Held /\ ReadyInv /\ IndexInv
  BY Parts
<1> USE <1>0
<1> DEFINE c == [conn[i] EXCEPT !.late = TRUE]
<1>1. /\ UNCHANGED <<client, entry, socket, backlog, at, index, stopping, owed, outcome>>
      /\ conn' = [conn EXCEPT ![i] = c] /\ at = "wait" /\ IsActive(conn[i])
  BY DEF RunLate, TypeOK
<1>2. /\ c \in ConnType /\ IsActive(c) /\ c.phase = conn[i].phase
      /\ c.sock = conn[i].sock /\ c.gate = conn[i].gate
  <2>1. conn[i] \in ConnType
    BY DEF TypeOK
  <2> QED BY <1>1, <2>1 DEF ConnType, ConnOf, IsActive
<1> HIDE DEF c
<1>3. /\ conn' \in [Conns -> ConnType]
      /\ \A k \in Conns : conn'[k] = IF k = i THEN c ELSE conn[k]
  BY <1>1, <1>2 DEF TypeOK
<1>4. \A k \in Conns : /\ IsActive(conn'[k]) = IsActive(conn[k])
                       /\ conn'[k].phase = conn[k].phase
                       /\ conn'[k].sock = conn[k].sock
                       /\ conn'[k].gate = conn[k].gate
  BY <1>1, <1>2, <1>3
<1>5. TypeOK'
  BY <1>1, <1>3 DEF TypeOK
<1>6. OneOutcomeEach'
  BY <1>1, <1>4 DEF Held, OneOutcomeEach
<1>7. SlotInv'
  BY <1>1, <1>2, <1>3 DEF Held, SlotInv, IsActive
<1>8. HeldOpen'
  BY <1>1, <1>4 DEF Held, HeldOpen
<1>9. HeldOnce'
  BY <1>1, <1>4 DEF Held, HeldOnce
<1>10. OpenHeld'
  BY <1>1, <1>4 DEF Held, OpenHeld
<1>11. GateInv'
  BY <1>1, <1>4 DEF Held, GateInv, HasNews, AtSend
<1>12. (ReadyInv /\ NeverBlocks /\ IndexInv)'
  BY <1>1 DEF ReadyInv, NeverBlocks, IndexInv
<1> QED BY <1>5, <1>6, <1>7, <1>8, <1>9, <1>10, <1>11, <1>12 DEF IInv

LEMMA AcceptStep ==
  ASSUME IInv, Accept
  PROVE  IInv'
<1>0. TypeOK /\ NeverBlocks /\ Held /\ ReadyInv /\ IndexInv
  BY Parts
<1> USE <1>0
<1> DEFINE m == Min(FreeSlots)
<1>1. m \in FreeSlots
  BY MinFact, WebHostAssumption DEF Accept, FreeSlots, Conns
<1>2. m \in Conns /\ conn[m].phase = "free" /\ ~ IsActive(conn[m])
  BY <1>1 DEF FreeSlots, IsActive
<1>3. PICK h \in Handles : /\ socket[h] = "closed"
                           /\ conn' = [conn EXCEPT ![m] = Opened(h)]
                           /\ socket' = [socket EXCEPT ![h] = "quiet"]
  BY DEF Accept
<1> HIDE DEF m
<1>4. /\ UNCHANGED <<client, entry, at, index, stopping, owed, outcome>>
      /\ at = "accept" /\ backlog' = backlog - 1 /\ backlog > 0
  BY DEF Accept
<1> DEFINE c == Opened(h)
<1>5. /\ c \in ConnType /\ IsActive(c) /\ c.sock = h
      /\ c.phase = "head" /\ ~ c.gate
  BY OpenedFacts
<1> HIDE DEF c
<1>6. /\ conn' \in [Conns -> ConnType]
      /\ \A k \in Conns : conn'[k] = IF k = m THEN c ELSE conn[k]
  BY <1>2, <1>3, <1>5 DEF TypeOK, c
<1>7. \A g \in Handles : socket'[g] = IF g = h THEN "quiet" ELSE socket[g]
  BY <1>3 DEF TypeOK
<1>8. /\ \A k \in Conns : IsActive(conn[k]) => conn[k].sock \in Handles \ {h}
      /\ \A j \in Clients : client[j] # NoHandle => client[j] \in Handles \ {h}
      /\ \A j \in Clients : client[j] # h
  BY <1>3, WebHostAssumption DEF Held, HeldOpen, SlotInv, TypeOK
<1>9. TypeOK'
  <2>1. backlog' \in 0 .. MaxBacklog
    BY <1>4, WebHostAssumption DEF TypeOK
  <2>2. socket' \in [Handles -> {"closed", "quiet", "data", "ended"}]
    BY <1>3 DEF TypeOK
  <2> QED BY <1>4, <1>6, <2>1, <2>2 DEF TypeOK
<1>10. OneOutcomeEach'
  BY <1>2, <1>4, <1>5, <1>6 DEF Held, OneOutcomeEach
<1>11. SlotInv'
  BY <1>5, <1>6 DEF Held, SlotInv
<1>12. HeldOpen'
  BY <1>4, <1>5, <1>6, <1>7, <1>8 DEF Held, HeldOpen
<1>13. HeldOnce'
  BY <1>4, <1>5, <1>6, <1>8 DEF Held, HeldOnce
<1>14. OpenHeld'
  BY <1>2, <1>4, <1>5, <1>6, <1>7 DEF Held, OpenHeld
<1>15. GateInv'
  BY <1>4, <1>5, <1>6, <1>7, <1>8 DEF Held, GateInv, HasNews, AtSend
<1>16. (ReadyInv /\ NeverBlocks /\ IndexInv)'
  BY <1>4 DEF ReadyInv, NeverBlocks, IndexInv
<1> QED BY <1>9, <1>10, <1>11, <1>12, <1>13, <1>14, <1>15, <1>16 DEF IInv

LEMMA PumpStep ==
  ASSUME IInv, Pump
  PROVE  IInv'
<1>0. TypeOK /\ NeverBlocks /\ Held /\ ReadyInv /\ IndexInv
  BY Parts
<1> USE <1>0
<1> DEFINE h == client[index]
<1>1. /\ UNCHANGED <<conn, entry, backlog, at, stopping, owed, outcome>>
      /\ at = "pump" /\ index \in Clients /\ index' = index + 1
  BY DEF Pump
<1>2. (NeverBlocks /\ ReadyInv /\ IndexInv)' /\ index' \in 1 .. Max({ConnMax, WsMax}) + 1
  BY <1>1, MaxFact, WebHostAssumption DEF NeverBlocks, ReadyInv, IndexInv, Clients
<1>3. (OneOutcomeEach /\ SlotInv)'
  BY <1>1 DEF Held, OneOutcomeEach, SlotInv
<1>4. h \in Handles \cup {NoHandle}
  BY <1>1 DEF TypeOK
<1>5. CASE h = NoHandle
  <2>1. UNCHANGED <<client, socket>>
    BY <1>5 DEF Pump
  <2>2. TypeOK' /\ Held'
    BY <1>1, <1>2, <2>1, HeldKept DEF TypeOK
  <2> QED BY <1>2, <2>2 DEF IInv, Held
<1>6. CASE h # NoHandle /\ socket' = AfterReceive(h, TRUE) /\ UNCHANGED client
  <2>1. /\ socket' \in [Handles -> {"closed", "quiet", "data", "ended"}]
        /\ \A g \in Handles : g # h => socket'[g] = socket[g]
        /\ \A g \in Handles : socket'[g] = "closed" <=> socket[g] = "closed"
    BY <1>4, <1>6 DEF TypeOK, AfterReceive
  <2>2. /\ \A k \in Conns : IsActive(conn[k]) => conn[k].sock \in Handles \ {h}
        /\ \A j \in Clients : client[j] # NoHandle => client[j] \in Handles
    BY <1>1 DEF Held, HeldOnce, SlotInv, TypeOK
  <2> HIDE DEF h
  <2>3. TypeOK'
    BY <1>1, <1>2, <1>6, <2>1 DEF TypeOK
  <2>4. HeldOpen'
    BY <1>1, <1>6, <2>1, <2>2 DEF Held, HeldOpen
  <2>5. HeldOnce'
    BY <1>1, <1>6 DEF Held, HeldOnce
  <2>6. OpenHeld'
    BY <1>1, <1>6, <2>1 DEF Held, OpenHeld
  <2>7. GateInv'
    BY <1>1, <2>1, <2>2 DEF Held, GateInv, HasNews, AtSend
  <2> QED BY <1>2, <1>3, <2>3, <2>4, <2>5, <2>6, <2>7 DEF IInv
<1>7. CASE /\ h # NoHandle
           /\ client' = [client EXCEPT ![index] = NoHandle]
           /\ socket' = [socket EXCEPT ![h] = "closed"]
  <2>1. /\ socket' \in [Handles -> {"closed", "quiet", "data", "ended"}]
        /\ \A g \in Handles : socket'[g] = IF g = h THEN "closed" ELSE socket[g]
        /\ client' \in [Clients -> Handles \cup {NoHandle}]
        /\ \A j \in Clients : client'[j] = IF j = index THEN NoHandle ELSE client[j]
    BY <1>1, <1>4, <1>7 DEF TypeOK
  <2>2. /\ \A k \in Conns : IsActive(conn[k]) => conn[k].sock \in Handles \ {h}
        /\ \A j \in Clients : client[j] # NoHandle /\ j # index => client[j] \in Handles \ {h}
    BY <1>1, <1>7 DEF Held, HeldOnce, SlotInv, TypeOK
  <2>3. h = client[index]
    OBVIOUS
  <2> HIDE DEF h
  <2>4. TypeOK'
    BY <1>1, <1>2, <2>1 DEF TypeOK
  <2>5. HeldOpen'
    BY <1>1, <2>1, <2>2 DEF Held, HeldOpen
  <2>6. HeldOnce'
    <3>1. \A k \in Conns : IsActive(conn[k]) => conn[k].sock # NoHandle
      BY <2>2, WebHostAssumption
    <3> QED BY <1>1, <2>1, <3>1 DEF Held, HeldOnce
  <2>7. OpenHeld'
    BY <1>1, <2>1, <2>3 DEF Held, OpenHeld
  <2>8. GateInv'
    BY <1>1, <2>1, <2>2 DEF Held, GateInv, HasNews, AtSend
  <2> QED BY <1>2, <1>3, <2>4, <2>5, <2>6, <2>7, <2>8 DEF IInv
<1> QED BY <1>5, <1>6, <1>7 DEF Pump

LEMMA FrameStep ==
  ASSUME IInv, Frame
  PROVE  IInv'
<1>0. TypeOK /\ NeverBlocks /\ Held /\ ReadyInv /\ IndexInv
  BY Parts
<1> USE <1>0
<1>1. PICK gone \in SUBSET {j \in Clients : client[j] # NoHandle} :
        /\ client' = [j \in Clients |-> IF j \in gone THEN NoHandle ELSE client[j]]
        /\ socket' = [h \in Handles |->
                        IF \E j \in gone : client[j] = h THEN "closed" ELSE socket[h]]
  BY DEF Frame
<1>2. /\ UNCHANGED <<conn, backlog, stopping, owed, outcome>>
      /\ entry' = [i \in Conns |-> [entry[i] EXCEPT !.ready = FALSE]]
      /\ at = "frame" /\ at' = "wait" /\ index' = 1
  BY DEF Frame, GoTo, Cleared
<1>3. /\ entry' \in [Conns -> [handle : Handles \cup {NoHandle}, ready : BOOLEAN]]
      /\ \A i \in Conns : ~ entry'[i].ready
  BY <1>2 DEF TypeOK
<1>4. index' \in 1 .. Max({ConnMax, WsMax}) + 1
  BY <1>2, MaxFact
<1>5. TypeOK'
  BY <1>1, <1>2, <1>3, <1>4 DEF TypeOK
<1>6. \A k \in Conns : IsActive(conn[k]) =>
        /\ conn[k].sock \in Handles /\ conn[k].sock # NoHandle
        /\ socket'[conn[k].sock] = socket[conn[k].sock]
  BY <1>1, WebHostAssumption DEF Held, HeldOnce, SlotInv
<1>7. (OneOutcomeEach /\ SlotInv)'
  BY <1>2 DEF Held, OneOutcomeEach, SlotInv
<1>8. HeldOpen'
  <2>1. ASSUME NEW j \in Clients, client'[j] # NoHandle
        PROVE  socket'[client'[j]] # "closed"
    <3>1. j \notin gone /\ client'[j] = client[j] /\ client[j] \in Handles
      BY <1>1, <2>1 DEF TypeOK
    <3>2. \A k \in gone : client[k] # client[j]
      BY <1>1, <3>1, <2>1 DEF Held, HeldOnce
    <3> QED BY <1>1, <2>1, <3>1, <3>2 DEF Held, HeldOpen
  <2> QED BY <1>2, <1>6, <2>1 DEF Held, HeldOpen
<1>9. HeldOnce'
  BY <1>1, <1>2, <1>6 DEF Held, HeldOnce
<1>10. OpenHeld'
  BY <1>1, <1>2 DEF Held, OpenHeld
<1>11. GateInv'
  BY <1>2, <1>6 DEF Held, GateInv, HasNews, AtSend
<1>12. (ReadyInv /\ NeverBlocks /\ IndexInv)'
  BY <1>2, <1>3 DEF ReadyInv, NeverBlocks, IndexInv
<1> QED BY <1>5, <1>7, <1>8, <1>9, <1>10, <1>11, <1>12 DEF IInv

LEMMA DestroyStep ==
  ASSUME IInv, Destroy
  PROVE  IInv'
<1>0. TypeOK /\ NeverBlocks /\ Held /\ ReadyInv /\ IndexInv
  BY Parts
<1> USE <1>0
<1>1. /\ owed' = [i \in Conns |-> IF conn[i].phase = "stream" THEN owed[i] - 1 ELSE owed[i]]
      /\ socket' = [h \in Handles |->
                      IF \/ \E i \in Conns : conn[i].phase # "free" /\ conn[i].sock = h
                         \/ \E j \in Clients : client[j] = h
                      THEN "closed" ELSE socket[h]]
      /\ conn' = [i \in Conns |-> NoConn]
      /\ client' = [j \in Clients |-> NoHandle]
      /\ backlog' = 0 /\ at' = "gone" /\ index' = 1
      /\ UNCHANGED <<entry, stopping, outcome>>
  BY DEF Destroy, GoTo
<1>2. \A i \in Conns : owed'[i] = 0
  BY <1>1 DEF Held, OneOutcomeEach
<1>3. \A i \in Conns : IsActive(conn[i]) => conn[i].phase # "free"
  BY DEF IsActive
<1>4. \A h \in Handles : socket'[h] = "closed"
  BY <1>1, <1>3 DEF Held, OpenHeld
<1>5. TypeOK'
  <2>1. index' \in 1 .. Max({ConnMax, WsMax}) + 1 /\ backlog' \in 0 .. MaxBacklog
    BY <1>1, MaxFact, WebHostAssumption
  <2>2. owed' \in [Conns -> Int]
    BY <1>1 DEF TypeOK
  <2>3. socket' \in [Handles -> {"closed", "quiet", "data", "ended"}]
    BY <1>1 DEF TypeOK
  <2> QED BY <1>1, <2>1, <2>2, <2>3, NoConnFacts DEF TypeOK
<1>6. OneOutcomeEach'
  BY <1>1, <1>2, NoConnFacts DEF OneOutcomeEach
<1>7. (SlotInv /\ HeldOpen /\ HeldOnce /\ GateInv)'
  BY <1>1, NoConnFacts DEF SlotInv, HeldOpen, HeldOnce, GateInv
<1>8. OpenHeld'
  BY <1>4 DEF OpenHeld
<1>9. (ReadyInv /\ NeverBlocks /\ IndexInv)'
  BY <1>1 DEF ReadyInv, NeverBlocks, IndexInv
<1> QED BY <1>5, <1>6, <1>7, <1>8, <1>9 DEF IInv

\* The sockets after a step, and what the step came to, for the slot at hand.
Concludes(d, owes, sockets) ==
    /\ at \in {"advance", "send"} /\ index \in Conns /\ IsActive(conn[index])
    /\ sockets \in [Handles -> {"closed", "quiet", "data", "ended"}]
    /\ \A g \in Handles : g # conn[index].sock => sockets[g] = socket[g]
    /\ sockets[conn[index].sock] # "closed"
    /\ d \in Stepped /\ d.phase # "free" /\ d.sock = conn[index].sock
    /\ d.gate /\ IsActive(d) => d.phase = "stream" /\ sockets[d.sock] \in {"data", "ended"}
    /\ owes = Streams(d) - Streams(conn[index])

\* A step of the connection at hand ends: what it leaves stays in the slot, moves to
\* a client's slot or is closed.
LEMMA ConcludeStep ==
  ASSUME IInv, NEW d, NEW owes, NEW sockets, Concludes(d, owes, sockets),
         Conclude(Outcome(d, owes), sockets), UNCHANGED <<entry, backlog, stopping>>
  PROVE  IInv'
<1>0. TypeOK /\ NeverBlocks /\ Held /\ ReadyInv /\ IndexInv
  BY Parts
<1> USE <1>0
<1> DEFINE c == conn[index]
           h == c.sock
<1>1. /\ at \in {"advance", "send"} /\ index \in Conns /\ IsActive(c)
      /\ UNCHANGED <<entry, backlog, stopping>>
  BY DEF Concludes
<1>2. /\ c \in ConnType /\ h \in Handles /\ h # NoHandle
      /\ socket[h] # "closed"
  BY <1>1, WebHostAssumption DEF TypeOK, Held, SlotInv, HeldOpen
<1>8. /\ Settle(index, d, sockets)
      /\ owed' = [owed EXCEPT ![index] = @ + owes]
      /\ index' = index + 1 /\ at' = "advance" /\ outcome' = NoOutcome
  BY DEF Conclude, Outcome
<1>9. /\ sockets \in [Handles -> {"closed", "quiet", "data", "ended"}]
      /\ \A g \in Handles : g # h => sockets[g] = socket[g]
      /\ sockets[h] # "closed"
  BY DEF Concludes
<1>10. /\ d \in Stepped /\ d.phase # "free" /\ d.sock = h
       /\ d.gate /\ IsActive(d) => d.phase = "stream" /\ sockets[h] \in {"data", "ended"}
       /\ owes = (IF d.phase = "stream" THEN 1 ELSE 0)
                   - (IF c.phase = "stream" THEN 1 ELSE 0)
  BY DEF Concludes, Streams
<1>11. c = conn[index] /\ h = conn[index].sock
  OBVIOUS
<1> HIDE DEF c, h
<1>12. /\ \A k \in Conns : IsActive(conn[k]) /\ k # index => conn[k].sock \in Handles \ {h}
       /\ \A j \in Clients : client[j] # h
       /\ \A j \in Clients : client[j] # NoHandle => client[j] \in Handles \ {h}
  BY <1>1, <1>11 DEF Held, HeldOnce, SlotInv, TypeOK
<1>13. /\ index' \in 1 .. Max({ConnMax, WsMax}) + 1
       /\ owed' \in [Conns -> Int]
       /\ \A k \in Conns : owed'[k] = IF k = index THEN owed[k] + owes ELSE owed[k]
  BY <1>1, <1>8, <1>10, MaxFact, WebHostAssumption DEF TypeOK, Conns
<1>14. /\ owed'[index] = IF d.phase = "stream" THEN 1 ELSE 0
       /\ \A k \in Conns : k # index => owed'[k] = IF conn[k].phase = "stream" THEN 1 ELSE 0
  BY <1>1, <1>10, <1>11, <1>13 DEF Held, OneOutcomeEach
<1>15. (NeverBlocks /\ IndexInv)'
  BY <1>1, <1>8, WebHostAssumption DEF NeverBlocks, IndexInv, Conns
<1>16. \A k \in Conns : k >= index' => k >= index /\ k # index
  BY <1>1, <1>8, WebHostAssumption DEF Conns
<1>17. ReadyInv'
  <2>1. \A k \in Conns : k # index => conn'[k] = conn[k]
    BY <1>1, <1>8 DEF Settle, TypeOK
  <2>2. \A g \in Handles : g # h => socket'[g] = socket[g]
    BY <1>2, <1>8, <1>9, <1>10 DEF Settle
  <2> QED BY <1>1, <1>8, <1>12, <1>16, <2>1, <2>2 DEF ReadyInv, IsReadable, HasNews, AtSend
<1>18. CASE /\ IsActive(d)
            /\ conn' = [conn EXCEPT ![index] = d]
            /\ socket' = sockets
            /\ UNCHANGED client
  <2>1. /\ conn' \in [Conns -> ConnType]
        /\ \A k \in Conns : conn'[k] = IF k = index THEN d ELSE conn[k]
    BY <1>1, <1>10, <1>18, SteppedFacts DEF TypeOK
  <2>2. TypeOK'
    BY <1>1, <1>8, <1>9, <1>13, <1>18, <2>1, NoOutcomeFacts DEF TypeOK
  <2>3. OneOutcomeEach'
    BY <1>1, <1>14, <2>1 DEF OneOutcomeEach
  <2>4. SlotInv'
    BY <1>2, <1>10, <2>1 DEF Held, SlotInv
  <2>5. HeldOpen'
    BY <1>9, <1>10, <1>12, <1>18, <2>1 DEF Held, HeldOpen
  <2>6. HeldOnce'
    BY <1>10, <1>12, <1>18, <2>1 DEF Held, HeldOnce
  <2>7. OpenHeld'
    <3>1. ASSUME NEW g \in Handles, g # h, socket'[g] # "closed"
          PROVE  \/ \E i \in Conns : IsActive(conn'[i]) /\ conn'[i].sock = g
                 \/ \E j \in Clients : client'[j] = g
      <4>1. socket[g] # "closed"
        BY <1>9, <1>18, <3>1
      <4>2. CASE \E j \in Clients : client[j] = g
        BY <1>18, <4>2
      <4>3. CASE \E i \in Conns : IsActive(conn[i]) /\ conn[i].sock = g
        BY <1>11, <2>1, <3>1, <4>3
      <4> QED BY <4>1, <4>2, <4>3 DEF Held, OpenHeld
    <3>2. IsActive(conn'[index]) /\ conn'[index].sock = h
      BY <1>1, <1>10, <1>18, <2>1
    <3> QED BY <1>1, <3>1, <3>2 DEF OpenHeld
  <2>8. GateInv'
    BY <1>8, <1>9, <1>10, <1>12, <1>18, <2>1 DEF Held, GateInv, HasNews, AtSend
  <2> QED BY <1>15, <1>17, <2>2, <2>3, <2>4, <2>5, <2>6, <2>7, <2>8 DEF IInv
<1>19. CASE /\ d.phase \in {"done", "upgraded"}
            /\ conn' = [conn EXCEPT ![index] = NoConn]
  <2>1. /\ conn' \in [Conns -> ConnType]
        /\ \A k \in Conns : conn'[k] = IF k = index THEN NoConn ELSE conn[k]
    BY <1>1, <1>19, NoConnFacts DEF TypeOK
  <2>2. OneOutcomeEach'
    BY <1>1, <1>14, <1>19, <2>1, NoConnFacts DEF OneOutcomeEach
  <2>3. SlotInv'
    BY <2>1, NoConnFacts DEF Held, SlotInv
  <2>4. CASE FreeClients # {} /\ client' = [client EXCEPT ![Min(FreeClients)] = h]
             /\ socket' = sockets
    <3> DEFINE m == Min(FreeClients)
    <3>1. m \in Clients /\ client[m] = NoHandle
      BY <2>4, MinFact, WebHostAssumption DEF FreeClients, Clients
    <3>2. client' = [client EXCEPT ![m] = h]
      BY <2>4
    <3> HIDE DEF m
    <3>3. /\ client' \in [Clients -> Handles \cup {NoHandle}]
          /\ \A j \in Clients : client'[j] = IF j = m THEN h ELSE client[j]
      BY <1>2, <3>1, <3>2 DEF TypeOK
    <3>4. TypeOK'
      BY <1>1, <1>8, <1>9, <1>13, <2>1, <2>4, <3>3, NoOutcomeFacts DEF TypeOK
    <3>5. HeldOpen'
      BY <1>9, <1>12, <2>1, <2>4, <3>3, NoConnFacts DEF Held, HeldOpen
    <3>6. HeldOnce'
      BY <1>12, <2>1, <3>1, <3>3, NoConnFacts DEF Held, HeldOnce
    <3>7. OpenHeld'
      BY <1>9, <1>11, <1>2, <2>1, <2>4, <3>1, <3>3, WebHostAssumption DEF Held, OpenHeld
    <3>8. GateInv'
      BY <1>8, <1>9, <1>12, <2>1, <2>4, NoConnFacts DEF Held, GateInv, HasNews, AtSend
    <3> QED BY <1>15, <1>17, <2>2, <2>3, <3>4, <3>5, <3>6, <3>7, <3>8 DEF IInv
  <2>5. CASE socket' = [sockets EXCEPT ![h] = "closed"] /\ UNCHANGED client
    <3>1. /\ socket' \in [Handles -> {"closed", "quiet", "data", "ended"}]
          /\ \A g \in Handles : socket'[g] = IF g = h THEN "closed" ELSE socket[g]
      BY <1>2, <1>9, <2>5
    <3>2. TypeOK'
      BY <1>1, <1>8, <1>13, <2>1, <2>5, <3>1, NoOutcomeFacts DEF TypeOK
    <3>3. HeldOpen'
      BY <1>12, <2>1, <2>5, <3>1, NoConnFacts DEF Held, HeldOpen
    <3>4. HeldOnce'
      BY <2>1, <2>5, NoConnFacts DEF Held, HeldOnce
    <3>5. OpenHeld'
      BY <1>11, <2>1, <2>5, <3>1 DEF Held, OpenHeld
    <3>6. GateInv'
      BY <1>8, <1>12, <2>1, <3>1, NoConnFacts DEF Held, GateInv, HasNews, AtSend
    <3> QED BY <1>15, <1>17, <2>2, <2>3, <3>2, <3>3, <3>4, <3>5, <3>6 DEF IInv
  <2> QED BY <1>8, <1>10, <1>19, <2>4, <2>5 DEF Settle, IsActive
<1> QED BY <1>8, <1>10, <1>18, <1>19 DEF Settle

\* The connection at hand is stepped.  A receive was let through by readiness or
\* by the gate, so there is something for it.
LEMMA ResultFacts ==
  ASSUME IInv, at = "advance", index \in Conns, IsActive(conn[index]), NEW r \in Results
  PROVE  /\ r.took => socket[conn[index].sock] # "quiet"
         /\ StepResult(conn[index], IsReadable(index), r)
         /\ Concludes(r.conn, r.owes, AfterReceive(conn[index].sock, r.took))
<1>0. TypeOK /\ NeverBlocks /\ Held /\ ReadyInv /\ IndexInv
  BY Parts
<1> USE <1>0
<1> DEFINE c == conn[index]
           h == c.sock
           readable == IsReadable(index)
           sockets == AfterReceive(h, r.took)
<1>1. ~ AtSend(index)
  BY DEF AtSend
<1>2. /\ c \in ConnType /\ c \in Stepped /\ h \in Handles /\ h # NoHandle
      /\ socket[h] # "closed" /\ (c.gate => c.phase = "stream")
  BY <1>1, SteppedFacts, WebHostAssumption
  DEF TypeOK, Held, SlotInv, HeldOpen, GateInv
<1>3. readable \in BOOLEAN
  BY DEF IsReadable, TypeOK
<1>4. r \in ConnStep(c, socket[h], readable)
  BY DEF Results
<1>5. StepResult(c, readable, r)
  BY <1>2, <1>3, <1>4, StepFacts
<1>6. c.gate \/ readable => HasNews(h)
  <2>1. index >= index
    BY WebHostAssumption DEF Conns
  <2> QED BY <1>1, <2>1 DEF Held, GateInv, ReadyInv
<1>7. r.took => HasNews(h)
  BY <1>5, <1>6 DEF StepResult
<1>8. /\ sockets \in [Handles -> {"closed", "quiet", "data", "ended"}]
      /\ \A g \in Handles : g # h => sockets[g] = socket[g]
      /\ sockets[h] # "closed"
      /\ ~ r.took => sockets[h] = socket[h]
  BY <1>2 DEF TypeOK, AfterReceive
<1>9. /\ r.conn \in Stepped /\ r.conn.phase # "free" /\ r.conn.sock = h
      /\ r.conn.gate /\ IsActive(r.conn) =>
            r.conn.phase = "stream" /\ sockets[r.conn.sock] \in {"data", "ended"}
      /\ r.owes = Streams(r.conn) - Streams(c)
  BY <1>5, <1>6, <1>8 DEF StepResult, HasNews, Streams
<1> QED BY <1>5, <1>7, <1>8, <1>9 DEF Concludes, HasNews

LEMMA AdvanceStep ==
  ASSUME IInv, Advance
  PROVE  IInv'
<1>1. /\ at = "advance" /\ index \in Conns /\ IsActive(conn[index])
      /\ UNCHANGED <<entry, backlog, stopping>>
  BY DEF Advance
<1>2. PICK r \in Results :
        IF r.took /\ socket[conn[index].sock] = "quiet"
        THEN GoTo("blocked") /\ UNCHANGED <<conn, client, socket, outcome, owed>>
        ELSE Conclude(r, AfterReceive(conn[index].sock, r.took))
  BY DEF Advance
<1>3. /\ r.took => socket[conn[index].sock] # "quiet"
      /\ Concludes(r.conn, r.owes, AfterReceive(conn[index].sock, r.took))
  BY <1>1, ResultFacts
<1>4. Conclude(Outcome(r.conn, r.owes), AfterReceive(conn[index].sock, r.took))
  BY <1>2, <1>3 DEF Conclude, Outcome
<1> QED BY <1>1, <1>3, <1>4, ConcludeStep

\* The step has something to send that its peer must take first.
LEMMA AdvanceSendsStep ==
  ASSUME IInv, AdvanceSends
  PROVE  IInv'
<1>0. TypeOK /\ NeverBlocks /\ Held /\ ReadyInv /\ IndexInv
  BY Parts
<1> USE <1>0
<1> DEFINE h == conn[index].sock
<1>1. /\ at = "advance" /\ index \in Conns /\ IsActive(conn[index])
      /\ at' = "send" /\ UNCHANGED <<conn, client, entry, backlog, index, stopping, owed>>
  BY DEF AdvanceSends
<1>2. PICK r \in Results :
        /\ Sends(conn[index], socket[h], r)
        /\ outcome' = Outcome(r.conn, r.owes)
        /\ socket' = AfterReceive(h, r.took)
  BY DEF AdvanceSends
<1>3. /\ StepResult(conn[index], IsReadable(index), r)
      /\ Concludes(r.conn, r.owes, socket')
  BY <1>1, <1>2, ResultFacts
<1>4. /\ socket' \in [Handles -> {"closed", "quiet", "data", "ended"}]
      /\ \A g \in Handles : g # h => socket'[g] = socket[g]
      /\ socket'[h] # "closed" /\ socket[h] # "closed"
  BY <1>1, <1>3 DEF Concludes, Held, HeldOpen
<1>5. outcome'.conn = r.conn /\ outcome'.owes = r.owes
  BY <1>2 DEF Outcome
<1>6. r.owes \in Int /\ r.conn \in Stepped
  BY <1>3 DEF Concludes, Streams
<1>7. TypeOK'
  <2>1. outcome' \in [conn : Stepped, owes : Int]
    BY <1>2, <1>6 DEF Outcome
  <2> QED BY <1>1, <1>4, <2>1 DEF TypeOK
<1>8. Sending'
  <2>1. r.conn.gate => ~ IsActive(r.conn)
    BY <1>2, <1>3 DEF Sends, StepResult, IsActive
  <2> QED BY <1>1, <1>3, <1>5, <2>1 DEF Concludes, Sending, Streams
<1>9. /\ \A i \in Conns : IsActive(conn[i]) /\ i # index => conn[i].sock \in Handles \ {h}
      /\ \A j \in Clients : client[j] # h
      /\ \A j \in Clients : client[j] # NoHandle => client[j] \in Handles \ {h}
      /\ h \in Handles
  BY <1>1 DEF Held, HeldOnce, SlotInv, TypeOK
<1> HIDE DEF h
<1>10. \A g \in Handles : socket'[g] = "closed" <=> socket[g] = "closed"
  BY <1>4
<1>11. (OneOutcomeEach /\ SlotInv /\ HeldOnce)'
  BY <1>1 DEF Held, OneOutcomeEach, SlotInv, HeldOnce
<1>12. (HeldOpen /\ OpenHeld)'
  <2>1. \A i \in Conns : IsActive(conn[i]) => conn[i].sock \in Handles
    BY DEF Held, SlotInv
  <2> QED BY <1>1, <1>9, <1>10, <2>1 DEF Held, HeldOpen, OpenHeld
<1>13. \A i \in Conns : ~ AtSend(i)' => i # index
  BY <1>1 DEF AtSend
<1>14. \A i \in Conns : ~ AtSend(i)
  BY <1>1 DEF AtSend
<1>15. GateInv'
  BY <1>1, <1>4, <1>9, <1>13, <1>14 DEF Held, GateInv, HasNews, AtSend
<1>16. ReadyInv'
  BY <1>1, <1>4, <1>9, <1>13, <1>14 DEF ReadyInv, IsReadable, HasNews
<1>17. (NeverBlocks /\ IndexInv)'
  BY <1>1, <1>8 DEF NeverBlocks, IndexInv
<1> QED BY <1>7, <1>11, <1>12, <1>15, <1>16, <1>17 DEF IInv

\* The reply is sent, or its peer is gone.
LEMMA SentStep ==
  ASSUME IInv, Sent \/ SendFails
  PROVE  IInv'
<1>0. TypeOK /\ NeverBlocks /\ Held /\ ReadyInv /\ IndexInv
  BY Parts
<1>1. at = "send" /\ Sending /\ UNCHANGED <<entry, backlog, stopping>>
  BY <1>0 DEF Sent, SendFails, IndexInv
<1>2. conn[index] \in Stepped /\ conn[index].sock \in Handles
  BY <1>0, <1>1, SteppedFacts DEF Sending, TypeOK, Held, SlotInv
<1>3. outcome = Outcome(outcome.conn, outcome.owes) /\ outcome.conn \in Stepped
  BY <1>0 DEF TypeOK, Outcome
<1>4. Concludes(outcome.conn, outcome.owes, socket)
  BY <1>0, <1>1, <1>2, <1>3 DEF Concludes, Sending, TypeOK, Held, HeldOpen
<1>5. CASE Conclude(outcome, socket)
  BY <1>1, <1>3, <1>4, <1>5, ConcludeStep
<1>6. CASE /\ conn[index].phase # "stream"
           /\ Conclude(Outcome(Done(conn[index]), 0), socket)
  <2>1. /\ Done(conn[index]) \in Stepped /\ Done(conn[index]).phase = "done"
        /\ Done(conn[index]).sock = conn[index].sock
    BY <1>2 DEF Done, Stepped, ConnOf
  <2>2. ~ IsActive(Done(conn[index]))
    BY <2>1 DEF IsActive
  <2>3. 0 = Streams(Done(conn[index])) - Streams(conn[index])
    <3>1. Streams(Done(conn[index])) = 0
      BY <2>1 DEF Streams
    <3>2. Streams(conn[index]) = 0
      BY <1>6, Zenon DEF Streams
    <3> QED BY <3>1, <3>2
  <2>4. Concludes(Done(conn[index]), 0, socket)
    BY <1>4, <2>1, <2>2, <2>3 DEF Concludes
  <2> QED BY <1>1, <1>6, <2>4, ConcludeStep
<1> QED BY <1>5, <1>6 DEF Sent, SendFails, Unsent

LEMMA NextStep ==
  ASSUME IInv, [Next]_vars
  PROVE  IInv'
<1>1. CASE Wait
  BY <1>1, WaitStep
<1>2. CASE StepWithoutWait
  BY <1>2, StepWithoutWaitStep
<1>3. CASE Advance \/ AdvanceSends
  BY <1>3, AdvanceStep, AdvanceSendsStep
<1>4. CASE AdvanceSkips
  BY <1>4, AdvanceSkipsStep
<1>5. CASE AdvanceEnds
  BY <1>5, EndsStep DEF AdvanceEnds
<1>6. CASE Accept
  BY <1>6, AcceptStep
<1>7. CASE AcceptRefuses
  BY <1>7, AcceptRefusesStep
<1>8. CASE AcceptEnds
  BY <1>8, EndsStep DEF AcceptEnds
<1>9. CASE Pump
  BY <1>9, PumpStep
<1>10. CASE PumpEnds
  BY <1>10, PumpEndsStep
<1>11. CASE Frame
  BY <1>11, FrameStep
<1>12. CASE Destroy \/ Sent \/ SendFails
  BY <1>12, DestroyStep, SentStep
<1>13. CASE Stop
  BY <1>13, StopStep
<1>14. CASE Connect
  BY <1>14, ConnectStep
<1>15. CASE \E h \in Handles : Send(h) \/ HangUp(h)
  BY <1>15, SendStep, HangUpStep
<1>16. CASE \E i \in Conns : RunLate(i)
  BY <1>16, RunLateStep
<1>17. CASE UNCHANGED vars
  <2>1. backlog' \in 0 .. MaxBacklog /\ stopping' \in {"no", "asked", "seen"}
    BY <1>17 DEF IInv, TypeOK, vars
  <2> QED BY <1>17, <2>1, OutsideStep DEF vars
<1> QED BY <1>1, <1>2, <1>3, <1>4, <1>5, <1>6, <1>7, <1>8, <1>9, <1>10, <1>11, <1>12,
           <1>13, <1>14, <1>15, <1>16, <1>17 DEF Next, Loop

------------------------------------------------------------------------------
(* The theorems. *)

\* Slots, poll entries and sockets keep their types, the outcome counts and the
\* holder of every socket are exact, and readiness and gates tell the truth, in
\* every state the loop, the peers and the clock of the web host can reach.
THEOREM InductiveInvariant == Spec => []IInv
<1>1. Init => IInv
  BY InitStep
<1>2. IInv /\ [Next]_vars => IInv'
  BY NextStep
<1> QED BY <1>1, <1>2, PTL DEF Spec

\* The thread of the web host never receives from a socket that has nothing for
\* it, with any number of slots and handles that come back for other peers.
THEOREM NeverBlocksTheorem == Spec => []NeverBlocks
<1>1. IInv => NeverBlocks
  BY DEF IInv
<1> QED BY <1>1, InductiveInvariant, PTL

\* A streaming route whose body was begun gets one commit or one abort
\* (host/pipe.c), whatever ends the stream.
THEOREM OneOutcomeEachTheorem == Spec => []OneOutcomeEach
<1>1. IInv => OneOutcomeEach
  BY DEF IInv
<1> QED BY <1>1, InductiveInvariant, PTL

LEMMA HoldersOf ==
  ASSUME IInv, NEW h \in Handles
  PROVE  Cardinality(Holders(h)) = IF socket[h] = "closed" THEN 0 ELSE 1
<1>1. /\ Cardinality({}) = 0
      /\ \A x : Cardinality({x}) = 1
  BY FS_EmptySet, FS_Singleton
<1>2. h # NoHandle
  BY WebHostAssumption
<1>3. CASE socket[h] = "closed"
  <2>1. Holders(h) = {}
    BY <1>2, <1>3 DEF Holders, IInv, HeldOpen
  <2> QED BY <1>1, <1>3, <2>1
<1>4. CASE socket[h] # "closed"
  <2>1. \E x : Holders(h) = {x}
    <3>1. CASE \E i \in Conns : IsActive(conn[i]) /\ conn[i].sock = h
      <4>1. PICK i \in Conns : IsActive(conn[i]) /\ conn[i].sock = h
        BY <3>1
      <4>2. /\ {k \in Conns : IsActive(conn[k]) /\ conn[k].sock = h} = {i}
            /\ {j \in Clients : client[j] = h} = {}
        BY <4>1 DEF IInv, HeldOnce
      <4>3. Holders(h) = {<<"conn", i>>}
        BY <4>2 DEF Holders
      <4> QED BY <4>3
    <3>2. CASE \E j \in Clients : client[j] = h
      <4>1. PICK j \in Clients : client[j] = h
        BY <3>2
      <4>2. /\ {k \in Conns : IsActive(conn[k]) /\ conn[k].sock = h} = {}
            /\ {k \in Clients : client[k] = h} = {j}
        BY <1>2, <4>1 DEF IInv, HeldOnce
      <4>3. Holders(h) = {<<"client", j>>}
        BY <4>2 DEF Holders
      <4> QED BY <4>3
    <3> QED BY <1>4, <3>1, <3>2 DEF IInv, OpenHeld
  <2> QED BY <1>1, <1>4, <2>1
<1> QED BY <1>3, <1>4

\* Every open socket of the host is held by exactly one slot and no slot holds a
\* closed handle, through accepts, upgrades, drops and the destruction.
THEOREM SocketsSoundTheorem == Spec => []SocketsSound
<1>1. IInv => SocketsSound
  BY HoldersOf DEF IInv, SocketsSound, OneHolderEach
<1> QED BY <1>1, InductiveInvariant, PTL
===============================================================================
