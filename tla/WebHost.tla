------------------------------- MODULE WebHost -------------------------------
(***************************************************************************)
(* lh_ui_web_host_t: one thread serves HTTP requests and WebSocket clients *)
(* (src/lh/ui/web/host.c, host/conn.c, host/pipe.c, host/gate.c).  A loop  *)
(* polls all sockets, then steps every connection, accepts new ones and    *)
(* pumps the clients; it may also step without a poll in between, when a   *)
(* wake is already pending (ExecLoop).  Peers and time act meanwhile.      *)
(*                                                                         *)
(* A socket of a connection is blocking: a receive with nothing to receive *)
(* stops the whole host, and so does a reply for as long as its peer does  *)
(* not take it.  The system may give a new socket the handle of one that   *)
(* was closed.  What the bytes say is left to chance: any request may be   *)
(* incomplete, broken, an upgrade, a buffered or a streaming one, and a    *)
(* route's handler may refuse, stop early or not read at all.  The frames  *)
(* queued for a client are not modelled.                                   *)
(***************************************************************************)
EXTENDS Integers, FiniteSets, FiniteSetsExt

CONSTANTS ConnMax,      \* slots for connections
          WsMax,        \* slots for WebSocket clients
          Handles,      \* what the system may give an accepted socket
          NoHandle,     \* an invalid handle
          MaxBacklog    \* connections the listener keeps waiting

ASSUME WebHostAssumption ==
    /\ ConnMax \in Nat /\ WsMax \in Nat /\ MaxBacklog \in Nat
    /\ NoHandle \notin Handles /\ IsFiniteSet(Handles)

VARIABLES
    conn,       \* per slot: phase, socket, whether it is late, and its pipe
    client,     \* per slot: the socket of its client
    entry,      \* per slot for connections: what the last poll watched and found
    socket,     \* per handle: closed, or what a receive would meet
    backlog,    \* connections waiting at the listener
    at, index,  \* where the loop is, and at which slot
    outcome,    \* what the step under way comes to once its reply is sent
    stopping,   \* the stop of the loop: no, asked for, seen by its last step
    owed        \* history: per slot, bodies begun less commits and aborts

vars == <<conn, client, entry, socket, backlog, at, index, outcome, stopping, owed>>

Conns == 1 .. ConnMax
Clients == 1 .. WsMax

NoConn == [phase |-> "free", sock |-> NoHandle, late |-> FALSE, ws |-> FALSE,
           gate |-> FALSE, tap |-> "nothing", draining |-> FALSE]

\* What a step leaves: the connection, whether something was received, and what is
\* added to the bodies owed.
Result(c, took, owes) == [conn |-> c, took |-> took, owes |-> owes]

\* What is left of a result once something was received.
Outcome(c, owes) == [conn |-> c, owes |-> owes]

NoOutcome == Outcome(NoConn, 0)

\* No time remains for the request or for its route.
IsLate(c) == c.late

IsActive(c) == c.phase \in {"head", "body", "stream"}

ConnOf(phases) == [phase : phases, sock : Handles \cup {NoHandle}, late : BOOLEAN,
                   ws : BOOLEAN, gate : BOOLEAN, draining : BOOLEAN,
                   tap : {"nothing", "data", "pending"}]

ConnType == ConnOf({"free", "head", "body", "stream"})

\* A connection while it is stepped: it may also be done or upgraded.
Stepped == ConnOf({"free", "head", "body", "stream", "done", "upgraded"})

\* Types of the slots, the sockets and the loop.
TypeOK ==
    /\ conn \in [Conns -> ConnType]
    /\ client \in [Clients -> Handles \cup {NoHandle}]
    /\ entry \in [Conns -> [handle : Handles \cup {NoHandle}, ready : BOOLEAN]]
    /\ socket \in [Handles -> {"closed", "quiet", "data", "ended"}]
    /\ backlog \in 0 .. MaxBacklog
    /\ at \in {"wait", "advance", "send", "accept", "pump", "frame", "blocked", "gone"}
    /\ index \in 1 .. Max({ConnMax, WsMax}) + 1
    /\ outcome \in [conn : Stepped, owes : Int]
    /\ stopping \in {"no", "asked", "seen"}
    /\ owed \in [Conns -> Int]

Init ==
    /\ conn = [i \in Conns |-> NoConn]
    /\ client = [j \in Clients |-> NoHandle]
    /\ entry = [i \in Conns |-> [handle |-> NoHandle, ready |-> FALSE]]
    /\ socket = [h \in Handles |-> "closed"]
    /\ backlog = 0
    /\ at = "wait" /\ index = 1 /\ outcome = NoOutcome
    /\ stopping = "no"
    /\ owed = [i \in Conns |-> 0]

------------------------------------------------------------------------------
(* The body of a streaming request.                                           *)

Done(c) == [c EXCEPT !.phase = "done"]

\* The route is told to commit or to abort, once, and the connection is done.
Finished(c, took) == Result(Done(c), took, -1)

\* What reads of the body may end with: from the bytes already here, or from the
\* one receive that the gate lets through; a peer that is gone fails the body.
Reads(gate, s) ==
    LET over(last, took) == [last |-> last, gate |-> gate /\ ~ took, took |-> took]
    IN  {over(last, FALSE) : last \in {"data", "end", "failed"}} \cup
        IF ~ gate THEN {over("pending", FALSE)}
        ELSE {over(last, TRUE) :
                  last \in IF s = "ended" THEN {"failed"} ELSE {"data", "end", "failed", "pending"}}

\* The rest of a body, read until it ends, fails or must wait.
Drained(c, r, s) ==
    LET last == {x \in Reads(r.gate, s) : x.last # "data"}
    IN  {IF x.last = "pending"
         THEN Result([c EXCEPT !.draining = TRUE, !.tap = "pending", !.gate = x.gate],
                     r.took \/ x.took, 0)
         ELSE Finished(c, r.took \/ x.took) : x \in last}

\* Mutant: the connection of a body that is late is closed without a word to its route.
ExpiredSilently(c) == {Result(Done(c), FALSE, 0)}

\* Time ran out: the route aborts.
Expired(c) == {Finished(c, FALSE)}

PipeStep(c, s) ==
    LET unread == [last |-> c.tap, gate |-> c.gate, took |-> FALSE]
        called == {unread} \cup Reads(c.gate, s)
        pending == {r \in called : r.last = "pending"}
        early == {r \in called : r.last \in {"nothing", "data"}}
    IN  IF IsLate(c) THEN Expired(c)
        ELSE IF c.draining THEN Drained(c, unread, s)
        ELSE {Finished(c, r.took) : r \in called} \cup     \* refused, failed or ended
             {Result([c EXCEPT !.tap = r.last, !.gate = r.gate], r.took, 0) : r \in pending} \cup
             UNION {Drained(c, r, s) : r \in early}

------------------------------------------------------------------------------
(* One connection.                                                            *)

\* lh_ui_web_host_ws_upgrade: the peer has been told that it may become a client.
Upgraded(c) == [c EXCEPT !.phase = "upgraded"]

\* lh_ui_web_host_try_begin_body: an upgrade or a buffered request awaits its body.
BodyBegun(c, ws) == [c EXCEPT !.phase = "body", !.ws = ws]

\* lh_ui_web_host_pipe_try_begin: a pipe that has only what came with the head.
PipeBegun(c) == [c EXCEPT !.phase = "stream", !.gate = FALSE, !.tap = "nothing",
                          !.draining = FALSE]

\* The head is complete: the request goes on to its body, which may already be
\* there, or is refused; the pipe of a streaming one makes its first step at once.
Begin(c) ==
    {[r EXCEPT !.took = TRUE, !.owes = @ + 1] : r \in PipeStep(PipeBegun(c), "quiet")} \cup
    {Result(d, TRUE, 0) : d \in {BodyBegun(c, TRUE), BodyBegun(c, FALSE), Done(c), Upgraded(c)}}

\* What was received is incomplete, is too much or wrong, or is answered.
Received(c) ==
    {Result(c, TRUE, 0), Result(Done(c), TRUE, 0)} \cup
    IF c.phase = "head" THEN Begin(c)
    ELSE IF c.ws THEN {Result(Upgraded(c), TRUE, 0)} ELSE {}

ConnStep(c, s, readable) ==
    IF c.phase = "stream" THEN PipeStep([c EXCEPT !.gate = @ \/ readable], s)
    ELSE IF IsLate(c) THEN {Result(Done(c), FALSE, 0)}
    ELSE IF ~ readable THEN {Result(c, FALSE, 0)}
    ELSE IF s = "ended" THEN {Result(Done(c), TRUE, 0)}
    ELSE Received(c)

\* Mutant: a slot is taken whether it is used or not.
AllClients == Clients

FreeClients == {j \in Clients : client[j] = NoHandle}

\* An upgrade joins the clients, if there is room and memory; what is done is closed.
Settle(i, c, sockets) ==
    LET closed == [sockets EXCEPT ![c.sock] = "closed"]
    IN  \/ /\ IsActive(c)
           /\ conn' = [conn EXCEPT ![i] = c]
           /\ socket' = sockets
           /\ UNCHANGED client
        \/ /\ c.phase = "upgraded" /\ FreeClients # {}
           /\ conn' = [conn EXCEPT ![i] = NoConn]
           /\ client' = [client EXCEPT ![Min(FreeClients)] = c.sock]
           /\ socket' = sockets
        \/ /\ c.phase \in {"done", "upgraded"}
           /\ conn' = [conn EXCEPT ![i] = NoConn]
           /\ socket' = closed
           /\ UNCHANGED client

------------------------------------------------------------------------------
(* The loop.                                                                  *)

GoTo(place) == at' = place /\ index' = 1

\* A step that sees the stop is the last one.
BeginStep ==
    /\ at = "wait" /\ stopping # "seen"
    /\ GoTo("advance")
    /\ stopping' = IF stopping = "asked" THEN "seen" ELSE stopping

\* Every connection in progress is watched; a poll that fails finds nothing ready.
Wait ==
    /\ BeginStep
    /\ \E works \in BOOLEAN :
        entry' = [i \in Conns |->
            [handle |-> conn[i].sock,
             ready |-> works /\ IsActive(conn[i]) /\ socket[conn[i].sock] \in {"data", "ended"}]]
    /\ UNCHANGED <<conn, client, socket, backlog, owed, outcome>>

\* A wake was pending: no poll before the step.
StepWithoutWait ==
    /\ BeginStep
    /\ UNCHANGED <<conn, client, entry, socket, backlog, owed, outcome>>

\* The poll found this connection's own socket ready.
IsReadable(i) == entry[i].ready /\ entry[i].handle = conn[i].sock

\* A receive takes what there is.
AfterReceive(h, took) ==
    [socket EXCEPT ![h] = IF took /\ @ = "data" THEN "quiet" ELSE @]

\* What a step of the connection may come to.
Results == ConnStep(conn[index], socket[conn[index].sock], IsReadable(index))

\* The step is over: on to the next connection.
Conclude(r, sockets) ==
    /\ Settle(index, r.conn, sockets)
    /\ owed' = [owed EXCEPT ![index] = @ + r.owes]
    /\ at' = "advance" /\ index' = index + 1 /\ outcome' = NoOutcome

Advance ==
    /\ at = "advance" /\ index \in Conns
    /\ IsActive(conn[index])
    /\ \E r \in Results :
        LET h == conn[index].sock IN
        IF r.took /\ socket[h] = "quiet"
        THEN /\ GoTo("blocked")
             /\ UNCHANGED <<conn, client, socket, outcome, owed>>
        ELSE Conclude(r, AfterReceive(h, r.took))
    /\ UNCHANGED <<entry, backlog, stopping>>

\* A route may reply when it commits or aborts; a request that was received may be
\* refused, answered, upgraded or told to continue.
Sends(c, s, r) ==
    IF c.phase = "stream" THEN r.conn.phase = "done" ELSE r.took /\ s # "ended" /\ r.conn # c

\* lh_os_net_socket_send_all has more to send than the system will hold: the result
\* waits for the peer.
AdvanceSends ==
    /\ at = "advance" /\ index \in Conns
    /\ IsActive(conn[index])
    /\ \E r \in Results :
        LET h == conn[index].sock IN
        /\ r.took => socket[h] # "quiet"
        /\ Sends(conn[index], socket[h], r)
        /\ outcome' = Outcome(r.conn, r.owes)
        /\ socket' = AfterReceive(h, r.took)
    /\ at' = "send"
    /\ UNCHANGED <<conn, client, entry, backlog, index, stopping, owed>>

\* The peer has taken the reply.
Sent ==
    /\ at = "send"
    /\ Conclude(outcome, socket)
    /\ UNCHANGED <<entry, backlog, stopping>>

\* The peer is gone.  A request that was to be upgraded or told to continue is done;
\* whether a reply arrives is not looked at.
Unsent(c, r) == IF c.phase = "stream" THEN r ELSE Outcome(Done(c), 0)

SendFails ==
    /\ at = "send" /\ socket[conn[index].sock] = "ended"
    /\ Conclude(Unsent(conn[index], outcome), socket)
    /\ UNCHANGED <<entry, backlog, stopping>>

AdvanceSkips ==
    /\ at = "advance" /\ index \in Conns
    /\ ~ IsActive(conn[index])
    /\ index' = index + 1
    /\ UNCHANGED <<conn, client, entry, socket, backlog, at, stopping, owed, outcome>>

AdvanceEnds ==
    /\ at = "advance" /\ index \notin Conns
    /\ GoTo("accept")
    /\ UNCHANGED <<conn, client, entry, socket, backlog, stopping, owed, outcome>>

FreeSlots == {i \in Conns : conn[i].phase = "free"}

Opened(h) == [NoConn EXCEPT !.phase = "head", !.sock = h]

\* A connection takes the first free slot; its first step has nothing to read yet.
Accept ==
    /\ at = "accept" /\ backlog > 0 /\ FreeSlots # {}
    /\ \E h \in Handles :
        /\ socket[h] = "closed"
        /\ conn' = [conn EXCEPT ![Min(FreeSlots)] = Opened(h)]
        /\ socket' = [socket EXCEPT ![h] = "quiet"]
    /\ backlog' = backlog - 1
    /\ UNCHANGED <<client, entry, at, index, stopping, owed, outcome>>

\* No slot is free, or the socket refuses to block: it is closed at once.
AcceptRefuses ==
    /\ at = "accept" /\ backlog > 0
    /\ \E h \in Handles : socket[h] = "closed"
    /\ backlog' = backlog - 1
    /\ UNCHANGED <<conn, client, entry, socket, at, index, stopping, owed, outcome>>

\* Mutant: the listener blocks, so accept_all waits for one connection more.
AcceptWaits ==
    /\ at = "accept"
    /\ \A h \in Handles : socket[h] # "closed"
    /\ GoTo("pump")
    /\ UNCHANGED <<conn, client, entry, socket, backlog, stopping, owed, outcome>>

\* Nobody waits, or the system has no handle left.
AcceptEnds ==
    /\ at = "accept"
    /\ backlog = 0 \/ \A h \in Handles : socket[h] # "closed"
    /\ GoTo("pump")
    /\ UNCHANGED <<conn, client, entry, socket, backlog, stopping, owed, outcome>>

\* A client is kept, or dropped: it went away, was silent too long, broke the
\* protocol, closed, or did not take what was queued for it.
Pump ==
    /\ at = "pump" /\ index \in Clients
    /\ index' = index + 1
    /\ LET h == client[index] IN
       \/ /\ h = NoHandle
          /\ UNCHANGED <<client, socket>>
       \/ /\ h # NoHandle /\ socket[h] # "ended"
          /\ socket' = AfterReceive(h, TRUE)
          /\ UNCHANGED client
       \/ /\ h # NoHandle
          /\ client' = [client EXCEPT ![index] = NoHandle]
          /\ socket' = [socket EXCEPT ![h] = "closed"]
    /\ UNCHANGED <<conn, entry, backlog, at, stopping, owed, outcome>>

PumpEnds ==
    /\ at = "pump" /\ index \notin Clients
    /\ GoTo("frame")
    /\ UNCHANGED <<conn, client, entry, socket, backlog, stopping, owed, outcome>>

\* Mutant: the readiness is kept.
KeptReady == entry

\* A step that comes without a poll must not take this readiness for new.
Cleared == [i \in Conns |-> [entry[i] EXCEPT !.ready = FALSE]]

\* A frame is queued and sent; clients that fail are dropped.  The step ends.
Frame ==
    /\ at = "frame"
    /\ \E gone \in SUBSET {j \in Clients : client[j] # NoHandle} :
        /\ client' = [j \in Clients |-> IF j \in gone THEN NoHandle ELSE client[j]]
        /\ socket' = [h \in Handles |->
                        IF \E j \in gone : client[j] = h THEN "closed" ELSE socket[h]]
    /\ entry' = Cleared
    /\ GoTo("wait")
    /\ UNCHANGED <<conn, backlog, stopping, owed, outcome>>

------------------------------------------------------------------------------
(* The owner, the peers and the clock.                                        *)

\* The loop looks at the stop between two steps: that is when it arrives.
Stop ==
    /\ at = "wait" /\ stopping = "no"
    /\ stopping' = "asked"
    /\ UNCHANGED <<conn, client, entry, socket, backlog, at, index, owed, outcome>>

\* The loop has ended: bodies in progress abort, every socket closes.
Destroy ==
    /\ at = "wait" /\ stopping = "seen"
    /\ owed' = [i \in Conns |-> IF conn[i].phase = "stream" THEN owed[i] - 1 ELSE owed[i]]
    /\ socket' = [h \in Handles |->
                    IF \/ \E i \in Conns : conn[i].phase # "free" /\ conn[i].sock = h
                       \/ \E j \in Clients : client[j] = h
                    THEN "closed" ELSE socket[h]]
    /\ conn' = [i \in Conns |-> NoConn]
    /\ client' = [j \in Clients |-> NoHandle]
    /\ backlog' = 0
    /\ GoTo("gone")
    /\ UNCHANGED <<entry, stopping, outcome>>

Connect ==
    /\ at # "gone" /\ backlog < MaxBacklog
    /\ backlog' = backlog + 1
    /\ UNCHANGED <<conn, client, entry, socket, at, index, stopping, owed, outcome>>

Send(h) ==
    /\ socket[h] = "quiet"
    /\ socket' = [socket EXCEPT ![h] = "data"]
    /\ UNCHANGED <<conn, client, entry, backlog, at, index, stopping, owed, outcome>>

HangUp(h) ==
    /\ socket[h] \in {"quiet", "data"}
    /\ socket' = [socket EXCEPT ![h] = "ended"]
    /\ UNCHANGED <<conn, client, entry, backlog, at, index, stopping, owed, outcome>>

\* The request's or the route's time runs out; a step reads the clock once.
RunLate(i) ==
    /\ at = "wait" /\ IsActive(conn[i]) /\ ~ conn[i].late
    /\ conn' = [conn EXCEPT ![i].late = TRUE]
    /\ UNCHANGED <<client, entry, socket, backlog, at, index, stopping, owed, outcome>>

------------------------------------------------------------------------------

Loop ==
    \/ Wait \/ StepWithoutWait
    \/ Advance \/ AdvanceSends \/ AdvanceSkips \/ AdvanceEnds
    \/ Accept \/ AcceptRefuses \/ AcceptEnds
    \/ Pump \/ PumpEnds \/ Frame

Next ==
    \/ Loop
    \/ Sent \/ SendFails
    \/ Stop \/ Destroy \/ Connect
    \/ \E h \in Handles : Send(h) \/ HangUp(h)
    \/ \E i \in Conns : RunLate(i)

Spec == Init /\ [][Next]_vars

\* The host's thread runs, but for a reply that its peer does not take, and time
\* passes.  Connections do not arrive before every single accept forever, or
\* accept_all would never return.
FairSpec ==
    /\ Spec
    /\ WF_vars(Loop)
    /\ SF_vars(AcceptEnds)
    /\ \A i \in Conns : SF_vars(RunLate(i))

------------------------------------------------------------------------------
(* Properties.                                                                *)

\* The host never receives from a blocking socket that has nothing for it, not
\* even when a slot is taken again by a socket with the handle of the one before
\* (gate.c, host.c:154-189).
NeverBlocks == at # "blocked"

Holders(h) ==
    {<<"conn", i>> : i \in {i \in Conns : IsActive(conn[i]) /\ conn[i].sock = h}} \cup
    {<<"client", j>> : j \in {j \in Clients : client[j] = h}}

\* Every accepted socket that is open belongs to one slot, through a refused
\* upgrade, a drop and the destruction of the host; no slot holds a handle that
\* is closed, which could be somebody else's next.
OneHolderEach ==
    \A h \in Handles : Cardinality(Holders(h)) = IF socket[h] = "closed" THEN 0 ELSE 1

\* Slots, poll entries and sockets agree at every step of the loop and of the
\* peers (host.c:83-116, 154-189, 901-1007, 1237-1293).
SocketsSound == TypeOK /\ OneHolderEach

\* A route whose body was begun gets one commit or one abort, when its stream
\* ends, and never a second one: not after a timeout that meets the end of the
\* body, and not when the host is destroyed.
OneOutcomeEach ==
    \A i \in Conns : owed[i] = IF conn[i].phase = "stream" THEN 1 ELSE 0

\* A connection does not keep its slot: whatever its peer sends or does not send,
\* the request ends, is upgraded or runs out of time.  But its replies must be
\* taken, or their peer go away: send_all has no timeout (host.c:42-46), neither in
\* a step nor in the abort of a route when the host is destroyed.
SlotsComeBack ==
    WF_vars(Sent \/ SendFails \/ Destroy) =>
        \A i \in Conns : conn[i].phase # "free" ~> conn[i].phase = "free"
==============================================================================
