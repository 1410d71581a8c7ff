----------------------------- MODULE LoggerQueue -----------------------------
(***************************************************************************)
(* lh_os_logger_queue_t: a bounded log queue and the worker that drains it *)
(* into a sink (src/lh/os/logger/queue.c).  It composes two components     *)
(* that have modules of their own and appear here by what those modules    *)
(* show: the ring is a bounded queue (BoundedFifo), of which only the      *)
(* number of records matters, and the loop begins a round after a wake,    *)
(* perhaps after a hint, and at any time by its period (ExecLoop).         *)
(*                                                                         *)
(* The counters wrap: drops and sync requests at 2^32 in the code, at      *)
(* DropModulus and RequestModulus here.  They mean something only as long  *)
(* as they do not run a whole range ahead, or half of it for requests:     *)
(* DropBound and RequestBound cap that in the guards.                      *)
(***************************************************************************)
EXTENDS Naturals

CONSTANTS Syncers,          \* threads that call sync
          Capacity,         \* records of the ring
          DropModulus,      \* range of the counter of drops
          RequestModulus    \* range of the counter of sync requests

ASSUME LoggerAssumption ==
    /\ Capacity \in Nat \ {0}
    /\ DropModulus \in Nat \ {0, 1}
    /\ RequestModulus \in Nat \ {0, 1}
    /\ RequestModulus % 2 = 0

VARIABLES
    count,      \* records in the ring
    dropped,    \* drops counted
    reported,   \* drops the sink was told of
    requested,  \* sync requests made
    completed,  \* sync requests done
    woken,      \* the loop owes a round
    stopping,   \* the loop is asked to stop
    worker,     \* the round: its place and its locals
    sync,       \* per syncer: its place, its request and the fate of its records
    sink,       \* the sink: unflushed records, closed, and whether it hears of drops
    untold,     \* history: drops a sink that hears of them has not been told of
    freed       \* destroy has returned

vars == <<count, dropped, reported, requested, completed, woken, stopping, worker, sync, sink,
          untold, freed>>

------------------------------------------------------------------------------

Minus(a, b, modulus) == (a + modulus - b) % modulus

\* lh_os_logger_queue_has_reached: the sign of the wrapped difference.
HasReached(done, wanted) == Minus(done, wanted, RequestModulus) < RequestModulus \div 2

DropBound == sink.hears => untold < DropModulus - 1

RequestBound == Minus(requested, completed, RequestModulus) < RequestModulus \div 2 - 1

\* Nobody is between its request and its wait, which hold the mutex.
MutexFree == \A s \in Syncers : sync[s].at # "locked"

NoSync == [at |-> "idle", request |-> 0, left |-> 0, flushed |-> TRUE]

\* No round is under way: the step's locals are gone.
Resting == [at |-> "sleep", last |-> FALSE, request |-> 0, budget |-> 0, losses |-> 0]

Init ==
    /\ count = 0
    /\ dropped = 0 /\ reported = 0
    /\ requested = 0 /\ completed = 0
    /\ woken = FALSE /\ stopping = FALSE
    /\ worker = Resting
    /\ sync = [s \in Syncers |-> NoSync]
    /\ sink \in [dirty : {FALSE}, closed : {FALSE}, hears : BOOLEAN]
    /\ untold = 0
    /\ freed = FALSE

------------------------------------------------------------------------------
(* The producer and the callers of sync. *)

\* lh_os_logger_queue_push into a ring with room; its hint may be missed.
Push ==
    /\ ~ stopping
    /\ count < Capacity
    /\ count' = count + 1
    /\ woken' \in {woken, TRUE}
    /\ UNCHANGED <<dropped, reported, requested, completed, stopping, worker, sync, sink,
                   untold, freed>>

\* A push into a full ring.
PushDrop ==
    /\ ~ stopping
    /\ count = Capacity
    /\ DropBound
    /\ dropped' = (dropped + 1) % DropModulus
    /\ untold' = IF sink.hears THEN untold + 1 ELSE untold
    /\ UNCHANGED <<count, reported, requested, completed, woken, stopping, worker, sync, sink,
                   freed>>

\* Records that are in the ring and not yet emitted.
Waiting == IF worker.at = "release" THEN count - 1 ELSE count

\* lh_os_logger_queue_sync: the request, under the mutex.
SyncRequest(s) ==
    /\ sync[s].at = "idle"
    /\ ~ stopping
    /\ MutexFree
    /\ RequestBound
    /\ requested' = (requested + 1) % RequestModulus
    /\ sync' = [sync EXCEPT ![s] = [at |-> "locked", request |-> requested', left |-> Waiting,
                                    flushed |-> (Waiting = 0 /\ ~ sink.dirty)]]
    /\ UNCHANGED <<count, dropped, reported, completed, woken, stopping, worker, sink, untold,
                   freed>>

SyncTo(s, at) == sync' = [sync EXCEPT ![s].at = at]

\* The wake, the first look at completed, and the wait that lets the mutex go.
SyncWake(s) ==
    /\ sync[s].at = "locked"
    /\ woken' = TRUE
    /\ SyncTo(s, IF HasReached(completed, sync[s].request) THEN "true" ELSE "waiting")
    /\ UNCHANGED <<count, dropped, reported, requested, completed, stopping, worker, sink,
                   untold, freed>>

\* A waiter wakes up and looks again.
SyncCheck(s) ==
    /\ sync[s].at = "signalled"
    /\ MutexFree
    /\ SyncTo(s, IF HasReached(completed, sync[s].request) THEN "true" ELSE "waiting")
    /\ UNCHANGED <<count, dropped, reported, requested, completed, woken, stopping, worker,
                   sink, untold, freed>>

\* The wait ends by its timeout.
SyncTimeout(s) ==
    /\ sync[s].at = "waiting"
    /\ MutexFree
    /\ SyncTo(s, IF HasReached(completed, sync[s].request) THEN "true" ELSE "false")
    /\ UNCHANGED <<count, dropped, reported, requested, completed, woken, stopping, worker,
                   sink, untold, freed>>

\* sync has returned and its caller goes on.
SyncReturn(s) ==
    /\ sync[s].at \in {"true", "false"}
    /\ sync' = [sync EXCEPT ![s] = NoSync]
    /\ UNCHANGED <<count, dropped, reported, requested, completed, woken, stopping, worker,
                   sink, untold, freed>>

\* lh_os_logger_queue_destroy: nobody pushes or syncs any more; ask and join.
Destroy ==
    /\ ~ stopping
    /\ \A s \in Syncers : sync[s].at = "idle"
    /\ stopping' = TRUE
    /\ woken' = TRUE
    /\ UNCHANGED <<count, dropped, reported, requested, completed, worker, sync, sink, untold,
                   freed>>

DestroyFree ==
    /\ worker.at = "ended"
    /\ ~ freed
    /\ freed' = TRUE
    /\ UNCHANGED <<count, dropped, reported, requested, completed, woken, stopping, worker,
                   sync, sink, untold>>

------------------------------------------------------------------------------
(* lh_os_logger_queue_step, on the loop's thread. *)

\* A round begins: last_step and the pending wake (ExecLoop).
RoundBegins ==
    /\ worker.at = "sleep"
    /\ worker' = [worker EXCEPT !.at = "request", !.last = stopping]
    /\ woken' = FALSE
    /\ UNCHANGED <<count, dropped, reported, requested, completed, stopping, sync, sink,
                   untold, freed>>

RoundWoken == (woken \/ stopping) /\ RoundBegins

\* Mutant: the loop has no period.
RoundUntimed == FALSE /\ RoundBegins

RoundTimed == ~ woken /\ ~ stopping /\ RoundBegins

LoadRequest ==
    /\ worker.at = "request"
    /\ worker' = [worker EXCEPT !.at = "emit", !.request = requested, !.budget = Capacity]
    /\ UNCHANGED <<count, dropped, reported, requested, completed, woken, stopping, sync, sink,
                   untold, freed>>

\* lh_os_logger_queue_emit_batch, a record at a time: the sink gets it ...
EmitRecord ==
    /\ worker.at = "emit"
    /\ worker.budget > 0
    /\ count > 0
    /\ worker' = [worker EXCEPT !.at = "release"]
    /\ sink' = [sink EXCEPT !.dirty = TRUE]
    /\ sync' = [s \in Syncers |->
                   IF sync[s].left = 0 THEN sync[s] ELSE [sync[s] EXCEPT !.left = @ - 1]]
    /\ UNCHANGED <<count, dropped, reported, requested, completed, woken, stopping, untold,
                   freed>>

\* Mutant: the batch ends only when the ring is empty.
BudgetKept == worker.budget

BudgetLeft == worker.budget - 1

\* ... and its slot is released.
ReleaseRecord ==
    /\ worker.at = "release"
    /\ count' = count - 1
    /\ worker' = [worker EXCEPT !.at = "emit", !.budget = BudgetLeft]
    /\ UNCHANGED <<dropped, reported, requested, completed, woken, stopping, sync, sink,
                   untold, freed>>

\* The batch ends; the last round goes on until the ring is empty.
EmitEnds ==
    /\ worker.at = "emit"
    /\ count = 0 \/ worker.budget = 0
    /\ worker' = IF worker.last /\ count > 0
                 THEN [worker EXCEPT !.budget = Capacity]
                 ELSE [worker EXCEPT !.at = "drops", !.budget = 0]
    /\ UNCHANGED <<count, dropped, reported, requested, completed, woken, stopping, sync, sink,
                   untold, freed>>

\* lh_os_logger_queue_report_drops: the load and the call to the sink ...
ReportDrops ==
    /\ worker.at = "drops"
    /\ sink.hears
    /\ worker' = [worker EXCEPT !.at = "reported", !.losses = dropped]
    /\ untold' = untold - Minus(dropped, reported, DropModulus)
    /\ UNCHANGED <<count, dropped, reported, requested, completed, woken, stopping, sync, sink,
                   freed>>

\* Mutant: the counter is read again after the call.
ToldAgain == dropped

Told == worker.losses

\* ... and the store.
ReportStore ==
    /\ worker.at = "reported"
    /\ reported' = Told
    /\ worker' = [worker EXCEPT !.at = "due", !.losses = 0]
    /\ UNCHANGED <<count, dropped, requested, completed, woken, stopping, sync, sink, untold,
                   freed>>

\* Mutant: the flush answers the requests made by now.
AnswersNow == requested

Answers == IF worker.last THEN requested ELSE worker.request

\* The sink has no callback for drops: nothing is told and nothing noted.
ReportSkipped ==
    /\ worker.at = "drops"
    /\ ~ sink.hears
    /\ worker' = [worker EXCEPT !.at = "due"]
    /\ UNCHANGED <<count, dropped, reported, requested, completed, woken, stopping, sync, sink,
                   untold, freed>>

\* A flush is due: the last round, a request, or the period.  Its argument is
\* read before the sink flushes.
FlushDue ==
    /\ worker.at = "due"
    /\ worker' = [worker EXCEPT !.at = "flush", !.request = Answers]
    /\ UNCHANGED <<count, dropped, reported, requested, completed, woken, stopping, sync, sink,
                   untold, freed>>

\* Mutant: the last round flushes on request only.
MaySkipLast == worker.request = completed

MaySkip == ~ worker.last /\ worker.request = completed

\* No flush is due.
FlushSkipped ==
    /\ worker.at = "due"
    /\ MaySkip
    /\ worker' = [worker EXCEPT !.at = "close"]
    /\ UNCHANGED <<count, dropped, reported, requested, completed, woken, stopping, sync, sink,
                   untold, freed>>

\* lh_os_logger_queue_flush: the sink ...
FlushSink ==
    /\ worker.at = "flush"
    /\ sink' = [sink EXCEPT !.dirty = FALSE]
    /\ sync' = [s \in Syncers |->
                   IF sync[s].left > 0 THEN sync[s] ELSE [sync[s] EXCEPT !.flushed = TRUE]]
    /\ worker' = [worker EXCEPT !.at = "complete"]
    /\ UNCHANGED <<count, dropped, reported, requested, completed, woken, stopping, untold,
                   freed>>

\* ... and under the mutex the answer to the waiters.
FlushComplete ==
    /\ worker.at = "complete"
    /\ MutexFree
    /\ completed' = worker.request
    /\ sync' = [s \in Syncers |->
                   IF sync[s].at = "waiting" THEN [sync[s] EXCEPT !.at = "signalled"]
                                             ELSE sync[s]]
    /\ worker' = [worker EXCEPT !.at = "close"]
    /\ UNCHANGED <<count, dropped, reported, requested, woken, stopping, sink, untold, freed>>

\* Mutant: the last round is not the end.
AfterRoundSleeps == "sleep"

AfterRound == IF worker.last THEN "ended" ELSE "sleep"

\* The last round closes the sink; another one comes back for what is left.
RoundEnds ==
    /\ worker.at = "close"
    /\ sink' = [sink EXCEPT !.closed = worker.last]
    /\ worker' = [Resting EXCEPT !.at = AfterRound]
    /\ woken' = (woken \/ (~ worker.last /\ count > 0))
    /\ UNCHANGED <<count, dropped, reported, requested, completed, stopping, sync, untold,
                   freed>>

------------------------------------------------------------------------------

WorkerStep ==
    \/ RoundWoken \/ LoadRequest \/ EmitRecord \/ ReleaseRecord \/ EmitEnds
    \/ ReportDrops \/ ReportStore \/ ReportSkipped
    \/ FlushDue \/ FlushSkipped \/ FlushSink \/ FlushComplete \/ RoundEnds

SyncStep(s) == SyncWake(s) \/ SyncCheck(s)

Done == freed /\ UNCHANGED vars

Next ==
    \/ Push \/ PushDrop
    \/ \E s \in Syncers : SyncRequest(s) \/ SyncStep(s) \/ SyncTimeout(s) \/ SyncReturn(s)
    \/ Destroy \/ DestroyFree
    \/ WorkerStep \/ RoundTimed
    \/ Done

Spec == Init /\ [][Next]_vars

\* The worker runs, the sink's calls return, and waiters that were signalled run.
\* The producer may push for ever; neither timeouts nor the period are relied on.
Fairness ==
    /\ WF_vars(WorkerStep)
    /\ SF_vars(FlushComplete)
    /\ \A s \in Syncers : WF_vars(SyncWake(s)) /\ SF_vars(SyncCheck(s))
    /\ WF_vars(DestroyFree)

FairSpec == Spec /\ Fairness

------------------------------------------------------------------------------
(* Properties. *)

\* Types of the counters, the worker's locals and the callers' places.
TypeOK ==
    /\ count \in 0 .. Capacity
    /\ dropped \in 0 .. DropModulus - 1 /\ reported \in 0 .. DropModulus - 1
    /\ requested \in 0 .. RequestModulus - 1 /\ completed \in 0 .. RequestModulus - 1
    /\ woken \in BOOLEAN /\ stopping \in BOOLEAN /\ freed \in BOOLEAN
    /\ worker \in [at : {"sleep", "request", "emit", "release", "drops", "reported", "due",
                         "flush", "complete", "close", "ended"},
                   last : BOOLEAN, request : 0 .. RequestModulus - 1, budget : 0 .. Capacity,
                   losses : 0 .. DropModulus - 1]
    /\ sync \in [Syncers -> [at : {"idle", "locked", "waiting", "signalled", "true", "false"},
                             request : 0 .. RequestModulus - 1, left : 0 .. Capacity,
                             flushed : BOOLEAN]]
    /\ sink \in [dirty : BOOLEAN, closed : BOOLEAN, hears : BOOLEAN]
    /\ untold \in 0 .. DropModulus - 1

\* "Wait until everything pushed before this call is written and flushed": a sync
\* that returned true kept that promise (queue.c:301-326, 334-363).
SyncKept ==
    \A s \in Syncers : sync[s].at = "true" => sync[s].left = 0 /\ sync[s].flushed

\* Every drop is told exactly once to a sink that hears of drops: what the counters
\* say is still to be told is what is still to be told (queue.c:248-259, 288-299).
DropsExact ==
    IF sink.hears
    THEN untold = IF worker.at = "reported"
                  THEN Minus(dropped, worker.losses, DropModulus)
                  ELSE Minus(dropped, reported, DropModulus)
    ELSE untold = 0 /\ reported = 0

\* The ring's count, the worker's batch and the two drop counters stay consistent
\* at every step of producer, syncers and worker (queue.c:228-259, 288-299).
QueueSound == TypeOK /\ DropsExact

\* "Destroying the queue drains it, flushes, closes the sink": nothing is left in
\* the ring, in the sink or, if it hears of drops, untold when the sink is closed.
ClosedIsComplete ==
    sink.closed => count = 0 /\ ~ sink.dirty /\ untold = 0 /\ worker.at = "ended"

\* A sync is answered without the help of any timeout, even if the producer never
\* stops: the batch is bounded (queue.c:228-246).
SyncAnswered ==
    \A s \in Syncers : sync[s].at \in {"locked", "waiting", "signalled"}
                          ~> sync[s].at \in {"true", "false"}

\* destroy returns.
DestroyReturns == stopping ~> freed

\* A full ring is drained, the hint of its last push missed or not, as long as the
\* loop's period ends its sleep in the end (queue.c:297, 399-400).
RingDrains == WF_vars(RoundTimed) => (count = Capacity ~> count < Capacity)
==============================================================================
