------------------------------ MODULE ExecThread ------------------------------
(***************************************************************************)
(* A thread executor, the inline executor and the owner's mailbox:         *)
(* src/lh/exec/{task,mailbox,executor,inline,thread}.c.                    *)
(*                                                                         *)
(* Submitters take a place in the mailbox with a compare-exchange loop and *)
(* hand the task to an executor; the executor's thread runs it and posts   *)
(* it; the owner dispatches; stoppers stop the executor with a timeout and *)
(* a destroyer waits for its end without one.  Whatever a thread does      *)
(* under the executor's mutex is one step; every atomic access outside it  *)
(* is one too.  Waiting on a condition is being in a state only a          *)
(* broadcast (or a spurious wake-up) leaves.                               *)
(*                                                                         *)
(* The two queues are the FIFO queues ExecQueue is shown to implement.     *)
(* `pending` is pushed and popped under the mutex.  `finished` is not: a   *)
(* post is an exchange (the task has its place in the order) and a link,   *)
(* and between the two a take may come back with nothing.                  *)
(***************************************************************************)
EXTENDS Integers, Sequences, SequencesExt, FiniteSets

CONSTANTS Submitters,   \* threads that submit
          Owner,        \* the submitter that owns the mailbox and dispatches it
          Stoppers,     \* threads that call try_stop
          Tasks,        \* the task records
          Capacity,     \* the mailbox's capacity
          Null          \* no task

ASSUME ThreadAssumption ==
    /\ Owner \in Submitters
    /\ IsFiniteSet(Submitters)
    /\ IsFiniteSet(Tasks)
    /\ Capacity \in Nat
    /\ Null \notin Tasks

VARIABLES
    used,        \* mailbox: places taken
    finished,    \* mailbox: posted tasks, in the order of their exchanges
    linking,     \* mailbox: posted tasks whose link is still to come
    stop,        \* executor: the stop asked for
    pending,     \* executor: accepted tasks not yet taken by the thread
    ended,       \* executor: the thread has ended its work
    local,       \* executor: the thread's context is open
    life,        \* executor record: "closed", "open" or "destroying"
    runner,      \* the executor's thread: where it is, with which task
    stage,       \* per task: whose hands it is in
    cancelled,   \* per task: its cancelled flag
    sub,         \* per submitter: where it is inside try_submit
    own,         \* the owner: where it is inside dispatch
    stopper,     \* per stopper: where it is inside try_stop
    destroyer,   \* where the destroyer is inside destroy
    late         \* history: works begun since a cancelling stop, at most 2 counted

vars == <<used, finished, linking, stop, pending, ended, local, life, runner, stage,
          cancelled, sub, own, stopper, destroyer, late>>

mailboxVars == <<used, finished, linking>>
executorVars == <<stop, pending, ended, local, life, runner>>
callerVars == <<stopper, destroyer>>

------------------------------------------------------------------------------
(* State. *)

StopKinds == {"none", "drain", "cancel"}
\* none < drain < cancel.
Stricter(k, l) == (k = "none" /\ l # "none") \/ (k = "drain" /\ l = "cancel")

SubAt(at, t, kind, seen) == [at |-> at, task |-> t, kind |-> kind, seen |-> seen]
NoSub == SubAt("idle", Null, "thread", 0)
OwnAt(at, t, limit, count) == [at |-> at, task |-> t, limit |-> limit, count |-> count]
NoDispatch == OwnAt("idle", Null, 0, 0)
RunnerAt(at, t) == [at |-> at, task |-> t]

\* lh_exec_mailbox_init; the thread executor is not started yet.
Init ==
    /\ used = 0
    /\ finished = <<>>
    /\ linking = {}
    /\ stop = "none"
    /\ pending = <<>>
    /\ ended = FALSE
    /\ local = FALSE
    /\ life = "closed"
    /\ runner = RunnerAt("none", Null)
    /\ stage = [t \in Tasks |-> "caller"]
    /\ cancelled = [t \in Tasks |-> FALSE]
    /\ sub = [s \in Submitters |-> NoSub]
    /\ own = NoDispatch
    /\ stopper = [k \in Stoppers |-> "idle"]
    /\ destroyer = "idle"
    /\ late = 0

------------------------------------------------------------------------------
(* lh_exec_executor_try_submit. *)

SubmitterAt(s, at) ==
    sub' = [sub EXCEPT ![s] = SubAt(at, sub[s].task, sub[s].kind, sub[s].seen)]

\* The owner submits between two dispatches or from inside a `complete`; the
\* others at any time.
MaySubmit(s) == s = Owner => own.at \in {"idle", "completing"}

\* The caller fills the record (lh_exec_task_init) and calls try_submit.  A
\* thread executor is used only while it is started and not being destroyed.
Submit(s) ==
    \E t \in Tasks, kind \in {"thread", "inline"} :
        /\ sub[s].at = "idle"
        /\ MaySubmit(s)
        /\ stage[t] = "caller"
        /\ kind = "thread" => life = "open"
        /\ sub' = [sub EXCEPT ![s] = SubAt("load", t, kind, 0)]
        /\ stage' = [stage EXCEPT ![t] = "submitting"]
        /\ cancelled' = [cancelled EXCEPT ![t] = FALSE]
        /\ UNCHANGED <<mailboxVars, executorVars, callerVars, own, late>>

\* try_submit returns false: the task is still its caller's.
GiveBack(s) ==
    /\ sub' = [sub EXCEPT ![s] = NoSub]
    /\ stage' = [stage EXCEPT ![sub[s].task] = "caller"]

\* lh_exec_mailbox_try_reserve: the read.
ReserveLoad(s) ==
    /\ sub[s].at = "load"
    /\ \/ used >= Capacity /\ GiveBack(s)
       \/ /\ used < Capacity
          /\ sub' = [sub EXCEPT ![s] = SubAt("cas", sub[s].task, sub[s].kind, used)]
          /\ UNCHANGED stage
    /\ UNCHANGED <<mailboxVars, executorVars, callerVars, cancelled, own, late>>

\* Mutant: the count is stored without the comparison.
CasAlways(s) == TRUE

CasSucceeds(s) == used = sub[s].seen

\* lh_exec_mailbox_try_reserve: the compare-exchange, and the read again.
ReserveCas(s) ==
    /\ sub[s].at = "cas"
    /\ IF CasSucceeds(s)
       THEN used' = sub[s].seen + 1 /\ SubmitterAt(s, "accept")
       ELSE used' = used /\ SubmitterAt(s, "load")
    /\ UNCHANGED <<finished, linking, executorVars, callerVars, stage, cancelled, own, late>>

\* lh_os_condition_broadcast(wake): the executor's thread looks again.
WakeRunner == IF runner.at = "asleep" THEN RunnerAt("wait", Null) ELSE runner

\* Mutant: a stopping executor still accepts.
RefusesNever == FALSE

Refuses == stop # "none"

\* lh_exec_thread_try_accept, under the mutex.
AcceptThread(s) ==
    /\ sub[s].at = "accept"
    /\ sub[s].kind = "thread"
    /\ IF Refuses
       THEN SubmitterAt(s, "release") /\ UNCHANGED <<pending, runner, stage>>
       ELSE /\ pending' = Append(pending, sub[s].task)
            /\ runner' = WakeRunner
            /\ stage' = [stage EXCEPT ![sub[s].task] = "pending"]
            /\ sub' = [sub EXCEPT ![s] = NoSub]
    /\ UNCHANGED <<mailboxVars, stop, ended, local, life, callerVars, cancelled, own, late>>

\* The refused task's place goes back (lh_exec_mailbox_release).
ReleaseRefused(s) ==
    /\ sub[s].at = "release"
    /\ used' = used - 1
    /\ GiveBack(s)
    /\ UNCHANGED <<finished, linking, executorVars, callerVars, cancelled, own, late>>

\* lh_exec_inline_try_accept: work on the submitter's thread, then the post.
AcceptInline(s) ==
    /\ sub[s].at = "accept"
    /\ sub[s].kind = "inline"
    /\ SubmitterAt(s, "post")
    /\ stage' = [stage EXCEPT ![sub[s].task] = "inline"]
    /\ UNCHANGED <<mailboxVars, executorVars, callerVars, cancelled, own, late>>

\* lh_exec_mailbox_post: the exchange of the push.
PostExchange(t) ==
    /\ finished' = Append(finished, t)
    /\ linking' = linking \cup {t}
    /\ stage' = [stage EXCEPT ![t] = "posted"]
    /\ UNCHANGED used

\* lh_exec_mailbox_post: the link of the push.
PostLink(t) ==
    /\ linking' = linking \ {t}
    /\ UNCHANGED <<used, finished>>

InlinePost(s) ==
    /\ sub[s].at = "post"
    /\ PostExchange(sub[s].task)
    /\ SubmitterAt(s, "link")
    /\ UNCHANGED <<executorVars, callerVars, cancelled, own, late>>

InlineLink(s) ==
    /\ sub[s].at = "link"
    /\ PostLink(sub[s].task)
    /\ sub' = [sub EXCEPT ![s] = NoSub]
    /\ UNCHANGED <<executorVars, callerVars, stage, cancelled, own, late>>

------------------------------------------------------------------------------
(* The executor's thread: lh_exec_thread_run. *)

RunOpen ==
    /\ runner.at = "open"
    /\ local' = TRUE
    /\ runner' = RunnerAt("wait", Null)
    /\ UNCHANGED <<mailboxVars, stop, pending, ended, life, callerVars, stage, cancelled,
                   sub, own, late>>

\* Mutant: a cancelling stop marks nothing.
MarksNothing == FALSE

Cancels == stop = "cancel"

\* lh_exec_thread_wait_task, under the mutex, takes a task.
RunTake ==
    /\ runner.at = "wait"
    /\ pending # <<>>
    /\ LET t == Head(pending)
       IN  /\ runner' = RunnerAt("taken", t)
           /\ stage' = [stage EXCEPT ![t] = "running"]
           /\ cancelled' = [cancelled EXCEPT ![t] = Cancels \/ cancelled[t]]
    /\ pending' = Tail(pending)
    /\ UNCHANGED <<mailboxVars, stop, ended, local, life, callerVars, sub, own, late>>

\* lh_exec_thread_wait_task finds nothing: it sleeps, or ends on a stop.
RunEmpty ==
    /\ runner.at = "wait"
    /\ pending = <<>>
    /\ runner' = RunnerAt(IF stop = "none" THEN "asleep" ELSE "close", Null)
    /\ UNCHANGED <<mailboxVars, stop, pending, ended, local, life, callerVars, stage,
                   cancelled, sub, own, late>>

\* A condition may wake its waiter without a broadcast.
RunSpurious ==
    /\ runner.at = "asleep"
    /\ runner' = RunnerAt("wait", Null)
    /\ UNCHANGED <<mailboxVars, stop, pending, ended, local, life, callerVars, stage,
                   cancelled, sub, own, late>>

\* lh_exec_thread_run_task: work begins, unless the task is cancelled.
RunWork ==
    /\ runner.at = "taken"
    /\ IF cancelled[runner.task]
       THEN runner' = RunnerAt("post", runner.task) /\ UNCHANGED late
       ELSE /\ runner' = RunnerAt("working", runner.task)
            /\ late' = IF stop = "cancel" /\ late < 2 THEN late + 1 ELSE late
    /\ UNCHANGED <<mailboxVars, stop, pending, ended, local, life, callerVars, stage,
                   cancelled, sub, own>>

RunWorkEnd ==
    /\ runner.at = "working"
    /\ runner' = RunnerAt("post", runner.task)
    /\ UNCHANGED <<mailboxVars, stop, pending, ended, local, life, callerVars, stage,
                   cancelled, sub, own, late>>

RunPost ==
    /\ runner.at = "post"
    /\ PostExchange(runner.task)
    /\ runner' = RunnerAt("link", runner.task)
    /\ UNCHANGED <<stop, pending, ended, local, life, callerVars, cancelled, sub, own, late>>

RunLink ==
    /\ runner.at = "link"
    /\ PostLink(runner.task)
    /\ runner' = RunnerAt("wait", Null)
    /\ UNCHANGED <<stop, pending, ended, local, life, callerVars, stage, cancelled, sub, own, late>>

RunClose ==
    /\ runner.at = "close"
    /\ local' = FALSE
    /\ runner' = RunnerAt("end", Null)
    /\ UNCHANGED <<mailboxVars, stop, pending, ended, life, callerVars, stage, cancelled,
                   sub, own, late>>

\* Mutant: the end is not broadcast.
DestroyerAsleep == destroyer

\* lh_os_condition_broadcast(end): a waiting destroyer looks again.
WakeDestroyer == IF destroyer = "waiting" THEN "check" ELSE destroyer

\* The end, under the mutex, and its broadcast.
RunEnd ==
    /\ runner.at = "end"
    /\ ended' = TRUE
    /\ runner' = RunnerAt("done", Null)
    /\ destroyer' = WakeDestroyer
    /\ UNCHANGED <<mailboxVars, stop, pending, local, life, stopper, stage, cancelled, sub,
                   own, late>>

------------------------------------------------------------------------------
(* lh_exec_mailbox_dispatch, on the owner's thread. *)

OwnerAt(at) == own' = OwnAt(at, own.task, own.limit, own.count)

DispatchBegin ==
    /\ own.at = "idle"
    /\ sub[Owner].at = "idle"
    /\ own' = OwnAt("take", Null, used, 0)
    /\ UNCHANGED <<mailboxVars, executorVars, callerVars, stage, cancelled, sub, late>>

\* lh_exec_mailbox_try_take: the oldest task whose link is there.
DispatchTake ==
    /\ own.at = "take"
    /\ own.count < own.limit
    /\ finished # <<>>
    /\ Head(finished) \notin linking
    /\ own' = OwnAt("taken", Head(finished), own.limit, own.count)
    /\ stage' = [stage EXCEPT ![Head(finished)] = "delivering"]
    /\ finished' = Tail(finished)
    /\ UNCHANGED <<used, linking, executorVars, callerVars, cancelled, sub, late>>

\* Nothing is there, or a push that is not linked yet hides the oldest task.
TakesNothing ==
    finished = <<>> \/ \E i \in DOMAIN finished : i <= 2 /\ finished[i] \in linking

\* dispatch returns: its limit is reached or a take came back with nothing.
DispatchEnd ==
    /\ own.at = "take"
    /\ own.count >= own.limit \/ TakesNothing
    /\ own' = NoDispatch
    /\ UNCHANGED <<mailboxVars, executorVars, callerVars, stage, cancelled, sub, late>>

\* Mutant: a cancelled task is completed too.
DeliversTo(t) == "completing"

DeliverTo(t) == IF cancelled[t] THEN "destroy" ELSE "completing"

\* lh_exec_mailbox_deliver: `complete` begins, unless the task is cancelled.
DeliverComplete ==
    /\ own.at = "taken"
    /\ OwnerAt(DeliverTo(own.task))
    /\ UNCHANGED <<mailboxVars, executorVars, callerVars, stage, cancelled, sub, late>>

\* `complete` returns; a submission it made has returned before.
DeliverCompleted ==
    /\ own.at = "completing"
    /\ sub[Owner].at = "idle"
    /\ OwnerAt("destroy")
    /\ UNCHANGED <<mailboxVars, executorVars, callerVars, stage, cancelled, sub, late>>

\* `destroy`: the record is its caller's again and may be reused at once.
DeliverDestroy ==
    /\ own.at = "destroy"
    /\ own' = OwnAt("release", Null, own.limit, own.count)
    /\ stage' = [stage EXCEPT ![own.task] = "caller"]
    /\ UNCHANGED <<mailboxVars, executorVars, callerVars, cancelled, sub, late>>

\* Mutant: delivered tasks are not counted.
NotCounted == own.count

Counted == own.count + 1

\* The place goes back last.
DeliverRelease ==
    /\ own.at = "release"
    /\ used' = used - 1
    /\ own' = OwnAt("take", Null, own.limit, Counted)
    /\ UNCHANGED <<finished, linking, executorVars, callerVars, stage, cancelled, sub, late>>

------------------------------------------------------------------------------
(* Start, stop and destroy. *)

\* lh_exec_thread_try_start.  When an OS object cannot be made nothing changes.
Start ==
    /\ life = "closed"
    /\ life' = "open"
    /\ pending' = <<>>
    /\ stop' = "none"
    /\ ended' = FALSE
    /\ local' = FALSE
    /\ runner' = RunnerAt("open", Null)
    /\ late' = 0
    /\ UNCHANGED <<mailboxVars, callerVars, stage, cancelled, sub, own>>

\* lh_exec_thread_try_stop: the request, under the mutex; it waits for the end
\* unless the thread has ended or the timeout is zero.
StopRequest(k) ==
    /\ stopper[k] = "idle"
    /\ life = "open"
    /\ \E kind \in {"drain", "cancel"} :
          IF Stricter(stop, kind)
          THEN stop' = kind /\ runner' = WakeRunner
          ELSE UNCHANGED <<stop, runner>>
    /\ stopper' = [stopper EXCEPT ![k] = "waiting"]
    /\ UNCHANGED <<mailboxVars, pending, ended, local, life, destroyer, stage, cancelled, sub,
                   own, late>>

\* try_stop returns what it reads under the mutex: the thread has ended, or the
\* timeout passed first.
StopReturn(k) ==
    /\ stopper[k] = "waiting"
    /\ stopper' = [stopper EXCEPT ![k] = "idle"]
    /\ UNCHANGED <<mailboxVars, executorVars, destroyer, stage, cancelled, sub, own,
                   late>>

\* lh_exec_thread_destroy.  Its caller lets nobody use the executor any more.
Destroy ==
    /\ life = "open"
    /\ \A s \in Submitters : sub[s].at # "idle" => sub[s].kind = "inline"
    /\ \A k \in Stoppers : stopper[k] = "idle"
    /\ life' = "destroying"
    /\ IF stop = "none"
       THEN stop' = "drain" /\ runner' = WakeRunner
       ELSE UNCHANGED <<stop, runner>>
    /\ destroyer' = "check"
    /\ UNCHANGED <<mailboxVars, pending, ended, local, stopper, stage, cancelled, sub, own, late>>

\* The loop of destroy, under the mutex.
DestroyWait ==
    /\ destroyer = "check"
    /\ destroyer' = IF ended THEN "join" ELSE "waiting"
    /\ UNCHANGED <<mailboxVars, executorVars, stopper, stage, cancelled, sub, own,
                   late>>

\* The join and lh_exec_thread_release: the record may be used again.
DestroyJoin ==
    /\ destroyer = "join"
    /\ runner.at = "done"
    /\ destroyer' = "idle"
    /\ life' = "closed"
    /\ runner' = RunnerAt("none", Null)
    /\ UNCHANGED <<mailboxVars, stop, pending, ended, local, stopper, stage, cancelled, sub,
                   own, late>>

------------------------------------------------------------------------------

SubmitStep(s) ==
    \/ ReserveLoad(s) \/ ReserveCas(s) \/ AcceptThread(s) \/ ReleaseRefused(s)
    \/ AcceptInline(s) \/ InlinePost(s) \/ InlineLink(s)

RunStep ==
    \/ RunOpen \/ RunTake \/ RunEmpty \/ RunWork \/ RunWorkEnd \/ RunPost \/ RunLink
    \/ RunClose \/ RunEnd

DispatchStep ==
    \/ DispatchTake \/ DispatchEnd \/ DeliverComplete \/ DeliverCompleted
    \/ DeliverDestroy \/ DeliverRelease

DestroyStep == DestroyWait \/ DestroyJoin

Next ==
    \/ \E s \in Submitters : Submit(s) \/ SubmitStep(s)
    \/ RunStep \/ RunSpurious
    \/ DispatchBegin \/ DispatchStep
    \/ Start \/ Destroy \/ DestroyStep
    \/ \E k \in Stoppers : StopRequest(k) \/ StopReturn(k)

Spec == Init /\ [][Next]_vars

\* Every thread that is inside a call runs on; `work` and `complete` return; the
\* owner dispatches again and again, so it is not beaten to every place for ever in
\* its own compare-exchange loop.
Fairness ==
    /\ \A s \in Submitters : WF_vars(SubmitStep(s))
    /\ WF_vars(RunStep)
    /\ SF_vars(CasSucceeds(Owner) /\ ReserveCas(Owner))
    /\ SF_vars(DispatchBegin)
    /\ WF_vars(DispatchStep)
    /\ SF_vars(DeliverCompleted)
    /\ WF_vars(DestroyStep)

FairSpec == Spec /\ Fairness

------------------------------------------------------------------------------
(* Properties. *)

Stages == {"caller", "submitting", "pending", "running", "inline", "posted", "delivering"}

\* Types of the mailbox, the executor, the tasks and the threads' places.
TypeOK ==
    /\ used \in Nat
    /\ finished \in Seq(Tasks)
    /\ linking \subseteq Tasks
    /\ stop \in StopKinds
    /\ pending \in Seq(Tasks)
    /\ ended \in BOOLEAN
    /\ local \in BOOLEAN
    /\ life \in {"closed", "open", "destroying"}
    /\ runner \in [at : {"none", "open", "wait", "asleep", "taken", "working", "post", "link",
                          "close", "end", "done"},
                    task : Tasks \cup {Null}]
    /\ stage \in [Tasks -> Stages]
    /\ cancelled \in [Tasks -> BOOLEAN]
    /\ sub \in [Submitters -> [at : {"idle", "load", "cas", "accept", "release", "post", "link"},
                                task : Tasks \cup {Null},
                                kind : {"thread", "inline"},
                                seen : Nat]]
    /\ own \in [at : {"idle", "take", "taken", "completing", "destroy", "release"},
                 task : Tasks \cup {Null}, limit : Nat, count : Nat]
    /\ stopper \in [Stoppers -> {"idle", "waiting"}]
    /\ destroyer \in {"idle", "check", "waiting", "join"}
    /\ late \in 0 .. 2

\* The places taken: one per submitter that has reserved and not handed over or
\* given back, one per task on its way to the owner, one for the delivered task
\* whose place is still to be given back.
Reserving == {s \in Submitters : sub[s].at \in {"accept", "release"}}
OnTheWay == {t \in Tasks : stage[t] \in {"pending", "running", "inline", "posted", "delivering"}}
Releasing == IF own.at = "release" THEN 1 ELSE 0

\* The count is exact: it is the number of places held, never more than the
\* capacity, whatever submitters race for the last place (mailbox.c:52-72).
PlacesExact ==
    /\ used = Cardinality(Reserving) + Cardinality(OnTheWay) + Releasing
    /\ used <= Capacity

\* Once the thread has ended, every task it accepted is in its mailbox or past
\* it, and its context is closed: what try_stop's true tells (thread.h), also of
\* a task accepted at the very moment of the stop.
EndedMeansDone ==
    ended => /\ pending = <<>>
             /\ ~ local
             /\ \A t \in Tasks : stage[t] \notin {"pending", "running"}

\* A task is in one place only: in the submitter's hands, in one queue once, or
\* in the hands of the thread or of the owner (task.h: untouched until destroy).
OnePlace ==
    /\ \A i, j \in DOMAIN pending : pending[i] = pending[j] => i = j
    /\ \A i, j \in DOMAIN finished : finished[i] = finished[j] => i = j
    /\ \A t \in Tasks :
          /\ stage[t] = "pending" <=> Contains(pending, t)
          /\ stage[t] = "posted" <=> Contains(finished, t)
          /\ stage[t] = "running" <=> runner.task = t /\ runner.at \in {"taken", "working", "post"}
          /\ stage[t] = "delivering" <=> own.task = t

\* The books of mailbox and executor agree at every step of every thread: types,
\* one place per task, an exact count of places, and nothing left behind by a
\* thread that has ended (mailbox.c:52-78, executor.c:46-62, thread.c:148-271).
TasksAccounted == TypeOK /\ OnePlace /\ PlacesExact /\ EndedMeansDone

\* After a cancelling stop at most one work still begins: the task the thread
\* had taken before the stop (stop/kind.h: cancel the ones not started).
OneLateStartAtMost == late <= 1

\* How far a task has come.  What is being worked on or completed counts as that
\* although it be marked: a mark must keep it from either.
Phase(t) ==
    IF stage[t] \in {"caller", "submitting"} THEN "caller"
    ELSE IF stage[t] = "pending" THEN "accepted"
    ELSE IF stage[t] = "inline" THEN "inline"
    ELSE IF stage[t] = "running" /\ runner.at = "working" THEN "working"
    ELSE IF stage[t] = "delivering" /\ own.at = "completing" THEN "completed"
    ELSE IF cancelled[t] THEN "cancelled"
    ELSE IF stage[t] = "running" /\ runner.at = "taken" THEN "accepted"
    ELSE IF stage[t] = "delivering" /\ own.at = "destroy" THEN "completed"
    ELSE "finished"

Life == INSTANCE TaskLife WITH phase <- [t \in Tasks |-> Phase(t)], mode <- stop

\* The executor keeps the laws of a task (TaskLife): one work or one cancellation
\* per acceptance, one completion unless cancelled, one destruction.
KeepsTaskLaws == Life!Spec

\* Every accepted task is destroyed in the end, whatever stop comes.
AcceptedIsDestroyed ==
    \A t \in Tasks : stage[t] \in {"pending", "inline"} ~> stage[t] = "caller"

\* A stop ends the thread, and a destroy returns: no wake-up is lost, whatever
\* stops, timeouts and submissions come together (thread.c:210-271).
ShutdownEnds ==
    /\ (stop # "none") ~> ended
    /\ (life = "destroying") ~> (life = "closed")

\* A dispatch returns although submitters, and `complete` itself, go on
\* submitting (mailbox.c:104-120).
DispatchReturns == (own.at # "idle") ~> (own.at = "idle")
==============================================================================
