------------------------------- MODULE ExecLoop -------------------------------
(***************************************************************************)
(* lh_exec_loop_t: a thread that sleeps until there is work, then does one *)
(* step (src/lh/exec/loop.c), with the threads that wake it and the owner  *)
(* that starts, stops, destroys, abandons and reaps it.                    *)
(*                                                                         *)
(* Time is abstract: a sleep may end by its timeout at any moment, and a   *)
(* step may take arbitrarily long.  The sleep of a loop with a condition   *)
(* holds the mutex from its check to its wait; wake and stop need the      *)
(* mutex, hint does not.  A loop with a waiter sleeps in the waiter, whose *)
(* signal stays pending until a wait consumes it (hasWaiter).              *)
(***************************************************************************)
EXTENDS Naturals

CONSTANT Wakers      \* threads that produce work and wake or hint the loop

VARIABLES
    hasWaiter,   \* the loop was created to sleep in a waiter, not on a condition
    pending,     \* a wake or a hint is there
    stopping,    \* a stop is asked for
    state,       \* running, ended, abandoned or released
    started,     \* the thread was started
    signal,      \* waiter: its wake is latched; condition: the sleeper is signalled
    thread,      \* where the loop's thread is
    seenStop,    \* what the round read of `stopping`
    waker,       \* per waker: where it is inside wake or hint
    owner,       \* where the owner is
    record,      \* the loop's record: "live" or "freed"
    stateFrees,  \* history: how often the step's state was freed
    lastSteps,   \* history: steps that saw the stop, at most 2 counted
    work,        \* history: work was produced that no step has seen
    owed,        \* history: a wake returned and no round has begun since
    due          \* history: work produced before the stop that no step has seen

vars == <<hasWaiter, pending, stopping, state, started, signal, thread, seenStop, waker,
          owner, record, stateFrees, lastSteps, work, owed, due>>

historyVars == <<stateFrees, lastSteps, work, owed, due>>

------------------------------------------------------------------------------
(* State. *)

States == {"running", "ended", "abandoned", "released"}

\* Where the thread may be: from the check to the wait (half checked, checking) it
\* holds the mutex of a loop with a condition.
ThreadAt == {"none", "top", "take", "step", "sleep", "half checked", "checking", "waiting",
             "end", "release", "leaving", "returned"}

MutexFree == hasWaiter \/ thread \notin {"half checked", "checking"}

\* The owner holds the loop and is in no call.
Held == {"created", "held", "stopped", "timed out"}

\* A stop of a loop with a waiter: the flag is set, the waiter's wake is to come.
Signalling == [polling |-> "signal polling", joining |-> "signal joining"]

Waking == {"signal polling", "signal joining"}

\* lh_exec_loop_try_create, lh_exec_loop_try_create_waiting.
Init ==
    /\ hasWaiter \in BOOLEAN
    /\ pending = FALSE
    /\ stopping = FALSE
    /\ state = "running"
    /\ started = FALSE
    /\ signal = FALSE
    /\ thread = "none"
    /\ seenStop = FALSE
    /\ waker = [w \in Wakers |-> "idle"]
    /\ owner = "created"
    /\ record = "live"
    /\ stateFrees = 0
    /\ lastSteps = 0
    /\ work = FALSE
    /\ owed = FALSE
    /\ due = FALSE

------------------------------------------------------------------------------
(* lh_exec_loop_wake and lh_exec_loop_hint, any thread. *)

\* A signal reaches the thread that waits on the condition; a waiter keeps it.
Signal == signal' = (hasWaiter \/ thread = "waiting" \/ signal)

\* The callers' side of the contract: nobody wakes a loop that is going away.
MayWake == owner \in Held \cup {"polling"}

\* The producer has published its work and calls wake.
WakeCall(w) ==
    /\ waker[w] = "idle"
    /\ MayWake
    /\ work' = TRUE
    /\ waker' = [waker EXCEPT ![w] = "wake"]
    /\ UNCHANGED <<pending, stopping, hasWaiter, state, started, signal, thread, seenStop,
                   owner, record, stateFrees, lastSteps, owed, due>>

\* Mutant: wake does not take the mutex.
WakeUnlocked(w) ==
    /\ waker[w] = "wake"
    /\ ~ hasWaiter
    /\ pending' = TRUE
    /\ Signal
    /\ owed' = TRUE
    /\ waker' = [waker EXCEPT ![w] = "idle"]
    /\ UNCHANGED <<stopping, hasWaiter, state, started, thread, seenStop, owner, record,
                   stateFrees, lastSteps, work, due>>

\* Mutant: wake sets the flag and forgets to signal.
WakeLockedSilent(w) ==
    /\ waker[w] = "wake"
    /\ ~ hasWaiter
    /\ MutexFree
    /\ pending' = TRUE
    /\ owed' = TRUE
    /\ waker' = [waker EXCEPT ![w] = "idle"]
    /\ UNCHANGED <<stopping, hasWaiter, state, started, signal, thread, seenStop, owner,
                   record, stateFrees, lastSteps, work, due>>

\* With a condition, pending and signal under the mutex: one step.
WakeLocked(w) ==
    /\ waker[w] = "wake"
    /\ ~ hasWaiter
    /\ MutexFree
    /\ pending' = TRUE
    /\ Signal
    /\ owed' = TRUE
    /\ waker' = [waker EXCEPT ![w] = "idle"]
    /\ UNCHANGED <<stopping, hasWaiter, state, started, thread, seenStop, owner, record,
                   stateFrees, lastSteps, work, due>>

\* With a waiter, pending and then the waiter's wake.
WakeSet(w) ==
    /\ waker[w] = "wake"
    /\ hasWaiter
    /\ pending' = TRUE
    /\ waker' = [waker EXCEPT ![w] = "wake signal"]
    /\ UNCHANGED <<stopping, hasWaiter, state, started, signal, thread, seenStop, owner,
                   record, historyVars>>

WakeSignal(w) ==
    /\ waker[w] = "wake signal"
    /\ Signal
    /\ owed' = pending
    /\ waker' = [waker EXCEPT ![w] = "idle"]
    /\ UNCHANGED <<pending, stopping, hasWaiter, state, started, thread, seenStop, owner,
                   record, stateFrees, lastSteps, work, due>>

\* hint: pending, then a signal without the mutex.
Hint(w) ==
    /\ waker[w] = "idle"
    /\ MayWake
    /\ work' = TRUE
    /\ pending' = TRUE
    /\ waker' = [waker EXCEPT ![w] = "hint signal"]
    /\ UNCHANGED <<stopping, hasWaiter, state, started, signal, thread, seenStop, owner,
                   record, stateFrees, lastSteps, owed, due>>

HintSignal(w) ==
    /\ waker[w] = "hint signal"
    /\ Signal
    /\ waker' = [waker EXCEPT ![w] = "idle"]
    /\ UNCHANGED <<pending, stopping, hasWaiter, state, started, thread, seenStop, owner,
                   record, historyVars>>

------------------------------------------------------------------------------
(* lh_exec_loop_run, on the loop's thread. *)

\* The stop is read before anything else of the round.
RunReadStop ==
    /\ thread = "top"
    /\ seenStop' = stopping
    /\ thread' = "take"
    /\ UNCHANGED <<pending, stopping, hasWaiter, state, started, signal, waker, owner,
                   record, historyVars>>

\* The pending wake is taken; last_step is set.
RunTakePending ==
    /\ thread = "take"
    /\ pending' = FALSE
    /\ owed' = FALSE
    /\ thread' = "step"
    /\ lastSteps' = IF seenStop /\ lastSteps < 2 THEN lastSteps + 1 ELSE lastSteps
    /\ UNCHANGED <<stopping, hasWaiter, state, started, signal, seenStop, waker, owner,
                   record, stateFrees, work, due>>

\* Mutant: the stop is read after the step, which is then not the last one.
RunStepStopsNow ==
    /\ thread = "step"
    /\ work' = FALSE
    /\ due' = FALSE
    /\ thread' = IF stopping THEN "end" ELSE "sleep"
    /\ UNCHANGED <<pending, stopping, hasWaiter, state, started, signal, seenStop, waker,
                   owner, record, stateFrees, lastSteps, owed>>

\* Timers and step: all the work published so far is seen.
RunStep ==
    /\ thread = "step"
    /\ work' = FALSE
    /\ due' = FALSE
    /\ thread' = IF seenStop THEN "end" ELSE "sleep"
    /\ UNCHANGED <<pending, stopping, hasWaiter, state, started, signal, seenStop, waker,
                   owner, record, stateFrees, lastSteps, owed>>

\* lh_exec_loop_sleep: is a wake there?  With a condition, under the mutex.
SleepCheck ==
    /\ thread = "sleep"
    /\ thread' = IF pending THEN "top" ELSE "half checked"
    /\ UNCHANGED <<hasWaiter, pending, stopping, state, started, signal, seenStop, waker,
                   owner, record, historyVars>>

\* Is a stop there?
SleepCheckStop ==
    /\ thread = "half checked"
    /\ thread' = IF stopping THEN "top" ELSE "checking"
    /\ UNCHANGED <<hasWaiter, pending, stopping, state, started, signal, seenStop, waker,
                   owner, record, historyVars>>

\* The wait begins; waiting on a condition lets the mutex go.
SleepWait ==
    /\ thread = "checking"
    /\ thread' = "waiting"
    /\ UNCHANGED <<pending, stopping, hasWaiter, state, started, signal, seenStop, waker,
                   owner, record, historyVars>>

SleepEnds ==
    /\ thread = "waiting"
    /\ thread' = "top"
    /\ signal' = FALSE
    /\ UNCHANGED <<pending, stopping, hasWaiter, state, started, seenStop, waker, owner,
                   record, historyVars>>

SleepSignalled == signal /\ SleepEnds

\* Mutant: the wait has no timeout.
SleepForever == FALSE /\ ~ signal /\ SleepEnds

\* The end of the period, the nearest timer, or a spurious wake-up.
SleepTimeout == ~ signal /\ SleepEnds

\* Mutant: the release call is made whoever holds the loop.
RunEndReleases ==
    /\ thread = "end"
    /\ thread' = "release"
    /\ UNCHANGED <<pending, stopping, hasWaiter, state, started, signal, seenStop, waker,
                   owner, record, historyVars>>

\* lh_exec_loop_end: the compare-exchange that settles who frees the state.
RunEnd ==
    /\ thread = "end"
    /\ \/ state = "running" /\ state' = "ended" /\ thread' = "leaving"
       \/ state # "running" /\ thread' = "release" /\ UNCHANGED state
    /\ UNCHANGED <<pending, stopping, hasWaiter, started, signal, seenStop, waker, owner,
                   record, historyVars>>

\* Abandoned: the release call, then the state is released.
RunRelease ==
    /\ thread = "release"
    /\ stateFrees' = stateFrees + 1
    /\ state' = "released"
    /\ thread' = "leaving"
    /\ UNCHANGED <<pending, stopping, hasWaiter, started, signal, seenStop, waker, owner,
                   record, lastSteps, work, owed, due>>

\* The thread's body returns: a join may return now.
RunReturn ==
    /\ thread = "leaving"
    /\ thread' = "returned"
    /\ UNCHANGED <<pending, stopping, hasWaiter, state, started, signal, seenStop, waker,
                   owner, record, historyVars>>

------------------------------------------------------------------------------
(* The owner. *)

OwnerTo(at) == owner' = at

\* lh_exec_loop_try_start_on: the thread starts (a start that fails, or comes
\* twice, changes nothing).
Start ==
    /\ owner = "created"
    /\ started' = TRUE
    /\ thread' = "top"
    /\ OwnerTo("held")
    /\ UNCHANGED <<hasWaiter, pending, stopping, state, signal, seenStop, waker, record,
                   historyVars>>

\* Mutant: the stop is not signalled.
AskStopSilent(then) ==
    /\ MutexFree
    /\ stopping' = TRUE
    /\ due' = IF stopping THEN due ELSE work
    /\ OwnerTo(then)
    /\ UNCHANGED <<pending, hasWaiter, state, started, signal, thread, seenStop, waker,
                   record, stateFrees, lastSteps, work, owed>>

\* lh_exec_loop_ask_stop with a condition: one step under the mutex; with a
\* waiter the flag first, then the waiter's wake.
AskStop(then) ==
    /\ MutexFree
    /\ stopping' = TRUE
    /\ due' = IF stopping THEN due ELSE work
    /\ IF hasWaiter
       THEN OwnerTo(Signalling[then]) /\ UNCHANGED signal
       ELSE OwnerTo(then) /\ Signal
    /\ UNCHANGED <<pending, hasWaiter, state, started, thread, seenStop, waker, record,
                   stateFrees, lastSteps, work, owed>>

AskStopSignal ==
    /\ \E then \in DOMAIN Signalling : owner = Signalling[then] /\ OwnerTo(then)
    /\ Signal
    /\ UNCHANGED <<pending, stopping, hasWaiter, state, started, thread, seenStop, waker,
                   record, historyVars>>

\* lh_exec_loop_try_stop.
TryStop ==
    /\ owner \in Held
    /\ started
    /\ AskStop("polling")

\* The poll of try_stop ends: the thread has ended, or the timeout passed.
TryStopReturn ==
    /\ owner = "polling"
    /\ OwnerTo(IF state = "ended" THEN "stopped" ELSE "timed out")
    /\ UNCHANGED <<pending, stopping, hasWaiter, state, started, signal, thread, seenStop,
                   waker, record, historyVars>>

NoWaker == \A w \in Wakers : waker[w] = "idle"

\* lh_exec_loop_try_abandon, after a stop whose time ran out.  Its caller lets
\* nobody touch the loop any more.
TryAbandon ==
    /\ owner = "timed out"
    /\ NoWaker
    /\ \/ state = "running" /\ state' = "abandoned" /\ OwnerTo("abandoned")
       \/ state # "running" /\ OwnerTo("stopped") /\ UNCHANGED state
    /\ UNCHANGED <<pending, stopping, hasWaiter, started, signal, thread, seenStop, waker,
                   record, historyVars>>

\* lh_exec_loop_destroy: ask for the stop and join, when the thread was started.
DestroyCall ==
    /\ owner \in Held
    /\ NoWaker
    /\ started
    /\ AskStop("joining")

\* Mutant: the record is freed without the join.
DestroyFreeNoJoin ==
    /\ (owner = "joining" \/ (owner \in Held /\ ~ started))
    /\ record' = "freed"
    /\ stateFrees' = stateFrees + 1
    /\ OwnerTo("gone")
    /\ UNCHANGED <<pending, stopping, hasWaiter, state, started, signal, thread, seenStop,
                   waker, lastSteps, work, owed, due>>

\* The join has returned (or there was no thread): lh_exec_loop_free; the owner
\* then frees the step's state.
DestroyFree ==
    /\ \/ owner = "joining" /\ thread = "returned"
       \/ owner \in Held /\ ~ started
    /\ record' = "freed"
    /\ stateFrees' = stateFrees + 1
    /\ OwnerTo("gone")
    /\ UNCHANGED <<pending, stopping, hasWaiter, state, started, signal, thread, seenStop,
                   waker, lastSteps, work, owed, due>>

\* lh_exec_loop_try_reap: nothing as long as the state is not released.
TryReap ==
    /\ owner = "abandoned"
    /\ state = "released"
    /\ OwnerTo("reaping")
    /\ UNCHANGED <<pending, stopping, hasWaiter, state, started, signal, thread, seenStop,
                   waker, record, historyVars>>

\* The join has returned: lh_exec_loop_free.
ReapFree ==
    /\ owner = "reaping"
    /\ thread = "returned"
    /\ record' = "freed"
    /\ OwnerTo("gone")
    /\ UNCHANGED <<pending, stopping, hasWaiter, state, started, signal, thread, seenStop,
                   waker, historyVars>>

------------------------------------------------------------------------------

ThreadStep ==
    \/ RunReadStop \/ RunTakePending \/ RunStep \/ SleepCheck \/ SleepCheckStop \/ SleepWait
    \/ SleepSignalled \/ RunEnd \/ RunRelease \/ RunReturn

WakerStep(w) == WakeLocked(w) \/ WakeSet(w) \/ WakeSignal(w) \/ HintSignal(w)

OwnerCall == Start \/ TryStop \/ TryAbandon \/ DestroyCall

OwnerStep == AskStopSignal \/ TryStopReturn \/ DestroyFree \/ TryReap \/ ReapFree

\* The owner is done with the loop.
Done == owner = "gone" /\ UNCHANGED vars

Next ==
    \/ ThreadStep \/ SleepTimeout
    \/ \E w \in Wakers : WakeCall(w) \/ Hint(w) \/ WakerStep(w)
    \/ OwnerCall \/ OwnerStep
    \/ Done

Spec == Init /\ [][Next]_vars

\* The thread runs, a step returns, and calls that began run on.  Nothing is
\* assumed of the timeouts: what wake and stop promise may not need them.
Fairness ==
    /\ WF_vars(ThreadStep)
    /\ \A w \in Wakers : WF_vars(WakerStep(w))
    /\ WF_vars(OwnerStep)

FairSpec == Spec /\ Fairness

------------------------------------------------------------------------------
(* Properties. *)

\* Types of the loop's flags and of the places of its threads.
TypeOK ==
    /\ hasWaiter \in BOOLEAN
    /\ pending \in BOOLEAN /\ stopping \in BOOLEAN /\ started \in BOOLEAN
    /\ signal \in BOOLEAN /\ seenStop \in BOOLEAN
    /\ state \in States
    /\ thread \in ThreadAt
    /\ waker \in [Wakers -> {"idle", "wake", "wake signal", "hint signal"}]
    /\ owner \in {"polling", "joining", "abandoned", "reaping", "gone"} \cup Held
                 \cup Waking
    /\ record \in {"live", "freed"}
    /\ stateFrees \in 0 .. 2 /\ lastSteps \in 0 .. 2
    /\ work \in BOOLEAN /\ owed \in BOOLEAN /\ due \in BOOLEAN

\* The record is freed only when the thread has nothing left to do with it:
\* after the join of destroy or of reap (loop.c:397-418).
FreedAfterThread == record = "freed" => thread \in {"none", "returned"}

\* The step's state is freed once, by the thread or by the owner, and no step
\* runs after it: the compare-exchange of end and of try_abandon settles it.
StateFreedOnce ==
    /\ stateFrees <= 1
    /\ stateFrees = 1 => thread \in {"none", "leaving", "returned"}
    /\ owner = "gone" => stateFrees = 1

\* One step sees the stop, it is the last one, and it sees all the work that was
\* produced before the stop was asked for (loop.c:427-438).
LastStepSeesAll ==
    /\ lastSteps <= 1
    /\ thread \in {"end", "release", "leaving", "returned"} => lastSteps = 1 /\ ~ due

\* A thread that sleeps unsignalled owes nobody a round: neither a wake that has
\* returned nor a stop is left behind (loop.c:324-343, 354-367).
SleepsInPeace ==
    thread = "waiting" /\ ~ signal => ~ owed /\ (stopping => owner \in Waking)

\* After a wake has returned a round begins, without the help of any timeout.
WakeServed == (owed /\ started) ~> (~ owed \/ thread = "returned")

\* After a stop is asked the thread ends, without the help of any timeout.
StopEnds == stopping ~> thread = "returned"

\* A destroyed or abandoned loop is freed in the end.
LoopFreed == (owner \in {"joining", "abandoned"}) ~> record = "freed"

\* What an owner begins is finished: a stop ends the thread, and a loop given up
\* by destroy or by abandon is freed (loop.c:283-322, 381-418).
EndsAndFrees == StopEnds /\ LoopFreed

\* A hint may be missed, but if every sleep ends by its timeout at the latest the
\* work it announces is seen in the end (loop.c:369-379, 440-445).
HintServed == WF_vars(SleepTimeout) => ((work /\ started) ~> (~ work \/ thread = "returned"))
==============================================================================
