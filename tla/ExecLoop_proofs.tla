--------------------------- MODULE ExecLoop_proofs ---------------------------
(***************************************************************************)
(* Proofs of the safety properties of ExecLoop, for every set of wakers    *)
(* and for both kinds of loop, and of ThreadGroup, which stops threads     *)
(* together as a loop stops its one.                                       *)
(***************************************************************************)
EXTENDS ExecLoop, ThreadGroup, TLAPS

------------------------------------------------------------------------------
(* The inductive invariant. *)

\* Who holds the loop, and which accesses to it and to the step's state remain.
OwnerInv ==
    /\ started <=> thread # "none"
    /\ owner = "created" => ~ started
    /\ ~ started => owner \in {"created", "gone"}
    /\ owner # "gone" => record = "live"
    /\ owner = "gone" => thread \in {"none", "returned"} /\ stateFrees = 1
    /\ owner # "gone" => stateFrees = IF state = "released" THEN 1 ELSE 0
    /\ owner = "reaping" => state = "released"
    /\ owner = "abandoned" => state \in {"abandoned", "released"}
    /\ state \in {"abandoned", "released"} => owner \in {"abandoned", "reaping", "gone"}

\* How the state follows the thread to its end.
StateInv ==
    /\ thread \in {"leaving", "returned"} => state \in {"ended", "released"}
    /\ thread = "release" => state = "abandoned"
    /\ thread \notin {"release", "leaving", "returned"} => state \in {"running", "abandoned"}

\* The stop goes through seenStop into the last step.
StopInv ==
    /\ seenStop => stopping
    /\ due => stopping
    /\ thread \in {"none", "top", "sleep", "half checked", "checking", "waiting"}
          => ~ seenStop /\ lastSteps = 0
    /\ thread = "take" => lastSteps = 0
    /\ thread = "step" => lastSteps = IF seenStop THEN 1 ELSE 0
    /\ thread \in {"end", "release", "leaving", "returned"} => seenStop /\ lastSteps = 1 /\ ~ due

\* With a condition, the mutex keeps wakes and stops out of the gap before the wait.
ConditionInv ==
    ~ hasWaiter =>
        /\ \A w \in Wakers : waker[w] # "wake signal"
        /\ owner \notin Waking
        /\ thread = "half checked" => ~ owed
        /\ thread = "checking" => ~ owed /\ ~ stopping
        /\ thread = "waiting" /\ ~ signal => ~ owed /\ ~ stopping

\* With a waiter, its latch holds what the thread has not seen yet.
WaiterInv ==
    hasWaiter =>
        /\ owed /\ thread \notin {"top", "take"} => signal
        /\ stopping /\ owner \notin Waking /\ ~ signal => thread = "top" \/ seenStop

IInv == TypeOK /\ OwnerInv /\ StateInv /\ StopInv /\ (owed => pending) /\ ConditionInv /\ WaiterInv

------------------------------------------------------------------------------
(* Lemmas. *)

\* The two calls that ask for a stop, by the names of their places.
LEMMA SignallingFacts ==
    /\ DOMAIN Signalling = {"polling", "joining"}
    /\ Signalling["polling"] = "signal polling"
    /\ Signalling["joining"] = "signal joining"
BY DEF Signalling

\* What the provers need to know of the history counters' range.
LEMMA SmallNumbers == 0 \in 0 .. 2 /\ 1 \in 0 .. 2 /\ 0 # 1 /\ 0 <= 1 /\ 1 <= 1
OBVIOUS

\* A created loop satisfies the invariant.
LEMMA InitInv == Init => IInv
<1> SUFFICES ASSUME Init PROVE IInv
    OBVIOUS
<1>1. TypeOK
    BY SmallNumbers DEF TypeOK, States, ThreadAt, Held, Waking, Init
<1>2. OwnerInv
    BY DEF TypeOK, OwnerInv, StateInv, States, ThreadAt, Held, Waking, Init
<1>3. StateInv
    BY DEF TypeOK, OwnerInv, StateInv, States, ThreadAt, Init
<1>4. StopInv
    BY DEF TypeOK, StopInv, ThreadAt, OwnerInv, ConditionInv, Init
<1>5. (owed => pending)
    BY DEF Init
<1>6. ConditionInv
    BY DEF TypeOK, StopInv, ConditionInv, Waking, Held, OwnerInv, Init
<1>7. WaiterInv
    BY DEF TypeOK, StopInv, WaiterInv, ConditionInv, Waking, Held, OwnerInv,
       Init
<1> QED
    BY <1>1, <1>2, <1>3, <1>4, <1>5, <1>6, <1>7 DEF IInv

\* Every step of the loop's thread keeps the invariant.
LEMMA ThreadInv == IInv /\ (ThreadStep \/ SleepTimeout) => IInv'
<1> SUFFICES ASSUME IInv, ThreadStep \/ SleepTimeout PROVE IInv'
    OBVIOUS
<1>0. TypeOK BY DEF IInv
<1>1. CASE RunReadStop
  <2>1. TypeOK'
      BY <1>1, ZenonT(120) DEF IInv, TypeOK, ThreadAt, RunReadStop, historyVars
  <2>2. OwnerInv'
      BY <1>1 DEF IInv, TypeOK, OwnerInv, StateInv, States, ThreadAt, Held, Waking,
         RunReadStop, historyVars
  <2>3. StateInv'
      BY <1>1 DEF IInv, TypeOK, OwnerInv, StateInv, States, ThreadAt, RunReadStop,
         historyVars
  <2>4. StopInv'
      BY <1>1 DEF IInv, TypeOK, StopInv, ThreadAt, OwnerInv, ConditionInv, RunReadStop,
         historyVars
  <2>5. (owed => pending)'
      BY <1>1 DEF IInv, RunReadStop, historyVars
  <2>6. ConditionInv'
      BY <1>1 DEF IInv, TypeOK, StopInv, ConditionInv, Waking, Held, OwnerInv, RunReadStop,
         historyVars
  <2>7. WaiterInv'
      BY <1>1 DEF IInv, TypeOK, StopInv, WaiterInv, ConditionInv, Waking, Held, OwnerInv,
         RunReadStop, historyVars
  <2> QED
      BY <2>1, <2>2, <2>3, <2>4, <2>5, <2>6, <2>7 DEF IInv
<1>2. CASE RunTakePending
  <2>0. lastSteps' = IF seenStop THEN 1 ELSE 0
    <3>1. lastSteps = 0
      BY <1>2 DEF IInv, StopInv, RunTakePending
    <3> QED
      BY <1>2, <3>1 DEF RunTakePending
  <2>1. TypeOK'
    <3>1. lastSteps' \in 0 .. 2
      BY <1>2, <2>0, SmallNumbers
    <3> QED
      BY <1>2, <3>1, ZenonT(120) DEF IInv, TypeOK, ThreadAt, RunTakePending
  <2>2. OwnerInv'
      BY <1>2 DEF IInv, TypeOK, OwnerInv, StateInv, States, ThreadAt, Held, Waking,
         RunTakePending, historyVars
  <2>3. StateInv'
      BY <1>2 DEF IInv, TypeOK, OwnerInv, StateInv, States, ThreadAt, RunTakePending,
         historyVars
  <2>4. StopInv'
      BY <1>2, <2>0 DEF IInv, TypeOK, StopInv, OwnerInv, RunTakePending
  <2>5. (owed => pending)'
      BY <1>2 DEF IInv, RunTakePending, historyVars
  <2>6. ConditionInv'
      BY <1>2 DEF IInv, TypeOK, StopInv, ConditionInv, Waking, Held, OwnerInv,
         RunTakePending, historyVars
  <2>7. WaiterInv'
      BY <1>2 DEF IInv, TypeOK, StopInv, WaiterInv, ConditionInv, Waking, Held, OwnerInv,
         RunTakePending, historyVars
  <2> QED
      BY <2>1, <2>2, <2>3, <2>4, <2>5, <2>6, <2>7 DEF IInv
<1>3. CASE RunStep
  <2>1. TypeOK'
      BY <1>3, ZenonT(120) DEF IInv, TypeOK, ThreadAt, RunStep, historyVars
  <2>2. OwnerInv'
      BY <1>3 DEF IInv, TypeOK, OwnerInv, StateInv, States, ThreadAt, Held, Waking,
         RunStep, historyVars
  <2>3. StateInv'
      BY <1>3 DEF IInv, TypeOK, OwnerInv, StateInv, States, ThreadAt, RunStep, historyVars
  <2>4. StopInv'
      BY <1>3 DEF IInv, TypeOK, StopInv, ThreadAt, OwnerInv, ConditionInv, RunStep,
         historyVars
  <2>5. (owed => pending)'
      BY <1>3 DEF IInv, RunStep, historyVars
  <2>6. ConditionInv'
      BY <1>3 DEF IInv, TypeOK, StopInv, ConditionInv, Waking, Held, OwnerInv, RunStep,
         historyVars
  <2>7. WaiterInv'
      BY <1>3 DEF IInv, TypeOK, StopInv, WaiterInv, ConditionInv, Waking, Held, OwnerInv,
         RunStep, historyVars
  <2> QED
      BY <2>1, <2>2, <2>3, <2>4, <2>5, <2>6, <2>7 DEF IInv
<1>4. CASE SleepCheck
  <2>1. TypeOK'
    <3>1. thread' \in ThreadAt
      BY <1>4, ZenonT(120) DEF ThreadAt, SleepCheck
    <3> QED
      BY <1>0, <1>4, <3>1, ZenonT(120) DEF TypeOK, SleepCheck, historyVars
  <2>2. OwnerInv'
      BY <1>4 DEF IInv, TypeOK, OwnerInv, StateInv, States, ThreadAt, Held, Waking,
         SleepCheck, historyVars
  <2>3. StateInv'
      BY <1>4 DEF IInv, TypeOK, OwnerInv, StateInv, States, ThreadAt, SleepCheck,
         historyVars
  <2>4. StopInv'
      BY <1>4 DEF IInv, TypeOK, StopInv, ThreadAt, OwnerInv, ConditionInv, SleepCheck,
         historyVars
  <2>5. (owed => pending)'
      BY <1>4 DEF IInv, SleepCheck, historyVars
  <2>6. ConditionInv'
      BY <1>4 DEF IInv, TypeOK, StopInv, ConditionInv, Waking, Held, OwnerInv, SleepCheck,
         historyVars
  <2>7. WaiterInv'
      BY <1>4 DEF IInv, TypeOK, StopInv, WaiterInv, ConditionInv, Waking, Held, OwnerInv,
         SleepCheck, historyVars
  <2> QED
      BY <2>1, <2>2, <2>3, <2>4, <2>5, <2>6, <2>7 DEF IInv
<1>10. CASE SleepCheckStop
  <2>1. TypeOK'
    <3>1. thread' \in ThreadAt
      BY <1>10, ZenonT(120) DEF ThreadAt, SleepCheckStop
    <3> QED
      BY <1>0, <1>10, <3>1, ZenonT(120) DEF TypeOK, SleepCheckStop, historyVars
  <2>2. OwnerInv'
      BY <1>10 DEF IInv, TypeOK, OwnerInv, StateInv, States, ThreadAt, Held, Waking,
         SleepCheckStop, historyVars
  <2>3. StateInv'
      BY <1>10 DEF IInv, TypeOK, OwnerInv, StateInv, States, ThreadAt, SleepCheckStop,
         historyVars
  <2>4. StopInv'
      BY <1>10 DEF IInv, TypeOK, StopInv, ThreadAt, OwnerInv, ConditionInv, SleepCheckStop,
         historyVars
  <2>5. (owed => pending)'
      BY <1>10 DEF IInv, SleepCheckStop, historyVars
  <2>6. ConditionInv'
      BY <1>10 DEF IInv, TypeOK, StopInv, ConditionInv, Waking, Held, OwnerInv, SleepCheckStop,
         historyVars
  <2>7. WaiterInv'
      BY <1>10 DEF IInv, TypeOK, StopInv, WaiterInv, ConditionInv, Waking, Held, OwnerInv,
         SleepCheckStop, historyVars
  <2> QED
      BY <2>1, <2>2, <2>3, <2>4, <2>5, <2>6, <2>7 DEF IInv
<1>5. CASE SleepWait
  <2>1. TypeOK'
    <3>1. thread' \in ThreadAt
      BY <1>5, ZenonT(120) DEF ThreadAt, SleepWait
    <3> QED
      BY <1>0, <1>5, <3>1, ZenonT(120) DEF TypeOK, SleepWait, historyVars
  <2>2. OwnerInv'
      BY <1>5 DEF IInv, TypeOK, OwnerInv, StateInv, States, ThreadAt, Held, Waking,
         SleepWait, historyVars
  <2>3. StateInv'
      BY <1>5 DEF IInv, TypeOK, OwnerInv, StateInv, States, ThreadAt, SleepWait, historyVars
  <2>4. StopInv'
      BY <1>5 DEF IInv, TypeOK, StopInv, ThreadAt, OwnerInv, ConditionInv, SleepWait,
         historyVars
  <2>5. (owed => pending)'
      BY <1>5 DEF IInv, SleepWait, historyVars
  <2>6. ConditionInv'
      BY <1>5 DEF IInv, TypeOK, StopInv, ConditionInv, Waking, Held, OwnerInv, SleepWait,
         historyVars
  <2>7. WaiterInv'
      BY <1>5 DEF IInv, TypeOK, StopInv, WaiterInv, ConditionInv, Waking, Held, OwnerInv,
         SleepWait, historyVars
  <2> QED
      BY <2>1, <2>2, <2>3, <2>4, <2>5, <2>6, <2>7 DEF IInv
<1>6. CASE SleepEnds
  <2>1. TypeOK'
      BY <1>6, ZenonT(120) DEF IInv, TypeOK, ThreadAt, SleepEnds, historyVars
  <2>2. OwnerInv'
      BY <1>6 DEF IInv, TypeOK, OwnerInv, StateInv, States, ThreadAt, Held, Waking,
         SleepEnds, historyVars
  <2>3. StateInv'
      BY <1>6 DEF IInv, TypeOK, OwnerInv, StateInv, States, ThreadAt, SleepEnds, historyVars
  <2>4. StopInv'
      BY <1>6 DEF IInv, TypeOK, StopInv, ThreadAt, OwnerInv, ConditionInv, SleepEnds,
         historyVars
  <2>5. (owed => pending)'
      BY <1>6 DEF IInv, SleepEnds, historyVars
  <2>6. ConditionInv'
      BY <1>6 DEF IInv, TypeOK, StopInv, ConditionInv, Waking, Held, OwnerInv, SleepEnds,
         historyVars
  <2>7. WaiterInv'
      BY <1>6 DEF IInv, TypeOK, StopInv, WaiterInv, ConditionInv, Waking, Held, OwnerInv,
         SleepEnds, historyVars
  <2> QED
      BY <2>1, <2>2, <2>3, <2>4, <2>5, <2>6, <2>7 DEF IInv
<1>7. CASE RunEnd
  <2>1. TypeOK'
    <3>1. state' \in States /\ thread' \in ThreadAt
      BY <1>0, <1>7, ZenonT(120) DEF TypeOK, States, ThreadAt, RunEnd
    <3>2. UNCHANGED <<hasWaiter, pending, stopping, started, signal, seenStop, waker, owner,
                      record, stateFrees, lastSteps, work, owed, due>>
      BY <1>7, ZenonT(120) DEF RunEnd, historyVars
    <3> QED
      BY <1>0, <3>1, <3>2, ZenonT(120) DEF TypeOK
  <2>2. OwnerInv'
      BY <1>7 DEF IInv, TypeOK, OwnerInv, StateInv, States, ThreadAt, Held, Waking, RunEnd,
         historyVars
  <2>3. StateInv'
      BY <1>7 DEF IInv, TypeOK, OwnerInv, StateInv, States, ThreadAt, RunEnd, historyVars
  <2>4. StopInv'
      BY <1>7 DEF IInv, TypeOK, StopInv, ThreadAt, OwnerInv, ConditionInv, RunEnd,
         historyVars
  <2>5. (owed => pending)'
      BY <1>7 DEF IInv, RunEnd, historyVars
  <2>6. ConditionInv'
      BY <1>7 DEF IInv, TypeOK, StopInv, ConditionInv, Waking, Held, OwnerInv, RunEnd,
         historyVars
  <2>7. WaiterInv'
      BY <1>7 DEF IInv, TypeOK, StopInv, WaiterInv, ConditionInv, Waking, Held, OwnerInv,
         RunEnd, historyVars
  <2> QED
      BY <2>1, <2>2, <2>3, <2>4, <2>5, <2>6, <2>7 DEF IInv
<1>8. CASE RunRelease
  <2>0. stateFrees = 0 /\ stateFrees' = 1
    <3>1. stateFrees = 0
      BY <1>8 DEF IInv, OwnerInv, StateInv, RunRelease, TypeOK, Held
    <3> QED
      BY <1>8, <3>1 DEF RunRelease
  <2>1. TypeOK'
    <3>1. stateFrees' \in 0 .. 2
      BY <2>0, SmallNumbers
    <3>2. state' \in States /\ thread' \in ThreadAt
      BY <1>8, ZenonT(120) DEF States, ThreadAt, RunRelease
    <3> QED
      BY <1>0, <1>8, <3>1, <3>2, ZenonT(120) DEF TypeOK, RunRelease
  <2>2. OwnerInv'
      BY <1>8, <2>0 DEF IInv, TypeOK, OwnerInv, StateInv, Held, RunRelease
  <2>3. StateInv'
      BY <1>8 DEF IInv, TypeOK, OwnerInv, StateInv, States, ThreadAt, RunRelease,
         historyVars
  <2>4. StopInv'
      BY <1>8 DEF IInv, TypeOK, StopInv, ThreadAt, OwnerInv, ConditionInv, RunRelease,
         historyVars
  <2>5. (owed => pending)'
      BY <1>8 DEF IInv, RunRelease, historyVars
  <2>6. ConditionInv'
      BY <1>8 DEF IInv, TypeOK, StopInv, ConditionInv, Waking, Held, OwnerInv, RunRelease,
         historyVars
  <2>7. WaiterInv'
      BY <1>8 DEF IInv, TypeOK, StopInv, WaiterInv, ConditionInv, Waking, Held, OwnerInv,
         RunRelease, historyVars
  <2> QED
      BY <2>1, <2>2, <2>3, <2>4, <2>5, <2>6, <2>7 DEF IInv
<1>9. CASE RunReturn
  <2>1. TypeOK'
    <3>1. thread' \in ThreadAt
      BY <1>9, ZenonT(120) DEF ThreadAt, RunReturn
    <3> QED
      BY <1>0, <1>9, <3>1, ZenonT(120) DEF TypeOK, RunReturn, historyVars
  <2>2. OwnerInv'
      BY <1>9 DEF IInv, TypeOK, OwnerInv, StateInv, States, ThreadAt, Held, Waking,
         RunReturn, historyVars
  <2>3. StateInv'
      BY <1>9 DEF IInv, TypeOK, OwnerInv, StateInv, States, ThreadAt, RunReturn, historyVars
  <2>4. StopInv'
      BY <1>9 DEF IInv, TypeOK, StopInv, ThreadAt, OwnerInv, ConditionInv, RunReturn,
         historyVars
  <2>5. (owed => pending)'
      BY <1>9 DEF IInv, RunReturn, historyVars
  <2>6. ConditionInv'
      BY <1>9 DEF IInv, TypeOK, StopInv, ConditionInv, Waking, Held, OwnerInv, RunReturn,
         historyVars
  <2>7. WaiterInv'
      BY <1>9 DEF IInv, TypeOK, StopInv, WaiterInv, ConditionInv, Waking, Held, OwnerInv,
         RunReturn, historyVars
  <2> QED
      BY <2>1, <2>2, <2>3, <2>4, <2>5, <2>6, <2>7 DEF IInv
<1> QED
    BY <1>1, <1>2, <1>3, <1>4, <1>5, <1>6, <1>7, <1>8, <1>9, <1>10
       DEF ThreadStep, SleepSignalled, SleepTimeout

\* Every step of a waker keeps the invariant.
LEMMA WakerInv ==
    ASSUME NEW w \in Wakers, IInv, WakeCall(w) \/ Hint(w) \/ WakerStep(w)
    PROVE  IInv'
<1>1. CASE WakeCall(w)
  <2>1. TypeOK'
    <3>1. waker' \in [Wakers -> {"idle", "wake", "wake signal", "hint signal"}]
      BY <1>1 DEF IInv, TypeOK, WakeCall
    <3> QED
      BY <1>1, <3>1, ZenonT(120) DEF IInv, TypeOK, WakeCall
  <2>2. OwnerInv'
      BY <1>1 DEF IInv, TypeOK, OwnerInv, StateInv, States, ThreadAt, Held, Waking,
         WakeCall, historyVars, Signal, MutexFree
  <2>3. StateInv'
      BY <1>1 DEF IInv, TypeOK, OwnerInv, StateInv, States, ThreadAt, WakeCall,
         historyVars, Signal, MutexFree
  <2>4. StopInv'
      BY <1>1 DEF IInv, TypeOK, StopInv, ThreadAt, OwnerInv, ConditionInv, WakeCall,
         historyVars, Signal, MutexFree
  <2>5. (owed => pending)'
      BY <1>1 DEF IInv, WakeCall, historyVars, Signal, MutexFree
  <2>6. ConditionInv'
      BY <1>1 DEF IInv, TypeOK, StopInv, ConditionInv, Waking, Held, OwnerInv, WakeCall,
         historyVars, Signal, MutexFree
  <2>7. WaiterInv'
      BY <1>1 DEF IInv, TypeOK, StopInv, WaiterInv, ConditionInv, Waking, Held, OwnerInv,
         WakeCall, historyVars, Signal, MutexFree
  <2> QED
      BY <2>1, <2>2, <2>3, <2>4, <2>5, <2>6, <2>7 DEF IInv
<1>2. CASE Hint(w)
  <2>1. TypeOK'
    <3>1. waker' \in [Wakers -> {"idle", "wake", "wake signal", "hint signal"}]
      BY <1>2 DEF IInv, TypeOK, Hint
    <3> QED
      BY <1>2, <3>1, ZenonT(120) DEF IInv, TypeOK, Hint
  <2>2. OwnerInv'
      BY <1>2 DEF IInv, TypeOK, OwnerInv, StateInv, States, ThreadAt, Held, Waking, Hint,
         historyVars, Signal, MutexFree
  <2>3. StateInv'
      BY <1>2 DEF IInv, TypeOK, OwnerInv, StateInv, States, ThreadAt, Hint, historyVars,
         Signal, MutexFree
  <2>4. StopInv'
      BY <1>2 DEF IInv, TypeOK, StopInv, ThreadAt, OwnerInv, ConditionInv, Hint,
         historyVars, Signal, MutexFree
  <2>5. (owed => pending)'
      BY <1>2 DEF IInv, Hint, historyVars, Signal, MutexFree
  <2>6. ConditionInv'
      BY <1>2 DEF IInv, TypeOK, StopInv, ConditionInv, Waking, Held, OwnerInv, Hint,
         historyVars, Signal, MutexFree
  <2>7. WaiterInv'
      BY <1>2 DEF IInv, TypeOK, StopInv, WaiterInv, ConditionInv, Waking, Held, OwnerInv,
         Hint, historyVars, Signal, MutexFree
  <2> QED
      BY <2>1, <2>2, <2>3, <2>4, <2>5, <2>6, <2>7 DEF IInv
<1>3. CASE WakeLocked(w)
  <2>1. TypeOK'
    <3>1. waker' \in [Wakers -> {"idle", "wake", "wake signal", "hint signal"}]
      BY <1>3 DEF IInv, TypeOK, WakeLocked
    <3> QED
      BY <1>3, <3>1, ZenonT(120) DEF IInv, TypeOK, WakeLocked, Signal
  <2>2. OwnerInv'
      BY <1>3 DEF IInv, TypeOK, OwnerInv, StateInv, States, ThreadAt, Held, Waking,
         WakeLocked, historyVars, Signal, MutexFree
  <2>3. StateInv'
      BY <1>3 DEF IInv, TypeOK, OwnerInv, StateInv, States, ThreadAt, WakeLocked,
         historyVars, Signal, MutexFree
  <2>4. StopInv'
      BY <1>3 DEF IInv, TypeOK, StopInv, ThreadAt, OwnerInv, ConditionInv, WakeLocked,
         historyVars, Signal, MutexFree
  <2>5. (owed => pending)'
      BY <1>3 DEF IInv, WakeLocked, historyVars, Signal, MutexFree
  <2>6. ConditionInv'
      BY <1>3 DEF IInv, TypeOK, StopInv, ConditionInv, Waking, Held, OwnerInv, WakeLocked,
         historyVars, Signal, MutexFree
  <2>7. WaiterInv'
      BY <1>3 DEF IInv, TypeOK, StopInv, WaiterInv, ConditionInv, Waking, Held, OwnerInv,
         WakeLocked, historyVars, Signal, MutexFree
  <2> QED
      BY <2>1, <2>2, <2>3, <2>4, <2>5, <2>6, <2>7 DEF IInv
<1>4. CASE WakeSet(w)
  <2>1. TypeOK'
    <3>1. waker' \in [Wakers -> {"idle", "wake", "wake signal", "hint signal"}]
      BY <1>4 DEF IInv, TypeOK, WakeSet
    <3> QED
      BY <1>4, <3>1, ZenonT(120) DEF IInv, TypeOK, WakeSet, historyVars
  <2>2. OwnerInv'
      BY <1>4 DEF IInv, TypeOK, OwnerInv, StateInv, States, ThreadAt, Held, Waking,
         WakeSet, historyVars, Signal, MutexFree
  <2>3. StateInv'
      BY <1>4 DEF IInv, TypeOK, OwnerInv, StateInv, States, ThreadAt, WakeSet, historyVars,
         Signal, MutexFree
  <2>4. StopInv'
      BY <1>4 DEF IInv, TypeOK, StopInv, ThreadAt, OwnerInv, ConditionInv, WakeSet,
         historyVars, Signal, MutexFree
  <2>5. (owed => pending)'
      BY <1>4 DEF IInv, WakeSet, historyVars, Signal, MutexFree
  <2>6. ConditionInv'
      BY <1>4 DEF IInv, TypeOK, StopInv, ConditionInv, Waking, Held, OwnerInv, WakeSet,
         historyVars, Signal, MutexFree
  <2>7. WaiterInv'
      BY <1>4 DEF IInv, TypeOK, StopInv, WaiterInv, ConditionInv, Waking, Held, OwnerInv,
         WakeSet, historyVars, Signal, MutexFree
  <2> QED
      BY <2>1, <2>2, <2>3, <2>4, <2>5, <2>6, <2>7 DEF IInv
<1>5. CASE WakeSignal(w)
  <2>1. TypeOK'
    <3>1. waker' \in [Wakers -> {"idle", "wake", "wake signal", "hint signal"}]
      BY <1>5 DEF IInv, TypeOK, WakeSignal
    <3> QED
      BY <1>5, <3>1, ZenonT(120) DEF IInv, TypeOK, WakeSignal, Signal
  <2>2. OwnerInv'
      BY <1>5 DEF IInv, TypeOK, OwnerInv, StateInv, States, ThreadAt, Held, Waking,
         WakeSignal, historyVars, Signal, MutexFree
  <2>3. StateInv'
      BY <1>5 DEF IInv, TypeOK, OwnerInv, StateInv, States, ThreadAt, WakeSignal,
         historyVars, Signal, MutexFree
  <2>4. StopInv'
      BY <1>5 DEF IInv, TypeOK, StopInv, ThreadAt, OwnerInv, ConditionInv, WakeSignal,
         historyVars, Signal, MutexFree
  <2>5. (owed => pending)'
      BY <1>5 DEF IInv, WakeSignal, historyVars, Signal, MutexFree
  <2>6. ConditionInv'
      BY <1>5 DEF IInv, TypeOK, StopInv, ConditionInv, Waking, Held, OwnerInv, WakeSignal,
         historyVars, Signal, MutexFree
  <2>7. WaiterInv'
      BY <1>5 DEF IInv, TypeOK, StopInv, WaiterInv, ConditionInv, Waking, Held, OwnerInv,
         WakeSignal, historyVars, Signal, MutexFree
  <2> QED
      BY <2>1, <2>2, <2>3, <2>4, <2>5, <2>6, <2>7 DEF IInv
<1>6. CASE HintSignal(w)
  <2>1. TypeOK'
    <3>1. waker' \in [Wakers -> {"idle", "wake", "wake signal", "hint signal"}]
      BY <1>6 DEF IInv, TypeOK, HintSignal
    <3> QED
      BY <1>6, <3>1, ZenonT(120) DEF IInv, TypeOK, HintSignal, historyVars, Signal
  <2>2. OwnerInv'
      BY <1>6 DEF IInv, TypeOK, OwnerInv, StateInv, States, ThreadAt, Held, Waking,
         HintSignal, historyVars, Signal, MutexFree
  <2>3. StateInv'
      BY <1>6 DEF IInv, TypeOK, OwnerInv, StateInv, States, ThreadAt, HintSignal,
         historyVars, Signal, MutexFree
  <2>4. StopInv'
      BY <1>6 DEF IInv, TypeOK, StopInv, ThreadAt, OwnerInv, ConditionInv, HintSignal,
         historyVars, Signal, MutexFree
  <2>5. (owed => pending)'
      BY <1>6 DEF IInv, HintSignal, historyVars, Signal, MutexFree
  <2>6. ConditionInv'
      BY <1>6 DEF IInv, TypeOK, StopInv, ConditionInv, Waking, Held, OwnerInv, HintSignal,
         historyVars, Signal, MutexFree
  <2>7. WaiterInv'
      BY <1>6 DEF IInv, TypeOK, StopInv, WaiterInv, ConditionInv, Waking, Held, OwnerInv,
         HintSignal, historyVars, Signal, MutexFree
  <2> QED
      BY <2>1, <2>2, <2>3, <2>4, <2>5, <2>6, <2>7 DEF IInv
<1> QED
    BY <1>1, <1>2, <1>3, <1>4, <1>5, <1>6 DEF WakerStep

\* Asking for the stop keeps the invariant, whatever the caller does next.
LEMMA AskStopInv ==
    ASSUME NEW then \in {"polling", "joining"}, IInv, started,
           owner \in Held, AskStop(then)
    PROVE  IInv'
<1> USE SignallingFacts DEF AskStop, OwnerTo, Signal, MutexFree
<1>1. TypeOK'
    BY DEF IInv, TypeOK, Held, Waking
<1>2. OwnerInv'
    BY DEF IInv, TypeOK, OwnerInv, StateInv, States, ThreadAt, Held, Waking
<1>3. StateInv'
    BY DEF IInv, TypeOK, OwnerInv, StateInv, States, ThreadAt
<1>4. StopInv'
    BY DEF IInv, TypeOK, StopInv, ThreadAt, OwnerInv, ConditionInv
<1>5. (owed => pending)'
    BY DEF IInv
<1>6. ConditionInv'
    BY DEF IInv, TypeOK, StopInv, ConditionInv, Waking, Held, OwnerInv
<1>7. WaiterInv'
    BY DEF IInv, TypeOK, StopInv, WaiterInv, ConditionInv, Waking, Held, OwnerInv
<1> QED
    BY <1>1, <1>2, <1>3, <1>4, <1>5, <1>6, <1>7 DEF IInv

\* Every step of the owner keeps the invariant.
LEMMA OwnerStepInv == IInv /\ (OwnerCall \/ OwnerStep) => IInv'
<1> SUFFICES ASSUME IInv, OwnerCall \/ OwnerStep PROVE IInv'
    OBVIOUS
<1>10. CASE TryStop     BY <1>10, AskStopInv DEF TryStop
<1>11. CASE DestroyCall BY <1>11, AskStopInv DEF DestroyCall
<1>1. CASE Start
  <2>1. TypeOK'
      BY <1>1, ZenonT(120) DEF IInv, TypeOK, Held, ThreadAt, Start, historyVars, OwnerTo
  <2>2. OwnerInv'
      BY <1>1 DEF IInv, TypeOK, OwnerInv, StateInv, States, ThreadAt, Held, Waking, Start,
         historyVars, OwnerTo
  <2>3. StateInv'
      BY <1>1 DEF IInv, TypeOK, OwnerInv, StateInv, States, ThreadAt, Start, historyVars,
         OwnerTo
  <2>4. StopInv'
      BY <1>1 DEF IInv, TypeOK, StopInv, ThreadAt, OwnerInv, ConditionInv, Start,
         historyVars, OwnerTo
  <2>5. (owed => pending)'
      BY <1>1 DEF IInv, Start, historyVars, OwnerTo
  <2>6. ConditionInv'
      BY <1>1 DEF IInv, TypeOK, StopInv, ConditionInv, Waking, Held, OwnerInv, Start,
         historyVars, OwnerTo
  <2>7. WaiterInv'
      BY <1>1 DEF IInv, TypeOK, StopInv, WaiterInv, ConditionInv, Waking, Held, OwnerInv,
         Start, historyVars, OwnerTo
  <2> QED
      BY <2>1, <2>2, <2>3, <2>4, <2>5, <2>6, <2>7 DEF IInv
<1>2. CASE AskStopSignal
  <2>1. TypeOK'
      BY <1>2, SignallingFacts, ZenonT(120) DEF IInv, TypeOK, Waking, AskStopSignal, historyVars,
         OwnerTo, Signal
  <2>2. OwnerInv'
      BY <1>2, SignallingFacts DEF IInv, TypeOK, OwnerInv, StateInv, States, ThreadAt,
         Held, Waking, AskStopSignal, historyVars, OwnerTo, Signal
  <2>3. StateInv'
      BY <1>2, SignallingFacts DEF IInv, TypeOK, OwnerInv, StateInv, States, ThreadAt,
         AskStopSignal, historyVars, OwnerTo, Signal
  <2>4. StopInv'
      BY <1>2, SignallingFacts DEF IInv, TypeOK, StopInv, ThreadAt, OwnerInv, ConditionInv,
         AskStopSignal, historyVars, OwnerTo, Signal
  <2>5. (owed => pending)'
      BY <1>2, SignallingFacts DEF IInv, AskStopSignal, historyVars, OwnerTo, Signal
  <2>6. ConditionInv'
      BY <1>2, SignallingFacts DEF IInv, TypeOK, StopInv, ConditionInv, Waking, Held,
         OwnerInv, AskStopSignal, historyVars, OwnerTo, Signal
  <2>7. WaiterInv'
      BY <1>2, SignallingFacts DEF IInv, TypeOK, StopInv, WaiterInv, ConditionInv, Waking,
         Held, OwnerInv, AskStopSignal, historyVars, OwnerTo, Signal
  <2> QED
      BY <2>1, <2>2, <2>3, <2>4, <2>5, <2>6, <2>7 DEF IInv
<1>3. CASE TryStopReturn
  <2>1. TypeOK'
      BY <1>3, ZenonT(120) DEF IInv, TypeOK, Held, TryStopReturn, historyVars, OwnerTo
  <2>2. OwnerInv'
      BY <1>3 DEF IInv, TypeOK, OwnerInv, StateInv, States, ThreadAt, Held, Waking,
         TryStopReturn, historyVars, OwnerTo
  <2>3. StateInv'
      BY <1>3 DEF IInv, TypeOK, OwnerInv, StateInv, States, ThreadAt, TryStopReturn,
         historyVars, OwnerTo
  <2>4. StopInv'
      BY <1>3 DEF IInv, TypeOK, StopInv, ThreadAt, OwnerInv, ConditionInv, TryStopReturn,
         historyVars, OwnerTo
  <2>5. (owed => pending)'
      BY <1>3 DEF IInv, TryStopReturn, historyVars, OwnerTo
  <2>6. ConditionInv'
      BY <1>3 DEF IInv, TypeOK, StopInv, ConditionInv, Waking, Held, OwnerInv,
         TryStopReturn, historyVars, OwnerTo
  <2>7. WaiterInv'
      BY <1>3 DEF IInv, TypeOK, StopInv, WaiterInv, ConditionInv, Waking, Held, OwnerInv,
         TryStopReturn, historyVars, OwnerTo
  <2> QED
      BY <2>1, <2>2, <2>3, <2>4, <2>5, <2>6, <2>7 DEF IInv
<1>4. CASE TryAbandon
  <2>1. TypeOK'
      BY <1>4, ZenonT(120) DEF IInv, TypeOK, Held, States, TryAbandon, historyVars, OwnerTo
  <2>2. OwnerInv'
      BY <1>4 DEF IInv, TypeOK, OwnerInv, StateInv, States, ThreadAt, Held, Waking,
         TryAbandon, historyVars, OwnerTo
  <2>3. StateInv'
      BY <1>4 DEF IInv, TypeOK, OwnerInv, StateInv, States, ThreadAt, TryAbandon,
         historyVars, OwnerTo
  <2>4. StopInv'
      BY <1>4 DEF IInv, TypeOK, StopInv, ThreadAt, OwnerInv, ConditionInv, TryAbandon,
         historyVars, OwnerTo
  <2>5. (owed => pending)'
      BY <1>4 DEF IInv, TryAbandon, historyVars, OwnerTo
  <2>6. ConditionInv'
      BY <1>4 DEF IInv, TypeOK, StopInv, ConditionInv, Waking, Held, OwnerInv, TryAbandon,
         historyVars, OwnerTo
  <2>7. WaiterInv'
      BY <1>4 DEF IInv, TypeOK, StopInv, WaiterInv, ConditionInv, Waking, Held, OwnerInv,
         TryAbandon, historyVars, OwnerTo
  <2> QED
      BY <2>1, <2>2, <2>3, <2>4, <2>5, <2>6, <2>7 DEF IInv
<1>5. CASE DestroyFree
  <2>0. stateFrees = 0 /\ stateFrees' = 1
    <3>1. stateFrees = 0
      BY <1>5 DEF IInv, OwnerInv, StateInv, DestroyFree, TypeOK, Held
    <3> QED
      BY <1>5, <3>1 DEF DestroyFree
  <2>1. TypeOK'
    <3>1. stateFrees' \in 0 .. 2
      BY <2>0, SmallNumbers
    <3> QED
      BY <1>5, <3>1, ZenonT(120) DEF IInv, TypeOK, DestroyFree, OwnerTo
  <2>2. OwnerInv'
      BY <1>5, <2>0 DEF IInv, TypeOK, OwnerInv, StateInv, Held, DestroyFree, OwnerTo
  <2>3. StateInv'
      BY <1>5 DEF IInv, TypeOK, OwnerInv, StateInv, States, ThreadAt, DestroyFree,
         historyVars, OwnerTo
  <2>4. StopInv'
      BY <1>5 DEF IInv, TypeOK, StopInv, ThreadAt, OwnerInv, ConditionInv, DestroyFree,
         historyVars, OwnerTo
  <2>5. (owed => pending)'
      BY <1>5 DEF IInv, DestroyFree, historyVars, OwnerTo
  <2>6. ConditionInv'
      BY <1>5 DEF IInv, TypeOK, StopInv, ConditionInv, Waking, Held, OwnerInv, DestroyFree,
         historyVars, OwnerTo
  <2>7. WaiterInv'
      BY <1>5 DEF IInv, TypeOK, StopInv, WaiterInv, ConditionInv, Waking, Held, OwnerInv,
         DestroyFree, historyVars, OwnerTo
  <2> QED
      BY <2>1, <2>2, <2>3, <2>4, <2>5, <2>6, <2>7 DEF IInv
<1>6. CASE TryReap
  <2>1. TypeOK'
      BY <1>6, ZenonT(120) DEF IInv, TypeOK, TryReap, historyVars, OwnerTo
  <2>2. OwnerInv'
      BY <1>6 DEF IInv, TypeOK, OwnerInv, StateInv, States, ThreadAt, Held, Waking,
         TryReap, historyVars, OwnerTo
  <2>3. StateInv'
      BY <1>6 DEF IInv, TypeOK, OwnerInv, StateInv, States, ThreadAt, TryReap, historyVars,
         OwnerTo
  <2>4. StopInv'
      BY <1>6 DEF IInv, TypeOK, StopInv, ThreadAt, OwnerInv, ConditionInv, TryReap,
         historyVars, OwnerTo
  <2>5. (owed => pending)'
      BY <1>6 DEF IInv, TryReap, historyVars, OwnerTo
  <2>6. ConditionInv'
      BY <1>6 DEF IInv, TypeOK, StopInv, ConditionInv, Waking, Held, OwnerInv, TryReap,
         historyVars, OwnerTo
  <2>7. WaiterInv'
      BY <1>6 DEF IInv, TypeOK, StopInv, WaiterInv, ConditionInv, Waking, Held, OwnerInv,
         TryReap, historyVars, OwnerTo
  <2> QED
      BY <2>1, <2>2, <2>3, <2>4, <2>5, <2>6, <2>7 DEF IInv
<1>7. CASE ReapFree
  <2>1. TypeOK'
      BY <1>7, ZenonT(120) DEF IInv, TypeOK, ReapFree, historyVars, OwnerTo
  <2>2. OwnerInv'
      BY <1>7 DEF IInv, TypeOK, OwnerInv, StateInv, States, ThreadAt, Held, Waking,
         ReapFree, historyVars, OwnerTo
  <2>3. StateInv'
      BY <1>7 DEF IInv, TypeOK, OwnerInv, StateInv, States, ThreadAt, ReapFree,
         historyVars, OwnerTo
  <2>4. StopInv'
      BY <1>7 DEF IInv, TypeOK, StopInv, ThreadAt, OwnerInv, ConditionInv, ReapFree,
         historyVars, OwnerTo
  <2>5. (owed => pending)'
      BY <1>7 DEF IInv, ReapFree, historyVars, OwnerTo
  <2>6. ConditionInv'
      BY <1>7 DEF IInv, TypeOK, StopInv, ConditionInv, Waking, Held, OwnerInv, ReapFree,
         historyVars, OwnerTo
  <2>7. WaiterInv'
      BY <1>7 DEF IInv, TypeOK, StopInv, WaiterInv, ConditionInv, Waking, Held, OwnerInv,
         ReapFree, historyVars, OwnerTo
  <2> QED
      BY <2>1, <2>2, <2>3, <2>4, <2>5, <2>6, <2>7 DEF IInv
<1> QED
    BY <1>1, <1>2, <1>3, <1>4, <1>5, <1>6, <1>7, <1>10, <1>11 DEF OwnerCall, OwnerStep

------------------------------------------------------------------------------
(* Theorems. *)

\* The invariant holds in every state of the loop.
THEOREM InductiveInvariant == Spec => []IInv
<1>1. IInv /\ UNCHANGED vars => IInv'
  <2> SUFFICES ASSUME IInv, UNCHANGED vars PROVE IInv'
    OBVIOUS
  <2>1. TypeOK'
    BY ZenonT(120) DEF IInv, vars, TypeOK
  <2>2. OwnerInv' /\ StateInv'
    BY ZenonT(120) DEF IInv, vars, OwnerInv, StateInv
  <2>3. StopInv' /\ (owed => pending)'
    BY ZenonT(120) DEF IInv, vars, StopInv
  <2>4. ConditionInv' /\ WaiterInv'
    BY ZenonT(120) DEF IInv, vars, ConditionInv, WaiterInv
  <2> QED
    BY <2>1, <2>2, <2>3, <2>4 DEF IInv
<1>2. IInv /\ [Next]_vars => IInv'
    BY <1>1, ThreadInv, WakerInv, OwnerStepInv DEF Next, Done
<1> QED
    BY InitInv, <1>2, PTL DEF Spec

\* The loop's flags and places keep their types.
THEOREM TypeCorrect == Spec => []TypeOK
BY InductiveInvariant, PTL DEF IInv

\* The record is freed only after the thread's body has returned.
THEOREM FreedAfterThreadTheorem == Spec => []FreedAfterThread
<1>1. IInv => FreedAfterThread
    BY DEF IInv, TypeOK, OwnerInv, FreedAfterThread
<1> QED
    BY InductiveInvariant, <1>1, PTL

\* The step's state is freed once, by the thread or by the owner.
THEOREM StateFreedOnceTheorem == Spec => []StateFreedOnce
<1>1. IInv => StateFreedOnce
    <2> SUFFICES ASSUME IInv PROVE StateFreedOnce
      OBVIOUS
    <2>1. stateFrees = 0 \/ stateFrees = 1
      BY DEF IInv, OwnerInv
    <2>2. stateFrees <= 1
      BY <2>1, SmallNumbers
    <2>3. stateFrees = 1 => thread \in {"none", "leaving", "returned"}
      BY SmallNumbers DEF IInv, TypeOK, OwnerInv, StateInv, ThreadAt
    <2>4. owner = "gone" => stateFrees = 1
      BY DEF IInv, OwnerInv
    <2> QED
      BY <2>2, <2>3, <2>4 DEF StateFreedOnce
<1> QED
    BY InductiveInvariant, <1>1, PTL

\* The thread ends after exactly one step that saw the stop, and that step saw
\* all the work produced before the stop.
THEOREM LastStepTheorem == Spec => []LastStepSeesAll
<1>1. IInv => LastStepSeesAll
    <2> SUFFICES ASSUME IInv PROVE LastStepSeesAll
      OBVIOUS
    <2>1. lastSteps = 0 \/ lastSteps = 1
      BY DEF IInv, TypeOK, StopInv, ThreadAt
    <2>2. lastSteps <= 1
      BY <2>1, SmallNumbers
    <2> QED
      BY <2>2 DEF IInv, StopInv, LastStepSeesAll
<1> QED
    BY InductiveInvariant, <1>1, PTL

\* No wake and no stop is left behind by a thread that sleeps unsignalled.
THEOREM SleepsInPeaceTheorem == Spec => []SleepsInPeace
<1>1. IInv => SleepsInPeace
    BY DEF IInv, TypeOK, StopInv, ConditionInv, WaiterInv, SleepsInPeace, Waking
<1> QED
    BY InductiveInvariant, <1>1, PTL

------------------------------------------------------------------------------
(* The thread group (os/thread/group.c), which stops threads together as a loop *)
(* stops its one: for any set of members and any way in which they wait for    *)
(* each other.                                                                 *)

\* The list holds its members once, and every thread that is not joined.
ListInv ==
    /\ count = Len(members)
    /\ \A i, j \in 1 .. Len(members) : members[i] = members[j] => i = j
    /\ \A m \in Members : threads[m] \in {"running", "ended"} => Contains(members, m)

\* A wake runs with the first request, and a join only after it.
WakeInv ==
    \A m \in Members :
        /\ woken[m] = IF m \in requested THEN 1 ELSE 0
        /\ threads[m] = "joined" => m \in requested

\* No thread is left when a group stop is over.
ClosedInv ==
    closing /\ caller.at \in {"idle", "stop"} =>
        \A m \in Members : threads[m] \in {"none", "joined"}

\* The walk is at this node of the list, or past its end.
WalkAt(i) == caller.node = IF i = Len(members) + 1 THEN Null ELSE members[i]

\* What the owner's call has done on its way through the list.
StoppingInv == caller.at = "stop" => Contains(members,
    caller.node) /\ caller.node \in requested

WakesInv ==
    caller.at = "wakes" =>
        /\ closing
        /\ \E i \in 1 .. Len(members) + 1 :
              WalkAt(i) /\ \A k \in 1 .. i - 1 : members[k] \in requested

JoinsInv ==
    caller.at = "joins" =>
        /\ closing
        /\ \A k \in 1 .. Len(members) : members[k] \in requested
        /\ \E i \in 1 .. Len(members) + 1 :
              WalkAt(i) /\ \A k \in 1 .. i - 1 : threads[members[k]] = "joined"

GroupInv ==
    /\ GroupTypeOK /\ ListInv /\ WakeInv /\ ClosedInv
    /\ StoppingInv /\ WakesInv /\ JoinsInv

------------------------------------------------------------------------------
(* Facts about the list. *)

\* The list with a member appended that was not in it.
LEMMA AppendFacts ==
  ASSUME NEW s \in Seq(Members), NEW m \in Members, ~ Contains(s, m),
         \A i, j \in 1 .. Len(s) : s[i] = s[j] => i = j,
         NEW q, q = Append(s, m)
  PROVE  /\ q \in Seq(Members) /\ Len(q) = Len(s) + 1
         /\ \A i, j \in 1 .. Len(q) : q[i] = q[j] => i = j
         /\ \A x : Contains(s, x) \/ x = m => Contains(q, x)
<1>1. /\ q \in Seq(Members) /\ Len(q) = Len(s) + 1 /\ Len(s) \in Nat
      /\ \A i \in 1 .. Len(s) : q[i] = s[i] /\ q[i] # m
      /\ q[Len(s) + 1] = m
  BY DEF Contains
<1>2. \A i, j \in 1 .. Len(q) : q[i] = q[j] => i = j
  BY <1>1
<1>3. \A x : Contains(s, x) \/ x = m => Contains(q, x)
  <2>1. \A i \in 1 .. Len(s) : i \in 1 .. Len(q)
    BY <1>1
  <2>2. Len(s) + 1 \in 1 .. Len(q)
    BY <1>1
  <2> QED BY <1>1, <2>1, <2>2 DEF Contains
<1> QED BY <1>1, <1>2, <1>3

\* The list without the member at a place.
LEMMA RemoveFacts ==
  ASSUME NEW s \in Seq(Members), NEW n \in 1 .. Len(s),
         \A i, j \in 1 .. Len(s) : s[i] = s[j] => i = j,
         NEW q, q = RemoveAt(s, n)
  PROVE  /\ q \in Seq(Members) /\ Len(q) = Len(s) - 1
         /\ \A i, j \in 1 .. Len(q) : q[i] = q[j] => i = j
         /\ \A x : Contains(s, x) /\ x # s[n] => Contains(q, x)
<1> DEFINE before == SubSeq(s, 1, n - 1)
           after == SubSeq(s, n + 1, Len(s))
<1>1. /\ q \in Seq(Members) /\ Len(q) = Len(s) - 1 /\ Len(s) \in Nat
      /\ \A i \in 1 .. Len(s) - 1 : q[i] = IF i < n THEN s[i] ELSE s[i + 1]
  <2>1. Len(s) \in Nat /\ \A i \in 1 .. Len(s) : s[i] \in Members
    OBVIOUS
  <2>2. /\ before \in Seq(Members) /\ Len(before) = n - 1
        /\ \A i \in 1 .. n - 1 : before[i] = s[i]
    BY <2>1
  <2>3. /\ after \in Seq(Members) /\ Len(after) = Len(s) - n
        /\ \A i \in 1 .. Len(s) - n : after[i] = s[i + n]
    BY <2>1
  <2>4. q = before \o after
    BY DEF RemoveAt
  <2> HIDE DEF before, after
  <2>5. q \in Seq(Members) /\ Len(q) = Len(s) - 1
    BY <2>1, <2>2, <2>3, <2>4, SMTT(30)
  <2>6. ASSUME NEW i \in 1 .. Len(s) - 1 PROVE q[i] = IF i < n THEN s[i] ELSE s[i + 1]
    <3>1. CASE i < n
      BY <2>1, <2>2, <2>3, <2>4, <3>1
    <3>2. CASE ~ (i < n)
      <4>1. i - (n - 1) \in 1 .. Len(s) - n /\ (i - (n - 1)) + n = i + 1
        BY <2>1, <3>2
      <4>2. q[i] = after[i - (n - 1)]
        BY <2>1, <2>2, <2>3, <2>4, <3>2, SMTT(30)
      <4> QED BY <2>3, <3>2, <4>1, <4>2
    <3> QED BY <3>1, <3>2
  <2> QED BY <2>1, <2>5, <2>6
<1> HIDE DEF before, after
<1>2. \A i, j \in 1 .. Len(q) : q[i] = q[j] => i = j
  <2>1. ASSUME NEW i \in 1 .. Len(q), NEW j \in 1 .. Len(q), q[i] = q[j] PROVE i = j
    <3>1. PICK k \in 1 .. Len(s) : k = (IF i < n THEN i ELSE i + 1) /\ q[i] = s[k]
      BY <1>1
    <3>2. PICK h \in 1 .. Len(s) : h = (IF j < n THEN j ELSE j + 1) /\ q[j] = s[h]
      BY <1>1
    <3>3. k = h
      BY <2>1, <3>1, <3>2
    <3> QED BY <1>1, <3>1, <3>2, <3>3
  <2> QED BY <2>1
<1>3. ASSUME NEW x, Contains(s, x), x # s[n] PROVE Contains(q, x)
  <2>1. PICK i \in 1 .. Len(s) : s[i] = x
    BY <1>3 DEF Contains
  <2>2. CASE i < n
    <3>1. i \in 1 .. Len(q) /\ q[i] = x
      BY <1>1, <2>1, <2>2
    <3> QED BY <3>1 DEF Contains
  <2>3. CASE i > n
    <3>1. i - 1 \in 1 .. Len(q) /\ q[i - 1] = x
      BY <1>1, <2>1, <2>3
    <3> QED BY <3>1 DEF Contains
  <2> QED BY <1>3, <2>1, <2>2, <2>3
<1> QED BY <1>1, <1>2, <1>3

\* A walk that goes on from a node comes to the place behind it.
LEMMA WalkFacts ==
  ASSUME GroupTypeOK, ListInv, NEW i \in 1 .. Len(members) + 1, WalkAt(i), caller.node # Null
  PROVE  /\ i \in 1 .. Len(members) /\ caller.node = members[i] /\ caller.node \in Members
         /\ i + 1 \in 1 .. Len(members) + 1
         /\ NextOf(caller.node) = IF i + 1 = Len(members) + 1 THEN Null ELSE members[i + 1]
         /\ NextOf(caller.node) \in Members \cup {Null}
<1>1. Len(members) \in Nat /\ DOMAIN members = 1 .. Len(members) /\ members \in Seq(Members)
  BY DEF GroupTypeOK
<1>2. i \in 1 .. Len(members) /\ caller.node = members[i] /\ caller.node \in Members
  BY <1>1 DEF WalkAt
<1>3. Index(caller.node) = i
  BY <1>1, <1>2 DEF Index, ListInv
<1>4. CASE i = Len(members)
  <2>1. NextOf(caller.node) = Null
    BY <1>3, <1>4 DEF NextOf
  <2> QED BY <1>1, <1>2, <1>4, <2>1
<1>5. CASE i # Len(members)
  <2>1. NextOf(caller.node) = members[i + 1]
    BY <1>3, <1>5 DEF NextOf
  <2>2. i + 1 \in 1 .. Len(members)
    <3>1. Len(members) \in Nat /\ i \in 1 .. Len(members)
      BY <1>1, <1>2
    <3> QED BY <1>5, <3>1
  <2>3. members[i + 1] \in Members
    BY <1>1, <2>2
  <2> QED BY <1>1, <1>2, <2>1, <2>2, <2>3
<1> QED BY <1>4, <1>5

\* The first node of the list, where a walk begins.
LEMMA FirstFacts ==
  ASSUME GroupTypeOK
  PROVE  /\ 1 \in 1 .. Len(members) + 1
         /\ First = IF 1 = Len(members) + 1 THEN Null ELSE members[1]
         /\ First \in Members \cup {Null}
BY DEF GroupTypeOK, First

------------------------------------------------------------------------------
(* The steps. *)

LEMMA GroupInitHolds == GroupInit => GroupInv
<1> SUFFICES ASSUME GroupInit PROVE GroupInv
  OBVIOUS
<1>1. GroupTypeOK
  <2>1. <<>> \in Seq(Members) /\ 0 \in Nat /\ waits \in [Members -> SUBSET Members]
    BY DEF GroupInit
  <2> QED BY <2>1, ZenonT(30) DEF GroupInit, GroupTypeOK, NoCall, Calling
<1>2. ListInv /\ WakeInv /\ ClosedInv /\ StoppingInv /\ WakesInv /\ JoinsInv
  BY DEF GroupInit, ListInv, WakeInv, ClosedInv, StoppingInv, WakesInv, JoinsInv,
         NoCall, Calling
<1> QED BY <1>1, <1>2 DEF GroupInv

LEMMA RunReturnsKeeps ==
  ASSUME GroupInv, NEW m \in Members, RunReturns(m)
  PROVE  GroupInv'
<1>1. /\ threads[m] = "running" /\ threads' = [threads EXCEPT ![m] = "ended"]
      /\ UNCHANGED <<members, count, closing, waits, requested, woken, caller>>
  BY DEF RunReturns, list, env
<1>2. \A x \in Members : threads'[x] = IF x = m THEN "ended" ELSE threads[x]
  BY <1>1 DEF GroupInv, GroupTypeOK
<1>3. GroupTypeOK'
  BY <1>1 DEF GroupInv, GroupTypeOK
<1>4. ListInv' /\ WakeInv' /\ ClosedInv'
  BY <1>1, <1>2 DEF GroupInv, GroupTypeOK, ListInv, WakeInv, ClosedInv
<1>5. StoppingInv' /\ WakesInv'
  BY <1>1 DEF GroupInv, StoppingInv, WakesInv, WalkAt
<1>6. JoinsInv'
  <2> SUFFICES ASSUME caller.at = "joins" PROVE JoinsInv'
    BY <1>1 DEF JoinsInv
  <2>1. PICK i \in 1 .. Len(members) + 1 :
          WalkAt(i) /\ \A k \in 1 .. i - 1 : threads[members[k]] = "joined"
    BY DEF GroupInv, JoinsInv
  <2>2. \A k \in 1 .. i - 1 : members[k] \in Members /\ members[k] # m
    BY <1>1, <2>1 DEF GroupInv, GroupTypeOK
  <2>3. \A k \in 1 .. i - 1 : threads'[members[k]] = "joined"
    BY <1>2, <2>1, <2>2
  <2> QED BY <1>1, <2>1, <2>3 DEF GroupInv, JoinsInv, WalkAt
<1> QED BY <1>3, <1>4, <1>5, <1>6 DEF GroupInv

LEMMA TryStartKeeps ==
  ASSUME GroupInv, NEW m \in Members, TryStart(m)
  PROVE  GroupInv'
<1>1. /\ caller.at = "idle" /\ ~ closing /\ ~ Contains(members, m)
      /\ members' = Append(members, m) /\ count' = count + 1
      /\ requested' = requested \ {m} /\ woken' = [woken EXCEPT ![m] = 0]
      /\ threads' = [threads EXCEPT ![m] = "running"]
      /\ UNCHANGED <<closing, waits, caller>>
  BY DEF TryStart, Idle, env
<1>2. \A x \in Members : /\ threads'[x] = IF x = m THEN "running" ELSE threads[x]
                         /\ woken'[x] = IF x = m THEN 0 ELSE woken[x]
  BY <1>1 DEF GroupInv, GroupTypeOK
<1>3. /\ members' \in Seq(Members) /\ Len(members') = Len(members) + 1
      /\ \A i, j \in 1 .. Len(members') : members'[i] = members'[j] => i = j
      /\ \A x : Contains(members, x) \/ x = m => Contains(members', x)
  <2>1. /\ members \in Seq(Members)
        /\ \A i, j \in 1 .. Len(members) : members[i] = members[j] => i = j
    BY DEF GroupInv, GroupTypeOK, ListInv
  <2> QED BY <1>1, <2>1, AppendFacts, ZenonT(30)
<1>4. GroupTypeOK'
  BY <1>1, <1>3 DEF GroupInv, GroupTypeOK
<1>5. ListInv'
  BY <1>1, <1>2, <1>3 DEF GroupInv, ListInv
<1>6. WakeInv'
  BY <1>1, <1>2 DEF GroupInv, WakeInv
<1>7. (ClosedInv /\ StoppingInv /\ WakesInv /\ JoinsInv)'
  BY <1>1 DEF ClosedInv, StoppingInv, WakesInv, JoinsInv
<1> QED BY <1>4, <1>5, <1>6, <1>7 DEF GroupInv

\* A request wakes a thread that was not woken.
LEMMA RequestStopFacts ==
  ASSUME GroupInv, NEW m \in Members, RequestStop(m), UNCHANGED threads
  PROVE  /\ WakeInv' /\ requested' = requested \cup {m}
         /\ requested' \subseteq Members /\ woken' \in [Members -> Nat]
<1>1. /\ requested' = requested \cup {m}
      /\ woken' = [woken EXCEPT ![m] = IF m \in requested THEN @ ELSE @ + 1]
  BY DEF RequestStop
<1>2. \A x \in Members :
        woken'[x] = IF x = m /\ m \notin requested THEN woken[x] + 1 ELSE woken[x]
  BY <1>1 DEF GroupInv, GroupTypeOK
<1>3. WakeInv'
  BY <1>1, <1>2 DEF GroupInv, WakeInv
<1> QED BY <1>1, <1>3 DEF GroupInv, GroupTypeOK

LEMMA StopKeeps ==
  ASSUME GroupInv, NEW m \in Members, Stop(m)
  PROVE  GroupInv'
<1>1. /\ caller.at = "idle" /\ Contains(members, m) /\ RequestStop(m)
      /\ caller' = [call |-> "stop", at |-> "stop", node |-> m]
      /\ UNCHANGED <<members, count, closing, waits, threads>>
  BY DEF Stop, Idle, Calling, list, env
<1>2. /\ WakeInv' /\ requested' = requested \cup {m}
      /\ requested' \subseteq Members /\ woken' \in [Members -> Nat]
  BY <1>1, RequestStopFacts
<1>3. GroupTypeOK'
  BY <1>1, <1>2 DEF GroupInv, GroupTypeOK
<1>4. (ListInv /\ ClosedInv)'
  BY <1>1 DEF GroupInv, ListInv, ClosedInv
<1>5. (StoppingInv /\ WakesInv /\ JoinsInv)'
  BY <1>1, <1>2 DEF StoppingInv, WakesInv, JoinsInv
<1> QED BY <1>2, <1>3, <1>4, <1>5 DEF GroupInv

LEMMA StopJoinedKeeps ==
  ASSUME GroupInv, StopJoined
  PROVE  GroupInv'
<1> DEFINE m == caller.node
           n == Index(m)
<1>1. /\ caller.at = "stop" /\ threads' = [threads EXCEPT ![m] = "joined"]
      /\ members' = RemoveAt(members, n) /\ count' = count - 1
      /\ caller' = [call |-> "none", at |-> "idle", node |-> Null]
      /\ UNCHANGED <<closing, waits, requested, woken>>
  BY DEF StopJoined, Joined, Return, NoCall, Calling, env
<1>2. Contains(members, m) /\ m \in requested /\ m \in Members
  BY <1>1 DEF GroupInv, GroupTypeOK, StoppingInv
<1>3. n \in 1 .. Len(members) /\ members[n] = m
  BY <1>2 DEF GroupInv, GroupTypeOK, Contains, Index
<1> HIDE DEF m, n
<1>4. \A x \in Members : threads'[x] = IF x = m THEN "joined" ELSE threads[x]
  BY <1>1 DEF GroupInv, GroupTypeOK
<1>5. /\ members' \in Seq(Members) /\ Len(members') = Len(members) - 1
      /\ \A i, j \in 1 .. Len(members') : members'[i] = members'[j] => i = j
      /\ \A x : Contains(members, x) /\ x # m => Contains(members', x)
  <2>1. /\ members \in Seq(Members)
        /\ \A i, j \in 1 .. Len(members) : members[i] = members[j] => i = j
    BY DEF GroupInv, GroupTypeOK, ListInv
  <2> QED BY <1>1, <1>3, <2>1, RemoveFacts
<1>6. Len(members) \in Nat /\ Len(members) >= 1 /\ count = Len(members)
  BY <1>3 DEF GroupInv, GroupTypeOK, ListInv
<1>7. GroupTypeOK'
  BY <1>1, <1>2, <1>5, <1>6 DEF GroupInv, GroupTypeOK
<1>8. ListInv'
  BY <1>1, <1>4, <1>5, <1>6 DEF GroupInv, GroupTypeOK, ListInv
<1>9. WakeInv' /\ ClosedInv'
  BY <1>1, <1>2, <1>4 DEF GroupInv, WakeInv, ClosedInv
<1>10. (StoppingInv /\ WakesInv /\ JoinsInv)'
  BY <1>1 DEF StoppingInv, WakesInv, JoinsInv
<1> QED BY <1>7, <1>8, <1>9, <1>10 DEF GroupInv

LEMMA StopJoinFailsKeeps ==
  ASSUME GroupInv, StopJoinFails
  PROVE  GroupInv'
<1>1. /\ caller.at = "stop"
      /\ caller' = [call |-> "none", at |-> "idle", node |-> Null]
      /\ UNCHANGED <<members, count, closing, waits, requested, woken, threads>>
  BY DEF StopJoinFails, Return, NoCall, Calling, list, env
<1> QED BY <1>1 DEF GroupInv, GroupTypeOK, ListInv, WakeInv, ClosedInv, StoppingInv, WakesInv,
                    JoinsInv

LEMMA StopAllKeeps ==
  ASSUME GroupInv, NEW call \in {"stop_all", "deinit"}, StopAll(call)
  PROVE  GroupInv'
<1>1. /\ caller.at = "idle" /\ closing' = TRUE
      /\ caller' = [call |-> call, at |-> "wakes", node |-> First]
      /\ UNCHANGED <<members, count, waits, requested, woken, threads>>
  BY DEF StopAll, Idle, Calling, list
<1>2. GroupTypeOK'
  BY <1>1, FirstFacts DEF GroupInv, GroupTypeOK
<1>3. (ListInv /\ WakeInv /\ ClosedInv /\ StoppingInv /\ JoinsInv)'
  BY <1>1 DEF GroupInv, ListInv, WakeInv, ClosedInv, StoppingInv, JoinsInv
<1>4. WakesInv'
  <2>1. 1 \in 1 .. Len(members') + 1 /\ WalkAt(1)'
    BY <1>1, FirstFacts DEF GroupInv, WalkAt
  <2>2. \A k \in 1 .. 1 - 1 : members'[k] \in requested'
    OBVIOUS
  <2> QED BY <1>1, <2>1, <2>2 DEF WakesInv
<1> QED BY <1>2, <1>3, <1>4 DEF GroupInv

LEMMA WakeEachKeeps ==
  ASSUME GroupInv, WakeEach
  PROVE  GroupInv'
<1>1. /\ caller.at = "wakes" /\ caller.node # Null /\ RequestStop(caller.node)
      /\ caller' = [call |-> caller.call, at |-> "wakes", node |-> NextOf(caller.node)]
      /\ UNCHANGED <<members, count, closing, waits, threads>>
  BY DEF WakeEach, GoTo, Calling, list, env
<1>2. PICK i \in 1 .. Len(members) + 1 :
        WalkAt(i) /\ \A k \in 1 .. i - 1 : members[k] \in requested
  BY <1>1 DEF GroupInv, WakesInv
<1>3. /\ i \in 1 .. Len(members) /\ caller.node = members[i] /\ caller.node \in Members
      /\ i + 1 \in 1 .. Len(members) + 1
      /\ NextOf(caller.node) = IF i + 1 = Len(members) + 1 THEN Null ELSE members[i + 1]
      /\ NextOf(caller.node) \in Members \cup {Null}
  BY <1>1, <1>2, WalkFacts DEF GroupInv
<1>4. /\ WakeInv' /\ requested' = requested \cup {caller.node}
      /\ requested' \subseteq Members /\ woken' \in [Members -> Nat]
  BY <1>1, <1>3, RequestStopFacts
<1>5. GroupTypeOK'
  BY <1>1, <1>3, <1>4 DEF GroupInv, GroupTypeOK
<1>6. (ListInv /\ ClosedInv /\ StoppingInv /\ JoinsInv)'
  BY <1>1 DEF GroupInv, ListInv, ClosedInv, StoppingInv, JoinsInv
<1>7. WakesInv'
  <2>1. WalkAt(i + 1)' /\ i + 1 \in 1 .. Len(members') + 1
    BY <1>1, <1>3 DEF WalkAt
  <2>2. \A k \in 1 .. (i + 1) - 1 : members'[k] \in requested'
    BY <1>1, <1>2, <1>3, <1>4
  <2>3. closing'
    BY <1>1 DEF GroupInv, WakesInv
  <2> QED BY <2>1, <2>2, <2>3 DEF WakesInv
<1> QED BY <1>4, <1>5, <1>6, <1>7 DEF GroupInv

LEMMA AllWokenKeeps ==
  ASSUME GroupInv, AllWoken
  PROVE  GroupInv'
<1>1. /\ caller.at = "wakes" /\ caller.node = Null
      /\ caller' = [call |-> caller.call, at |-> "joins", node |-> First]
      /\ UNCHANGED <<members, count, closing, waits, requested, woken, threads>>
  BY DEF AllWoken, GoTo, Calling, list, env
<1>2. PICK i \in 1 .. Len(members) + 1 :
        WalkAt(i) /\ \A k \in 1 .. i - 1 : members[k] \in requested
  BY <1>1 DEF GroupInv, WakesInv
<1>3. i = Len(members) + 1
  BY <1>1, <1>2, ThreadGroupAssumption DEF GroupInv, GroupTypeOK, WalkAt
<1>4. GroupTypeOK'
  BY <1>1, FirstFacts DEF GroupInv, GroupTypeOK
<1>5. (ListInv /\ WakeInv /\ ClosedInv /\ StoppingInv /\ WakesInv)'
  BY <1>1 DEF GroupInv, ListInv, WakeInv, ClosedInv, StoppingInv, WakesInv
<1>6. JoinsInv'
  <2>1. 1 \in 1 .. Len(members') + 1 /\ WalkAt(1)'
    BY <1>1, FirstFacts DEF GroupInv, WalkAt
  <2>2. \A k \in 1 .. 1 - 1 : threads'[members'[k]] = "joined"
    OBVIOUS
  <2>3. closing' /\ \A k \in 1 .. Len(members') : members'[k] \in requested'
    BY <1>1, <1>2, <1>3 DEF GroupInv, GroupTypeOK, WakesInv
  <2> QED BY <2>1, <2>2, <2>3 DEF JoinsInv
<1> QED BY <1>4, <1>5, <1>6 DEF GroupInv

LEMMA JoinEachKeeps ==
  ASSUME GroupInv, JoinEach
  PROVE  GroupInv'
<1>1. /\ caller.at = "joins" /\ caller.node # Null
      /\ threads' = [threads EXCEPT ![caller.node] = "joined"]
      /\ caller' = [call |-> caller.call, at |-> "joins", node |-> NextOf(caller.node)]
      /\ UNCHANGED <<members, count, closing, waits, requested, woken>>
  BY DEF JoinEach, Joined, GoTo, Calling, list, env
<1>2. PICK i \in 1 .. Len(members) + 1 :
        WalkAt(i) /\ \A k \in 1 .. i - 1 : threads[members[k]] = "joined"
  BY <1>1 DEF GroupInv, JoinsInv
<1>3. /\ i \in 1 .. Len(members) /\ caller.node = members[i] /\ caller.node \in Members
      /\ i + 1 \in 1 .. Len(members) + 1
      /\ NextOf(caller.node) = IF i + 1 = Len(members) + 1 THEN Null ELSE members[i + 1]
      /\ NextOf(caller.node) \in Members \cup {Null}
  BY <1>1, <1>2, WalkFacts DEF GroupInv
<1>4. \A x \in Members : threads'[x] = IF x = caller.node THEN "joined" ELSE threads[x]
  BY <1>1 DEF GroupInv, GroupTypeOK
<1>5. closing /\ \A k \in 1 .. Len(members) : members[k] \in requested
  BY <1>1 DEF GroupInv, JoinsInv
<1>6. GroupTypeOK'
  BY <1>1, <1>3 DEF GroupInv, GroupTypeOK
<1>7. ListInv' /\ WakeInv'
  BY <1>1, <1>3, <1>4, <1>5 DEF GroupInv, ListInv, WakeInv
<1>8. (ClosedInv /\ StoppingInv /\ WakesInv)'
  BY <1>1 DEF ClosedInv, StoppingInv, WakesInv
<1>9. JoinsInv'
  <2>1. WalkAt(i + 1)' /\ i + 1 \in 1 .. Len(members') + 1
    BY <1>1, <1>3 DEF WalkAt
  <2>2. \A k \in 1 .. i : members[k] \in Members
    BY <1>3 DEF GroupInv, GroupTypeOK
  <2>3. \A k \in 1 .. (i + 1) - 1 : threads'[members'[k]] = "joined"
    BY <1>1, <1>2, <1>3, <1>4, <2>2
  <2> QED BY <1>1, <1>5, <2>1, <2>3 DEF JoinsInv
<1> QED BY <1>6, <1>7, <1>8, <1>9 DEF GroupInv

LEMMA JoinTerminatesKeeps ==
  ASSUME GroupInv, JoinTerminates
  PROVE  GroupInv'
<1>1. /\ caller' = [call |-> caller.call, at |-> "terminated", node |-> Null]
      /\ UNCHANGED <<members, count, closing, waits, requested, woken, threads>>
  BY DEF JoinTerminates, GoTo, Calling, list, env
<1> QED BY <1>1 DEF GroupInv, GroupTypeOK, ListInv, WakeInv, ClosedInv, StoppingInv, WakesInv,
                    JoinsInv

LEMMA AllJoinedKeeps ==
  ASSUME GroupInv, AllJoined
  PROVE  GroupInv'
<1>1. /\ caller.at = "joins" /\ caller.node = Null
      /\ \/ members' = <<>> /\ count' = 0
         \/ UNCHANGED <<members, count>>
      /\ caller' = [call |-> "none", at |-> "idle", node |-> Null]
      /\ UNCHANGED <<closing, waits, requested, woken, threads>>
  BY DEF AllJoined, Return, NoCall, Calling, list, env
<1>2. PICK i \in 1 .. Len(members) + 1 :
        WalkAt(i) /\ \A k \in 1 .. i - 1 : threads[members[k]] = "joined"
  BY <1>1 DEF GroupInv, JoinsInv
<1>3. i = Len(members) + 1
  BY <1>1, <1>2, ThreadGroupAssumption DEF GroupInv, GroupTypeOK, WalkAt
<1>4. \A x \in Members : Contains(members, x) => threads[x] = "joined"
  BY <1>2, <1>3 DEF GroupInv, GroupTypeOK, Contains
<1>5. \A x \in Members : threads[x] \in {"none", "joined"}
  BY <1>4 DEF GroupInv, GroupTypeOK, ListInv
<1>6. GroupTypeOK'
  <2>1. <<>> \in Seq(Members) /\ 0 \in Nat
    OBVIOUS
  <2>2. members' \in Seq(Members) /\ count' \in Nat
    BY <1>1, <2>1 DEF GroupInv, GroupTypeOK
  <2> QED BY <1>1, <2>2 DEF GroupInv, GroupTypeOK
<1>7. ListInv'
  <2>1. CASE members' = <<>> /\ count' = 0
    BY <1>1, <1>5, <2>1 DEF ListInv
  <2>2. CASE UNCHANGED <<members, count>>
    BY <1>1, <2>2 DEF GroupInv, ListInv
  <2> QED BY <1>1, <2>1, <2>2
<1>8. WakeInv' /\ ClosedInv'
  BY <1>1, <1>5 DEF GroupInv, WakeInv, ClosedInv
<1>9. (StoppingInv /\ WakesInv /\ JoinsInv)'
  BY <1>1 DEF StoppingInv, WakesInv, JoinsInv
<1> QED BY <1>6, <1>7, <1>8, <1>9 DEF GroupInv

LEMMA InitAgainKeeps ==
  ASSUME GroupInv, InitAgain
  PROVE  GroupInv'
<1>1. /\ caller.at = "idle" /\ closing' = FALSE
      /\ UNCHANGED <<members, count, waits, requested, woken, threads, caller>>
  BY DEF InitAgain, Idle, list
<1> QED BY <1>1 DEF GroupInv, GroupTypeOK, ListInv, WakeInv, ClosedInv, StoppingInv, WakesInv,
                    JoinsInv

LEMMA GroupStutterKeeps ==
  ASSUME GroupInv, UNCHANGED groupVars
  PROVE  GroupInv'
BY DEF GroupInv, groupVars, GroupTypeOK, ListInv, WakeInv, ClosedInv, StoppingInv, WakesInv,
       JoinsInv, WalkAt

LEMMA GroupNextKeeps ==
  ASSUME GroupInv, [GroupNext]_groupVars
  PROVE  GroupInv'
<1>1. CASE \E m \in Members : RunReturns(m) \/ TryStart(m) \/ Stop(m)
  BY <1>1, RunReturnsKeeps, TryStartKeeps, StopKeeps
<1>2. CASE StopAll("stop_all") \/ StopAll("deinit")
  BY <1>2, StopAllKeeps
<1>3. CASE OwnerGoesOn
  BY <1>3, StopJoinedKeeps, WakeEachKeeps, AllWokenKeeps, JoinEachKeeps, AllJoinedKeeps
  DEF OwnerGoesOn
<1>4. CASE StopJoinFails \/ JoinTerminates \/ InitAgain
  BY <1>4, StopJoinFailsKeeps, JoinTerminatesKeeps, InitAgainKeeps
<1>5. CASE Ended \/ UNCHANGED groupVars
  BY <1>5, GroupStutterKeeps DEF Ended
<1> QED BY <1>1, <1>2, <1>3, <1>4, <1>5 DEF GroupNext

------------------------------------------------------------------------------
(* The theorems. *)

\* The owner's calls and the members' threads keep the inductive invariant,
\* whatever joins fail and whoever waits for whom.
THEOREM GroupInvariant == GroupSpec => []GroupInv
<1>1. GroupInit => GroupInv
  BY GroupInitHolds
<1>2. GroupInv /\ [GroupNext]_groupVars => GroupInv'
  BY GroupNextKeeps
<1> QED BY <1>1, <1>2, PTL DEF GroupSpec

\* No member of a thread group is freed under its thread, the group counts what
\* it holds, a group stop leaves no thread, and each thread is woken once and
\* before it is joined.
THEOREM GroupMembersSound == GroupSpec => []MembersSound
<1>1. GroupInv => NoThreadOutlivesItsMember
  <2> SUFFICES ASSUME GroupInv PROVE NoThreadOutlivesItsMember
    OBVIOUS
  <2>1. IsInjective(members)
    BY DEF GroupInv, GroupTypeOK, ListInv, IsInjective
  <2> QED BY <2>1 DEF GroupInv, ListInv, ClosedInv, NoThreadOutlivesItsMember, Idle
<1>2. GroupInv => WokenOnce
  BY DEF GroupInv, WakeInv, WokenOnce
<1>3. GroupInv => MembersSound
  BY <1>1, <1>2 DEF GroupInv, MembersSound
<1> QED BY <1>3, GroupInvariant, PTL
=============================================================================
