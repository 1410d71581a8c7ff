----------------------------- MODULE TimerPromises -----------------------------
(***************************************************************************)
(* What the headers of the timers promise without reserve (timer.h and     *)
(* timer/group.h), beside TimerGroup, which says what the code does.  The  *)
(* steps are TimerGroup's; the variables added here are history.           *)
(***************************************************************************)
EXTENDS TimerGroup

VARIABLES
    unfired,     \* history: the timers started that have not fired since
    restarted    \* history: the callback under way has restarted its own timer

promiseVars == <<vars, unfired, restarted>>

PromiseInit == Init /\ unfired = {} /\ restarted = FALSE

\* The host or a callback starts a timer.
Starts(t) ==
    /\ \E period \in Periods, repeat \in BOOLEAN, priority \in Priorities :
          Start(t, period, repeat, priority)
    /\ unfired' = unfired \cup {t}
    /\ restarted' = (restarted \/ (InCallback /\ t = walk.node))

Fires == Fire /\ unfired' = unfired \ {walk.node} /\ restarted' = FALSE

\* A callback stops or pauses the timer it has restarted: it stands no more.
TakesBack(t) ==
    /\ Stop(t) \/ Pause(t)
    /\ unfired' = unfired \ {t}
    /\ restarted' = (restarted /\ t # walk.node)

Others ==
    /\ \/ \E t \in Timers : Resume(t) \/ \E priority \in Priorities : SetPriority(t, priority)
       \/ GroupDeinit \/ HandlerBegin \/ WalkPast \/ CallbackEnd \/ HandlerEnd \/ Tick
    /\ UNCHANGED <<unfired, restarted>>

PromiseNext == Fires \/ Others \/ \E t \in Timers : Starts(t) \/ TakesBack(t)

PromiseSpec == PromiseInit /\ [][PromiseNext]_promiseVars

------------------------------------------------------------------------------
(* Properties. *)

\* "@p now is the current tick (first fire after @p period)" (timer.h:176): a
\* timer that was started does not fire before its period has passed.
FirstFireAfterPeriod ==
    [][walk.at = "walk" /\ walk'.at = "callback" /\ walk.node \in unfired
          => age[walk.node] >= timer[walk.node].period]_promiseVars

\* "Safe to stop or restart a timer from its callback" (timer/group.h:59): a timer
\* that its own callback restarted still runs when the callback has returned.
RestartKept ==
    [][walk.at = "callback" /\ walk'.at = "walk" /\ restarted
          => Contains(list', walk.node)]_promiseVars
==============================================================================
