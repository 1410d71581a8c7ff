------------------------------ MODULE TimerGroup ------------------------------
(***************************************************************************)
(* lh_timer_group_t and its timers (src/lh/core/timer.c): a list of        *)
(* running timers by priority, walked by the handler with a saved next,    *)
(* whose callbacks change the list while it is walked.  One thread; ticks  *)
(* wrap at 2^32 in the code and at Modulus here.                           *)
(*                                                                         *)
(* A callback may stop, restart, pause, resume or re-prioritise its own    *)
(* timer ("Safe to stop or restart a timer from its callback") and start a *)
(* timer that is not running.  Time goes on in a walk: a callback passes   *)
(* the tick the handler was given or the current one, and a timer whose    *)
(* tick is later than the walk's is in walk.fresh.                         *)
(***************************************************************************)
EXTENDS Naturals, Sequences, SequencesExt, FiniteSetsExt

CONSTANTS Timers,       \* the timers
          Null,         \* no timer
          Periods,      \* periods they are started with
          Priorities,   \* priorities they are given
          Modulus       \* the range of ticks

ASSUME TimerAssumption ==
    /\ Null \notin Timers
    /\ Modulus \in Nat \ {0}
    /\ Periods \subseteq 1 .. Modulus - 1
    /\ Priorities \subseteq Nat

VARIABLES
    clock,    \* the current tick
    list,     \* the running timers, as the list links them
    timer,    \* the fields of every timer
    walk,     \* the handler: where it is, the tick it was given, node and next
    age,      \* history: ticks a timer that counts has since it fired, started or resumed
    due,      \* history: the timers that were due when the walk began
    fired,    \* history: the timers the walk has fired
    shot      \* history: the last firing, as it was

vars == <<clock, list, timer, walk, age, due, fired, shot>>

------------------------------------------------------------------------------

TickMax == Modulus - 1

Minus(a, b) == (a + Modulus - b) % Modulus

IsRunning(t) == Contains(list, t)

\* lh_timer_init.
Cleared == [period |-> 0, last |-> 0, priority |-> 0, repeat |-> FALSE, paused |-> FALSE]

NoWalk == [at |-> "idle", now |-> 0, node |-> Null, next |-> Null, fresh |-> {}]

NoShot == [priority |-> 0, early |-> FALSE, again |-> FALSE, late |-> FALSE, fresh |-> FALSE]

Init ==
    /\ clock = 0
    /\ list = <<>>
    /\ timer = [t \in Timers |-> Cleared]
    /\ walk = NoWalk
    /\ age = [t \in Timers |-> 0]
    /\ due = {}
    /\ fired = {}
    /\ shot = NoShot

------------------------------------------------------------------------------
(* The list. *)

Unlinked(l, t) == RemoveFirst(l, t)

\* lh_list_get_first and lh_list_get_next.
First(l) == IF l = <<>> THEN Null ELSE Head(l)

NextOf(l, t) ==
    LET i == SelectInSeq(l, LAMBDA u : u = t)
    IN  IF i = Len(l) THEN Null ELSE l[i + 1]

\* lh_list_insert_sorted with lh_timer_cmp_priority: before the first timer of a
\* lower priority.
Inserted(l, priority, t) ==
    LET i == SelectInSeq(l, LAMBDA u : priority[t] > priority[u])
    IN  IF i = 0 THEN Append(l, t) ELSE InsertAt(l, i, t)

PriorityOf(fields) == [t \in Timers |-> fields[t].priority]

------------------------------------------------------------------------------
(* Operations on one timer, and who may call them. *)

\* The host between two walks, or a callback of the walk.
Outside == walk.at = "idle"
InCallback == walk.at = "callback"

Ticks == IF InCallback THEN {walk.now, clock} ELSE {clock}

\* The host may act on every timer, a callback on its own.
MayTouch(t) == Outside \/ (InCallback /\ walk.node = t)

MayStart(t) == MayTouch(t) \/ (InCallback /\ ~ IsRunning(t))

\* The timer has a tick that the walk under way has not reached, or not.
Note(t, now) ==
    walk' = [walk EXCEPT !.fresh = IF InCallback /\ now # walk.now THEN @ \cup {t} ELSE @ \ {t}]

\* lh_timer_stop.
Stop(t) ==
    /\ MayTouch(t)
    /\ list' = Unlinked(list, t)
    /\ timer' = [timer EXCEPT ![t].paused = FALSE]
    /\ age' = [age EXCEPT ![t] = 0]
    /\ UNCHANGED <<clock, walk, due, fired, shot>>

\* lh_timer_start: a stop, the fields, and the timer's place in the list.
Start(t, period, repeat, priority) ==
    /\ MayStart(t)
    /\ \E now \in Ticks :
          /\ timer' = [timer EXCEPT ![t] = [period |-> period, last |-> now,
                                            priority |-> priority, repeat |-> repeat,
                                            paused |-> FALSE]]
          /\ age' = [age EXCEPT ![t] = Minus(clock, now)]
          /\ Note(t, now)
    /\ list' = Inserted(Unlinked(list, t), PriorityOf(timer'), t)
    /\ UNCHANGED <<clock, due, fired, shot>>

\* lh_timer_pause.
Pause(t) ==
    /\ MayTouch(t)
    /\ IsRunning(t)
    /\ timer' = [timer EXCEPT ![t].paused = TRUE]
    /\ age' = [age EXCEPT ![t] = 0]
    /\ UNCHANGED <<clock, list, walk, due, fired, shot>>

Resumed(t, now) == [timer EXCEPT ![t].paused = FALSE, ![t].last = now]

\* lh_timer_resume.
Resume(t) ==
    /\ MayTouch(t)
    /\ IsRunning(t)
    /\ \E now \in Ticks :
          /\ timer' = Resumed(t, now)
          /\ age' = [age EXCEPT ![t] = Minus(clock, now)]
          /\ Note(t, now)
    /\ UNCHANGED <<clock, list, due, fired, shot>>

\* lh_timer_group_set_priority: a running timer is linked anew.
SetPriority(t, priority) ==
    /\ MayTouch(t)
    /\ timer[t].priority # priority
    /\ timer' = [timer EXCEPT ![t].priority = priority]
    /\ list' = IF IsRunning(t) THEN Inserted(Unlinked(list, t), PriorityOf(timer'), t) ELSE list
    /\ UNCHANGED <<clock, walk, age, due, fired, shot>>

\* lh_timer_group_deinit: every timer is unlinked.
GroupDeinit ==
    /\ Outside
    /\ list' = <<>>
    /\ age' = [t \in Timers |-> 0]
    /\ UNCHANGED <<clock, timer, walk, due, fired, shot>>

------------------------------------------------------------------------------
(* lh_timer_group_handler. *)

IsDue(t, now) == ~ timer[t].paused /\ Minus(now, timer[t].last) >= timer[t].period

HandlerBegin ==
    /\ Outside
    /\ walk' = [NoWalk EXCEPT !.at = "walk", !.now = clock, !.node = First(list)]
    /\ due' = {t \in Timers : IsRunning(t) /\ ~ timer[t].paused /\ age[t] >= timer[t].period}
    /\ fired' = {}
    /\ shot' = NoShot
    /\ UNCHANGED <<clock, list, timer, age>>

\* A timer that is paused or not due.
WalkPast ==
    /\ walk.at = "walk"
    /\ walk.node # Null
    /\ ~ IsDue(walk.node, walk.now)
    /\ walk' = [walk EXCEPT !.node = NextOf(list, walk.node)]
    /\ UNCHANGED <<clock, list, timer, age, due, fired, shot>>

\* Mutant: the firing is not noted in the timer.
StampedNot(t, now) == timer

Stamped(t, now) == [timer EXCEPT ![t].last = now]

\* A due timer: its last firing is now, next is saved, its callback begins.
Fire ==
    /\ walk.at = "walk"
    /\ walk.node # Null
    /\ IsDue(walk.node, walk.now)
    /\ LET t == walk.node
       IN  /\ walk' = [walk EXCEPT !.at = "callback", !.next = NextOf(list, t),
                                   !.fresh = @ \ {t}]
           /\ timer' = Stamped(t, walk.now)
           /\ age' = [age EXCEPT ![t] = Minus(clock, walk.now)]
           /\ fired' = fired \cup {t}
           /\ shot' = [priority |-> timer[t].priority,
                       early |-> age[t] < timer[t].period,
                       again |-> t \in fired \/ t \notin due,
                       late |-> fired # {} /\ timer[t].priority > shot.priority,
                       fresh |-> t \in walk.fresh]
    /\ UNCHANGED <<clock, list, due>>

\* The callback returns; a one-shot timer that is linked is stopped; on to next.
CallbackEnd ==
    /\ InCallback
    /\ LET once == ~ timer[walk.node].repeat /\ IsRunning(walk.node)
       IN  /\ list' = IF once THEN Unlinked(list, walk.node) ELSE list
           /\ timer' = IF once THEN [timer EXCEPT ![walk.node].paused = FALSE] ELSE timer
           /\ age' = IF once THEN [age EXCEPT ![walk.node] = 0] ELSE age
    /\ walk' = [walk EXCEPT !.at = "walk", !.node = walk.next, !.next = Null]
    /\ UNCHANGED <<clock, due, fired, shot>>

HandlerEnd ==
    /\ walk.at = "walk"
    /\ walk.node = Null
    /\ walk' = NoWalk
    /\ due' = {}
    /\ fired' = {}
    /\ shot' = NoShot
    /\ UNCHANGED <<clock, list, timer, age>>

\* A timer is handled long before its age would wrap.
TickBound == \A t \in Timers : IsRunning(t) /\ ~ timer[t].paused => age[t] < TickMax

\* A walk is over before the ticks have wrapped.
WalkBound == Outside \/ Minus(clock, walk.now) < TickMax

Tick ==
    /\ TickBound
    /\ WalkBound
    /\ clock' = (clock + 1) % Modulus
    /\ age' = [t \in Timers |-> IF IsRunning(t) /\ ~ timer[t].paused THEN age[t] + 1 ELSE 0]
    /\ UNCHANGED <<list, timer, walk, due, fired, shot>>

Next ==
    \/ \E t \in Timers :
          \/ Stop(t) \/ Pause(t) \/ Resume(t)
          \/ \E priority \in Priorities : SetPriority(t, priority)
          \/ \E period \in Periods, repeat \in BOOLEAN, priority \in Priorities :
                Start(t, period, repeat, priority)
    \/ GroupDeinit
    \/ HandlerBegin \/ WalkPast \/ Fire \/ CallbackEnd \/ HandlerEnd
    \/ Tick

Spec == Init /\ [][Next]_vars

------------------------------------------------------------------------------
(* lh_timer_group_until_next. *)

\* Mutant: paused timers count.
CountingPaused == {t \in Timers : IsRunning(t)}

Counting == {t \in Timers : IsRunning(t) /\ ~ timer[t].paused}

\* 0 when a timer is due, else the least time that is left, else the largest tick.
UntilNext(now) ==
    LET rest == {Minus(timer[t].period, Minus(now, timer[t].last)) : t \in Counting}
    IN  IF \E t \in Counting : IsDue(t, now) THEN 0
        ELSE CHOOSE r \in rest \cup {TickMax} : \A q \in rest : r <= q

------------------------------------------------------------------------------
(* Properties. *)

TimerType == [period : Periods \cup {0}, last : 0 .. TickMax, priority : Priorities \cup {0},
              repeat : BOOLEAN, paused : BOOLEAN]

WalkType == [at : {"idle", "walk", "callback"}, now : 0 .. TickMax,
             node : Timers \cup {Null}, next : Timers \cup {Null}, fresh : SUBSET Timers]

ShotType == [priority : Priorities \cup {0}, early : BOOLEAN, again : BOOLEAN,
             late : BOOLEAN, fresh : BOOLEAN]

\* Types of the list, the timers' fields and the walk.
TypeOK ==
    /\ clock \in 0 .. TickMax
    /\ list \in Seq(Timers)
    /\ timer \in [Timers -> TimerType]
    /\ walk \in WalkType
    /\ age \in [Timers -> 0 .. TickMax]
    /\ due \subseteq Timers
    /\ fired \subseteq Timers
    /\ shot \in ShotType

\* The list holds a timer once and is ordered by priority, whatever callbacks did
\* to it, and a walk stands on a linked timer (timer.c:255-319).
ListOrdered ==
    /\ IsInjective(list)
    /\ \A i, j \in 1 .. Len(list) :
          i < j => timer[list[i]].priority >= timer[list[j]].priority
    /\ walk.at = "walk" /\ walk.node # Null => IsRunning(walk.node)
    /\ walk.next # Null => IsRunning(walk.next)

\* A walk fires the timers that were due when it began, each once unless it has a
\* tick later than the walk's, the higher priority first, and all of them by the
\* time it ends (timer.c:255-284).
WalkExact ==
    /\ ~ shot.late
    /\ shot.again => shot.fresh
    /\ walk.at = "walk" /\ walk.node = Null => due \subseteq fired

\* No timer whose tick the walk has reached fires before its period has passed,
\* whatever pauses, resumes and restarts came before (timer.c:272).
InTime == shot.early => shot.fresh

\* Whatever callbacks do to the list under the walk, it stays a list ordered by
\* priority and the walk meets every due timer in order and none too soon, but for
\* timers with a tick later than the walk's, which it may fire again or too soon
\* (timer.c:255-319).
WalkSound == TypeOK /\ ListOrdered /\ WalkExact /\ InTime

\* until_next says exactly how long nothing is due, across the wrap of the ticks
\* (timer.c:167-196).
UntilNextExact ==
    LET counting == {t \in Timers : IsRunning(t) /\ ~ timer[t].paused}
        left == {IF age[t] < timer[t].period THEN timer[t].period - age[t] ELSE 0 : t \in counting}
    IN  Outside => UntilNext(clock) = Min(left \cup {TickMax})

==============================================================================
