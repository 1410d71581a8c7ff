----------------------------- MODULE ThreadGroup -----------------------------
(***************************************************************************)
(* lh_os_thread_group_t (src/lh/os/thread/group.c): threads that belong to *)
(* one owner and stop together.  All calls come from the owner's thread;   *)
(* the members run beside it and may wait for each other to end, so a stop *)
(* of the group asks all of them before it joins the first.  Names that    *)
(* every module has begin with Group: ExecLoop_proofs extends this module  *)
(* and ExecLoop.                                                           *)
(***************************************************************************)
EXTENDS Naturals, Sequences, SequencesExt, FiniteSets

CONSTANTS Members,   \* memory for members
          Null       \* no member

ASSUME ThreadGroupAssumption == Null \notin Members

VARIABLES
    members,    \* the list
    count,      \* how many the group believes there are
    closing,    \* a group stop was asked
    requested,  \* the members whose stop was asked
    woken,      \* history: how often the wake of each thread ran
    threads,    \* what became of each member's thread
    waits,      \* whose end each member waits for before its own
    caller      \* the owner's call, where it is, and its node

groupVars == <<members, count, closing, requested, woken, threads, waits, caller>>
list == <<members, count>>
env == <<closing, waits>>

\* No thread waits for its own end.
Acyclic(r) ==
    \A S \in SUBSET Members : S # {} => \E m \in S : r[m] \cap S = {}

Calling(call, place, m) == [call |-> call, at |-> place, node |-> m]
NoCall == Calling("none", "idle", Null)
Idle == caller.at = "idle"
GoTo(place, m) == caller' = Calling(caller.call, place, m)
Return == caller' = NoCall

GroupInit ==
    /\ members = <<>> /\ count = 0 /\ closing = FALSE
    /\ requested = {}
    /\ woken = [m \in Members |-> 0]
    /\ threads = [m \in Members |-> "none"]
    /\ waits \in {r \in [Members -> SUBSET Members] : Acyclic(r)}
    /\ caller = NoCall

------------------------------------------------------------------------------
(* The members' threads. *)

\* Nobody it waits for is still running.
Free(m) == \A other \in waits[m] : threads[other] # "running"

\* run returns when its wake asked it to; it may also be done before.
RunReturns(m) ==
    /\ threads[m] = "running" /\ Free(m)
    /\ threads' = [threads EXCEPT ![m] = "ended"]
    /\ UNCHANGED <<list, env, requested, woken, caller>>

------------------------------------------------------------------------------
(* The owner. *)

\* lh_os_thread_group_try_start.  When the OS refuses, the member is freed and
\* nothing has changed.
TryStart(m) ==
    /\ Idle /\ ~ closing /\ ~ Contains(members, m)
    /\ members' = Append(members, m)
    /\ count' = count + 1
    /\ requested' = requested \ {m}
    /\ woken' = [woken EXCEPT ![m] = 0]
    /\ threads' = [threads EXCEPT ![m] = "running"]
    /\ UNCHANGED <<env, caller>>

\* Mutant: the wake runs at every request.
RequestStopAgain(m) ==
    /\ requested' = requested \cup {m}
    /\ woken' = [woken EXCEPT ![m] = @ + 1]

\* lh_os_thread_group_member_request_stop.
RequestStop(m) ==
    /\ requested' = requested \cup {m}
    /\ woken' = [woken EXCEPT ![m] = IF m \in requested THEN @ ELSE @ + 1]

\* lh_os_thread_group_stop up to its join.  Its caller knows that the thread
\* does not wait for one that goes on.
Stop(m) ==
    /\ Idle /\ Contains(members, m)
    /\ \A other \in waits[m] : threads[other] = "running" => other \in requested /\ Free(other)
    /\ RequestStop(m)
    /\ caller' = Calling("stop", "stop", m)
    /\ UNCHANGED <<list, env, threads>>

\* lh_os_thread_join of the node: the thread has ended, or was joined before.
JoinNode == threads[caller.node] # "running"

Joined == threads' = [threads EXCEPT ![caller.node] = "joined"]

\* Where a member is in the list.
Index(m) == CHOOSE i \in DOMAIN members : members[i] = m

StopJoined ==
    /\ caller.at = "stop" /\ JoinNode /\ Joined
    /\ members' = RemoveAt(members, Index(caller.node))
    /\ count' = count - 1
    /\ Return
    /\ UNCHANGED <<env, requested, woken>>

\* The system's join failed: the member stays, its stop requested.
StopJoinFails ==
    /\ caller.at = "stop" /\ threads[caller.node] # "joined"
    /\ Return
    /\ UNCHANGED <<list, env, requested, woken, threads>>

\* lh_list_get_first and lh_list_get_next.
First == IF members = <<>> THEN Null ELSE Head(members)
NextOf(m) == IF Index(m) = Len(members) THEN Null ELSE members[Index(m) + 1]

\* lh_os_thread_group_stop_all, on its own or as the first part of
\* lh_os_thread_group_deinit.
StopAll(call) ==
    /\ Idle
    /\ closing' = TRUE
    /\ caller' = Calling(call, "wakes", First)
    /\ UNCHANGED <<list, waits, requested, woken, threads>>

\* Mutant: each thread is joined before the next is woken.
WakeEachThenJoin ==
    /\ caller.at = "wakes" /\ caller.node # Null
    /\ \/ /\ caller.node \notin requested
          /\ RequestStop(caller.node)
          /\ UNCHANGED <<list, env, threads, caller>>
       \/ /\ caller.node \in requested /\ JoinNode /\ Joined
          /\ GoTo(caller.at, NextOf(caller.node))
          /\ UNCHANGED <<list, env, requested, woken>>

WakeEach ==
    /\ caller.at = "wakes" /\ caller.node # Null
    /\ RequestStop(caller.node)
    /\ GoTo(caller.at, NextOf(caller.node))
    /\ UNCHANGED <<list, env, threads>>

AllWoken ==
    /\ caller.at = "wakes" /\ caller.node = Null
    /\ GoTo("joins", First)
    /\ UNCHANGED <<list, env, requested, woken, threads>>

JoinEach ==
    /\ caller.at = "joins" /\ caller.node # Null
    /\ JoinNode /\ Joined
    /\ GoTo(caller.at, NextOf(caller.node))
    /\ UNCHANGED <<list, env, requested, woken>>

\* lh_runtime_terminate_unless: a join that fails ends the program.
JoinTerminates ==
    /\ caller.at = "joins" /\ caller.node # Null
    /\ threads[caller.node] # "joined"
    /\ GoTo("terminated", Null)
    /\ UNCHANGED <<list, env, requested, woken, threads>>

\* The group stop is over; deinit frees the members.
AllJoined ==
    /\ caller.at = "joins" /\ caller.node = Null
    /\ IF caller.call = "deinit" THEN members' = <<>> /\ count' = 0 ELSE UNCHANGED list
    /\ Return
    /\ UNCHANGED <<env, requested, woken, threads>>

\* lh_os_thread_group_init of a group that was deinitialized.
InitAgain ==
    /\ Idle /\ closing /\ members = <<>>
    /\ closing' = FALSE
    /\ UNCHANGED <<list, waits, requested, woken, threads, caller>>

------------------------------------------------------------------------------

OwnerGoesOn == StopJoined \/ WakeEach \/ AllWoken \/ JoinEach \/ AllJoined

Ended == caller.at = "terminated" /\ UNCHANGED groupVars

GroupNext ==
    \/ \E m \in Members : RunReturns(m) \/ TryStart(m) \/ Stop(m)
    \/ StopAll("stop_all")
    \/ StopAll("deinit")
    \/ OwnerGoesOn
    \/ StopJoinFails
    \/ JoinTerminates
    \/ InitAgain
    \/ Ended

GroupSpec == GroupInit /\ [][GroupNext]_groupVars

\* The owner's thread is scheduled, and a thread that was woken and waits for
\* nobody returns ("run ... returns when wake asks it to").
FairGroupSpec ==
    /\ GroupSpec
    /\ WF_groupVars(OwnerGoesOn)
    /\ \A m \in Members : WF_groupVars(m \in requested /\ RunReturns(m))

------------------------------------------------------------------------------
(* Properties. *)

\* Types of the list, the threads and the owner's call.
GroupTypeOK ==
    /\ members \in Seq(Members) /\ count \in Nat /\ closing \in BOOLEAN
    /\ requested \subseteq Members /\ woken \in [Members -> Nat]
    /\ threads \in [Members -> {"none", "running", "ended", "joined"}]
    /\ waits \in [Members -> SUBSET Members]
    /\ caller \in [call : {"none", "stop", "stop_all", "deinit"},
                  at : {"idle", "stop", "wakes", "joins", "terminated"},
                  node : Members \cup {Null}]

\* Whatever was stopped, failed to join or closed before: a member is freed only
\* when its thread was joined, the group counts what it holds, and when a group
\* stop has returned no thread of it runs and its code may be unloaded.
NoThreadOutlivesItsMember ==
    /\ \A m \in Members : threads[m] \in {"running", "ended"} => Contains(members, m)
    /\ count = Len(members) /\ IsInjective(members)
    /\ closing /\ Idle => \A m \in Members : threads[m] \in {"none", "joined"}

\* The header lets wake run once per thread: a stop whose join failed, the
\* group's stop and deinit together wake each thread at most once, and no
\* thread is joined that was not woken.
WokenOnce ==
    \A m \in Members :
        /\ woken[m] <= 1
        /\ threads[m] = "joined" => woken[m] = 1

\* However stops, failed joins, group stops and restarts follow each other, the
\* group knows its threads and wakes each one once (group.c:67-137).
MembersSound == GroupTypeOK /\ NoThreadOutlivesItsMember /\ WokenOnce

\* Stop_all and deinit return whoever the threads wait for, because every stop is
\* requested before the first join; a stop of one member returns too, provided that
\* its caller keeps the duty that Stop states (group.c:90-137).
CallsReturn == ~ Idle ~> (Idle \/ caller.at = "terminated")
==============================================================================
