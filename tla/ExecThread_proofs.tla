--------------------------- MODULE ExecThread_proofs ---------------------------
(***************************************************************************)
(* Proofs about ExecThread for any number of submitters and stoppers, any  *)
(* finite set of tasks and any capacity: the books of the mailbox and the  *)
(* executor, the limit on late starts, and that the executor keeps the     *)
(* laws of a task (TaskLife).                                              *)
(***************************************************************************)
EXTENDS ExecThread, TLAPS, FiniteSetTheorems

------------------------------------------------------------------------------
(* The inductive invariant. *)

\* A submitter inside try_submit has a task of its own, in its hands until the
\* executor has it, and has seen room when it reserves.
SubHolds(s) ==
    /\ sub[s].at # "idle" => sub[s].task \in Tasks
    /\ sub[s].at \in {"load", "cas", "accept", "release"} => stage[sub[s].task] = "submitting"
    /\ sub[s].at = "cas" => sub[s].seen < Capacity
    /\ sub[s].at = "post" => stage[sub[s].task] = "inline"
    /\ sub[s].at = "link" => sub[s].task \in linking
    /\ sub[s].at = "release" => sub[s].kind = "thread"
    /\ sub[s].at \in {"post", "link"} => sub[s].kind = "inline"

SubInv == \A s \in Submitters : SubHolds(s)

DistinctInv ==
    \A s, r \in Submitters :
        s # r /\ sub[s].at # "idle" /\ sub[r].at # "idle" => sub[s].task # sub[r].task

\* What waits for its link is posted, and one thread is about to link it.
LinkInv ==
    /\ \A t \in linking : stage[t] = "posted"
    /\ runner.at = "link" =>
          /\ runner.task \in linking
          /\ \A s \in Submitters : sub[s].at = "link" => sub[s].task # runner.task

\* The thread and the owner hold a task exactly where their code has one.
HandsInv ==
    /\ runner.at \in {"taken", "working", "post", "link"} <=> runner.task # Null
    /\ own.at \in {"taken", "completing", "destroy"} <=> own.task # Null

\* The life of the record and of its thread: an executor that ends or has ended
\* has nothing pending and takes nothing more, and a closed one is not used.
LifeInv ==
    /\ life = "closed" <=> runner.at = "none"
    /\ life = "destroying" <=> destroyer # "idle"
    /\ life = "destroying" => stop # "none"
    /\ life # "open" => \A s \in Submitters : sub[s].at # "idle" => sub[s].kind = "inline"
    /\ runner.at \in {"close", "end", "done"} => stop # "none"
    /\ runner.at \in {"none", "close", "end", "done"} => pending = <<>>
    /\ runner.at \in {"none", "end", "done"} => ~ local
    /\ ended => runner.at \in {"none", "done"}
    /\ destroyer = "join" => ended

\* A task is marked by a cancelling stop only, and not once its work has begun.
MarkInv ==
    /\ \A t \in Tasks : stage[t] \in {"submitting", "pending", "inline"} => ~ cancelled[t]
    /\ runner.at = "working" => ~ cancelled[runner.task]
    /\ own.at = "completing" => ~ cancelled[own.task]

\* After one late start whatever the thread takes is marked.
LateInv ==
    /\ late <= 1
    /\ late # 0 => stop = "cancel"
    /\ late # 0 /\ runner.at = "taken" => cancelled[runner.task]

IInv ==
    /\ TypeOK /\ OnePlace /\ PlacesExact
    /\ SubInv /\ DistinctInv /\ LinkInv /\ HandsInv /\ LifeInv /\ MarkInv /\ LateInv

------------------------------------------------------------------------------
(* Facts the steps share. *)

LEMMA Counts ==
  ASSUME NEW S, IsFiniteSet(S), NEW x
  PROVE  /\ Cardinality(S) \in Nat
         /\ x \notin S => Cardinality(S \cup {x}) = Cardinality(S) + 1
         /\ x \in S => Cardinality(S \ {x}) = Cardinality(S) - 1 /\ Cardinality(S) >= 1
<1>1. Cardinality(S) \in Nat
  BY FS_CardinalityType
<1>2. x \notin S => Cardinality(S \cup {x}) = Cardinality(S) + 1
  BY FS_AddElement
<1>3. ASSUME x \in S
      PROVE  Cardinality(S \ {x}) = Cardinality(S) - 1 /\ Cardinality(S) >= 1
  <2>1. Cardinality(S \ {x}) = Cardinality(S) - 1 /\ IsFiniteSet(S \ {x})
    BY <1>3, FS_RemoveElement
  <2>2. Cardinality(S \ {x}) \in Nat
    BY <2>1, FS_CardinalityType
  <2> QED BY <1>1, <2>1, <2>2
<1> QED BY <1>1, <1>2, <1>3

LEMMA BooksFinite == IsFiniteSet(Reserving) /\ IsFiniteSet(OnTheWay)
<1>1. Reserving \in SUBSET Submitters /\ OnTheWay \in SUBSET Tasks
  BY DEF Reserving, OnTheWay
<1> QED BY <1>1, FS_Subset, ThreadAssumption

\* No place is taken or given back.
LEMMA PlacesKept ==
  ASSUME PlacesExact, Reserving' = Reserving, OnTheWay' = OnTheWay, used' = used,
         Releasing' = Releasing
  PROVE  PlacesExact'
BY DEF PlacesExact

\* A task that is appended to a queue it is not in, and one that is taken from
\* the front of a queue that holds every task once.
LEMMA AppendOnce ==
  ASSUME NEW q \in Seq(Tasks), NEW t \in Tasks, ~ Contains(q, t),
         \A i, j \in DOMAIN q : q[i] = q[j] => i = j
  PROVE  \A i, j \in DOMAIN Append(q, t) : Append(q, t)[i] = Append(q, t)[j] => i = j
BY DEF Contains

LEMMA AppendContains ==
  ASSUME NEW q \in Seq(Tasks), NEW t \in Tasks
  PROVE  \A u \in Tasks : Contains(Append(q, t), u) <=> Contains(q, u) \/ u = t
<1> TAKE u \in Tasks
<1>1. /\ Len(Append(q, t)) = Len(q) + 1 /\ Len(q) \in Nat
      /\ \A i \in 1 .. Len(q) : Append(q, t)[i] = q[i]
      /\ Append(q, t)[Len(q) + 1] = t
  OBVIOUS
<1>2. ASSUME Contains(q, u) \/ u = t PROVE Contains(Append(q, t), u)
  <2>1. CASE u = t
    <3>1. Len(q) + 1 \in 1 .. Len(Append(q, t))
      BY <1>1
    <3> QED BY <1>1, <2>1, <3>1 DEF Contains
  <2>2. CASE Contains(q, u)
    <3>1. PICK i \in 1 .. Len(q) : q[i] = u
      BY <2>2 DEF Contains
    <3>2. i \in 1 .. Len(Append(q, t)) /\ Append(q, t)[i] = u
      BY <1>1, <3>1
    <3> QED BY <3>2 DEF Contains
  <2> QED BY <1>2, <2>1, <2>2
<1>3. ASSUME Contains(Append(q, t), u) PROVE Contains(q, u) \/ u = t
  BY <1>1, <1>3 DEF Contains
<1> QED BY <1>2, <1>3

LEMMA HeadContained ==
  ASSUME NEW q \in Seq(Tasks), q # <<>>
  PROVE  Head(q) \in Tasks /\ Contains(q, Head(q))
<1>1. 1 \in 1 .. Len(q) /\ q[1] = Head(q) /\ q[1] \in Tasks
  OBVIOUS
<1> QED BY <1>1 DEF Contains

LEMMA TailOnce ==
  ASSUME NEW q \in Seq(Tasks), q # <<>>, \A i, j \in DOMAIN q : q[i] = q[j] => i = j
  PROVE  \A i, j \in DOMAIN Tail(q) : Tail(q)[i] = Tail(q)[j] => i = j
OBVIOUS

LEMMA TailContains ==
  ASSUME NEW q \in Seq(Tasks), q # <<>>, \A i, j \in DOMAIN q : q[i] = q[j] => i = j
  PROVE  \A u \in Tasks : Contains(Tail(q), u) <=> Contains(q, u) /\ u # Head(q)
<1> TAKE u \in Tasks
<1>1. /\ Len(Tail(q)) = Len(q) - 1 /\ Len(q) \in Nat \ {0} /\ Head(q) = q[1]
      /\ DOMAIN q = 1 .. Len(q)
      /\ \A i \in 1 .. Len(q) - 1 : Tail(q)[i] = q[i + 1]
  OBVIOUS
<1>2. ASSUME Contains(Tail(q), u) PROVE Contains(q, u) /\ u # Head(q)
  <2>1. PICK i \in 1 .. Len(q) - 1 : q[i + 1] = u
    BY <1>1, <1>2 DEF Contains
  <2>2. i + 1 \in 1 .. Len(q) /\ i + 1 # 1 /\ 1 \in 1 .. Len(q)
    BY <1>1, <2>1
  <2> QED BY <1>1, <2>1, <2>2 DEF Contains
<1>3. ASSUME Contains(q, u), u # Head(q) PROVE Contains(Tail(q), u)
  <2>1. PICK i \in 1 .. Len(q) : q[i] = u
    BY <1>3 DEF Contains
  <2>2. i # 1
    BY <1>1, <1>3, <2>1
  <2>3. i - 1 \in 1 .. Len(q) - 1 /\ Tail(q)[i - 1] = u
    BY <1>1, <2>1, <2>2
  <2> QED BY <1>1, <2>3 DEF Contains
<1> QED BY <1>2, <1>3

------------------------------------------------------------------------------
(* The steps. *)

\* A caller fills a record that is its own.
LEMMA SubmitKeeps ==
  ASSUME IInv, NEW s \in Submitters, Submit(s)
  PROVE  IInv'
<1> USE ThreadAssumption
<1>a. PICK t \in Tasks, kind \in {"thread", "inline"} :
        /\ sub[s].at = "idle" /\ stage[t] = "caller"
        /\ kind = "thread" => life = "open"
        /\ sub' = [sub EXCEPT ![s] = SubAt("load", t, kind, 0)]
        /\ stage' = [stage EXCEPT ![t] = "submitting"]
        /\ cancelled' = [cancelled EXCEPT ![t] = FALSE]
        /\ UNCHANGED <<mailboxVars, executorVars, callerVars, own, late>>
  BY DEF Submit
<1>1. TypeOK'
  BY DEF IInv, TypeOK, StopKinds, Stages, Submit, SubAt, MaySubmit, mailboxVars, executorVars,
      callerVars
<1>2. OnePlace'
  BY DEF IInv, OnePlace, Submit, SubAt, MaySubmit, mailboxVars, executorVars, callerVars
<1>3. PlacesExact'
  <2>1. Reserving' = Reserving
    <3>1. s \notin Reserving /\ sub'[s].at \notin {"accept", "release"}
      BY <1>a DEF Reserving, SubAt, mailboxVars
    <3>2. \A r \in Submitters : sub'[r].at \in {"accept", "release"}
                                <=> sub[r].at \in {"accept", "release"}
      BY <1>a, <3>1 DEF Reserving
    <3> QED BY <3>2 DEF Reserving
  <2>2. OnTheWay' = OnTheWay
    BY <1>a DEF OnTheWay, IInv, TypeOK, SubInv, SubHolds, OnePlace, HandsInv, SubAt, mailboxVars
  <2> QED BY <1>a, <2>1, <2>2, PlacesKept DEF IInv, Releasing, SubAt, mailboxVars
<1>4. SubInv'
  BY DEF IInv, TypeOK, SubInv, SubHolds, Submit, SubAt, MaySubmit, mailboxVars, executorVars,
      callerVars
<1>5. DistinctInv'
  <2>1. \A r \in Submitters : r # s => sub'[r] = sub[r] /\ (sub[r].at # "idle" => sub[r].task # t)
    <3>1. \A r \in Submitters : r # s => sub'[r] = sub[r]
      BY <1>a DEF IInv, TypeOK
    <3>2. \A r \in Submitters : sub[r].at # "idle" => stage[sub[r].task] # "caller"
      BY DEF IInv, TypeOK, SubInv, SubHolds, LinkInv
    <3> QED BY <1>a, <3>1, <3>2
  <2>2. sub'[s] = SubAt("load", t, kind, 0)
    BY <1>a DEF IInv, TypeOK
  <2> QED BY <2>1, <2>2 DEF IInv, DistinctInv, SubAt
<1>6. LinkInv'
  BY DEF IInv, LinkInv, Submit, SubAt, MaySubmit, mailboxVars, executorVars, callerVars
<1>7. LifeInv'
  BY DEF IInv, LifeInv, Submit, SubAt, MaySubmit, mailboxVars, executorVars, callerVars
<1>8. MarkInv'
  BY DEF IInv, TypeOK, MarkInv, Submit, SubAt, MaySubmit, mailboxVars, executorVars, callerVars
<1>9. LateInv'
  BY DEF IInv, TypeOK, LateInv, OnePlace, Submit, SubAt, MaySubmit, mailboxVars, executorVars,
      callerVars
<1>10. HandsInv'
  BY DEF IInv, HandsInv, Submit, mailboxVars, executorVars, callerVars
<1> QED BY <1>1, <1>2, <1>3, <1>4, <1>5, <1>6, <1>7, <1>8, <1>9, <1>10 DEF IInv

\* The count is read.
LEMMA ReserveLoadKeeps ==
  ASSUME IInv, NEW s \in Submitters, ReserveLoad(s)
  PROVE  IInv'
<1> USE ThreadAssumption
<1>a. /\ sub[s].at = "load" /\ sub[s].task \in Tasks
      /\ sub[s].kind \in {"thread", "inline"} /\ sub[s].seen \in Nat
      /\ \A r \in Submitters : r # s => sub'[r] = sub[r]
  BY DEF IInv, TypeOK, SubInv, SubHolds, ReserveLoad, GiveBack, SubAt
<1>b. \/ sub'[s] = NoSub /\ stage' = [stage EXCEPT ![sub[s].task] = "caller"]
      \/ /\ sub'[s] = SubAt("cas", sub[s].task, sub[s].kind, used)
         /\ used < Capacity /\ UNCHANGED stage
  BY DEF IInv, TypeOK, ReserveLoad, GiveBack
<1>c. UNCHANGED <<mailboxVars, executorVars, callerVars, cancelled, own, late>>
  BY DEF ReserveLoad
<1>d. /\ sub'[s].at # "link" /\ (sub'[s].at # "idle" => sub'[s].kind = sub[s].kind)
      /\ \A u \in linking : stage'[u] = stage[u]
  BY <1>a, <1>b DEF IInv, TypeOK, SubInv, SubHolds, LinkInv, NoSub, SubAt
<1>1. TypeOK'
  <2>1. stage' \in [Tasks -> Stages]
    BY <1>a, <1>b DEF IInv, TypeOK, Stages
  <2>2. sub' \in [Submitters -> [at : {"idle", "load", "cas", "accept", "release", "post", "link"},
                                 task : Tasks \cup {Null},
                                 kind : {"thread", "inline"}, seen : Nat]]
    BY <1>a DEF IInv, TypeOK, ReserveLoad, GiveBack, NoSub, SubAt
  <2> QED BY <1>c, <2>1, <2>2 DEF IInv, TypeOK, mailboxVars, executorVars, callerVars
<1>2. OnePlace'
  BY DEF IInv, TypeOK, OnePlace, SubInv, SubHolds, ReserveLoad, SubAt, NoSub, GiveBack,
      mailboxVars, executorVars, callerVars
<1>3. PlacesExact'
  <2>1. Reserving' = Reserving
    <3>1. s \notin Reserving /\ sub'[s].at \notin {"accept", "release"}
      BY <1>a, <1>b, <1>c DEF Reserving, NoSub, SubAt, mailboxVars
    <3>2. \A r \in Submitters : sub'[r].at \in {"accept", "release"}
                                <=> sub[r].at \in {"accept", "release"}
      BY <1>a, <3>1 DEF Reserving
    <3> QED BY <3>2 DEF Reserving
  <2>2. OnTheWay' = OnTheWay
    BY <1>a, <1>b, <1>c DEF OnTheWay, IInv, TypeOK, SubInv, SubHolds, OnePlace, HandsInv,
      NoSub, SubAt, mailboxVars
  <2> QED BY <1>a, <1>b, <1>c, <2>1, <2>2, PlacesKept DEF IInv, Releasing, NoSub, SubAt,
      mailboxVars
<1>4. SubInv'
  <2>1. \A r \in Submitters : r # s /\ sub[r].at # "idle" => sub[r].task # sub[s].task
    BY <1>a DEF IInv, DistinctInv
  <2>2. SubHolds(s)'
    BY <1>a, <1>b, <1>c DEF IInv, SubInv, SubHolds, SubAt, NoSub, mailboxVars
  <2>3. ASSUME NEW r \in Submitters, r # s PROVE SubHolds(r)'
    BY <1>a, <1>b, <1>c, <2>1, <2>3 DEF IInv, TypeOK, SubInv, SubHolds, NoSub, mailboxVars
  <2> QED BY <2>2, <2>3 DEF SubInv
<1>5. DistinctInv'
  <2>1. \A r \in Submitters : sub'[r].at # "idle" =>
          sub[r].at # "idle" /\ sub'[r].task = sub[r].task
    BY <1>a, <1>b DEF SubAt, NoSub
  <2> QED BY <2>1 DEF IInv, DistinctInv
<1>6. LinkInv'
  BY <1>a, <1>c, <1>d, ZenonT(30) DEF IInv, TypeOK, LinkInv, mailboxVars, executorVars
<1>7. LifeInv'
  BY <1>a, <1>c, <1>d DEF IInv, LifeInv, executorVars, callerVars
<1>8. MarkInv'
  BY DEF IInv, TypeOK, MarkInv, ReserveLoad, SubAt, NoSub, GiveBack, mailboxVars,
      executorVars, callerVars
<1>9. (HandsInv /\ LateInv)'
  BY DEF IInv, HandsInv, LateInv, ReserveLoad, mailboxVars, executorVars, callerVars
<1> QED BY <1>1, <1>2, <1>3, <1>4, <1>5, <1>6, <1>7, <1>8, <1>9 DEF IInv

\* The compare-exchange.
LEMMA ReserveCasKeeps ==
  ASSUME IInv, NEW s \in Submitters, ReserveCas(s)
  PROVE  IInv'
<1> USE ThreadAssumption
<1>a. /\ sub[s].at = "cas" /\ sub[s].task \in Tasks
      /\ sub[s].kind \in {"thread", "inline"} /\ sub[s].seen \in Nat
      /\ \A r \in Submitters : r # s => sub'[r] = sub[r]
  BY DEF IInv, TypeOK, SubInv, SubHolds, ReserveCas, SubmitterAt
<1>b. \/ used = sub[s].seen /\ used' = used + 1
         /\ sub'[s] = SubAt("accept", sub[s].task, sub[s].kind, sub[s].seen)
      \/ used' = used /\ sub'[s] = SubAt("load", sub[s].task, sub[s].kind, sub[s].seen)
  BY DEF IInv, TypeOK, ReserveCas, CasSucceeds, SubmitterAt
<1>c. UNCHANGED <<finished, linking, executorVars, callerVars, stage, cancelled, own, late>>
  BY DEF ReserveCas
<1>d. sub'[s].at # "link" /\ sub'[s].kind = sub[s].kind
  BY <1>b DEF SubAt
<1>1. TypeOK'
  <2> DEFINE Places == [at : {"idle", "load", "cas", "accept", "release", "post", "link"},
                        task : Tasks \cup {Null}, kind : {"thread", "inline"}, seen : Nat]
  <2>1. sub' \in [Submitters -> Places]
    <3>1. /\ SubAt("accept", sub[s].task, sub[s].kind, sub[s].seen) \in Places
          /\ SubAt("load", sub[s].task, sub[s].kind, sub[s].seen) \in Places
          /\ sub \in [Submitters -> Places]
      BY <1>a DEF IInv, TypeOK, SubAt
    <3> HIDE DEF Places
    <3> QED BY <3>1 DEF ReserveCas, SubmitterAt
  <2>2. used' \in Nat
    BY <1>b DEF IInv, TypeOK
  <2> QED BY <1>c, <2>1, <2>2 DEF IInv, TypeOK, executorVars, callerVars
<1>2. PlacesExact'
  <2>1. OnTheWay' = OnTheWay /\ Releasing' = Releasing
    BY <1>c DEF OnTheWay, Releasing
  <2>2. CASE /\ used = sub[s].seen /\ used' = used + 1
             /\ sub'[s] = SubAt("accept", sub[s].task, sub[s].kind, sub[s].seen)
    <3>1. s \notin Reserving /\ Reserving' = Reserving \cup {s}
      BY <1>a, <2>2 DEF Reserving, SubAt
    <3>2. used < Capacity
      BY <1>a, <2>2 DEF IInv, SubInv, SubHolds
    <3>3. Cardinality(OnTheWay) \in Nat /\ Cardinality(Reserving) \in Nat
          /\ Cardinality(Reserving') = Cardinality(Reserving) + 1
      BY <3>1, Counts, BooksFinite
    <3> QED BY <2>1, <2>2, <3>2, <3>3, SMTT(30) DEF IInv, TypeOK, PlacesExact, Releasing
  <2>3. CASE used' = used /\ sub'[s] = SubAt("load", sub[s].task, sub[s].kind, sub[s].seen)
    <3>1. Reserving' = Reserving
      BY <1>a, <2>3 DEF Reserving, SubAt
    <3> QED BY <2>1, <2>3, <3>1, PlacesKept DEF IInv
  <2> QED BY <1>b, <2>2, <2>3
<1>3. SubInv'
  <2>1. \A r \in Submitters : r # s /\ sub[r].at # "idle" => sub[r].task # sub[s].task
    BY <1>a DEF IInv, DistinctInv
  <2>2. SubHolds(s)'
    BY <1>a, <1>b, <1>c DEF IInv, SubInv, SubHolds, SubAt
  <2>3. ASSUME NEW r \in Submitters, r # s PROVE SubHolds(r)'
    BY <1>a, <1>b, <1>c, <2>1, <2>3 DEF IInv, TypeOK, SubInv, SubHolds
  <2> QED BY <2>2, <2>3 DEF SubInv
<1>4. DistinctInv'
  <2>1. \A r \in Submitters : sub'[r].at # "idle" =>
          sub[r].at # "idle" /\ sub'[r].task = sub[r].task
    BY <1>a, <1>b DEF SubAt, NoSub
  <2> QED BY <2>1 DEF IInv, DistinctInv
<1>5. LinkInv'
  BY <1>a, <1>c, <1>d DEF IInv, LinkInv, executorVars
<1>6. LifeInv'
  BY <1>a, <1>c, <1>d DEF IInv, LifeInv, executorVars, callerVars
<1>7. (OnePlace /\ HandsInv /\ MarkInv /\ LateInv)'
  BY DEF IInv, OnePlace, HandsInv, MarkInv, LateInv, ReserveCas, executorVars, callerVars
<1> QED BY <1>1, <1>2, <1>3, <1>4, <1>5, <1>6, <1>7 DEF IInv

\* The thread executor accepts or refuses.
LEMMA AcceptThreadKeeps ==
  ASSUME IInv, NEW s \in Submitters, AcceptThread(s)
  PROVE  IInv'
<1> USE ThreadAssumption
<1>a. /\ sub[s].at = "accept" /\ sub[s].task \in Tasks
      /\ sub[s].kind \in {"thread", "inline"} /\ sub[s].seen \in Nat
      /\ \A r \in Submitters : r # s => sub'[r] = sub[r]
  BY DEF IInv, TypeOK, SubInv, SubHolds, AcceptThread, SubmitterAt
<1>b. stage[sub[s].task] = "submitting" /\ sub[s].kind = "thread"
  BY DEF IInv, SubInv, SubHolds, AcceptThread
<1>c. UNCHANGED <<mailboxVars, stop, ended, local, life, callerVars, cancelled, own, late>>
  BY DEF AcceptThread
<1>d. \/ /\ sub'[s] = SubAt("release", sub[s].task, sub[s].kind, sub[s].seen)
         /\ UNCHANGED <<pending, runner, stage>>
      \/ /\ sub'[s] = NoSub /\ stop = "none" /\ pending' = Append(pending, sub[s].task)
         /\ stage' = [stage EXCEPT ![sub[s].task] = "pending"]
         /\ runner' = WakeRunner
  BY DEF IInv, TypeOK, AcceptThread, Refuses, SubmitterAt
<1>e. runner' \in {runner, [at |-> "wait", task |-> Null]}
      /\ (runner' # runner => runner.at = "asleep")
  BY <1>d DEF WakeRunner, RunnerAt
<1>1. TypeOK'
  <2>1. stage' \in [Tasks -> Stages] /\ pending' \in Seq(Tasks)
    <3>1. stage' \in [Tasks -> Stages]
      BY <1>a, <1>d DEF IInv, TypeOK, Stages
    <3>2. pending \in Seq(Tasks)
      BY DEF IInv, TypeOK
    <3>3. pending' \in Seq(Tasks)
      BY <1>a, <1>d, <3>2
    <3> QED BY <3>1, <3>3
  <2> DEFINE Places == [at : {"idle", "load", "cas", "accept", "release", "post", "link"},
                        task : Tasks \cup {Null}, kind : {"thread", "inline"}, seen : Nat]
  <2>2. sub' \in [Submitters -> Places]
    <3>1. /\ SubAt("release", sub[s].task, sub[s].kind, sub[s].seen) \in Places
          /\ NoSub \in Places /\ sub \in [Submitters -> Places]
      BY <1>a DEF IInv, TypeOK, NoSub, SubAt
    <3> HIDE DEF Places
    <3> QED BY <3>1 DEF AcceptThread, SubmitterAt
  <2>3. runner' \in [at : {"none", "open", "wait", "asleep", "taken", "working", "post", "link",
                           "close", "end", "done"}, task : Tasks \cup {Null}]
    BY <1>e DEF IInv, TypeOK
  <2> QED BY <1>c, <2>1, <2>2, <2>3 DEF IInv, TypeOK, mailboxVars, callerVars
<1>2. OnePlace'
  <2>1. CASE UNCHANGED <<pending, runner, stage>>
    BY <1>c, <2>1 DEF IInv, OnePlace, mailboxVars, Contains
  <2>2. CASE /\ pending' = Append(pending, sub[s].task)
             /\ stage' = [stage EXCEPT ![sub[s].task] = "pending"]
    <3>1. ~ Contains(pending, sub[s].task) /\ ~ Contains(finished, sub[s].task)
          /\ own.task # sub[s].task
      BY <1>a, <1>b DEF IInv, OnePlace
    <3>2. \A i, j \in DOMAIN pending' : pending'[i] = pending'[j] => i = j
      BY <1>a, <2>2, <3>1, AppendOnce DEF IInv, TypeOK, OnePlace
    <3>3. \A t \in Tasks : Contains(pending', t) <=> Contains(pending, t) \/ t = sub[s].task
      BY <1>a, <2>2, AppendContains DEF IInv, TypeOK
    <3>4. \A t \in Tasks : stage'[t] = IF t = sub[s].task THEN "pending" ELSE stage[t]
      BY <2>2 DEF IInv, TypeOK
    <3>5. finished' = finished /\ own' = own
      BY <1>c DEF mailboxVars
    <3>6. \A t \in Tasks : runner'.task = t /\ runner'.at \in {"taken", "working", "post"}
                           <=> runner.task = t /\ runner.at \in {"taken", "working", "post"}
      BY <1>e
    <3> QED BY <1>b, <3>1, <3>2, <3>3, <3>4, <3>5, <3>6 DEF IInv, OnePlace
  <2> QED BY <1>d, <2>1, <2>2
<1>3. PlacesExact'
  <2>1. CASE sub'[s] = SubAt("release", sub[s].task, sub[s].kind, sub[s].seen) /\ UNCHANGED stage
    <3>1. Reserving' = Reserving /\ OnTheWay' = OnTheWay
      BY <1>a, <2>1 DEF Reserving, OnTheWay, SubAt
    <3> QED BY <1>c, <3>1, PlacesKept DEF IInv, Releasing, mailboxVars
  <2>2. CASE sub'[s] = NoSub /\ stage' = [stage EXCEPT ![sub[s].task] = "pending"]
    <3>1. /\ s \in Reserving /\ Reserving' = Reserving \ {s}
          /\ sub[s].task \notin OnTheWay /\ OnTheWay' = OnTheWay \cup {sub[s].task}
      BY <1>a, <1>b, <2>2 DEF IInv, TypeOK, Reserving, OnTheWay, SubAt, NoSub
    <3>2. /\ Cardinality(OnTheWay) \in Nat /\ Cardinality(Reserving) \in Nat
          /\ Cardinality(Reserving') = Cardinality(Reserving) - 1
          /\ Cardinality(OnTheWay') = Cardinality(OnTheWay) + 1
      BY <3>1, Counts, BooksFinite
    <3> QED BY <1>c, <3>2 DEF IInv, TypeOK, PlacesExact, Releasing, mailboxVars
  <2> QED BY <1>d, <2>1, <2>2
<1>4. SubInv'
  <2>1. \A r \in Submitters : r # s /\ sub[r].at # "idle" => sub[r].task # sub[s].task
    BY <1>a DEF IInv, DistinctInv
  <2>2. SubHolds(s)'
    BY <1>a, <1>b, <1>c, <1>d DEF IInv, SubInv, SubHolds, SubAt, NoSub, mailboxVars
  <2>3. ASSUME NEW r \in Submitters, r # s PROVE SubHolds(r)'
    BY <1>a, <1>b, <1>c, <1>d, <2>1, <2>3 DEF IInv, TypeOK, SubInv, SubHolds, NoSub, mailboxVars
  <2> QED BY <2>2, <2>3 DEF SubInv
<1>5. DistinctInv'
  <2>1. \A r \in Submitters : sub'[r].at # "idle" =>
          sub[r].at # "idle" /\ sub'[r].task = sub[r].task
    BY <1>a, <1>d DEF SubAt, NoSub
  <2> QED BY <2>1 DEF IInv, DistinctInv
<1>6. LinkInv'
  BY DEF IInv, TypeOK, LinkInv, SubInv, DistinctInv, HandsInv, SubHolds, AcceptThread, SubAt,
      NoSub, SubmitterAt, Refuses, RunnerAt, WakeRunner, mailboxVars, callerVars
<1>7. HandsInv'
  BY DEF IInv, HandsInv, AcceptThread, SubAt, NoSub, SubmitterAt, Refuses, RunnerAt,
      WakeRunner, mailboxVars, callerVars
<1>8. LifeInv'
  BY DEF IInv, LifeInv, AcceptThread, SubAt, NoSub, SubmitterAt, Refuses, RunnerAt,
      WakeRunner, mailboxVars, callerVars
<1>9. MarkInv'
  BY DEF IInv, TypeOK, MarkInv, SubInv, SubHolds, AcceptThread, SubAt, NoSub, SubmitterAt,
      Refuses, RunnerAt, WakeRunner, mailboxVars, callerVars
<1>10. LateInv'
  BY DEF IInv, LateInv, AcceptThread, SubAt, NoSub, SubmitterAt, Refuses, RunnerAt,
      WakeRunner, mailboxVars, callerVars
<1> QED BY <1>1, <1>2, <1>3, <1>4, <1>5, <1>6, <1>7, <1>8, <1>9, <1>10 DEF IInv

\* The place of a refused task goes back.
LEMMA ReleaseRefusedKeeps ==
  ASSUME IInv, NEW s \in Submitters, ReleaseRefused(s)
  PROVE  IInv'
<1> USE ThreadAssumption
<1>a. /\ sub[s].at = "release" /\ sub[s].task \in Tasks
      /\ sub[s].kind \in {"thread", "inline"} /\ sub[s].seen \in Nat
      /\ \A r \in Submitters : r # s => sub'[r] = sub[r]
  BY DEF IInv, TypeOK, SubInv, SubHolds, ReleaseRefused, GiveBack
<1>b. /\ stage[sub[s].task] = "submitting" /\ sub'[s] = NoSub
      /\ stage' = [stage EXCEPT ![sub[s].task] = "caller"] /\ used' = used - 1
  BY DEF IInv, TypeOK, SubInv, SubHolds, ReleaseRefused, GiveBack
<1>c. UNCHANGED <<finished, linking, executorVars, callerVars, cancelled, own, late>>
  BY DEF ReleaseRefused
<1>d. PlacesExact' /\ used' \in Nat
  <2>1. /\ s \in Reserving /\ Reserving' = Reserving \ {s} /\ OnTheWay' = OnTheWay
    BY <1>a, <1>b DEF IInv, TypeOK, Reserving, OnTheWay, NoSub, SubAt
  <2>2. /\ Cardinality(OnTheWay) \in Nat /\ Cardinality(Reserving) \in Nat
        /\ Cardinality(Reserving') = Cardinality(Reserving) - 1 /\ Cardinality(Reserving) >= 1
    BY <2>1, Counts, BooksFinite
  <2>3. Releasing' = Releasing /\ Releasing \in Nat
    BY <1>c DEF Releasing
  <2>4. used = Cardinality(Reserving) + Cardinality(OnTheWay) + Releasing /\ used <= Capacity
    BY DEF IInv, PlacesExact
  <2> QED BY <1>b, <2>1, <2>2, <2>3, <2>4 DEF PlacesExact
<1>1. TypeOK'
  <2>1. stage' \in [Tasks -> Stages]
    BY <1>a, <1>b DEF IInv, TypeOK, Stages
  <2>2. sub' \in [Submitters -> [at : {"idle", "load", "cas", "accept", "release", "post", "link"},
                                 task : Tasks \cup {Null},
                                 kind : {"thread", "inline"}, seen : Nat]]
    BY <1>a DEF IInv, TypeOK, ReleaseRefused, GiveBack, NoSub, SubAt
  <2> QED BY <1>c, <1>d, <2>1, <2>2 DEF IInv, TypeOK, executorVars, callerVars
<1>2. OnePlace'
  BY DEF IInv, TypeOK, OnePlace, SubInv, SubHolds, ReleaseRefused, SubAt, NoSub, GiveBack,
      executorVars, callerVars
<1>3. PlacesExact'
  BY <1>d
<1>4. SubInv'
  BY DEF IInv, TypeOK, SubInv, SubHolds, DistinctInv, ReleaseRefused, SubAt, NoSub, GiveBack,
      executorVars, callerVars
<1>5. DistinctInv'
  <2>1. \A r \in Submitters : sub'[r].at # "idle" =>
          sub[r].at # "idle" /\ sub'[r].task = sub[r].task
    BY <1>a, <1>b DEF SubAt, NoSub
  <2> QED BY <2>1 DEF IInv, DistinctInv
<1>6. LinkInv'
  BY DEF IInv, TypeOK, LinkInv, SubInv, SubHolds, ReleaseRefused, SubAt, NoSub, GiveBack,
      executorVars, callerVars
<1>7. LifeInv'
  BY DEF IInv, LifeInv, ReleaseRefused, SubAt, NoSub, GiveBack, executorVars, callerVars
<1>8. MarkInv'
  BY DEF IInv, MarkInv, ReleaseRefused, SubAt, NoSub, GiveBack, executorVars, callerVars
<1>9. (HandsInv /\ LateInv)'
  BY DEF IInv, HandsInv, LateInv, ReleaseRefused, executorVars, callerVars
<1> QED BY <1>1, <1>2, <1>3, <1>4, <1>5, <1>6, <1>7, <1>8, <1>9 DEF IInv

\* The inline executor works at once.
LEMMA AcceptInlineKeeps ==
  ASSUME IInv, NEW s \in Submitters, AcceptInline(s)
  PROVE  IInv'
<1> USE ThreadAssumption
<1>a. /\ sub[s].at = "accept" /\ sub[s].task \in Tasks
      /\ sub[s].kind \in {"thread", "inline"} /\ sub[s].seen \in Nat
      /\ \A r \in Submitters : r # s => sub'[r] = sub[r]
  BY DEF IInv, TypeOK, SubInv, SubHolds, AcceptInline, SubmitterAt
<1>b. /\ stage[sub[s].task] = "submitting"
      /\ sub'[s] = SubAt("post", sub[s].task, sub[s].kind, sub[s].seen)
      /\ stage' = [stage EXCEPT ![sub[s].task] = "inline"]
  BY DEF IInv, TypeOK, SubInv, SubHolds, AcceptInline, SubmitterAt
<1>c. UNCHANGED <<mailboxVars, executorVars, callerVars, cancelled, own, late>>
  BY DEF AcceptInline
<1>1. TypeOK'
  <2>1. stage' \in [Tasks -> Stages]
    BY <1>a, <1>b DEF IInv, TypeOK, Stages
  <2>2. sub' \in [Submitters -> [at : {"idle", "load", "cas", "accept", "release", "post", "link"},
                                 task : Tasks \cup {Null},
                                 kind : {"thread", "inline"}, seen : Nat]]
    BY <1>a DEF IInv, TypeOK, AcceptInline, SubmitterAt, SubAt
  <2> QED BY <1>c, <2>1, <2>2 DEF IInv, TypeOK, mailboxVars, executorVars, callerVars
<1>2. OnePlace'
  BY DEF IInv, TypeOK, OnePlace, SubInv, SubHolds, AcceptInline, SubAt, SubmitterAt,
      mailboxVars, executorVars, callerVars
<1>3. PlacesExact'
  <2>1. /\ s \in Reserving /\ Reserving' = Reserving \ {s}
          /\ sub[s].task \notin OnTheWay /\ OnTheWay' = OnTheWay \cup {sub[s].task}
      BY <1>a, <1>b DEF IInv, TypeOK, Reserving, OnTheWay, SubAt, NoSub
  <2>2. /\ Cardinality(OnTheWay) \in Nat /\ Cardinality(Reserving) \in Nat
          /\ Cardinality(Reserving') = Cardinality(Reserving) - 1
          /\ Cardinality(OnTheWay') = Cardinality(OnTheWay) + 1
      BY <2>1, Counts, BooksFinite
  <2> QED BY <1>c, <2>2 DEF IInv, TypeOK, PlacesExact, Releasing, mailboxVars
<1>4. SubInv'
  BY DEF IInv, TypeOK, SubInv, SubHolds, DistinctInv, AcceptInline, SubAt, SubmitterAt,
      mailboxVars, executorVars, callerVars
<1>5. DistinctInv'
  BY DEF IInv, DistinctInv, AcceptInline, SubAt, SubmitterAt, mailboxVars, executorVars,
      callerVars
<1>6. LinkInv'
  BY DEF IInv, TypeOK, LinkInv, SubInv, SubHolds, AcceptInline, SubAt, SubmitterAt,
      mailboxVars, executorVars, callerVars
<1>7. LifeInv'
  BY DEF IInv, LifeInv, AcceptInline, SubAt, SubmitterAt, mailboxVars, executorVars, callerVars
<1>8. MarkInv'
  BY DEF IInv, TypeOK, MarkInv, SubInv, SubHolds, AcceptInline, SubAt, SubmitterAt,
      mailboxVars, executorVars, callerVars
<1>9. (HandsInv /\ LateInv)'
  BY DEF IInv, HandsInv, LateInv, AcceptInline, mailboxVars, executorVars, callerVars
<1> QED BY <1>1, <1>2, <1>3, <1>4, <1>5, <1>6, <1>7, <1>8, <1>9 DEF IInv

\* The exchange of an inline post.
LEMMA InlinePostKeeps ==
  ASSUME IInv, NEW s \in Submitters, InlinePost(s)
  PROVE  IInv'
<1> USE ThreadAssumption
<1>a. /\ sub[s].at = "post" /\ sub[s].task \in Tasks
      /\ sub[s].kind \in {"thread", "inline"} /\ sub[s].seen \in Nat
      /\ \A r \in Submitters : r # s => sub'[r] = sub[r]
  BY DEF IInv, TypeOK, SubInv, SubHolds, InlinePost, SubmitterAt
<1>b. /\ stage[sub[s].task] = "inline"
      /\ sub'[s] = SubAt("link", sub[s].task, sub[s].kind, sub[s].seen)
      /\ stage' = [stage EXCEPT ![sub[s].task] = "posted"]
      /\ finished' = Append(finished, sub[s].task)
      /\ linking' = linking \cup {sub[s].task} /\ used' = used
  BY DEF IInv, TypeOK, SubInv, SubHolds, InlinePost, PostExchange, SubmitterAt
<1>c. UNCHANGED <<executorVars, callerVars, cancelled, own, late>>
  BY DEF InlinePost
<1>1. TypeOK'
  <2>1. stage' \in [Tasks -> Stages] /\ finished' \in Seq(Tasks) /\ linking' \subseteq Tasks
    BY <1>a, <1>b DEF IInv, TypeOK, Stages
  <2>2. sub' \in [Submitters -> [at : {"idle", "load", "cas", "accept", "release", "post", "link"},
                                 task : Tasks \cup {Null},
                                 kind : {"thread", "inline"}, seen : Nat]]
    BY <1>a DEF IInv, TypeOK, InlinePost, SubmitterAt, SubAt
  <2> QED BY <1>b, <1>c, <2>1, <2>2 DEF IInv, TypeOK, executorVars, callerVars
<1>2. OnePlace'
  <2>1. /\ ~ Contains(finished, sub[s].task) /\ ~ Contains(pending, sub[s].task)
        /\ own.task # sub[s].task
    BY <1>a, <1>b DEF IInv, OnePlace
  <2>2. \A i, j \in DOMAIN finished' : finished'[i] = finished'[j] => i = j
    BY <1>a, <1>b, <2>1, AppendOnce, ZenonT(30) DEF IInv, TypeOK, OnePlace
  <2>3. \A t \in Tasks : Contains(finished', t) <=> Contains(finished, t) \/ t = sub[s].task
    BY <1>a, <1>b, AppendContains DEF IInv, TypeOK
  <2>4. \A t \in Tasks : stage'[t] = IF t = sub[s].task THEN "posted" ELSE stage[t]
    BY <1>a, <1>b DEF IInv, TypeOK
  <2> QED BY <1>a, <1>b, <1>c, <2>1, <2>2, <2>3, <2>4 DEF IInv, OnePlace, executorVars
<1>3. PlacesExact'
  <2>1. Reserving' = Reserving
    <3>1. s \notin Reserving /\ sub'[s].at \notin {"accept", "release"}
      BY <1>a, <1>b, <1>c DEF Reserving, SubAt
    <3>2. \A r \in Submitters : sub'[r].at \in {"accept", "release"}
                                <=> sub[r].at \in {"accept", "release"}
      BY <1>a, <3>1 DEF Reserving
    <3> QED BY <3>2 DEF Reserving
  <2>2. OnTheWay' = OnTheWay
    BY <1>a, <1>b, <1>c DEF OnTheWay, IInv, TypeOK, SubInv, SubHolds, OnePlace, HandsInv, SubAt
  <2> QED BY <1>a, <1>b, <1>c, <2>1, <2>2, PlacesKept DEF IInv, Releasing, SubAt
<1>4. SubInv'
  BY DEF IInv, TypeOK, SubInv, SubHolds, DistinctInv, InlinePost, SubAt, SubmitterAt,
      PostExchange, executorVars, callerVars
<1>5. DistinctInv'
  BY DEF IInv, DistinctInv, InlinePost, SubAt, SubmitterAt, PostExchange, executorVars,
      callerVars
<1>6. LinkInv'
  BY DEF IInv, TypeOK, LinkInv, SubInv, SubHolds, InlinePost, SubAt, SubmitterAt,
      PostExchange, executorVars, callerVars
<1>7. LifeInv'
  BY DEF IInv, LifeInv, InlinePost, SubAt, SubmitterAt, PostExchange, executorVars, callerVars
<1>8. MarkInv'
  BY DEF IInv, MarkInv, InlinePost, SubAt, SubmitterAt, PostExchange, executorVars, callerVars
<1>9. (HandsInv /\ LateInv)'
  BY DEF IInv, HandsInv, LateInv, InlinePost, PostExchange, executorVars, callerVars
<1> QED BY <1>1, <1>2, <1>3, <1>4, <1>5, <1>6, <1>7, <1>8, <1>9 DEF IInv

\* The link of an inline post.
LEMMA InlineLinkKeeps ==
  ASSUME IInv, NEW s \in Submitters, InlineLink(s)
  PROVE  IInv'
<1> USE ThreadAssumption
<1>a. /\ sub[s].at = "link" /\ sub[s].task \in Tasks
      /\ sub[s].kind \in {"thread", "inline"} /\ sub[s].seen \in Nat
      /\ \A r \in Submitters : r # s => sub'[r] = sub[r]
  BY DEF IInv, TypeOK, SubInv, SubHolds, InlineLink
<1>b. sub'[s] = NoSub /\ UNCHANGED <<used, stage, own>>
  BY DEF IInv, TypeOK, InlineLink, PostLink
<1>1. TypeOK'
  BY DEF IInv, TypeOK, StopKinds, Stages, InlineLink, SubAt, NoSub, PostLink, executorVars,
      callerVars
<1>2. PlacesExact'
  <2>1. Reserving' = Reserving
    <3>1. s \notin Reserving /\ sub'[s].at \notin {"accept", "release"}
      BY <1>a, <1>b DEF Reserving, NoSub, SubAt
    <3>2. \A r \in Submitters : sub'[r].at \in {"accept", "release"}
                                <=> sub[r].at \in {"accept", "release"}
      BY <1>a, <3>1 DEF Reserving
    <3> QED BY <3>2 DEF Reserving
  <2>2. OnTheWay' = OnTheWay
    BY <1>a, <1>b DEF OnTheWay, IInv, TypeOK, SubInv, SubHolds, OnePlace, HandsInv, NoSub, SubAt
  <2> QED BY <1>a, <1>b, <2>1, <2>2, PlacesKept DEF IInv, Releasing, NoSub, SubAt
<1>3. SubInv'
  BY DEF IInv, TypeOK, SubInv, SubHolds, DistinctInv, InlineLink, SubAt, NoSub, PostLink,
      executorVars, callerVars
<1>4. DistinctInv'
  <2>1. \A r \in Submitters : sub'[r].at # "idle" =>
          sub[r].at # "idle" /\ sub'[r].task = sub[r].task
    BY <1>a, <1>b DEF SubAt, NoSub
  <2> QED BY <2>1 DEF IInv, DistinctInv
<1>5. LinkInv'
  BY DEF IInv, LinkInv, InlineLink, SubAt, NoSub, PostLink, executorVars, callerVars
<1>6. LifeInv'
  BY DEF IInv, LifeInv, InlineLink, SubAt, NoSub, PostLink, executorVars, callerVars
<1>7. (OnePlace /\ HandsInv /\ MarkInv /\ LateInv)'
  BY DEF IInv, OnePlace, HandsInv, MarkInv, LateInv, InlineLink, PostLink, executorVars,
      callerVars
<1> QED BY <1>1, <1>2, <1>3, <1>4, <1>5, <1>6, <1>7 DEF IInv

\* The thread opens its context.
LEMMA RunOpenKeeps ==
  ASSUME IInv, RunOpen
  PROVE  IInv'
<1> USE ThreadAssumption
<1>1. TypeOK'
  BY DEF IInv, TypeOK, StopKinds, Stages, RunOpen, RunnerAt, mailboxVars, callerVars
<1>2. OnePlace'
  BY DEF IInv, OnePlace, RunOpen, RunnerAt, mailboxVars, callerVars
<1>3. LinkInv'
  BY DEF IInv, LinkInv, RunOpen, RunnerAt, mailboxVars, callerVars
<1>4. HandsInv'
  BY DEF IInv, HandsInv, RunOpen, RunnerAt, mailboxVars, callerVars
<1>5. LifeInv'
  BY DEF IInv, LifeInv, RunOpen, RunnerAt, mailboxVars, callerVars
<1>6. MarkInv'
  BY DEF IInv, MarkInv, RunOpen, RunnerAt, mailboxVars, callerVars
<1>7. LateInv'
  BY DEF IInv, LateInv, RunOpen, RunnerAt, mailboxVars, callerVars
<1>8. (PlacesExact /\ SubInv /\ DistinctInv)'
  BY DEF IInv, PlacesExact, Reserving, OnTheWay, Releasing, SubInv, SubHolds, DistinctInv,
      RunOpen, mailboxVars, callerVars
<1> QED BY <1>1, <1>2, <1>3, <1>4, <1>5, <1>6, <1>7, <1>8 DEF IInv

\* The thread takes the oldest pending task.
LEMMA RunTakeKeeps ==
  ASSUME IInv, RunTake
  PROVE  IInv'
<1> USE ThreadAssumption
<1> DEFINE t == Head(pending)
<1>a. /\ pending \in Seq(Tasks) /\ pending # <<>> /\ t \in Tasks /\ Contains(pending, t)
      /\ \A i, j \in DOMAIN pending : pending[i] = pending[j] => i = j
  BY HeadContained DEF IInv, TypeOK, OnePlace, RunTake
<1>b. /\ runner.at = "wait" /\ runner' = [at |-> "taken", task |-> t]
      /\ stage' = [stage EXCEPT ![t] = "running"] /\ pending' = Tail(pending)
      /\ cancelled' = [cancelled EXCEPT ![t] = Cancels \/ cancelled[t]]
      /\ stage[t] = "pending"
  BY <1>a DEF IInv, OnePlace, RunTake, RunnerAt
<1>c. UNCHANGED <<mailboxVars, stop, ended, local, life, callerVars, sub, own, late>>
  BY DEF RunTake
<1>d. /\ \A u \in Tasks : stage'[u] = IF u = t THEN "running" ELSE stage[u]
      /\ \A u \in Tasks : u # t => cancelled'[u] = cancelled[u]
      /\ cancelled'[t] \in BOOLEAN
      /\ stop = "cancel" => cancelled'[t]
  BY <1>a, <1>b DEF IInv, TypeOK, Cancels
<1>e. \A u \in Tasks : Contains(pending', u) <=> Contains(pending, u) /\ u # t
  BY <1>a, <1>b, TailContains
<1> HIDE DEF t
<1>1. TypeOK'
  <2>1. stage' \in [Tasks -> Stages] /\ pending' \in Seq(Tasks)
    BY <1>a, <1>b DEF IInv, TypeOK, Stages
  <2>2. cancelled' \in [Tasks -> BOOLEAN]
    BY <1>a, <1>b DEF IInv, TypeOK, Cancels
  <2> QED BY <1>a, <1>b, <1>c, <2>1, <2>2 DEF IInv, TypeOK, mailboxVars, callerVars
<1>2. OnePlace'
  <2>1. \A i, j \in DOMAIN pending' : pending'[i] = pending'[j] => i = j
    BY <1>a, <1>b, TailOnce
  <2> QED BY <1>a, <1>b, <1>c, <1>d, <1>e, <2>1 DEF IInv, OnePlace, mailboxVars
<1>3. PlacesExact'
  <2>1. Reserving' = Reserving /\ OnTheWay' = OnTheWay
    BY <1>a, <1>b, <1>c, <1>d DEF Reserving, OnTheWay
  <2> QED BY <1>c, <2>1, PlacesKept DEF IInv, Releasing, mailboxVars
<1>4. SubInv'
  BY <1>a, <1>b, <1>c, <1>d DEF IInv, TypeOK, SubInv, SubHolds, mailboxVars
<1>5. LinkInv'
  BY <1>a, <1>b, <1>c, <1>d DEF IInv, TypeOK, LinkInv, mailboxVars
<1>6. HandsInv'
  BY <1>a, <1>b, <1>c DEF IInv, HandsInv
<1>7. LifeInv'
  BY <1>a, <1>b, <1>c DEF IInv, TypeOK, LifeInv, callerVars
<1>8. MarkInv'
  BY <1>a, <1>b, <1>c, <1>d DEF IInv, TypeOK, MarkInv, OnePlace, HandsInv
<1>9. LateInv'
  BY <1>a, <1>b, <1>c, <1>d DEF IInv, TypeOK, LateInv
<1>10. DistinctInv'
  BY DEF IInv, DistinctInv, RunTake, mailboxVars, callerVars
<1> QED BY <1>1, <1>2, <1>3, <1>4, <1>5, <1>6, <1>7, <1>8, <1>9, <1>10 DEF IInv

\* The thread finds nothing.
LEMMA RunEmptyKeeps ==
  ASSUME IInv, RunEmpty
  PROVE  IInv'
<1> USE ThreadAssumption
<1>1. TypeOK'
  BY DEF IInv, TypeOK, StopKinds, Stages, RunEmpty, RunnerAt, mailboxVars, callerVars
<1>2. OnePlace'
  BY DEF IInv, OnePlace, RunEmpty, RunnerAt, mailboxVars, callerVars
<1>3. LinkInv'
  BY DEF IInv, LinkInv, RunEmpty, RunnerAt, mailboxVars, callerVars
<1>4. HandsInv'
  BY DEF IInv, HandsInv, RunEmpty, RunnerAt, mailboxVars, callerVars
<1>5. LifeInv'
  BY DEF IInv, LifeInv, RunEmpty, RunnerAt, mailboxVars, callerVars
<1>6. MarkInv'
  BY DEF IInv, MarkInv, RunEmpty, RunnerAt, mailboxVars, callerVars
<1>7. LateInv'
  BY DEF IInv, LateInv, RunEmpty, RunnerAt, mailboxVars, callerVars
<1>8. (PlacesExact /\ SubInv /\ DistinctInv)'
  BY DEF IInv, PlacesExact, Reserving, OnTheWay, Releasing, SubInv, SubHolds, DistinctInv,
      RunEmpty, mailboxVars, callerVars
<1> QED BY <1>1, <1>2, <1>3, <1>4, <1>5, <1>6, <1>7, <1>8 DEF IInv

\* The thread wakes up.
LEMMA RunSpuriousKeeps ==
  ASSUME IInv, RunSpurious
  PROVE  IInv'
<1> USE ThreadAssumption
<1>1. TypeOK'
  BY DEF IInv, TypeOK, StopKinds, Stages, RunSpurious, RunnerAt, mailboxVars, callerVars
<1>2. OnePlace'
  BY DEF IInv, OnePlace, RunSpurious, RunnerAt, mailboxVars, callerVars
<1>3. LinkInv'
  BY DEF IInv, LinkInv, RunSpurious, RunnerAt, mailboxVars, callerVars
<1>4. HandsInv'
  BY DEF IInv, HandsInv, RunSpurious, RunnerAt, mailboxVars, callerVars
<1>5. LifeInv'
  BY DEF IInv, LifeInv, RunSpurious, RunnerAt, mailboxVars, callerVars
<1>6. MarkInv'
  BY DEF IInv, MarkInv, RunSpurious, RunnerAt, mailboxVars, callerVars
<1>7. LateInv'
  BY DEF IInv, LateInv, RunSpurious, RunnerAt, mailboxVars, callerVars
<1>8. (PlacesExact /\ SubInv /\ DistinctInv)'
  BY DEF IInv, PlacesExact, Reserving, OnTheWay, Releasing, SubInv, SubHolds, DistinctInv,
      RunSpurious, mailboxVars, callerVars
<1> QED BY <1>1, <1>2, <1>3, <1>4, <1>5, <1>6, <1>7, <1>8 DEF IInv

\* Work begins or the task was marked.
LEMMA RunWorkKeeps ==
  ASSUME IInv, RunWork
  PROVE  IInv'
<1> USE ThreadAssumption
<1>1. TypeOK'
  BY DEF IInv, TypeOK, StopKinds, Stages, RunWork, RunnerAt, mailboxVars, callerVars
<1>2. OnePlace'
  BY DEF IInv, OnePlace, RunWork, RunnerAt, mailboxVars, callerVars
<1>3. LinkInv'
  BY DEF IInv, LinkInv, RunWork, RunnerAt, mailboxVars, callerVars
<1>4. HandsInv'
  BY DEF IInv, HandsInv, RunWork, RunnerAt, mailboxVars, callerVars
<1>5. LifeInv'
  BY DEF IInv, LifeInv, RunWork, RunnerAt, mailboxVars, callerVars
<1>6. MarkInv'
  BY DEF IInv, MarkInv, RunWork, RunnerAt, mailboxVars, callerVars
<1>7. LateInv'
  BY DEF IInv, LateInv, RunWork, RunnerAt, mailboxVars, callerVars
<1>8. (PlacesExact /\ SubInv /\ DistinctInv)'
  BY DEF IInv, PlacesExact, Reserving, OnTheWay, Releasing, SubInv, SubHolds, DistinctInv,
      RunWork, mailboxVars, callerVars
<1> QED BY <1>1, <1>2, <1>3, <1>4, <1>5, <1>6, <1>7, <1>8 DEF IInv

\* Work ends.
LEMMA RunWorkEndKeeps ==
  ASSUME IInv, RunWorkEnd
  PROVE  IInv'
<1> USE ThreadAssumption
<1>1. TypeOK'
  BY DEF IInv, TypeOK, StopKinds, Stages, RunWorkEnd, RunnerAt, mailboxVars, callerVars
<1>2. OnePlace'
  BY DEF IInv, OnePlace, RunWorkEnd, RunnerAt, mailboxVars, callerVars
<1>3. LinkInv'
  BY DEF IInv, LinkInv, RunWorkEnd, RunnerAt, mailboxVars, callerVars
<1>4. HandsInv'
  BY DEF IInv, HandsInv, RunWorkEnd, RunnerAt, mailboxVars, callerVars
<1>5. LifeInv'
  BY DEF IInv, LifeInv, RunWorkEnd, RunnerAt, mailboxVars, callerVars
<1>6. MarkInv'
  BY DEF IInv, MarkInv, RunWorkEnd, RunnerAt, mailboxVars, callerVars
<1>7. LateInv'
  BY DEF IInv, LateInv, RunWorkEnd, RunnerAt, mailboxVars, callerVars
<1>8. (PlacesExact /\ SubInv /\ DistinctInv)'
  BY DEF IInv, PlacesExact, Reserving, OnTheWay, Releasing, SubInv, SubHolds, DistinctInv,
      RunWorkEnd, mailboxVars, callerVars
<1> QED BY <1>1, <1>2, <1>3, <1>4, <1>5, <1>6, <1>7, <1>8 DEF IInv

\* The exchange of the thread's post.
LEMMA RunPostKeeps ==
  ASSUME IInv, RunPost
  PROVE  IInv'
<1> USE ThreadAssumption
<1>a. /\ runner.at = "post" /\ runner.task \in Tasks /\ stage[runner.task] = "running"
      /\ runner' = [at |-> "link", task |-> runner.task]
      /\ stage' = [stage EXCEPT ![runner.task] = "posted"]
      /\ finished' = Append(finished, runner.task)
      /\ linking' = linking \cup {runner.task} /\ used' = used
  BY DEF IInv, TypeOK, HandsInv, OnePlace, RunPost, PostExchange, RunnerAt
<1>c. UNCHANGED <<stop, pending, ended, local, life, callerVars, cancelled, sub, own, late>>
  BY DEF RunPost
<1>1. TypeOK'
  <2>1. stage' \in [Tasks -> Stages] /\ finished' \in Seq(Tasks) /\ linking' \subseteq Tasks
    BY <1>a DEF IInv, TypeOK, Stages
  <2> QED BY <1>a, <1>c, <2>1 DEF IInv, TypeOK, callerVars
<1>2. OnePlace'
  <2>1. /\ ~ Contains(finished, runner.task) /\ ~ Contains(pending, runner.task)
        /\ own.task # runner.task
    BY <1>a DEF IInv, OnePlace
  <2>2. \A i, j \in DOMAIN finished' : finished'[i] = finished'[j] => i = j
    BY <1>a, <2>1, AppendOnce, SMTT(30) DEF IInv, TypeOK, OnePlace
  <2>3. \A t \in Tasks : Contains(finished', t) <=> Contains(finished, t) \/ t = runner.task
    BY <1>a, AppendContains DEF IInv, TypeOK
  <2>4. \A t \in Tasks : stage'[t] = IF t = runner.task THEN "posted" ELSE stage[t]
    BY <1>a DEF IInv, TypeOK
  <2> QED BY <1>a, <1>c, <2>1, <2>2, <2>3, <2>4 DEF IInv, OnePlace, executorVars
<1>3. PlacesExact'
  BY ZenonT(30) DEF IInv, TypeOK, PlacesExact, Reserving, OnTheWay, Releasing, OnePlace, RunPost,
      RunnerAt, PostExchange, callerVars
<1>4. SubInv'
  BY DEF IInv, TypeOK, SubInv, SubHolds, OnePlace, RunPost, RunnerAt, PostExchange, callerVars
<1>5. LinkInv'
  BY DEF IInv, TypeOK, LinkInv, SubInv, OnePlace, HandsInv, SubHolds, RunPost, RunnerAt,
      PostExchange, callerVars
<1>6. HandsInv'
  BY DEF IInv, HandsInv, RunPost, RunnerAt, PostExchange, callerVars
<1>7. LifeInv'
  BY DEF IInv, LifeInv, RunPost, RunnerAt, PostExchange, callerVars
<1>8. MarkInv'
  BY DEF IInv, MarkInv, RunPost, RunnerAt, PostExchange, callerVars
<1>9. LateInv'
  BY DEF IInv, LateInv, RunPost, RunnerAt, PostExchange, callerVars
<1>10. DistinctInv'
  BY DEF IInv, DistinctInv, RunPost, PostExchange, callerVars
<1> QED BY <1>1, <1>2, <1>3, <1>4, <1>5, <1>6, <1>7, <1>8, <1>9, <1>10 DEF IInv

\* The link of the thread's post.
LEMMA RunLinkKeeps ==
  ASSUME IInv, RunLink
  PROVE  IInv'
<1> USE ThreadAssumption
<1>1. TypeOK'
  BY DEF IInv, TypeOK, StopKinds, Stages, RunLink, RunnerAt, PostLink, callerVars
<1>2. OnePlace'
  BY DEF IInv, OnePlace, RunLink, RunnerAt, PostLink, callerVars
<1>3. SubInv'
  BY DEF IInv, TypeOK, SubInv, SubHolds, LinkInv, RunLink, RunnerAt, PostLink, callerVars
<1>4. LinkInv'
  BY DEF IInv, LinkInv, RunLink, RunnerAt, PostLink, callerVars
<1>5. HandsInv'
  BY DEF IInv, HandsInv, RunLink, RunnerAt, PostLink, callerVars
<1>6. LifeInv'
  BY DEF IInv, LifeInv, RunLink, RunnerAt, PostLink, callerVars
<1>7. MarkInv'
  BY DEF IInv, MarkInv, RunLink, RunnerAt, PostLink, callerVars
<1>8. LateInv'
  BY DEF IInv, LateInv, RunLink, RunnerAt, PostLink, callerVars
<1>9. (PlacesExact /\ DistinctInv)'
  BY DEF IInv, PlacesExact, Reserving, OnTheWay, Releasing, DistinctInv, RunLink, PostLink,
      callerVars
<1> QED BY <1>1, <1>2, <1>3, <1>4, <1>5, <1>6, <1>7, <1>8, <1>9 DEF IInv

\* The thread closes its context.
LEMMA RunCloseKeeps ==
  ASSUME IInv, RunClose
  PROVE  IInv'
<1> USE ThreadAssumption
<1>1. TypeOK'
  BY ZenonT(30) DEF IInv, TypeOK, StopKinds, Stages, RunClose, RunnerAt, mailboxVars, callerVars
<1>2. OnePlace'
  BY DEF IInv, OnePlace, RunClose, RunnerAt, mailboxVars, callerVars
<1>3. LinkInv'
  BY DEF IInv, LinkInv, RunClose, RunnerAt, mailboxVars, callerVars
<1>4. HandsInv'
  BY DEF IInv, HandsInv, RunClose, RunnerAt, mailboxVars, callerVars
<1>5. LifeInv'
  BY DEF IInv, LifeInv, RunClose, RunnerAt, mailboxVars, callerVars
<1>6. MarkInv'
  BY DEF IInv, MarkInv, RunClose, RunnerAt, mailboxVars, callerVars
<1>7. LateInv'
  BY DEF IInv, LateInv, RunClose, RunnerAt, mailboxVars, callerVars
<1>8. (PlacesExact /\ SubInv /\ DistinctInv)'
  BY DEF IInv, PlacesExact, Reserving, OnTheWay, Releasing, SubInv, SubHolds, DistinctInv,
      RunClose, mailboxVars, callerVars
<1> QED BY <1>1, <1>2, <1>3, <1>4, <1>5, <1>6, <1>7, <1>8 DEF IInv

\* The thread has ended its work.
LEMMA RunEndKeeps ==
  ASSUME IInv, RunEnd
  PROVE  IInv'
<1> USE ThreadAssumption
<1>1. TypeOK'
  BY DEF IInv, TypeOK, StopKinds, Stages, RunEnd, RunnerAt, WakeDestroyer, mailboxVars
<1>2. OnePlace'
  BY DEF IInv, OnePlace, RunEnd, RunnerAt, WakeDestroyer, mailboxVars
<1>3. LinkInv'
  BY DEF IInv, LinkInv, RunEnd, RunnerAt, WakeDestroyer, mailboxVars
<1>4. HandsInv'
  BY DEF IInv, HandsInv, RunEnd, RunnerAt, WakeDestroyer, mailboxVars
<1>5. LifeInv'
  BY DEF IInv, LifeInv, RunEnd, RunnerAt, WakeDestroyer, mailboxVars
<1>6. MarkInv'
  BY DEF IInv, MarkInv, RunEnd, RunnerAt, WakeDestroyer, mailboxVars
<1>7. LateInv'
  BY DEF IInv, LateInv, RunEnd, RunnerAt, WakeDestroyer, mailboxVars
<1>8. (PlacesExact /\ SubInv /\ DistinctInv)'
  BY DEF IInv, PlacesExact, Reserving, OnTheWay, Releasing, SubInv, SubHolds, DistinctInv,
      RunEnd, mailboxVars
<1> QED BY <1>1, <1>2, <1>3, <1>4, <1>5, <1>6, <1>7, <1>8 DEF IInv

\* A dispatch begins with the count as its limit.
LEMMA DispatchBeginKeeps ==
  ASSUME IInv, DispatchBegin
  PROVE  IInv'
<1> USE ThreadAssumption
<1>1. TypeOK'
  BY DEF IInv, TypeOK, StopKinds, Stages, DispatchBegin, OwnAt, mailboxVars, executorVars,
      callerVars
<1>2. OnePlace'
  BY DEF IInv, TypeOK, OnePlace, HandsInv, DispatchBegin, OwnAt, mailboxVars, executorVars,
      callerVars
<1>3. PlacesExact'
  BY DEF IInv, PlacesExact, Reserving, OnTheWay, Releasing, DispatchBegin, OwnAt, mailboxVars,
      executorVars, callerVars
<1>4. HandsInv'
  BY DEF IInv, HandsInv, DispatchBegin, OwnAt, mailboxVars, executorVars, callerVars
<1>5. MarkInv'
  BY DEF IInv, MarkInv, DispatchBegin, OwnAt, mailboxVars, executorVars, callerVars
<1>6. (SubInv /\ DistinctInv /\ LinkInv /\ LifeInv /\ LateInv)'
  BY DEF IInv, SubInv, SubHolds, DistinctInv, LinkInv, LifeInv, LateInv, DispatchBegin,
      mailboxVars, executorVars, callerVars
<1> QED BY <1>1, <1>2, <1>3, <1>4, <1>5, <1>6 DEF IInv

\* The oldest linked task is taken.
LEMMA DispatchTakeKeeps ==
  ASSUME IInv, DispatchTake
  PROVE  IInv'
<1> USE ThreadAssumption
<1> DEFINE t == Head(finished)
<1>a. /\ finished \in Seq(Tasks) /\ finished # <<>> /\ t \in Tasks /\ Contains(finished, t)
      /\ \A i, j \in DOMAIN finished : finished[i] = finished[j] => i = j
      /\ t \notin linking
  BY HeadContained DEF IInv, TypeOK, OnePlace, DispatchTake
<1>b. /\ own.at = "take" /\ own' = OwnAt("taken", t, own.limit, own.count)
      /\ stage' = [stage EXCEPT ![t] = "delivering"] /\ finished' = Tail(finished)
      /\ stage[t] = "posted" /\ own.task = Null
  BY <1>a DEF IInv, OnePlace, HandsInv, DispatchTake
<1>c. UNCHANGED <<used, linking, executorVars, callerVars, cancelled, sub, late>>
  BY DEF DispatchTake
<1>d. \A u \in Tasks : stage'[u] = IF u = t THEN "delivering" ELSE stage[u]
  BY <1>a, <1>b DEF IInv, TypeOK
<1>e. \A u \in Tasks : Contains(finished', u) <=> Contains(finished, u) /\ u # t
  BY <1>a, <1>b, TailContains
<1> HIDE DEF t
<1>1. TypeOK'
  <2>1. stage' \in [Tasks -> Stages] /\ finished' \in Seq(Tasks)
    BY <1>a, <1>b DEF IInv, TypeOK, Stages
  <2> QED BY <1>a, <1>b, <1>c, <2>1 DEF IInv, TypeOK, OwnAt, executorVars, callerVars
<1>2. OnePlace'
  <2>1. \A i, j \in DOMAIN finished' : finished'[i] = finished'[j] => i = j
    BY <1>a, <1>b, TailOnce
  <2> QED BY <1>a, <1>b, <1>c, <1>d, <1>e, <2>1 DEF IInv, OnePlace, OwnAt, executorVars
<1>3. PlacesExact'
  <2>1. Reserving' = Reserving /\ OnTheWay' = OnTheWay
    BY <1>a, <1>b, <1>c, <1>d DEF Reserving, OnTheWay
  <2> QED BY <1>b, <1>c, <2>1, PlacesKept DEF IInv, Releasing, OwnAt
<1>4. SubInv'
  BY <1>a, <1>b, <1>c, <1>d DEF IInv, TypeOK, SubInv, SubHolds, LinkInv
<1>5. LinkInv'
  BY <1>a, <1>b, <1>c, <1>d DEF IInv, TypeOK, LinkInv, executorVars
<1>6. HandsInv'
  BY <1>a, <1>b, <1>c DEF IInv, HandsInv, OwnAt, executorVars
<1>7. MarkInv'
  BY <1>a, <1>b, <1>c, <1>d DEF IInv, TypeOK, MarkInv, OwnAt, executorVars
<1>8. (DistinctInv /\ LifeInv /\ LateInv)'
  BY DEF IInv, DistinctInv, LifeInv, LateInv, DispatchTake, executorVars, callerVars
<1> QED BY <1>1, <1>2, <1>3, <1>4, <1>5, <1>6, <1>7, <1>8 DEF IInv

\* A dispatch returns.
LEMMA DispatchEndKeeps ==
  ASSUME IInv, DispatchEnd
  PROVE  IInv'
<1> USE ThreadAssumption
<1>1. TypeOK'
  BY DEF IInv, TypeOK, StopKinds, Stages, DispatchEnd, OwnAt, NoDispatch, mailboxVars,
      executorVars, callerVars
<1>2. OnePlace'
  BY DEF IInv, TypeOK, OnePlace, HandsInv, DispatchEnd, OwnAt, NoDispatch, mailboxVars,
      executorVars, callerVars
<1>3. PlacesExact'
  BY DEF IInv, PlacesExact, Reserving, OnTheWay, Releasing, DispatchEnd, OwnAt, NoDispatch,
      mailboxVars, executorVars, callerVars
<1>4. HandsInv'
  BY DEF IInv, HandsInv, DispatchEnd, OwnAt, NoDispatch, mailboxVars, executorVars, callerVars
<1>5. MarkInv'
  BY DEF IInv, MarkInv, DispatchEnd, OwnAt, NoDispatch, mailboxVars, executorVars, callerVars
<1>6. (SubInv /\ DistinctInv /\ LinkInv /\ LifeInv /\ LateInv)'
  BY DEF IInv, SubInv, SubHolds, DistinctInv, LinkInv, LifeInv, LateInv, DispatchEnd,
      mailboxVars, executorVars, callerVars
<1> QED BY <1>1, <1>2, <1>3, <1>4, <1>5, <1>6 DEF IInv

\* A task that was not marked is completed.
LEMMA DeliverCompleteKeeps ==
  ASSUME IInv, DeliverComplete
  PROVE  IInv'
<1> USE ThreadAssumption
<1>1. TypeOK'
  BY DEF IInv, TypeOK, StopKinds, Stages, DeliverComplete, OwnAt, OwnerAt, DeliverTo,
      mailboxVars, executorVars, callerVars
<1>2. OnePlace'
  BY DEF IInv, OnePlace, DeliverComplete, OwnAt, OwnerAt, DeliverTo, mailboxVars,
      executorVars, callerVars
<1>3. PlacesExact'
  BY DEF IInv, PlacesExact, Reserving, OnTheWay, Releasing, DeliverComplete, OwnAt, OwnerAt,
      DeliverTo, mailboxVars, executorVars, callerVars
<1>4. HandsInv'
  BY DEF IInv, HandsInv, DeliverComplete, OwnAt, OwnerAt, DeliverTo, mailboxVars,
      executorVars, callerVars
<1>5. MarkInv'
  BY DEF IInv, MarkInv, DeliverComplete, OwnAt, OwnerAt, DeliverTo, mailboxVars, executorVars,
      callerVars
<1>6. (SubInv /\ DistinctInv /\ LinkInv /\ LifeInv /\ LateInv)'
  BY DEF IInv, SubInv, SubHolds, DistinctInv, LinkInv, LifeInv, LateInv, DeliverComplete,
      mailboxVars, executorVars, callerVars
<1> QED BY <1>1, <1>2, <1>3, <1>4, <1>5, <1>6 DEF IInv

\* The completion returns.
LEMMA DeliverCompletedKeeps ==
  ASSUME IInv, DeliverCompleted
  PROVE  IInv'
<1> USE ThreadAssumption
<1>1. TypeOK'
  BY DEF IInv, TypeOK, StopKinds, Stages, DeliverCompleted, OwnAt, OwnerAt, mailboxVars,
      executorVars, callerVars
<1>2. OnePlace'
  BY DEF IInv, OnePlace, DeliverCompleted, OwnAt, OwnerAt, mailboxVars, executorVars, callerVars
<1>3. PlacesExact'
  BY DEF IInv, PlacesExact, Reserving, OnTheWay, Releasing, DeliverCompleted, OwnAt, OwnerAt,
      mailboxVars, executorVars, callerVars
<1>4. HandsInv'
  BY DEF IInv, HandsInv, DeliverCompleted, OwnAt, OwnerAt, mailboxVars, executorVars, callerVars
<1>5. MarkInv'
  BY DEF IInv, MarkInv, DeliverCompleted, OwnAt, OwnerAt, mailboxVars, executorVars, callerVars
<1>6. (SubInv /\ DistinctInv /\ LinkInv /\ LifeInv /\ LateInv)'
  BY DEF IInv, SubInv, SubHolds, DistinctInv, LinkInv, LifeInv, LateInv, DeliverCompleted,
      mailboxVars, executorVars, callerVars
<1> QED BY <1>1, <1>2, <1>3, <1>4, <1>5, <1>6 DEF IInv

\* The record is its caller's again.
LEMMA DeliverDestroyKeeps ==
  ASSUME IInv, DeliverDestroy
  PROVE  IInv'
<1> USE ThreadAssumption
<1>a. /\ own.at = "destroy" /\ own.task \in Tasks /\ stage[own.task] = "delivering"
      /\ own' = OwnAt("release", Null, own.limit, own.count)
      /\ stage' = [stage EXCEPT ![own.task] = "caller"]
      /\ UNCHANGED <<mailboxVars, executorVars, callerVars, cancelled, sub, late>>
  BY DEF IInv, TypeOK, OnePlace, HandsInv, DeliverDestroy
<1>1. TypeOK'
  <2>1. stage' \in [Tasks -> Stages]
    BY <1>a DEF IInv, TypeOK, Stages
  <2> QED BY <1>a, <2>1 DEF IInv, TypeOK, OwnAt, mailboxVars, executorVars, callerVars
<1>2. OnePlace'
  BY DEF IInv, TypeOK, OnePlace, DeliverDestroy, OwnAt, mailboxVars, executorVars, callerVars
<1>3. PlacesExact'
  <2>1. /\ own.task \in OnTheWay /\ OnTheWay' = OnTheWay \ {own.task} /\ Reserving' = Reserving
        /\ Releasing = 0 /\ Releasing' = 1
    BY <1>a DEF IInv, TypeOK, OnTheWay, Reserving, Releasing, OwnAt
  <2>2. /\ Cardinality(OnTheWay) \in Nat /\ Cardinality(Reserving) \in Nat
        /\ Cardinality(OnTheWay') = Cardinality(OnTheWay) - 1
    BY <2>1, Counts, BooksFinite
  <2> QED BY <1>a, <2>1, <2>2 DEF IInv, PlacesExact, mailboxVars
<1>4. SubInv'
  BY DEF IInv, TypeOK, SubInv, SubHolds, OnePlace, DeliverDestroy, OwnAt, mailboxVars,
      executorVars, callerVars
<1>5. LinkInv'
  BY DEF IInv, TypeOK, LinkInv, OnePlace, DeliverDestroy, OwnAt, mailboxVars, executorVars,
      callerVars
<1>6. HandsInv'
  BY DEF IInv, HandsInv, DeliverDestroy, OwnAt, mailboxVars, executorVars, callerVars
<1>7. MarkInv'
  BY DEF IInv, MarkInv, DeliverDestroy, OwnAt, mailboxVars, executorVars, callerVars
<1>8. (DistinctInv /\ LifeInv /\ LateInv)'
  BY DEF IInv, DistinctInv, LifeInv, LateInv, DeliverDestroy, mailboxVars, executorVars,
      callerVars
<1> QED BY <1>1, <1>2, <1>3, <1>4, <1>5, <1>6, <1>7, <1>8 DEF IInv

\* The place goes back.
LEMMA DeliverReleaseKeeps ==
  ASSUME IInv, DeliverRelease
  PROVE  IInv'
<1> USE ThreadAssumption
<1>a. /\ own.at = "release" /\ own' = OwnAt("take", Null, own.limit, own.count + 1)
      /\ used' = used - 1
      /\ UNCHANGED <<finished, linking, executorVars, callerVars, stage, cancelled, sub, late>>
  BY DEF DeliverRelease, Counted
<1>b. PlacesExact' /\ used' \in Nat
  <2>1. OnTheWay' = OnTheWay /\ Reserving' = Reserving /\ Releasing = 1 /\ Releasing' = 0
    BY <1>a DEF OnTheWay, Reserving, Releasing, OwnAt
  <2>2. Cardinality(OnTheWay) \in Nat /\ Cardinality(Reserving) \in Nat
    BY Counts, BooksFinite
  <2> QED BY <1>a, <2>1, <2>2 DEF IInv, TypeOK, PlacesExact
<1>1. TypeOK'
  BY <1>a, <1>b DEF IInv, TypeOK, OwnAt, executorVars, callerVars
<1>2. OnePlace'
  BY DEF IInv, TypeOK, OnePlace, HandsInv, DeliverRelease, OwnAt, Counted, executorVars,
      callerVars
<1>3. PlacesExact'
  BY <1>b
<1>4. HandsInv'
  BY DEF IInv, HandsInv, DeliverRelease, OwnAt, Counted, executorVars, callerVars
<1>5. MarkInv'
  BY DEF IInv, MarkInv, DeliverRelease, OwnAt, Counted, executorVars, callerVars
<1>6. (SubInv /\ DistinctInv /\ LinkInv /\ LifeInv /\ LateInv)'
  BY DEF IInv, SubInv, SubHolds, DistinctInv, LinkInv, LifeInv, LateInv, DeliverRelease,
      executorVars, callerVars
<1> QED BY <1>1, <1>2, <1>3, <1>4, <1>5, <1>6 DEF IInv

\* The executor is started.
LEMMA StartKeeps ==
  ASSUME IInv, Start
  PROVE  IInv'
<1> USE ThreadAssumption
<1>a. 0 \in 0 .. 2 /\ <<>> \in Seq(Tasks)
  OBVIOUS
<1>1. TypeOK'
  BY <1>a, ZenonT(30) DEF IInv, TypeOK, StopKinds, Start, RunnerAt, mailboxVars, callerVars
<1>2. OnePlace'
  BY DEF IInv, TypeOK, OnePlace, LinkInv, LifeInv, Start, RunnerAt, mailboxVars, callerVars
<1>3. LinkInv'
  BY DEF IInv, LinkInv, Start, RunnerAt, mailboxVars, callerVars
<1>4. HandsInv'
  BY DEF IInv, HandsInv, Start, RunnerAt, mailboxVars, callerVars
<1>5. LifeInv'
  BY DEF IInv, LifeInv, Start, RunnerAt, mailboxVars, callerVars
<1>6. MarkInv'
  BY DEF IInv, MarkInv, Start, RunnerAt, mailboxVars, callerVars
<1>7. LateInv'
  BY DEF IInv, LateInv, Start, RunnerAt, mailboxVars, callerVars
<1>8. (PlacesExact /\ SubInv /\ DistinctInv)'
  BY DEF IInv, PlacesExact, Reserving, OnTheWay, Releasing, SubInv, SubHolds, DistinctInv,
      Start, mailboxVars, callerVars
<1> QED BY <1>1, <1>2, <1>3, <1>4, <1>5, <1>6, <1>7, <1>8 DEF IInv

\* A stop is asked for.
LEMMA StopRequestKeeps ==
  ASSUME IInv, NEW k \in Stoppers, StopRequest(k)
  PROVE  IInv'
<1> USE ThreadAssumption
<1>1. TypeOK'
  BY DEF IInv, TypeOK, StopKinds, Stages, StopRequest, RunnerAt, WakeRunner, Stricter,
      mailboxVars
<1>2. OnePlace'
  BY DEF IInv, OnePlace, StopRequest, RunnerAt, WakeRunner, Stricter, StopKinds, mailboxVars
<1>3. LinkInv'
  BY DEF IInv, LinkInv, StopRequest, RunnerAt, WakeRunner, Stricter, StopKinds, mailboxVars
<1>4. HandsInv'
  BY DEF IInv, HandsInv, StopRequest, RunnerAt, WakeRunner, Stricter, StopKinds, mailboxVars
<1>5. LifeInv'
  BY DEF IInv, LifeInv, StopRequest, RunnerAt, WakeRunner, Stricter, StopKinds, mailboxVars
<1>6. MarkInv'
  BY DEF IInv, MarkInv, StopRequest, RunnerAt, WakeRunner, Stricter, StopKinds, mailboxVars
<1>7. LateInv'
  BY DEF IInv, LateInv, StopRequest, RunnerAt, WakeRunner, Stricter, StopKinds, mailboxVars
<1>8. (PlacesExact /\ SubInv /\ DistinctInv)'
  BY DEF IInv, PlacesExact, Reserving, OnTheWay, Releasing, SubInv, SubHolds, DistinctInv,
      StopRequest, mailboxVars
<1> QED BY <1>1, <1>2, <1>3, <1>4, <1>5, <1>6, <1>7, <1>8 DEF IInv

\* A stop returns.
LEMMA StopReturnKeeps ==
  ASSUME IInv, NEW k \in Stoppers, StopReturn(k)
  PROVE  IInv'
<1> USE ThreadAssumption
<1>1. TypeOK'
  BY DEF IInv, TypeOK, StopKinds, Stages, StopReturn, mailboxVars, executorVars
<1>2. /\ (OnePlace /\ PlacesExact /\ SubInv /\ DistinctInv)'
      /\ (LinkInv /\ HandsInv /\ LifeInv /\ MarkInv /\ LateInv)'
  BY DEF IInv, OnePlace, PlacesExact, Reserving, OnTheWay, Releasing, SubInv, SubHolds,
      DistinctInv, LinkInv, HandsInv, LifeInv, MarkInv, LateInv, StopReturn, mailboxVars,
      executorVars
<1> QED BY <1>1, <1>2 DEF IInv

\* The executor is being destroyed.
LEMMA DestroyKeeps ==
  ASSUME IInv, Destroy
  PROVE  IInv'
<1> USE ThreadAssumption
<1>1. TypeOK'
  BY DEF IInv, TypeOK, StopKinds, Stages, Destroy, RunnerAt, WakeRunner, mailboxVars
<1>2. OnePlace'
  BY DEF IInv, OnePlace, Destroy, RunnerAt, WakeRunner, StopKinds, mailboxVars
<1>3. LinkInv'
  BY DEF IInv, LinkInv, Destroy, RunnerAt, WakeRunner, StopKinds, mailboxVars
<1>4. HandsInv'
  BY DEF IInv, HandsInv, Destroy, RunnerAt, WakeRunner, StopKinds, mailboxVars
<1>5. LifeInv'
  BY DEF IInv, LifeInv, Destroy, RunnerAt, WakeRunner, StopKinds, mailboxVars
<1>6. MarkInv'
  BY DEF IInv, MarkInv, Destroy, RunnerAt, WakeRunner, StopKinds, mailboxVars
<1>7. LateInv'
  BY DEF IInv, LateInv, Destroy, RunnerAt, WakeRunner, StopKinds, mailboxVars
<1>8. (PlacesExact /\ SubInv /\ DistinctInv)'
  BY DEF IInv, PlacesExact, Reserving, OnTheWay, Releasing, SubInv, SubHolds, DistinctInv,
      Destroy, mailboxVars
<1> QED BY <1>1, <1>2, <1>3, <1>4, <1>5, <1>6, <1>7, <1>8 DEF IInv

\* The destroyer looks for the end.
LEMMA DestroyWaitKeeps ==
  ASSUME IInv, DestroyWait
  PROVE  IInv'
<1> USE ThreadAssumption
<1>1. TypeOK'
  BY DEF IInv, TypeOK, StopKinds, Stages, DestroyWait, mailboxVars, executorVars
<1>2. LifeInv'
  BY DEF IInv, LifeInv, DestroyWait, mailboxVars, executorVars
<1>3. /\ (OnePlace /\ PlacesExact /\ SubInv /\ DistinctInv)'
      /\ (LinkInv /\ HandsInv /\ MarkInv /\ LateInv)'
  BY DEF IInv, OnePlace, PlacesExact, Reserving, OnTheWay, Releasing, SubInv, SubHolds,
      DistinctInv, LinkInv, HandsInv, MarkInv, LateInv, DestroyWait, mailboxVars, executorVars
<1> QED BY <1>1, <1>2, <1>3 DEF IInv

\* The thread is joined and the record free.
LEMMA DestroyJoinKeeps ==
  ASSUME IInv, DestroyJoin
  PROVE  IInv'
<1> USE ThreadAssumption
<1>1. TypeOK'
  BY DEF IInv, TypeOK, StopKinds, Stages, DestroyJoin, RunnerAt, mailboxVars
<1>2. OnePlace'
  BY DEF IInv, OnePlace, DestroyJoin, RunnerAt, mailboxVars
<1>3. LinkInv'
  BY DEF IInv, LinkInv, DestroyJoin, RunnerAt, mailboxVars
<1>4. HandsInv'
  BY DEF IInv, HandsInv, DestroyJoin, RunnerAt, mailboxVars
<1>5. LifeInv'
  BY DEF IInv, LifeInv, DestroyJoin, RunnerAt, mailboxVars
<1>6. MarkInv'
  BY DEF IInv, MarkInv, DestroyJoin, RunnerAt, mailboxVars
<1>7. LateInv'
  BY DEF IInv, LateInv, DestroyJoin, RunnerAt, mailboxVars
<1>8. (PlacesExact /\ SubInv /\ DistinctInv)'
  BY DEF IInv, PlacesExact, Reserving, OnTheWay, Releasing, SubInv, SubHolds, DistinctInv,
      DestroyJoin, mailboxVars
<1> QED BY <1>1, <1>2, <1>3, <1>4, <1>5, <1>6, <1>7, <1>8 DEF IInv

LEMMA InitHolds == Init => IInv
<1> SUFFICES ASSUME Init PROVE IInv
  OBVIOUS
<1> USE ThreadAssumption DEF Init, RunnerAt, NoSub, SubAt, NoDispatch, OwnAt
<1>1. TypeOK
  <2>1. 0 \in 0 .. 2 /\ 0 \in Nat /\ <<>> \in Seq(Tasks)
    OBVIOUS
  <2> QED BY <2>1, ZenonT(30) DEF TypeOK, StopKinds, Stages
<1>2. OnePlace
  BY DEF OnePlace, Contains
<1>3. PlacesExact
  <2>1. Reserving = {} /\ OnTheWay = {} /\ Releasing = 0
    BY DEF Reserving, OnTheWay, Releasing
  <2> QED BY <2>1, FS_EmptySet DEF PlacesExact
<1>4. SubInv /\ DistinctInv /\ LinkInv /\ HandsInv /\ LifeInv /\ MarkInv /\ LateInv
  BY DEF SubInv, SubHolds, DistinctInv, LinkInv, HandsInv, LifeInv, MarkInv, LateInv
<1> QED BY <1>1, <1>2, <1>3, <1>4 DEF IInv

LEMMA StutterKeeps ==
  ASSUME IInv, UNCHANGED vars
  PROVE  IInv'
<1>1. PlacesExact'
  BY PlacesKept DEF IInv, vars, Reserving, OnTheWay, Releasing
<1>2. (TypeOK /\ OnePlace)'
  BY DEF IInv, vars, TypeOK, OnePlace
<1>3. (SubInv /\ DistinctInv /\ LinkInv /\ HandsInv /\ LifeInv /\ MarkInv /\ LateInv)'
  BY DEF IInv, vars, SubInv, SubHolds, DistinctInv, LinkInv, HandsInv, LifeInv, MarkInv, LateInv
<1> QED BY <1>1, <1>2, <1>3 DEF IInv

LEMMA NextKeeps ==
  ASSUME IInv, [Next]_vars
  PROVE  IInv'
<1>1. CASE \E s \in Submitters : Submit(s)
  BY <1>1, SubmitKeeps
<1>2. ASSUME NEW s \in Submitters, SubmitStep(s) PROVE IInv'
  BY <1>2, ReserveLoadKeeps, ReserveCasKeeps, AcceptThreadKeeps, ReleaseRefusedKeeps,
     AcceptInlineKeeps, InlinePostKeeps, InlineLinkKeeps DEF SubmitStep
<1>3. CASE RunOpen
  BY <1>3, RunOpenKeeps
<1>4. CASE RunTake
  BY <1>4, RunTakeKeeps
<1>5. CASE RunEmpty
  BY <1>5, RunEmptyKeeps
<1>6. CASE RunSpurious
  BY <1>6, RunSpuriousKeeps
<1>7. CASE RunWork
  BY <1>7, RunWorkKeeps
<1>8. CASE RunWorkEnd
  BY <1>8, RunWorkEndKeeps
<1>9. CASE RunPost
  BY <1>9, RunPostKeeps
<1>10. CASE RunLink
  BY <1>10, RunLinkKeeps
<1>11. CASE RunClose
  BY <1>11, RunCloseKeeps
<1>12. CASE RunEnd
  BY <1>12, RunEndKeeps
<1>13. CASE DispatchBegin
  BY <1>13, DispatchBeginKeeps
<1>14. CASE DispatchTake
  BY <1>14, DispatchTakeKeeps
<1>15. CASE DispatchEnd
  BY <1>15, DispatchEndKeeps
<1>16. CASE DeliverComplete
  BY <1>16, DeliverCompleteKeeps
<1>17. CASE DeliverCompleted
  BY <1>17, DeliverCompletedKeeps
<1>18. CASE DeliverDestroy
  BY <1>18, DeliverDestroyKeeps
<1>19. CASE DeliverRelease
  BY <1>19, DeliverReleaseKeeps
<1>20. CASE Start
  BY <1>20, StartKeeps
<1>21. CASE Destroy
  BY <1>21, DestroyKeeps
<1>22. CASE DestroyWait
  BY <1>22, DestroyWaitKeeps
<1>23. CASE DestroyJoin
  BY <1>23, DestroyJoinKeeps
<1>24. CASE \E k \in Stoppers : StopRequest(k) \/ StopReturn(k)
  BY <1>24, StopRequestKeeps, StopReturnKeeps
<1>25. CASE UNCHANGED vars
  BY <1>25, StutterKeeps
<1> QED BY <1>1, <1>2, <1>3, <1>4, <1>5, <1>6, <1>7, <1>8, <1>9, <1>10, <1>11, <1>12, <1>13,
           <1>14, <1>15, <1>16, <1>17, <1>18, <1>19, <1>20, <1>21, <1>22, <1>23, <1>24, <1>25
       DEF Next, RunStep, DispatchStep, DestroyStep

------------------------------------------------------------------------------
(* The theorems. *)

\* Submitters, the thread, the owner, the stoppers and the destroyer keep the
\* inductive invariant in every order of their steps.
THEOREM InductiveInvariant == Spec => []IInv
<1>1. Init => IInv
  BY InitHolds
<1>2. IInv /\ [Next]_vars => IInv'
  BY NextKeeps
<1> QED BY <1>1, <1>2, PTL DEF Spec

\* The books of the mailbox and of the thread executor agree: every task is in
\* one place, the count of places is exact and within the capacity, and a
\* thread that has ended leaves nothing behind.
THEOREM TasksAccountedTheorem == Spec => []TasksAccounted
<1>1. IInv => EndedMeansDone
  <2> SUFFICES ASSUME IInv, ended PROVE EndedMeansDone
    BY DEF EndedMeansDone
  <2>1. pending = <<>> /\ ~ local /\ runner.at \in {"none", "done"}
    BY DEF IInv, LifeInv
  <2>2. \A t \in Tasks : ~ Contains(pending, t)
    BY <2>1 DEF Contains
  <2> QED BY <2>1, <2>2 DEF IInv, OnePlace, EndedMeansDone
<1>2. IInv => TasksAccounted
  BY <1>1 DEF IInv, TasksAccounted
<1> QED BY <1>2, InductiveInvariant, PTL

\* After a cancelling stop the thread begins at most one work, whatever was
\* pending and whatever stops follow.
THEOREM OneLateStartAtMostTheorem == Spec => []OneLateStartAtMost
<1>1. IInv => OneLateStartAtMost
  BY DEF IInv, LateInv, OneLateStartAtMost
<1> QED BY <1>1, InductiveInvariant, PTL

------------------------------------------------------------------------------
(* The executor keeps the laws of a task: every step is a step of TaskLife or  *)
(* leaves all phases and the stop as they are.                                *)

Lawful == [Life!Next]_(Life!lifeVars)

LEMMA NoMove ==
  ASSUME \A u \in Tasks : Phase(u)' = Phase(u), stop' = stop
  PROVE  Lawful
<1>1. [u \in Tasks |-> Phase(u)]' = [u \in Tasks |-> Phase(u)]
  OBVIOUS
<1> QED BY <1>1 DEF Lawful, Life!lifeVars

LEMMA OneMove ==
  ASSUME NEW t \in Tasks, NEW from, NEW to, Phase(t) = from, Phase(t)' = to,
         \A u \in Tasks : u # t => Phase(u)' = Phase(u), stop' = stop
  PROVE  Life!Move(t, from, to)
<1>1. [u \in Tasks |-> Phase(u)]' = [[u \in Tasks |-> Phase(u)] EXCEPT ![t] = to]
  OBVIOUS
<1> QED BY <1>1 DEF Life!Move

LEMMA SubmitLawful ==
  ASSUME IInv, NEW s \in Submitters, Submit(s)
  PROVE  Lawful
<1>1. \A u \in Tasks : Phase(u)' = Phase(u)
  BY ThreadAssumption DEF Phase, Submit, SubAt, MaySubmit, mailboxVars, executorVars, callerVars
<1> QED BY <1>1, NoMove DEF Submit, executorVars

LEMMA ReserveLoadLawful ==
  ASSUME IInv, NEW s \in Submitters, ReserveLoad(s)
  PROVE  Lawful
<1>1. \A u \in Tasks : Phase(u)' = Phase(u)
  BY ThreadAssumption DEF IInv, TypeOK, SubInv, SubHolds, Phase, ReserveLoad, SubAt, NoSub,
      GiveBack, mailboxVars, executorVars, callerVars
<1> QED BY <1>1, NoMove DEF ReserveLoad, executorVars

LEMMA ReserveCasLawful ==
  ASSUME IInv, NEW s \in Submitters, ReserveCas(s)
  PROVE  Lawful
<1>1. \A u \in Tasks : Phase(u)' = Phase(u)
  BY ThreadAssumption DEF Phase, ReserveCas, SubAt, SubmitterAt, CasSucceeds, executorVars,
      callerVars
<1> QED BY <1>1, NoMove DEF ReserveCas, executorVars

LEMMA ReleaseRefusedLawful ==
  ASSUME IInv, NEW s \in Submitters, ReleaseRefused(s)
  PROVE  Lawful
<1>1. \A u \in Tasks : Phase(u)' = Phase(u)
  BY ThreadAssumption DEF IInv, TypeOK, SubInv, SubHolds, Phase, ReleaseRefused, SubAt,
      NoSub, GiveBack, executorVars, callerVars
<1> QED BY <1>1, NoMove DEF ReleaseRefused, executorVars

LEMMA InlineLinkLawful ==
  ASSUME IInv, NEW s \in Submitters, InlineLink(s)
  PROVE  Lawful
<1>1. \A u \in Tasks : Phase(u)' = Phase(u)
  BY ThreadAssumption DEF Phase, InlineLink, SubAt, NoSub, PostLink, executorVars, callerVars
<1> QED BY <1>1, NoMove DEF InlineLink, executorVars

LEMMA RunOpenLawful ==
  ASSUME IInv, RunOpen
  PROVE  Lawful
<1>1. \A u \in Tasks : Phase(u)' = Phase(u)
  BY ThreadAssumption DEF Phase, RunOpen, RunnerAt, mailboxVars, callerVars
<1> QED BY <1>1, NoMove DEF RunOpen, executorVars

LEMMA RunEmptyLawful ==
  ASSUME IInv, RunEmpty
  PROVE  Lawful
<1>1. \A u \in Tasks : Phase(u)' = Phase(u)
  BY ThreadAssumption DEF Phase, RunEmpty, RunnerAt, mailboxVars, callerVars
<1> QED BY <1>1, NoMove DEF RunEmpty, executorVars

LEMMA RunSpuriousLawful ==
  ASSUME IInv, RunSpurious
  PROVE  Lawful
<1>1. \A u \in Tasks : Phase(u)' = Phase(u)
  BY ThreadAssumption DEF Phase, RunSpurious, RunnerAt, mailboxVars, callerVars
<1> QED BY <1>1, NoMove DEF RunSpurious, executorVars

LEMMA RunPostLawful ==
  ASSUME IInv, RunPost
  PROVE  Lawful
<1>1. \A u \in Tasks : Phase(u)' = Phase(u)
  BY ThreadAssumption DEF IInv, OnePlace, Phase, RunPost, RunnerAt, PostExchange, callerVars
<1> QED BY <1>1, NoMove DEF RunPost, executorVars

LEMMA RunLinkLawful ==
  ASSUME IInv, RunLink
  PROVE  Lawful
<1>1. \A u \in Tasks : Phase(u)' = Phase(u)
  BY ThreadAssumption DEF Phase, RunLink, RunnerAt, PostLink, callerVars
<1> QED BY <1>1, NoMove DEF RunLink, executorVars

LEMMA RunCloseLawful ==
  ASSUME IInv, RunClose
  PROVE  Lawful
<1>1. \A u \in Tasks : Phase(u)' = Phase(u)
  BY ThreadAssumption DEF Phase, RunClose, RunnerAt, mailboxVars, callerVars
<1> QED BY <1>1, NoMove DEF RunClose, executorVars

LEMMA RunEndLawful ==
  ASSUME IInv, RunEnd
  PROVE  Lawful
<1>1. \A u \in Tasks : Phase(u)' = Phase(u)
  BY ThreadAssumption DEF Phase, RunEnd, RunnerAt, WakeDestroyer, mailboxVars
<1> QED BY <1>1, NoMove DEF RunEnd, executorVars

LEMMA DispatchBeginLawful ==
  ASSUME IInv, DispatchBegin
  PROVE  Lawful
<1>1. \A u \in Tasks : Phase(u)' = Phase(u)
  BY ThreadAssumption DEF Phase, DispatchBegin, OwnAt, mailboxVars, executorVars, callerVars
<1> QED BY <1>1, NoMove DEF DispatchBegin, executorVars

LEMMA DispatchTakeLawful ==
  ASSUME IInv, DispatchTake
  PROVE  Lawful
<1>1. \A u \in Tasks : Phase(u)' = Phase(u)
  <2>1. Head(finished) \in Tasks /\ Contains(finished, Head(finished))
    BY HeadContained DEF IInv, TypeOK, DispatchTake
  <2>2. stage[Head(finished)] = "posted"
    BY <2>1 DEF IInv, OnePlace
  <2> QED BY <2>1, <2>2 DEF Phase, DispatchTake, OwnAt, executorVars, callerVars
<1> QED BY <1>1, NoMove DEF DispatchTake, executorVars

LEMMA DispatchEndLawful ==
  ASSUME IInv, DispatchEnd
  PROVE  Lawful
<1>1. \A u \in Tasks : Phase(u)' = Phase(u)
  BY ThreadAssumption DEF Phase, DispatchEnd, OwnAt, NoDispatch, mailboxVars, executorVars,
      callerVars
<1> QED BY <1>1, NoMove DEF DispatchEnd, executorVars

LEMMA DeliverCompletedLawful ==
  ASSUME IInv, DeliverCompleted
  PROVE  Lawful
<1>1. \A u \in Tasks : Phase(u)' = Phase(u)
  BY ThreadAssumption DEF IInv, TypeOK, OnePlace, HandsInv, MarkInv, Phase,
      DeliverCompleted, OwnAt, OwnerAt, mailboxVars, executorVars, callerVars
<1> QED BY <1>1, NoMove DEF DeliverCompleted, executorVars

LEMMA DeliverReleaseLawful ==
  ASSUME IInv, DeliverRelease
  PROVE  Lawful
<1>1. \A u \in Tasks : Phase(u)' = Phase(u)
  BY ThreadAssumption DEF Phase, DeliverRelease, OwnAt, Counted, executorVars, callerVars
<1> QED BY <1>1, NoMove DEF DeliverRelease, executorVars

LEMMA StopReturnLawful ==
  ASSUME IInv, NEW k \in Stoppers, StopReturn(k)
  PROVE  Lawful
<1>1. \A u \in Tasks : Phase(u)' = Phase(u)
  BY ThreadAssumption DEF Phase, StopReturn, mailboxVars, executorVars
<1> QED BY <1>1, NoMove DEF StopReturn, executorVars

LEMMA DestroyWaitLawful ==
  ASSUME IInv, DestroyWait
  PROVE  Lawful
<1>1. \A u \in Tasks : Phase(u)' = Phase(u)
  BY ThreadAssumption DEF Phase, DestroyWait, mailboxVars, executorVars
<1> QED BY <1>1, NoMove DEF DestroyWait, executorVars

LEMMA DestroyJoinLawful ==
  ASSUME IInv, DestroyJoin
  PROVE  Lawful
<1>1. \A u \in Tasks : Phase(u)' = Phase(u)
  BY ThreadAssumption DEF Phase, DestroyJoin, RunnerAt, mailboxVars
<1> QED BY <1>1, NoMove DEF DestroyJoin, executorVars

LEMMA AcceptInlineLawful ==
  ASSUME IInv, NEW s \in Submitters, AcceptInline(s)
  PROVE  Lawful
<1>1. PICK t \in Tasks : t = sub[s].task
  BY DEF IInv, TypeOK, SubInv, SubHolds, HandsInv, AcceptInline
<1>2. Phase(t) = "caller" /\ Phase(t)' = "inline"
  BY <1>1, ThreadAssumption DEF IInv, TypeOK, SubInv, SubHolds, Phase, AcceptInline, SubAt,
      SubmitterAt, mailboxVars, executorVars, callerVars
<1>3. \A u \in Tasks : u # t => Phase(u)' = Phase(u)
  BY <1>1, ThreadAssumption DEF Phase, AcceptInline, SubAt, SubmitterAt, mailboxVars,
      executorVars, callerVars
<1>4. Life!Move(t, "caller", "inline")
  BY <1>2, <1>3, OneMove DEF AcceptInline, executorVars
<1> QED BY <1>4 DEF Lawful, Life!Next, Life!BeginInline

LEMMA InlinePostLawful ==
  ASSUME IInv, NEW s \in Submitters, InlinePost(s)
  PROVE  Lawful
<1>1. PICK t \in Tasks : t = sub[s].task
  BY DEF IInv, TypeOK, SubInv, SubHolds, HandsInv, InlinePost
<1>2. Phase(t) = "inline" /\ Phase(t)' = "finished"
  BY <1>1, ThreadAssumption DEF IInv, TypeOK, OnePlace, HandsInv, SubInv, SubHolds, MarkInv,
      Phase, InlinePost, SubAt, SubmitterAt, PostExchange, executorVars, callerVars
<1>3. \A u \in Tasks : u # t => Phase(u)' = Phase(u)
  BY <1>1, ThreadAssumption DEF Phase, InlinePost, SubAt, SubmitterAt, PostExchange,
      executorVars, callerVars
<1>4. Life!Move(t, "inline", "finished")
  BY <1>2, <1>3, OneMove DEF InlinePost, executorVars
<1> QED BY <1>4 DEF Lawful, Life!Next, Life!Finish

LEMMA RunWorkEndLawful ==
  ASSUME IInv, RunWorkEnd
  PROVE  Lawful
<1>1. PICK t \in Tasks : t = runner.task
  BY DEF IInv, TypeOK, SubInv, SubHolds, HandsInv, RunWorkEnd
<1>2. Phase(t) = "working" /\ Phase(t)' = "finished"
  BY <1>1, ThreadAssumption DEF IInv, TypeOK, OnePlace, HandsInv, MarkInv, Phase,
      RunWorkEnd, RunnerAt, mailboxVars, callerVars
<1>3. \A u \in Tasks : u # t => Phase(u)' = Phase(u)
  BY <1>1, ThreadAssumption DEF IInv, OnePlace, Phase, RunWorkEnd, RunnerAt, mailboxVars,
      callerVars
<1>4. Life!Move(t, "working", "finished")
  BY <1>2, <1>3, OneMove DEF RunWorkEnd, executorVars
<1> QED BY <1>4 DEF Lawful, Life!Next, Life!Finish

LEMMA AcceptThreadLawful ==
  ASSUME IInv, NEW s \in Submitters, AcceptThread(s)
  PROVE  Lawful
<1>0. stop' = stop
  BY DEF AcceptThread
<1>1. PICK t \in Tasks : t = sub[s].task
  BY DEF IInv, SubInv, SubHolds, AcceptThread
<1>2. CASE Refuses
  <2>1. \A u \in Tasks : Phase(u)' = Phase(u)
    BY <1>2 DEF AcceptThread, Phase
  <2> QED BY <1>0, <2>1, NoMove
<1>3. CASE ~ Refuses
  <2>1. Phase(t) = "caller" /\ Phase(t)' = "accepted"
    BY <1>1, <1>3 DEF IInv, TypeOK, SubInv, SubHolds, Phase, AcceptThread, SubAt, NoSub,
      SubmitterAt, Refuses, RunnerAt, WakeRunner, mailboxVars, callerVars
  <2>2. \A u \in Tasks : u # t => Phase(u)' = Phase(u)
    BY <1>1, <1>3 DEF IInv, TypeOK, OnePlace, Phase, AcceptThread, SubAt, NoSub,
      SubmitterAt, Refuses, RunnerAt, WakeRunner, mailboxVars, callerVars
  <2>3. Life!Move(t, "caller", "accepted")
    BY <1>0, <2>1, <2>2, OneMove
  <2> QED BY <1>3, <2>3 DEF Lawful, Life!Next, Life!Accept, Refuses
<1> QED BY <1>2, <1>3

LEMMA RunTakeLawful ==
  ASSUME IInv, RunTake
  PROVE  Lawful
<1>1. PICK t \in Tasks : t = Head(pending) /\ Contains(pending, t) /\ stop' = stop
  BY HeadContained DEF IInv, TypeOK, RunTake
<1>2. /\ stage[t] = "pending" /\ ~ cancelled[t]
      /\ stage' = [stage EXCEPT ![t] = "running"]
      /\ runner.at = "wait" /\ runner' = [at |-> "taken", task |-> t]
      /\ cancelled' = [cancelled EXCEPT ![t] = Cancels \/ cancelled[t]]
      /\ own' = own
  BY <1>1 DEF IInv, OnePlace, MarkInv, RunTake, RunnerAt
<1>3. \A u \in Tasks : u # t => Phase(u)' = Phase(u)
  BY <1>1, <1>2 DEF IInv, TypeOK, OnePlace, Phase
<1>4. CASE Cancels
  <2>1. Phase(t) = "accepted" /\ Phase(t)' = "cancelled"
    BY <1>1, <1>2, <1>4 DEF IInv, TypeOK, Phase
  <2>2. Life!Move(t, "accepted", "cancelled")
    BY <1>1, <1>3, <2>1, OneMove
  <2> QED BY <1>1, <1>4, <2>2 DEF Lawful, Life!Next, Life!Cancel, Cancels
<1>5. CASE ~ Cancels
  <2>1. Phase(t)' = Phase(t)
    BY <1>1, <1>2, <1>5 DEF IInv, TypeOK, Phase
  <2> QED BY <1>1, <1>3, <2>1, NoMove
<1> QED BY <1>4, <1>5

LEMMA RunWorkLawful ==
  ASSUME IInv, RunWork
  PROVE  Lawful
<1>0. PICK t \in Tasks : t = runner.task
  BY DEF IInv, TypeOK, HandsInv, RunWork
<1>1. /\ stop' = stop /\ stage[t] = "running" /\ runner.at = "taken"
      /\ UNCHANGED <<stage, cancelled, own>>
  BY <1>0 DEF IInv, TypeOK, OnePlace, RunWork
<1>2. \A u \in Tasks : u # t => stage[u] # "running"
  BY <1>0, <1>1 DEF IInv, OnePlace
<1>3. \A u \in Tasks : u # t => Phase(u)' = Phase(u)
  BY <1>0, <1>1, <1>2 DEF Phase
<1>4. CASE cancelled[t]
  <2>1. Phase(t)' = Phase(t)
    BY <1>0, <1>1, <1>4 DEF Phase, RunWork, RunnerAt
  <2> QED BY <1>0, <1>1, <1>3, <2>1, NoMove
<1>5. CASE ~ cancelled[t]
  <2>1. Phase(t) = "accepted" /\ Phase(t)' = "working"
    BY <1>0, <1>1, <1>5 DEF Phase, RunWork, RunnerAt
  <2>2. Life!Move(t, "accepted", "working")
    BY <1>0, <1>1, <1>3, <2>1, OneMove
  <2>3. \A u \in Tasks : Phase(u) # "working"
    BY <1>0, <1>1 DEF Phase
  <2>4. Life!Begin(t)
    BY <2>2, <2>3 DEF Life!Begin
  <2> QED BY <1>0, <1>1, <2>4 DEF Lawful, Life!Next
<1> QED BY <1>4, <1>5

LEMMA DeliverCompleteLawful ==
  ASSUME IInv, DeliverComplete
  PROVE  Lawful
<1>0. PICK t \in Tasks : t = own.task
  BY DEF IInv, TypeOK, HandsInv, DeliverComplete
<1>1. /\ stop' = stop /\ stage[t] = "delivering" /\ own.at = "taken"
      /\ UNCHANGED <<stage, cancelled, runner>>
  BY <1>0 DEF IInv, TypeOK, OnePlace, DeliverComplete, executorVars
<1>2. \A u \in Tasks : u # t => stage[u] # "delivering"
  BY <1>0, <1>1 DEF IInv, OnePlace
<1>3. \A u \in Tasks : u # t => Phase(u)' = Phase(u)
  BY <1>0, <1>1, <1>2 DEF Phase
<1>4. CASE cancelled[t]
  <2>1. Phase(t)' = Phase(t)
    BY <1>0, <1>1, <1>4 DEF Phase, DeliverComplete, DeliverTo, OwnerAt, OwnAt
  <2> QED BY <1>0, <1>1, <1>3, <2>1, NoMove
<1>5. CASE ~ cancelled[t]
  <2>1. Phase(t) = "finished" /\ Phase(t)' = "completed"
    BY <1>0, <1>1, <1>5 DEF Phase, DeliverComplete, DeliverTo, OwnerAt, OwnAt
  <2>2. Life!Move(t, "finished", "completed")
    BY <1>0, <1>1, <1>3, <2>1, OneMove
  <2> QED BY <1>0, <1>1, <2>2 DEF Lawful, Life!Next, Life!Complete
<1> QED BY <1>4, <1>5

LEMMA DeliverDestroyLawful ==
  ASSUME IInv, DeliverDestroy
  PROVE  Lawful
<1>0. PICK t \in Tasks : t = own.task
  BY DEF IInv, TypeOK, HandsInv, DeliverDestroy
<1>1. /\ stop' = stop /\ stage[t] = "delivering" /\ own.at = "destroy"
      /\ stage' = [stage EXCEPT ![t] = "caller"] /\ UNCHANGED <<cancelled, runner>>
  BY <1>0 DEF IInv, TypeOK, OnePlace, DeliverDestroy, executorVars
<1>2. \A u \in Tasks : u # t => stage[u] # "delivering"
  BY <1>0, <1>1 DEF IInv, OnePlace
<1>3. \A u \in Tasks : u # t => Phase(u)' = Phase(u)
  BY <1>0, <1>1, <1>2 DEF IInv, TypeOK, Phase
<1>4. Phase(t) \in {"completed", "cancelled"} /\ Phase(t)' = "caller"
  BY <1>0, <1>1 DEF IInv, TypeOK, Phase
<1>5. Life!Move(t, "completed", "caller") \/ Life!Move(t, "cancelled", "caller")
  BY <1>0, <1>1, <1>3, <1>4, OneMove
<1> QED BY <1>0, <1>1, <1>5 DEF Lawful, Life!Next, Life!Destroy

LEMMA StartLawful ==
  ASSUME IInv, Start
  PROVE  Lawful
<1>1. /\ runner.at = "none" /\ pending = <<>> /\ runner'.at = "open"
      /\ stop' = "none" /\ UNCHANGED <<stage, cancelled, own>>
  BY DEF IInv, LifeInv, Start, RunnerAt
<1>2. \A t \in Tasks : stage[t] \notin {"pending", "running"}
  BY <1>1 DEF IInv, OnePlace, Contains
<1>3. \A t \in Tasks : Phase(t)' = Phase(t) /\ Phase(t) \notin {"accepted", "working"}
  BY <1>1, <1>2 DEF Phase
<1>4. Life!Restart
  BY <1>1, <1>3 DEF Life!Restart
<1> QED BY <1>4 DEF Lawful, Life!Next

LEMMA StopRequestLawful ==
  ASSUME IInv, NEW k \in Stoppers, StopRequest(k)
  PROVE  Lawful
<1>1. /\ \/ stop' = stop
         \/ stop = "none" /\ stop' \in {"drain", "cancel"}
         \/ stop = "drain" /\ stop' = "cancel"
      /\ UNCHANGED <<stage, cancelled, own>>
      /\ runner.at = "asleep" \/ runner' = runner
  BY DEF IInv, TypeOK, StopRequest, StopKinds, Stricter, WakeRunner
<1>2. \A t \in Tasks : Phase(t)' = Phase(t)
  BY <1>1 DEF IInv, OnePlace, Phase
<1>3. CASE stop' = stop
  BY <1>2, <1>3, NoMove
<1>4. CASE stop' # stop
  <2>1. Life!Stop
    BY <1>1, <1>2, <1>4 DEF Life!Stop
  <2> QED BY <2>1 DEF Lawful, Life!Next
<1> QED BY <1>3, <1>4

LEMMA DestroyLawful ==
  ASSUME IInv, Destroy
  PROVE  Lawful
<1>1. /\ \/ stop' = stop
         \/ stop = "none" /\ stop' \in {"drain", "cancel"}
         \/ stop = "drain" /\ stop' = "cancel"
      /\ UNCHANGED <<stage, cancelled, own>>
      /\ runner.at = "asleep" \/ runner' = runner
  BY DEF IInv, TypeOK, Destroy, StopKinds, Stricter, WakeRunner
<1>2. \A t \in Tasks : Phase(t)' = Phase(t)
  BY <1>1 DEF IInv, OnePlace, Phase
<1>3. CASE stop' = stop
  BY <1>2, <1>3, NoMove
<1>4. CASE stop' # stop
  <2>1. Life!Stop
    BY <1>1, <1>2, <1>4 DEF Life!Stop
  <2> QED BY <2>1 DEF Lawful, Life!Next
<1> QED BY <1>3, <1>4

LEMMA NextLawful ==
  ASSUME IInv, [Next]_vars
  PROVE  Lawful
<1>1. CASE \E s \in Submitters : Submit(s)
  BY <1>1, SubmitLawful
<1>2. ASSUME NEW s \in Submitters, SubmitStep(s) PROVE Lawful
  BY <1>2, ReserveLoadLawful, ReserveCasLawful, AcceptThreadLawful, ReleaseRefusedLawful,
     AcceptInlineLawful, InlinePostLawful, InlineLinkLawful DEF SubmitStep
<1>3. CASE RunOpen
  BY <1>3, RunOpenLawful
<1>4. CASE RunTake
  BY <1>4, RunTakeLawful
<1>5. CASE RunEmpty
  BY <1>5, RunEmptyLawful
<1>6. CASE RunSpurious
  BY <1>6, RunSpuriousLawful
<1>7. CASE RunWork
  BY <1>7, RunWorkLawful
<1>8. CASE RunWorkEnd
  BY <1>8, RunWorkEndLawful
<1>9. CASE RunPost
  BY <1>9, RunPostLawful
<1>10. CASE RunLink
  BY <1>10, RunLinkLawful
<1>11. CASE RunClose
  BY <1>11, RunCloseLawful
<1>12. CASE RunEnd
  BY <1>12, RunEndLawful
<1>13. CASE DispatchBegin
  BY <1>13, DispatchBeginLawful
<1>14. CASE DispatchTake
  BY <1>14, DispatchTakeLawful
<1>15. CASE DispatchEnd
  BY <1>15, DispatchEndLawful
<1>16. CASE DeliverComplete
  BY <1>16, DeliverCompleteLawful
<1>17. CASE DeliverCompleted
  BY <1>17, DeliverCompletedLawful
<1>18. CASE DeliverDestroy
  BY <1>18, DeliverDestroyLawful
<1>19. CASE DeliverRelease
  BY <1>19, DeliverReleaseLawful
<1>20. CASE Start
  BY <1>20, StartLawful
<1>21. CASE Destroy
  BY <1>21, DestroyLawful
<1>22. CASE DestroyWait
  BY <1>22, DestroyWaitLawful
<1>23. CASE DestroyJoin
  BY <1>23, DestroyJoinLawful
<1>24. CASE \E k \in Stoppers : StopRequest(k) \/ StopReturn(k)
  BY <1>24, StopRequestLawful, StopReturnLawful
<1>25. CASE UNCHANGED vars
  <2>1. \A u \in Tasks : Phase(u)' = Phase(u)
    BY <1>25 DEF vars, Phase
  <2> QED BY <1>25, <2>1, NoMove DEF vars
<1> QED BY <1>1, <1>2, <1>3, <1>4, <1>5, <1>6, <1>7, <1>8, <1>9, <1>10, <1>11, <1>12, <1>13,
           <1>14, <1>15, <1>16, <1>17, <1>18, <1>19, <1>20, <1>21, <1>22, <1>23, <1>24, <1>25
       DEF Next, RunStep, DispatchStep, DestroyStep

\* The thread executor, the inline executor and the mailbox together keep the
\* laws of a task (task.h, stop/kind.h): ExecThread implements TaskLife.
THEOREM KeepsTaskLawsTheorem == Spec => KeepsTaskLaws
<1>1. Init => Life!Init
  <2> SUFFICES ASSUME Init PROVE Life!Init
    OBVIOUS
  <2>1. \A t \in Tasks : Phase(t) = "caller"
    BY DEF Init, Phase
  <2> QED BY <2>1 DEF Init, Life!Init
<1>2. IInv /\ [Next]_vars => [Life!Next]_(Life!lifeVars)
  BY NextLawful DEF Lawful
<1> QED BY <1>1, <1>2, InductiveInvariant, PTL DEF Spec, KeepsTaskLaws, Life!Spec
================================================================================
