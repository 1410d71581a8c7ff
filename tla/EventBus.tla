------------------------------- MODULE EventBus -------------------------------
(***************************************************************************)
(* lh_os_module_event_bus_t (src/lh/os/module/event/bus.c): subscriptions  *)
(* in one list per event, called in order by publish.  One thread; what is *)
(* hard is re-entrance: a callback may register, subscribe, remove, drop   *)
(* an owner, clear and publish again while publish walks the list it       *)
(* changes.  A record removed meanwhile is marked dead, stays linked, and  *)
(* is freed when the outermost publication returns; its memory may then be *)
(* the next subscription.  Disposal callbacks do not enter the bus again   *)
(* (subscription.h forbids it).                                            *)
(***************************************************************************)
EXTENDS Naturals, Sequences, SequencesExt, FiniteSets

CONSTANTS Subs,      \* memory for subscription records
          Names,     \* event names
          Owners,    \* the owners' tags
          Keys,      \* pairs of a callback and a context
          Null,      \* no record
          Every,     \* in the place of an owner: clear
          MaxDepth   \* bound: publications nested in one another

ASSUME EventBusAssumption ==
    /\ IsFiniteSet(Subs) /\ Null \notin Subs
    /\ IsFiniteSet(Names) /\ Names # {}
    /\ Every \notin Owners
    /\ MaxDepth \in Nat \ {0}

Ids == 1 .. Cardinality(Names)
Tags == [owner : Owners, key : Keys]
NoTag == [owner |-> Every, key |-> Null]   \* what freed memory holds

VARIABLES
    bus,     \* names, subs, tag, dead, retired, depth and count
    stack    \* the calls that run: publications, and walks that remove

vars == <<bus, stack>>

Idle == stack = <<>>
Top == Last(stack)
Replaced(frame) == Append(Front(stack), frame)

\* lh_os_module_event_bus_init.
Empty == [names |-> <<>>, subs |-> [id \in Ids |-> <<>>], tag |-> [s \in Subs |-> NoTag],
          dead |-> {}, retired |-> <<>>, depth |-> 0, count |-> 0]

Init == bus = Empty /\ stack = <<>>

------------------------------------------------------------------------------
(* The lists. *)

Linked == UNION {ToSet(bus.subs[id]) : id \in Ids}
Live == Linked \ bus.dead

\* The records of a list that are not in S, in their order.
Without(l, S) ==
    LET kept[i \in 0 .. Len(l)] ==
            IF i = 0 THEN <<>>
            ELSE IF l[i] \in S THEN kept[i - 1] ELSE Append(kept[i - 1], l[i])
    IN  kept[Len(l)]

\* The first live record of a list, and the one after s.  A record that is not
\* in the list any more leads nowhere.
FirstLive(l) ==
    LET i == SelectInSeq(l, LAMBDA s : s \notin bus.dead)
    IN  IF i = 0 THEN Null ELSE l[i]

NextLive(l, s) ==
    LET i == SelectInSeq(l, LAMBDA x : x = s)
    IN  IF i = 0 THEN Null ELSE FirstLive(SubSeq(l, i + 1, Len(l)))

\* The retired records are freed; as a mutant, whatever publication runs.
CollectedAlways(b) ==
    [b EXCEPT !.subs = [id \in Ids |-> Without(b.subs[id], ToSet(b.retired))],
              !.tag = [s \in Subs |-> IF s \in ToSet(b.retired) THEN NoTag ELSE b.tag[s]],
              !.dead = @ \ ToSet(b.retired),
              !.retired = <<>>]

\* lh_os_module_event_bus_collect and lh_os_module_event_subscription_destroy.
Collected(b) == IF b.depth # 0 THEN b ELSE CollectedAlways(b)

\* lh_os_module_event_bus_remove.
Removed(b, s) ==
    IF s \in b.dead THEN b
    ELSE Collected([b EXCEPT !.dead = @ \cup {s}, !.count = @ - 1, !.retired = Append(@, s)])

\* Mutant: a new record goes to the front.
SubscribedFront(b, id, s, tag) ==
    [b EXCEPT !.subs[id] = <<s>> \o @, !.tag[s] = tag, !.count = @ + 1]

\* The record is made and appended (lh_os_module_event_bus_try_subscribe).
Subscribed(b, id, s, tag) ==
    [b EXCEPT !.subs[id] = Append(@, s), !.tag[s] = tag, !.count = @ + 1]

------------------------------------------------------------------------------
(* Operations that return before anything else runs.  The caller is the       *)
(* program, when nothing runs, or the callback that a publication is in.      *)

InCallback == ~ Idle /\ Top.op = "publish" /\ Top.sub # Null
MayCall == Idle \/ InCallback

HasEntry(id) == id <= Len(bus.names)

\* lh_os_module_event_bus_try_get_id with a name that is not registered yet.
GetId(n) ==
    /\ MayCall
    /\ ~ Contains(bus.names, n)
    /\ bus' = [bus EXCEPT !.names = Append(@, n)]
    /\ UNCHANGED stack

\* lh_os_module_event_bus_try_subscribe; the allocator gives any free memory.
TrySubscribe(id, tag) ==
    /\ MayCall /\ HasEntry(id)
    /\ \E s \in Subs \ Linked : bus' = Subscribed(bus, id, s, tag)
    /\ UNCHANGED stack

\* lh_os_module_event_bus_find_exact.
FindExact(id, tag) ==
    LET i == SelectInSeq(bus.subs[id], LAMBDA s : s \notin bus.dead /\ bus.tag[s] = tag)
    IN  IF i = 0 THEN Null ELSE bus.subs[id][i]

\* lh_os_module_event_bus_try_subscribe_once.
TrySubscribeOnce(id, tag) == FindExact(id, tag) = Null /\ TrySubscribe(id, tag)

\* lh_os_module_event_bus_remove: of any record that is not freed, dead or not.
RemoveSub(s) ==
    /\ MayCall /\ s \in Linked
    /\ bus' = Removed(bus, s)
    /\ UNCHANGED stack

\* lh_os_module_event_bus_remove_exact.
RemoveExact(id, tag) ==
    /\ MayCall /\ FindExact(id, tag) # Null
    /\ bus' = Removed(bus, FindExact(id, tag))
    /\ UNCHANGED stack

------------------------------------------------------------------------------
(* Publish. *)

\* The frame of a publication that calls s next; seen is history.
Calling(id, seen, s) ==
    [op |-> "publish", id |-> id, owner |-> Every, sub |-> s, seen |-> seen \cup ({s} \ {Null}),
     stopped |-> FALSE]

PublishBegin(id) ==
    /\ MayCall /\ HasEntry(id) /\ bus.depth < MaxDepth
    /\ bus' = [bus EXCEPT !.depth = @ + 1]
    /\ stack' = Append(stack, Calling(id, {}, FirstLive(bus.subs[id])))

\* The callback returned continue or handled.
CallbackReturns ==
    /\ InCallback
    /\ stack' = Replaced(Calling(Top.id, Top.seen, NextLive(bus.subs[Top.id], Top.sub)))
    /\ UNCHANGED bus

\* The callback returned stop.
CallbackStops ==
    /\ InCallback
    /\ stack' = Replaced([Top EXCEPT !.sub = Null, !.stopped = TRUE])
    /\ UNCHANGED bus

PublishEnd ==
    /\ ~ Idle /\ Top.op = "publish" /\ Top.sub = Null
    /\ bus' = Collected([bus EXCEPT !.depth = @ - 1])
    /\ stack' = Front(stack)

------------------------------------------------------------------------------
(* drop_owner, clear and deinit: a walk over every event that removes with a  *)
(* saved next.  One step visits one record.                                   *)

OfOwner(s, owner) == owner \in {Every, bus.tag[s].owner}

\* The frame at the first live record of an event; seen is history: the live
\* records that the walk must leave alone.
Others(owner) == {s \in Live : ~ OfOwner(s, owner)}

Walking(op, owner, id, others) ==
    [op |-> op, id |-> id, owner |-> owner, seen |-> others, stopped |-> FALSE,
     sub |-> IF HasEntry(id) THEN FirstLive(bus.subs[id]) ELSE Null]

DropOwner(owner) ==
    /\ MayCall
    /\ stack' = Append(stack, Walking("drop", owner, 1, Others(owner)))
    /\ UNCHANGED bus

Clear ==
    /\ MayCall
    /\ stack' = Append(stack, Walking("drop", Every, 1, {}))
    /\ UNCHANGED bus

\* lh_os_module_event_bus_deinit checks that no publication runs.
Deinit ==
    /\ Idle /\ bus.depth = 0 /\ bus # Empty
    /\ stack' = <<Walking("deinit", Every, 1, {})>>
    /\ UNCHANGED bus

InWalk == ~ Idle /\ Top.op \in {"drop", "deinit"}

\* Mutant: the next record is looked up after the removal.
LateNext == NextLive(bus'.subs[Top.id], Top.sub)

SavedNext == NextLive(bus.subs[Top.id], Top.sub)

\* The next record is saved before the removal, which may free this one.
WalkVisit ==
    /\ InWalk /\ Top.sub # Null
    /\ bus' = IF OfOwner(Top.sub, Top.owner) THEN Removed(bus, Top.sub) ELSE bus
    /\ stack' = Replaced([Top EXCEPT !.sub = SavedNext])

WalkNextEvent ==
    /\ InWalk /\ Top.sub = Null /\ HasEntry(Top.id + 1)
    /\ stack' = Replaced(Walking(Top.op, Top.owner, Top.id + 1, Top.seen))
    /\ UNCHANGED bus

\* The walk is over; deinit goes on to free the entries.
WalkEnd ==
    /\ InWalk /\ Top.sub = Null /\ ~ HasEntry(Top.id + 1)
    /\ bus' = IF Top.op = "deinit" THEN [bus EXCEPT !.names = <<>>] ELSE bus
    /\ stack' = Front(stack)

------------------------------------------------------------------------------

Next ==
    \/ \E n \in Names : GetId(n)
    \/ \E id \in Ids, tag \in Tags :
          \/ TrySubscribe(id, tag)
          \/ TrySubscribeOnce(id, tag)
          \/ RemoveExact(id, tag)
    \/ \E s \in Subs : RemoveSub(s)
    \/ \E id \in Ids : PublishBegin(id)
    \/ CallbackReturns
    \/ CallbackStops
    \/ PublishEnd
    \/ \E owner \in Owners : DropOwner(owner)
    \/ Clear
    \/ Deinit
    \/ WalkVisit
    \/ WalkNextEvent
    \/ WalkEnd

Spec == Init /\ [][Next]_vars

------------------------------------------------------------------------------
(* Properties. *)

Frames == [op : {"publish", "drop", "deinit"}, id : Ids, owner : Owners \cup {Every},
           sub : Subs \cup {Null}, seen : SUBSET Subs, stopped : BOOLEAN]

Buses == [names : Seq(Names), subs : [Ids -> Seq(Subs)], tag : [Subs -> Tags \cup {NoTag}],
          dead : SUBSET Subs, retired : Seq(Subs), depth : 0 .. MaxDepth,
          count : 0 .. Cardinality(Subs)]

\* Types of the bus and of the calls that run.
TypeOK == bus \in Buses /\ stack \in Seq(Frames)

\* Every call that runs stands on a record that is still linked in the event it
\* walks: whatever callbacks removed, cleared or published, publish and the
\* walks never follow a link of freed memory.
StandsOnMemory ==
    \A i \in DOMAIN stack :
        stack[i].sub # Null => Contains(bus.subs[stack[i].id], stack[i].sub)

\* A record is linked once, in one event.
LinkedOnce ==
    \A id, other \in Ids : \A i \in DOMAIN bus.subs[id], j \in DOMAIN bus.subs[other] :
        bus.subs[id][i] = bus.subs[other][j] => id = other /\ i = j

\* The books of the bus: the count is the number of live records, the retired
\* list holds every dead record once, the depth is the number of publications,
\* and outside a publication every removed record is freed, as the header of
\* remove says.
BooksExact ==
    /\ bus.count = Cardinality(Live)
    /\ ToSet(bus.retired) = bus.dead /\ bus.dead \subseteq Linked
    /\ Cardinality(bus.dead) = Len(bus.retired)
    /\ LinkedOnce
    /\ bus.depth = Cardinality({i \in DOMAIN stack : stack[i].op = "publish"})
    /\ bus.depth = 0 => bus.retired = <<>>
    /\ IsInjective(bus.names)

\* However publications and removals are nested in one another, no call follows
\* freed memory and nothing is counted, kept or freed wrongly (bus.c:84-97,
\* 186-199, 245-308).
RecordsSound == TypeOK /\ StandsOnMemory /\ BooksExact

\* When a walk of drop_owner, clear or deinit is over it removed exactly the
\* owner's records of every event, whether the removals freed them under its
\* feet or only marked them.
WalkRemovesExactly ==
    InWalk /\ Top.sub = Null /\ ~ HasEntry(Top.id + 1) => Live = Top.seen

\* The publications that run: a walk is only ever the innermost call.
Publications ==
    [i \in 1 .. bus.depth |->
        [id |-> stack[i].id, called |-> stack[i].seen, now |-> stack[i].sub]]

\* What is subscribed: a dead record that is still linked is not.
LiveRecords == [id \in Ids |-> Without(bus.subs[id], bus.dead)]

Promise == INSTANCE Subscriptions WITH live <- LiveRecords, pubs <- Publications

\* The bus with its dead and retired records implements the one in which a
\* removal takes effect at once: every publication calls, in order and once
\* each, the records subscribed when their turn comes, and no removed one.
ImplementsSubscriptions == Promise!Spec
==============================================================================
