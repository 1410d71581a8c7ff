---------------------------- MODULE Subscriptions ----------------------------
(***************************************************************************)
(* What an event bus promises its callers: a removal takes effect at once, *)
(* and a publication calls, in the order of subscription, every record     *)
(* that is subscribed when its turn comes, each one once, until a callback *)
(* stops it.  Nothing is said of how removed records are kept.             *)
(***************************************************************************)
EXTENDS Sequences, SequencesExt

CONSTANTS Subs,   \* subscription records
          Ids,    \* events
          Null    \* no record

VARIABLES live,   \* the subscribed records of every event, in order
          pubs    \* the publications that run, the innermost last

vars == <<live, pubs>>

\* The record whose turn it is in a publication of id that called these.
Turn(id, called) ==
    LET i == SelectInSeq(live[id], LAMBDA s : s \notin called)
    IN  IF i = 0 THEN Null ELSE live[id][i]

Calling(id, called, s) == [id |-> id, called |-> called \cup ({s} \ {Null}), now |-> s]

Replaced(p) == Append(Front(pubs), p)

Init == live = [id \in Ids |-> <<>>] /\ pubs = <<>>

Subscribe(id, s) ==
    /\ \A other \in Ids : ~ Contains(live[other], s)
    /\ \A i \in DOMAIN pubs : s \notin pubs[i].called
    /\ live' = [live EXCEPT ![id] = Append(@, s)]
    /\ UNCHANGED pubs

Unsubscribe(s) ==
    /\ live' = [id \in Ids |-> RemoveFirst(live[id], s)]
    /\ UNCHANGED pubs

Begin(id) ==
    /\ pubs' = Append(pubs, Calling(id, {}, Turn(id, {})))
    /\ UNCHANGED live

Return ==
    /\ pubs # <<>> /\ Last(pubs).now # Null
    /\ LET p == Last(pubs)
       IN  \/ pubs' = Replaced(Calling(p.id, p.called, Turn(p.id, p.called)))
           \/ pubs' = Replaced([p EXCEPT !.now = Null])    \* stop
    /\ UNCHANGED live

End ==
    /\ pubs # <<>> /\ Last(pubs).now = Null
    /\ pubs' = Front(pubs)
    /\ UNCHANGED live

Next ==
    \/ \E id \in Ids, s \in Subs : Subscribe(id, s)
    \/ \E s \in Subs : Unsubscribe(s)
    \/ \E id \in Ids : Begin(id)
    \/ Return
    \/ End

Spec == Init /\ [][Next]_vars
==============================================================================
