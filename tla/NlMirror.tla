------------------------------ MODULE NlMirror ------------------------------
(***************************************************************************)
(* What a cache manager promises, without sockets, dumps and events: a     *)
(* view of a kernel table that follows it.  A key is current when nothing  *)
(* the table did to it is still to be told to the view; the view of any    *)
(* other key lags behind, but only ever shows what the table once held.    *)
(***************************************************************************)
CONSTANTS Keys, Vals, None

VARIABLES
    table,     \* the table, a value or None per key
    view,      \* the view of it
    current,   \* the keys of which the view is up to date
    seen       \* what the table held so far, per key

vars == <<table, view, current, seen>>

Empty == [k \in Keys |-> None]

Init ==
    /\ table \in [Keys -> Vals \cup {None}]
    /\ view = Empty
    /\ current = {}
    /\ seen = [k \in Keys |-> {table[k]}]

\* The table changes: the view of that key lags, or that of every key if the
\* event that tells of it is lost.
Change(k, v) ==
    /\ table' = [table EXCEPT ![k] = v]
    /\ seen' = [seen EXCEPT ![k] = @ \cup {v}]
    /\ current' \in {current \ {k}, {}}
    /\ UNCHANGED view

\* Keys catch up, or show another value they had; current keys keep still.
Refresh ==
    /\ current \subseteq current'
    /\ \A k \in Keys : view'[k] \in seen[k] \cup {None}
    /\ \A k \in current : view'[k] = view[k]
    /\ \A k \in current' : view'[k] = table[k]
    /\ UNCHANGED <<table, seen>>

\* What the view has been told is no longer known to be all.
Lose ==
    /\ current' = {}
    /\ UNCHANGED <<table, view, seen>>

Close ==
    /\ view' = Empty
    /\ current' = {}
    /\ UNCHANGED <<table, seen>>

Next ==
    \/ \E k \in Keys, v \in Vals \cup {None} : Change(k, v)
    \/ Refresh
    \/ Lose
    \/ Close

Spec == Init /\ [][Next]_vars
=============================================================================
