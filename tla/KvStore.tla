-------------------------------- MODULE KvStore --------------------------------
(***************************************************************************)
(* What the database promises its readers: a map from keys to values, that *)
(* only a write changes, and views of it (snapshots, running reads and     *)
(* iterators) that stay what they were when they were taken.  A value is   *)
(* named by the number of the write it is from.                            *)
(***************************************************************************)
EXTENDS Naturals

CONSTANTS Keys, Holders

VARIABLES writes,  \* how many there have been
          store,   \* the value of every key, or Absent
          views    \* the map a holder sees, or NoView

vars == <<writes, store, views>>

Absent == 0

NoView == [k \in {} |-> Absent]

Init == /\ writes = 0
        /\ store = [k \in Keys |-> Absent]
        /\ views = [h \in Holders |-> NoView]

\* One key is written or deleted.
Update(k) == /\ writes' = writes + 1
             /\ store'[k] \in {writes + 1, Absent}
             /\ \A j \in Keys \ {k} : store'[j] = store[j]
             /\ UNCHANGED views

\* A view of the store, or one more of what a holder sees.
Take(h) == /\ views[h] = NoView
           /\ views'[h] = store \/ \E g \in Holders : views'[h] = views[g]
           /\ \A g \in Holders \ {h} : views'[g] = views[g]
           /\ UNCHANGED <<writes, store>>

Release(h) == /\ views'[h] = NoView
              /\ \A g \in Holders \ {h} : views'[g] = views[g]
              /\ UNCHANGED <<writes, store>>

Next == \/ \E k \in Keys : Update(k)
        \/ \E h \in Holders : Take(h) \/ Release(h)

Spec == Init /\ [][Next]_vars
=============================================================================
