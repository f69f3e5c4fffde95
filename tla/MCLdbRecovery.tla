----------------------------- MODULE MCLdbRecovery -----------------------------
(***************************************************************************)
(* A small instance of LdbRecovery: four cases that are explored apart.    *)
(***************************************************************************)
EXTENDS LdbRecovery

Outputs == UNION {DOMAIN j.numbers : j \in ToSet(db.jobs)}

Within(seq, opens, compactions, outputs, errors) ==
    /\ hist.acked \subseteq 1 .. seq /\ count.opens <= opens /\ count.compactions <= compactions
    /\ Outputs \subseteq 1 .. outputs /\ count.errors <= errors

\* A stop of the machine in everything, and again in the recovery from it;
\* stops of the process with errors, and with compactions to several tables,
\* where it makes no difference which writes are synced.
Cases == \/ hist.power /\ Within(2, 2, 1, 1, 0) /\ db.next <= 10
         \/ hist.power /\ Within(1, 3, 0, 1, 0) /\ db.next <= 7
         \/ ~ hist.power /\ hist.synced = {} /\ Within(2, 3, 1, 1, 2)
         \/ ~ hist.power /\ hist.synced = {} /\ Within(3, 3, 1, 3, 0) /\ db.next <= 12
=============================================================================
