----------------------------- MODULE MCLdbWrite ------------------------------
(* Kinds of calls: plain and synced writes, and TEST_CompactMemTable.      *)
EXTENDS LdbWrite

CONSTANTS c1, c2, c3

Pair == [sync |-> FALSE, count |-> 2]
Synced == [sync |-> TRUE, count |-> 1]
Flush == [sync |-> FALSE, count |-> 0]

AllKinds == {Pair, Synced, Flush}
=============================================================================
