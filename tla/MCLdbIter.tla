------------------------------- MODULE MCLdbIter -------------------------------
(***************************************************************************)
(* A small instance of LdbIter: entries of two keys, or one of each key.   *)
(* The second and the third child are alike.                               *)
(***************************************************************************)
EXTENDS LdbIter

TwoKeys == \A s \in DOMAIN writes : writes[s].key <= 2
OneOfEach == \A s, t \in DOMAIN writes : s # t => Of(writes, s) # Of(writes, t)

Alike == \A t \in DOMAIN writes : writes[t].child = 3 => \E s \in 1 .. t : writes[s].child = 2

Cases == Len(writes) <= MaxSeq /\ (TwoKeys \/ OneOfEach) /\ Alike
=============================================================================
