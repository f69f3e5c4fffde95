---------------------------- MODULE MCEventLoad -----------------------------
(* Three keys: two can be found around one that is lost, in every order.   *)
EXTENDS EventLoad, TLC

CONSTANTS e1, e2, e3, t1, t2

MCIds == {e1, e2, e3}
MCTexts == {t1, t2}
=============================================================================
