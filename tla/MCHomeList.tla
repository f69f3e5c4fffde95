----------------------------- MODULE MCHomeList ------------------------------
(* Three events around a change of month and of the number of digits.      *)
EXTENDS HomeList

CONSTANTS e1, e2, e3

\* The next days are 9 and 10 October, 10 and 11 October, 1 and 2 January.
MCStarts == {[day |-> 8, month |-> 10, year |-> 2022],
             [day |-> 9, month |-> 10, year |-> 2022],
             [day |-> 31, month |-> 12, year |-> 2022]}

\* The two days that follow.
MCPicks == [day \in MCStarts |-> {NextDay(day), NextDay(NextDay(day))}]
=============================================================================
