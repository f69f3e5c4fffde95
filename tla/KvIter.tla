--------------------------------- MODULE KvIter ---------------------------------
(***************************************************************************)
(* What an iterator of the database promises: it stands nowhere or on a    *)
(* key of a map that never changes, and moves to the neighbouring keys.    *)
(***************************************************************************)
EXTENDS Naturals

VARIABLES view,  \* the map, from the keys that have a value
          at,    \* << >> or <<key, value>>
          call   \* the last call, and the key that it seeks

Before(k) == {j \in DOMAIN view : j < k}
After(k) == {j \in DOMAIN view : j > k}
Nearest(keys, closer(_, _)) ==
    IF keys = {} THEN << >>
    ELSE LET k == CHOOSE j \in keys : \A i \in keys \ {j} : closer(j, i) IN <<k, view[k]>>

Init == at = << >> /\ call = <<"none", 0>>

SeekToFirst == call'[1] = "first" /\ at' = Nearest(DOMAIN view, <)
SeekToLast == call'[1] = "last" /\ at' = Nearest(DOMAIN view, >)
Seek == call'[1] = "seek" /\ at' = Nearest({k \in DOMAIN view : k >= call'[2]}, <)
MoveNext == call'[1] = "next" /\ at # << >> /\ at' = Nearest(After(at[1]), <)
MovePrev == call'[1] = "prev" /\ at # << >> /\ at' = Nearest(Before(at[1]), >)

Next == UNCHANGED view /\ (SeekToFirst \/ SeekToLast \/ Seek \/ MoveNext \/ MovePrev)

Spec == Init /\ [][Next]_<<view, at, call>>
=============================================================================
