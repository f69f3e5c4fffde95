---------------------------- MODULE MCWeatherApp ----------------------------
(* Instances of WeatherApp: who uses it, what is saved, and the bounds.    *)
EXTENDS WeatherApp

CONSTANTS d1, d2, u1, u2, e1, e2, t1

OneDevice == {d1}
TwoDevices == {d1, d2}
OneUser == {u1}
TwoUsers == {u1, u2}
TwoIds == {e1, e2}
OneText == {t1}

Three == [d \in Devices |-> 3]
Four == [d \in Devices |-> 4]

\* One device saves and edits, the other one only deletes.
FourAndOne == [d \in Devices |-> IF d = d1 THEN 4 ELSE 1]

SignedIn == [d \in Devices |-> u1]
OneSaved == [u \in Users |-> IF u = u1 THEN {e1} ELSE {}]
-----------------------------------------------------------------------------
\* What a behaviour may use up.  Each use is a tap, a fault or a lost
\* connection, so that a case leaves no work of the app undone.

Bounded(screens, w, dropped, faulty) ==
    /\ built[d1] + Owed(d1) <= screens /\ writes <= w
    /\ drops <= dropped /\ faults <= faulty

NotUsed(d) == status[d] = "down" /\ online[d]

OneAccount ==
    \A d \in Devices : user[d] # u2 /\ \A call \in signIns[d] : call.user # u2

SignedInSinceLaunch ==
    \A d \in Devices : /\ user[d] = u1 /\ signIns[d] = {}
                       /\ stack[d] # << >> => Head(stack[d]).kind = "home"

Alone == NotUsed(d2) /\ OneAccount /\ Bounded(4, 2, 0, 0)
Crashing == NotUsed(d2) /\ OneAccount /\ Bounded(3, 2, 1, 1)
Together == online[d2] /\ SignedInSinceLaunch /\ Bounded(3, 2, 1, 0)
Accounts == NotUsed(d2) /\ Bounded(4, 1, 0, 0)

Cases == Alone \/ Crashing \/ Together \/ Accounts
=============================================================================
