---------------------------- MODULE MCHomeWeather ----------------------------
(* Forecasts of up to two hours; an hour has no, one or two conditions.    *)
EXTENDS HomeWeather

CONSTANTS none

MCLows == {"1", "2"}

\* An hour that has both fields is told from the next one by its values.
Hour(h, low, conditions) == [hour |-> h, low |-> low, conditions |-> conditions]

MCForecasts ==
    {<< >>} \cup
    {<<Hour(1, low, c)>> : low \in {"1", none}, c \in {<<none>>, <<"rain", none>>}} \cup
    {<<Hour(1, low, c), Hour(2, low2, c2)>> :
        low \in {"1", none}, c \in {<< >>, <<"clear sky">>},
        low2 \in {"2", none}, c2 \in {<<none>>, <<"rain">>}}

MCCurrents == {[low |-> "1", condition |-> "clear sky"],
               [low |-> none, condition |-> none]}
=============================================================================
