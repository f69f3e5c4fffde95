----------------------------- MODULE HomeWeather -----------------------------
(***************************************************************************)
(* The weather panel of one Home screen.  viewDidLoad asks twice for the   *)
(* forecast and once for the current weather; URLSession runs the three    *)
(* completions one at a time on its own queue, in the order the answers    *)
(* come, and each posts a block on the main queue that sets the labels.    *)
(***************************************************************************)
EXTENDS Naturals, SequencesExt

CONSTANTS Slots,      \* columns of the panel (five in HomeViewController.xib)
          Forecasts,  \* answers to `forecast', sequences of hours
          Currents,   \* answers to `weather'
          Lows,       \* lowest temperatures, as they are shown
          Missing     \* an optional field that an answer leaves out

ASSUME SlotsExist == Slots \in Nat \ {0}

Conditions == {"overcast clouds", "broken clouds", "scattered clouds", "rain",
               "fog", "lightning", "clear sky", "light rain"}

Hours == [hour : Nat, low : Lows \cup {Missing}, conditions : Seq(Conditions \cup {Missing})]

ASSUME ForecastsType ==
    /\ Missing \notin Lows \cup Conditions
    /\ Forecasts \subseteq Seq(Hours)
    /\ \A c \in Currents : c \in [low : Lows \cup {Missing},
                                  condition : Conditions \cup {Missing}]

Icon(condition) ==
    CASE condition \in {"overcast clouds", "scattered clouds"} -> "cloud.fill"
      [] condition = "broken clouds" -> "cloud.sun.fill"
      [] condition = "rain" -> "rain.fill"
      [] condition = "fog" -> "cloud.fog.fill"
      [] condition = "lightning" -> "cloud.bolt.rain.fill"
      [] OTHER -> "sun.min"

HourlyIcon(condition) ==
    IF condition = "clear sky" THEN "cloud.bolt.rain.fill" ELSE Icon(condition)

Icons == {Icon(c) : c \in Conditions} \cup {"sun.min.fill"}

NoLow == "No low high"

Rows == [hour : Nat, icon : Icons, low : Lows \cup {NoLow}]
Blank == [hour |-> Missing, icon |-> Missing, low |-> Missing]

\* The text says `No high temp' for a low temperature that is missing.
Views == [low : Lows \cup {"No high temp"}, icon : Icons]
-----------------------------------------------------------------------------
\* setHourlyWeather: icon and low temperature live outside of both loops.
Start == [icon |-> "sun.min.fill", low |-> NoLow, rows |-> << >>]

AddRow(acc, hour, condition) ==
    LET icon == IF condition = Missing THEN acc.icon ELSE HourlyIcon(condition)
    IN  [acc EXCEPT !.icon = icon,
                    !.rows = Append(@, [hour |-> hour, icon |-> icon, low |-> acc.low])]

\* One row for each condition of the hour, so none for an hour without.
AddRows(acc, hour) ==
    LET after[k \in 0..Len(hour.conditions)] ==
            IF k = 0 THEN acc ELSE AddRow(after[k - 1], hour.hour, hour.conditions[k])
    IN  after[Len(hour.conditions)]

\* A slip: the low temperature starts afresh for each hour.
AddHourAfresh(acc, hour) ==
    AddRows([acc EXCEPT !.low = IF hour.low = Missing THEN NoLow ELSE hour.low], hour)

AddHour(acc, hour) ==
    AddRows([acc EXCEPT !.low = IF hour.low = Missing THEN @ ELSE hour.low], hour)

SetHourlyWeather(forecast) ==
    LET after[h \in 0..Len(forecast)] ==
            IF h = 0 THEN Start ELSE AddHour(after[h - 1], forecast[h])
    IN  after[Len(forecast)].rows

UpdateCurrent(c) ==
    [low  |-> IF c.low = Missing THEN "No high temp" ELSE c.low,
     icon |-> IF c.condition = Missing THEN "sun.min.fill" ELSE Icon(c.condition)]

\* zip stops with the shorter of the two: the other columns keep what they show.
HourlyDisplay(columns, rows) ==
    [i \in 1..Slots |-> IF i <= Len(rows) THEN rows[i] ELSE columns[i]]
-----------------------------------------------------------------------------
VARIABLES calls,      \* requests without an answer, each of a kind of its own
          callbackQ,  \* completions waiting on the URLSession's queue
          mainQ,      \* blocks waiting on the main queue
          columns,    \* the hour labels, icons and low temperatures on show
          current,    \* the current weather on show
          applied     \* history: the forecasts displayed so far, in order

vars == <<calls, callbackQ, mainQ, columns, current, applied>>

Calls == {"first forecast", "second forecast", "current"}

Init == /\ calls = Calls        \* viewDidLoad has run
        /\ callbackQ = << >> /\ mainQ = << >>
        /\ columns = [i \in 1..Slots |-> Blank] /\ current = Blank
        /\ applied = << >>

Answered(call, completion) ==
    /\ calls' = calls \ {call}
    /\ callbackQ' = Append(callbackQ, completion)
    /\ UNCHANGED <<mainQ, columns, current, applied>>

\* An error, no data, or data that does not decode.
CallFails == \E call \in calls : Answered(call, [kind |-> "failure"])

ForecastArrives ==
    \E call \in calls \ {"current"}, f \in Forecasts :
        Answered(call, [kind |-> "hourly", forecast |-> f])

CurrentArrives ==
    \E c \in Currents : /\ "current" \in calls
                        /\ Answered("current", [kind |-> "current", weather |-> c])

\* A slip: the first failure puts an end to the panel.
RunCallbackUntilFailure ==
    /\ callbackQ # << >>
    /\ LET completion == Head(callbackQ)
       IN  IF completion.kind = "failure"
           THEN callbackQ' = << >> /\ UNCHANGED mainQ
           ELSE callbackQ' = Tail(callbackQ) /\ mainQ' = Append(mainQ, completion)
    /\ UNCHANGED <<calls, columns, current, applied>>

\* The presenter: a failure is dropped, a success is displayed on the main queue.
RunCallback ==
    /\ callbackQ # << >>
    /\ callbackQ' = Tail(callbackQ)
    /\ LET completion == Head(callbackQ)
       IN  mainQ' = IF completion.kind = "failure" THEN mainQ
                    ELSE Append(mainQ, completion)
    /\ UNCHANGED <<calls, columns, current, applied>>

Display ==
    /\ mainQ # << >>
    /\ mainQ' = Tail(mainQ)
    /\ LET block == Head(mainQ)
       IN  IF block.kind = "hourly"
           THEN /\ columns' = HourlyDisplay(columns, SetHourlyWeather(block.forecast))
                /\ applied' = Append(applied, block.forecast)
                /\ UNCHANGED current
           ELSE /\ current' = UpdateCurrent(block.weather)
                /\ UNCHANGED <<columns, applied>>
    /\ UNCHANGED <<calls, callbackQ>>

Next == CallFails \/ ForecastArrives \/ CurrentArrives \/ RunCallback \/ Display

\* The queues run their blocks; no request need ever be answered.
Fairness == WF_vars(RunCallback) /\ WF_vars(Display)

Spec == Init /\ [][Next]_vars /\ Fairness
-----------------------------------------------------------------------------
Successes == [kind : {"hourly"}, forecast : Forecasts] \cup [kind : {"current"}, weather : Currents]
Completions == [kind : {"failure"}] \cup Successes

TypeOK ==
    /\ calls \subseteq Calls
    /\ callbackQ \in Seq(Completions) /\ mainQ \in Seq(Successes)
    /\ columns \in [1..Slots -> Rows \cup {Blank}]
    /\ current \in Views \cup {Blank}
    /\ applied \in Seq(Forecasts)

\* The conditions of a forecast, hour after hour: one row each.
Cells(forecast) ==
    FlattenSeq([h \in DOMAIN forecast |->
        [k \in DOMAIN forecast[h].conditions |->
            [at |-> h, condition |-> forecast[h].conditions[k]]]])

LastKnown(indices, default, Value(_)) ==
    IF indices = {} THEN default ELSE Value(Max(indices))

IconAt(cells, i) ==
    LastKnown({j \in 1..i : cells[j].condition # Missing}, "sun.min.fill",
              LAMBDA j : HourlyIcon(cells[j].condition))

LowAt(forecast, h) ==
    LastKnown({j \in 1..h : forecast[j].low # Missing}, NoLow,
              LAMBDA j : forecast[j].low)

RowAt(forecast, i) ==
    LET cells == Cells(forecast)
        h == cells[i].at
    IN  [hour |-> forecast[h].hour, icon |-> IconAt(cells, i), low |-> LowAt(forecast, h)]

(* What a column shows is a row of the forecast displayed last, or of the  *)
(* last one before it that was long enough to reach that column; its hour  *)
(* is that row's own, its icon and low temperature are the row's own where *)
(* the answer has them and those of an earlier hour where it does not      *)
(* (HomePresenter.swift:119-152, HomeViewController.swift:177-187).        *)
ColumnsAreLastKnown ==
    \A i \in 1..Slots :
        columns[i] = LastKnown({n \in DOMAIN applied : Len(Cells(applied[n])) >= i},
                               Blank, LAMBDA n : RowAt(applied[n], i))

HoldsForecast(q) ==
    \E i \in DOMAIN q : q[i].kind = "hourly" /\ Cells(q[i].forecast) # << >>

(* One forecast that arrives is enough: whatever fails before or after it, *)
(* the panel comes to show an hour (HomePresenter.swift:46-56).            *)
ForecastIsShown == HoldsForecast(callbackQ) ~> columns[1] # Blank
=============================================================================
