------------------------------ MODULE HomeList -------------------------------
(***************************************************************************)
(* The lists the Home screens show and the reminders they leave behind.    *)
(* setData runs on the background queue on which the load completes: it    *)
(* replaces eventData, adds a reminder for each event of the next day and  *)
(* posts a reload.  The table asks for its rows on the main thread and     *)
(* keeps the number it was told; taps go by that number.                   *)
(***************************************************************************)
EXTENDS EventDates, SequencesExt

CONSTANTS Ids,
          Starts,     \* the day on which a behaviour begins
          Picks,      \* Picks[day]: the dates users pick if it is this one
          MaxDays,    \* bound: days that pass
          MaxHomes    \* bound: Home screens that are built

ASSUME IdsAreFinite == IsFiniteSet(Ids)
ASSUME StartsAreDates == Starts \subseteq Dates /\ Picks \in [Starts -> SUBSET Dates]
ASSUME BoundsAreNat == MaxDays \in Nat /\ MaxHomes \in Nat
ASSUME YearsHaveFourDigits == \A day \in Starts : day.year + MaxDays < 9999

VARIABLES today, days,  \* the calendar, and how many days have passed
          late,         \* it is past 15:10
          choices,      \* the dates a picker offers in this behaviour
          stored,       \* stored[id]: the date of the event, or Gone or Untouched
          homes,        \* the Home screens built so far
          reminders,    \* notification requests of the notification centre
          notified      \* reminders the user has been shown

clockVars == <<today, days, late>>
vars == <<today, days, late, choices, stored, homes, reminders, notified>>

Untouched == [day |-> 0, month |-> 0, year |-> 0]  \* the picker never moved
Gone == [day |-> -1, month |-> -1, year |-> -1]    \* there is no such event

\* An event whose picker was never moved is saved with an empty text.
Text(date) == IF date = Untouched THEN << >> ELSE PickerText(date)

Home == [day : Dates,             \* currentDay
         loaded : BOOLEAN,        \* setData has run
         eventData : Seq([id : Ids, date : Dates \cup {Untouched}]),
         given : SUBSET [id : Ids, date : Dates \cup {Untouched}],  \* history
         rows : Nat,              \* the table's number of rows
         laidOut : BOOLEAN,       \* the table has asked for its rows once
         reload : BOOLEAN]        \* reloadData waits on the main queue

Reminders == [home : 1..MaxHomes, id : Ids, date : Dates, due : Dates]

Init ==
    /\ today \in Starts /\ days = 0 /\ late \in BOOLEAN
    /\ choices = Picks[today] \cup {Untouched}
    /\ stored = [id \in Ids |-> Gone]
    /\ homes = << >> /\ reminders = {} /\ notified = {}
-----------------------------------------------------------------------------
\* dateChanged and the tap on Save or on Update, as far as the list can tell.
DidTapSave ==
    /\ \E id \in Ids, date \in choices : stored' = [stored EXCEPT ![id] = date]
    /\ UNCHANGED <<clockVars, choices, homes, reminders, notified>>

ViewDidLoad ==
    /\ Len(homes) < MaxHomes
    /\ homes' = Append(homes, [day |-> today, loaded |-> FALSE, eventData |-> << >>,
                               given |-> {}, rows |-> 0, laidOut |-> FALSE,
                               reload |-> FALSE])
    /\ UNCHANGED <<clockVars, choices, stored, reminders, notified>>

\* The trigger is the next 15:10, on whatever day that is.
NextTrigger == IF late THEN NextDay(today) ELSE today

ReminderFor(h, event) ==
    [home |-> h, id |-> event.id, date |-> event.date, due |-> NextTrigger]

StoredEvents == {[id |-> id, date |-> stored[id]] : id \in {i \in Ids : stored[i] # Gone}}

ByText(e, f) == TextBefore(Text(e.date), Text(f.date))

\* A slip: the comparison the wrong way round.
SortedBackwards(events) ==
    {list \in SetToSeqs(events) :
        \A i, j \in DOMAIN list : i < j => ~ ByText(list[i], list[j])}

\* sorted { $0.date < $1.date }: events of one text come in any order.
Sorted(events) ==
    {list \in SetToSeqs(events) :
        \A i, j \in DOMAIN list : i < j => ~ ByText(list[j], list[i])}

\* A slip: the reminder's day is compared with the day itself.
IsTomorrowWithoutNext(home, event) == DisplayDate(home.day) = Text(event.date)

IsTomorrow(home, event) == DisplayDate(NextDay(home.day)) = Text(event.date)

\* A slip: an event of the cell's own day counts as past.
RowColourWithoutToday(day, event) ==
    IF TextBefore(DisplayDate(day), Text(event.date)) THEN "purple" ELSE "gradient"

\* The colour of a row in a cell that was made, or made and reused, since `day'.
RowColour(day, event) ==
    IF TextBefore(DisplayDate(day), Text(event.date)) THEN "purple"
    ELSE IF DisplayDate(day) = Text(event.date) THEN "blueTone" ELSE "gradient"

SetData(h) ==
    /\ ~ homes[h].loaded
    /\ \E list \in Sorted(StoredEvents) :
          homes' = [homes EXCEPT ![h] = [@ EXCEPT !.loaded = TRUE, !.reload = TRUE,
                                                  !.eventData = list,
                                                  !.given = StoredEvents]]
    /\ reminders' = reminders \cup
          {ReminderFor(h, e) : e \in {f \in StoredEvents : IsTomorrow(homes[h], f)}}
    /\ UNCHANGED <<clockVars, choices, stored, notified>>

\* numberOfRowsInSection, when the table first appears.
Layout(h) ==
    /\ ~ homes[h].laidOut
    /\ homes' = [homes EXCEPT ![h] = [@ EXCEPT !.laidOut = TRUE,
                                              !.rows = Len(homes[h].eventData)]]
    /\ UNCHANGED <<clockVars, choices, stored, reminders, notified>>

ReloadData(h) ==
    /\ homes[h].reload
    /\ homes' = [homes EXCEPT ![h] = [@ EXCEPT !.reload = FALSE, !.laidOut = TRUE,
                                              !.rows = Len(homes[h].eventData)]]
    /\ UNCHANGED <<clockVars, choices, stored, reminders, notified>>

\* A slip: the row is deleted from the table only.
DidTapDeleteRowOnly(h) ==
    /\ \E row \in 1..homes[h].rows :
          /\ homes' = [homes EXCEPT ![h].rows = @ - 1]
          /\ stored' = [stored EXCEPT ![homes[h].eventData[row].id] = Gone]
    /\ UNCHANGED <<clockVars, choices, reminders, notified>>

\* The event goes from eventData, from the database and from the table, but
\* nothing takes its reminder back.
DidTapDelete(h) ==
    /\ \E row \in 1..homes[h].rows :
          /\ homes' = [homes EXCEPT ![h] =
                          [@ EXCEPT !.eventData = RemoveAt(homes[h].eventData, row),
                                    !.rows = homes[h].rows - 1]]
          /\ stored' = [stored EXCEPT ![homes[h].eventData[row].id] = Gone]
    /\ UNCHANGED <<clockVars, choices, reminders, notified>>
-----------------------------------------------------------------------------
\* The clock strikes 15:10: the reminders due today are shown, once.
Strike ==
    /\ ~ late
    /\ late' = TRUE
    /\ LET due == {r \in reminders : r.due = today}
       IN  notified' = notified \cup due /\ reminders' = reminders \ due
    /\ UNCHANGED <<today, days, choices, stored, homes>>

Midnight ==
    /\ late /\ days < MaxDays
    /\ today' = NextDay(today) /\ days' = days + 1 /\ late' = FALSE
    /\ UNCHANGED <<choices, stored, homes, reminders, notified>>

Next == \/ DidTapSave \/ ViewDidLoad \/ Strike \/ Midnight
        \/ \E h \in DOMAIN homes : \/ SetData(h) \/ Layout(h) \/ ReloadData(h)
                                   \/ DidTapDelete(h)

Spec == Init /\ [][Next]_vars
-----------------------------------------------------------------------------
TypeOK ==
    /\ today \in Dates /\ days \in 0..MaxDays /\ late \in BOOLEAN
    /\ stored \in [Ids -> choices \cup {Gone}]
    /\ homes \in Seq(Home) /\ Len(homes) <= MaxHomes
    /\ reminders \subseteq Reminders /\ notified \subseteq Reminders

(* UIKit raises an exception when deleteRows leaves a table with another   *)
(* number of rows than its data source has.  eventData changes on another  *)
(* queue (HomeViewController.swift:105), yet a table with rows to tap on   *)
(* always has as many as eventData.                                        *)
TableAgrees ==
    \A h \in DOMAIN homes :
        \/ homes[h].rows = Len(homes[h].eventData)
        \/ homes[h].rows = 0 /\ (homes[h].reload \/ ~ homes[h].laidOut)

(* Each Home reminds of exactly those events of its list that are on the   *)
(* day after currentDay and whose day and month have two digits: a match   *)
(* of the two texts is never wrong, and it misses all other dates          *)
(* (HomeViewController.swift:107, EventViewController.swift:55).           *)
RemindsOfTwoDigitDates ==
    \A h \in DOMAIN homes :
        {<<r.id, r.date>> : r \in {s \in reminders \cup notified : s.home = h}} =
        {<<e.id, e.date>> : e \in {f \in homes[h].given :
                                     /\ f.date = NextDay(homes[h].day)
                                     /\ TwoDigitDate(f.date)}}

SameWidth(a, b) == a.year = b.year /\ a.month = b.month /\ (a.day < 10 <=> b.day < 10)

(* The list is sorted by text (HomePresenter.swift:177): events of a month *)
(* are in the order of the calendar as long as their days have the same    *)
(* number of digits, whatever is between them and whatever was deleted.    *)
CalendarOrderWithinMonth ==
    \A h \in DOMAIN homes :
        LET list == homes[h].eventData
        IN  \A i, j \in DOMAIN list :
               i < j /\ SameWidth(list[i].date, list[j].date)
                  => ~ DateBefore(list[j].date, list[i].date)

Calendar(day, date) ==
    CASE DateBefore(day, date) -> "purple" [] day = date -> "blueTone"
      [] OTHER -> "gradient"

(* The colour of a row compares the two date texts                         *)
(* (EventTableViewCell.swift:28), with the day on which its cell was made: *)
(* it tells past, present and future of that day for events in the cell's  *)
(* month as long as the event's day and month have two digits, and an      *)
(* event is never shown as today's on another day, nor one without a date. *)
ColoursOfTwoDigitDates ==
    \A h \in DOMAIN homes : \A i \in DOMAIN homes[h].eventData :
        LET event == homes[h].eventData[i]
        IN  \A day \in {homes[h].day, today} :
               /\ TwoDigitDate(event.date) /\ event.date.year = day.year
                  /\ event.date.month = day.month
                     => RowColour(day, event) = Calendar(day, event.date)
               /\ RowColour(day, event) = "blueTone" => event.date = day

=============================================================================
