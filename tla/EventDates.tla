----------------------------- MODULE EventDates ------------------------------
(***************************************************************************)
(* Dates and the two texts the app writes for them.  The date pickers make *)
(* `1 2 2023', the date formats of Home and of its rows `01 02 2023'; the  *)
(* app compares and sorts the texts, never the dates.  A text is the       *)
(* sequence of its characters: the digits, and a space that sorts before   *)
(* them.                                                                   *)
(***************************************************************************)
EXTENDS Integers, Sequences

Dates == [day : 1..31, month : 1..12, year : 1000..9999]

MonthLength(month, year) ==
    CASE month \in {4, 6, 9, 11} -> 30
      [] month = 2 -> IF year % 4 = 0 /\ (year % 100 # 0 \/ year % 400 = 0)
                      THEN 29 ELSE 28
      [] OTHER -> 31

NextDay(date) ==
    IF date.day < MonthLength(date.month, date.year)
    THEN [date EXCEPT !.day = @ + 1]
    ELSE IF date.month < 12
         THEN [day |-> 1, month |-> date.month + 1, year |-> date.year]
         ELSE [day |-> 1, month |-> 1, year |-> date.year + 1]

Space == -1

TwoDigits(n) == <<n \div 10, n % 10>>

\* "\(day)" in the pickers' dateChanged: as many digits as it takes.
Digits(n) == IF n < 10 THEN <<n>> ELSE TwoDigits(n)

Year(n) == TwoDigits(n \div 100) \o TwoDigits(n % 100)

PickerText(date) ==
    Digits(date.day) \o <<Space>> \o Digits(date.month) \o <<Space>> \o Year(date.year)

\* The format "dd MM yyyy".
DisplayDate(date) ==
    TwoDigits(date.day) \o <<Space>> \o TwoDigits(date.month) \o <<Space>> \o Year(date.year)

\* `<' on texts: the first character that differs decides.
TextBefore(a, b) ==
    \E i \in 1..Len(b) :
        /\ \A j \in 1..(i - 1) : j <= Len(a) /\ a[j] = b[j]
        /\ i > Len(a) \/ a[i] < b[i]

DateBefore(a, b) ==
    \/ a.year < b.year
    \/ a.year = b.year /\ a.month < b.month
    \/ a.year = b.year /\ a.month = b.month /\ a.day < b.day

\* The dates for which the two texts are the same.
TwoDigitDate(date) == date.day >= 10 /\ date.month >= 10
=============================================================================
