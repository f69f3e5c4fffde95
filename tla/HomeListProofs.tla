---------------------------- MODULE HomeListProofs ----------------------------
(***************************************************************************)
(* Proofs about HomeList, for every finite set of events, every day on     *)
(* which a behaviour begins and every set of dates the users pick.         *)
(***************************************************************************)
EXTENDS HomeList, FiniteSetTheorems, TLAPS

-----------------------------------------------------------------------------
\* What comparing the two texts of dates says about the dates, for every date.

(* Texts, and a text of three parts with spaces between them.              *)
Texts == Seq(Int)
Joined(s, p, t, y) == s \o p \o t \o p \o y

LEMMA JoinedType ==
  ASSUME NEW s \in Texts, NEW p \in Texts, NEW t \in Texts, NEW y \in Texts
  PROVE  /\ Joined(s, p, t, y) \in Texts
         /\ Len(Joined(s, p, t, y)) = Len(s) + Len(p) + Len(t) + Len(p) + Len(y)
         /\ Len(s) \in Nat /\ Len(t) \in Nat
  BY DEF Joined, Texts

LEMMA JoinedFirst ==
  ASSUME NEW s \in Texts, NEW p \in Texts, NEW t \in Texts, NEW y \in Texts
  PROVE  \A i \in 1..Len(s) : Joined(s, p, t, y)[i] = s[i]
  BY DEF Joined, Texts

LEMMA JoinedSecond ==
  ASSUME NEW s \in Texts, NEW p \in Texts, NEW t \in Texts, NEW y \in Texts
  PROVE  \A i \in 1..Len(t) : Joined(s, p, t, y)[Len(s) + Len(p) + i] = t[i]
  BY DEF Joined, Texts

LEMMA JoinedLast ==
  ASSUME NEW s \in Texts, NEW p \in Texts, NEW t \in Texts, NEW y \in Texts
  PROVE  \A i \in 1..Len(y) :
            Joined(s, p, t, y)[Len(s) + Len(p) + Len(t) + Len(p) + i] = y[i]
  BY DEF Joined, Texts

(* A text as the pickers make it.                                          *)
LEMMA PickerShape ==
  ASSUME NEW s \in Texts, NEW p \in Texts, NEW t \in Texts, NEW y \in Texts
  PROVE  Len(p) = 1 /\ Len(y) = 4 =>
         /\ Joined(s, p, t, y) \in Texts
         /\ Len(Joined(s, p, t, y)) = Len(s) + Len(t) + 6
         /\ \A i \in 1..Len(s) : Joined(s, p, t, y)[i] = s[i]
<1> DEFINE text == Joined(s, p, t, y)
<1>1. /\ text \in Texts
      /\ Len(text) = Len(s) + Len(p) + Len(t) + Len(p) + Len(y)
      /\ Len(s) \in Nat /\ Len(t) \in Nat
  BY JoinedType
<1>2. \A i \in 1..Len(s) : text[i] = s[i]
  BY JoinedFirst
<1> HIDE DEF text
<1>3. Len(p) = 1 /\ Len(y) = 4 => Len(text) = Len(s) + Len(t) + 6
  BY <1>1
<1> QED  BY <1>1, <1>2, <1>3 DEF text

(* And as the date formats do: the day and the month have two digits.      *)
LEMMA DisplayShape ==
  ASSUME NEW s \in Texts, NEW p \in Texts, NEW t \in Texts, NEW y \in Texts
  PROVE  Len(s) = 2 /\ Len(p) = 1 /\ Len(t) = 2 /\ Len(y) = 4 =>
         /\ Joined(s, p, t, y) \in Texts /\ Len(Joined(s, p, t, y)) = 10
         /\ Joined(s, p, t, y)[1] = s[1] /\ Joined(s, p, t, y)[2] = s[2]
         /\ Joined(s, p, t, y)[4] = t[1] /\ Joined(s, p, t, y)[5] = t[2]
         /\ \A i \in 1..4 : Joined(s, p, t, y)[6 + i] = y[i]
<1> DEFINE text == Joined(s, p, t, y)
<1>1. text \in Texts /\ Len(text) = Len(s) + Len(p) + Len(t) + Len(p) + Len(y)
  BY JoinedType
<1>2. \A i \in 1..Len(s) : text[i] = s[i]
  BY JoinedFirst
<1>3. \A i \in 1..Len(t) : text[Len(s) + Len(p) + i] = t[i]
  BY JoinedSecond
<1>4. \A i \in 1..Len(y) : text[Len(s) + Len(p) + Len(t) + Len(p) + i] = y[i]
  BY JoinedLast
<1> HIDE DEF text
<1> HAVE Len(s) = 2 /\ Len(p) = 1 /\ Len(t) = 2 /\ Len(y) = 4
<1>5. Len(text) = 10 /\ text[1] = s[1] /\ text[2] = s[2]
  BY <1>1, <1>2
<1>6. text[3 + 1] = t[1] /\ text[3 + 2] = t[2]
  BY <1>3
<1>7. \A i \in 1..4 : text[6 + i] = y[i]
  BY <1>4
<1> QED  BY <1>1, <1>5, <1>6, <1>7 DEF text
-----------------------------------------------------------------------------
(* The numbers of two and of four digits.                                  *)
N2 == 0..99
N4 == 1000..9999

LEMMA TwoDigitsType ==
  ASSUME NEW n \in N2
  PROVE  /\ TwoDigits(n) \in Texts /\ Len(TwoDigits(n)) = 2
         /\ TwoDigits(n)[1] \in Int /\ TwoDigits(n)[2] \in Int
  BY DEF TwoDigits, N2, Texts

LEMMA TwoDigitsSame ==
  ASSUME NEW m \in N2, NEW n \in N2,
         TwoDigits(m)[1] = TwoDigits(n)[1], TwoDigits(m)[2] = TwoDigits(n)[2]
  PROVE  m = n
  BY DEF TwoDigits, N2, Texts

(* The order of two numbers is that of their digits.                       *)
LEMMA TwoDigitsLess ==
  ASSUME NEW m \in N2, NEW n \in N2, m < n
  PROVE  \/ TwoDigits(m)[1] < TwoDigits(n)[1]
         \/ /\ TwoDigits(m)[1] = TwoDigits(n)[1]
            /\ TwoDigits(m)[2] < TwoDigits(n)[2]
  BY DEF TwoDigits, N2, Texts

LEMMA DigitsShort ==
  ASSUME NEW n \in 1..9
  PROVE  Digits(n) \in Texts /\ Len(Digits(n)) = 1 /\ Digits(n)[1] = n
<1>1. Digits(n) = <<n>>
  BY DEF Digits
<1> QED  BY <1>1 DEF Texts

LEMMA DigitsLong ==
  ASSUME NEW n \in 10..99
  PROVE  Digits(n) = TwoDigits(n)
  BY DEF Digits

LEMMA DigitsType ==
  ASSUME NEW n \in N2 \ {0}
  PROVE  /\ Digits(n) \in Texts
         /\ n < 10 => Len(Digits(n)) = 1
         /\ ~ (n < 10) => Len(Digits(n)) = 2
<1>1. CASE n \in 1..9
  <2>1. Digits(n) \in Texts /\ Len(Digits(n)) = 1
    BY <1>1, DigitsShort
  <2> QED  BY <2>1, <1>1
<1>2. CASE n \in 10..99
  <2>1. TwoDigits(n) \in Texts /\ Len(TwoDigits(n)) = 2
    BY TwoDigitsType
  <2>2. Digits(n) = TwoDigits(n)
    BY <1>2, DigitsLong
  <2> QED  BY <2>1, <2>2, <1>2
<1> QED  BY <1>1, <1>2 DEF N2

LEMMA TwoDigitsTwice ==
  ASSUME NEW c \in N2, NEW r \in N2
  PROVE  /\ TwoDigits(c) \o TwoDigits(r) \in Texts
         /\ Len(TwoDigits(c) \o TwoDigits(r)) = 4
         /\ (TwoDigits(c) \o TwoDigits(r))[1] = TwoDigits(c)[1]
         /\ (TwoDigits(c) \o TwoDigits(r))[2] = TwoDigits(c)[2]
         /\ (TwoDigits(c) \o TwoDigits(r))[3] = TwoDigits(r)[1]
         /\ (TwoDigits(c) \o TwoDigits(r))[4] = TwoDigits(r)[2]
  BY DEF TwoDigits, N2, Texts

LEMMA Hundreds ==
  ASSUME NEW n \in N4
  PROVE  n \div 100 \in N2 /\ (n % 100) \in N2 /\ n = 100 * (n \div 100) + (n % 100)
  BY DEF N2, N4

LEMMA YearParts ==
  ASSUME NEW n \in N4
  PROVE  \E c, r \in N2 : n = 100 * c + r /\ Year(n) = TwoDigits(c) \o TwoDigits(r)
<1>1. Year(n) = TwoDigits(n \div 100) \o TwoDigits(n % 100)
  BY DEF Year
<1> QED  BY <1>1, Hundreds

LEMMA YearType ==
  ASSUME NEW n \in N4
  PROVE  Year(n) \in Texts /\ Len(Year(n)) = 4
<1>1. PICK c \in N2, r \in N2 : Year(n) = TwoDigits(c) \o TwoDigits(r)
  BY YearParts
<1> QED  BY <1>1, TwoDigitsTwice

LEMMA YearSame ==
  ASSUME NEW m \in N4, NEW n \in N4,
         \A i \in 1..4 : Year(m)[i] = Year(n)[i]
  PROVE  m = n
<1>1. PICK c \in N2, r \in N2 :
        m = 100 * c + r /\ Year(m) = TwoDigits(c) \o TwoDigits(r)
  BY YearParts
<1>2. PICK e \in N2, q \in N2 :
        n = 100 * e + q /\ Year(n) = TwoDigits(e) \o TwoDigits(q)
  BY YearParts
<1>3. /\ Year(m)[1] = TwoDigits(c)[1] /\ Year(m)[2] = TwoDigits(c)[2]
      /\ Year(m)[3] = TwoDigits(r)[1] /\ Year(m)[4] = TwoDigits(r)[2]
  BY <1>1, TwoDigitsTwice
<1>4. /\ Year(n)[1] = TwoDigits(e)[1] /\ Year(n)[2] = TwoDigits(e)[2]
      /\ Year(n)[3] = TwoDigits(q)[1] /\ Year(n)[4] = TwoDigits(q)[2]
  BY <1>2, TwoDigitsTwice
<1>5. /\ Year(m)[1] = Year(n)[1] /\ Year(m)[2] = Year(n)[2]
      /\ Year(m)[3] = Year(n)[3] /\ Year(m)[4] = Year(n)[4]
  OBVIOUS
<1>6. c = e
  BY <1>3, <1>4, <1>5, TwoDigitsSame
<1>7. r = q
  BY <1>3, <1>4, <1>5, TwoDigitsSame
<1> QED  BY <1>1, <1>2, <1>6, <1>7
-----------------------------------------------------------------------------
N31 == 1..31
N12 == 1..12

LEMMA DateType ==
  ASSUME NEW d \in Dates
  PROVE  d.day \in N31 /\ d.month \in N12 /\ d.year \in N4
  BY DEF Dates, N31, N12, N4

LEMMA SpaceType == <<Space>> \in Texts /\ Len(<<Space>>) = 1
  BY DEF Space, Texts

(* What a date format writes.                                              *)
LEMMA DisplayParts ==
  ASSUME NEW d \in Dates
  PROVE  /\ DisplayDate(d) \in Texts /\ Len(DisplayDate(d)) = 10
         /\ DisplayDate(d)[1] = TwoDigits(d.day)[1]
         /\ DisplayDate(d)[2] = TwoDigits(d.day)[2]
         /\ DisplayDate(d)[4] = TwoDigits(d.month)[1]
         /\ DisplayDate(d)[5] = TwoDigits(d.month)[2]
         /\ \A i \in 1..4 : DisplayDate(d)[6 + i] = Year(d.year)[i]
<1> DEFINE s == TwoDigits(d.day)  t == TwoDigits(d.month)  y == Year(d.year)  p == <<Space>>
<1>1. d.day \in N2 /\ d.month \in N2 /\ d.year \in N4
  BY DateType DEF N31, N12, N2
<1>2. s \in Texts /\ Len(s) = 2 /\ t \in Texts /\ Len(t) = 2
  BY <1>1, TwoDigitsType
<1>3. y \in Texts /\ Len(y) = 4
  BY <1>1, YearType
<1>4. p \in Texts /\ Len(p) = 1
  BY SpaceType
<1>5. DisplayDate(d) = Joined(s, p, t, y)
  BY DEF DisplayDate, Joined
<1> HIDE DEF s, t, y, p
<1>6. /\ DisplayDate(d) \in Texts /\ Len(DisplayDate(d)) = 10
      /\ DisplayDate(d)[1] = s[1] /\ DisplayDate(d)[2] = s[2]
      /\ DisplayDate(d)[4] = t[1] /\ DisplayDate(d)[5] = t[2]
      /\ \A i \in 1..4 : DisplayDate(d)[6 + i] = y[i]
  BY <1>2, <1>3, <1>4, <1>5, DisplayShape
<1> QED  BY <1>6 DEF s, t, y

(* What the pickers make: it begins with the digits of the day, and is     *)
(* shorter than ten characters when the day or the month has one digit.    *)
LEMMA PickerParts ==
  ASSUME NEW d \in Dates
  PROVE  /\ PickerText(d) \in Texts
         /\ Len(PickerText(d)) = Len(Digits(d.day)) + Len(Digits(d.month)) + 6
         /\ \A i \in 1..Len(Digits(d.day)) : PickerText(d)[i] = Digits(d.day)[i]
<1> DEFINE s == Digits(d.day)  t == Digits(d.month)  y == Year(d.year)  p == <<Space>>
<1>1. d.day \in N2 \ {0} /\ d.month \in N2 \ {0} /\ d.year \in N4
  BY DateType DEF N31, N12, N2
<1>2. s \in Texts /\ t \in Texts
  BY <1>1, DigitsType
<1>3. y \in Texts /\ Len(y) = 4
  BY <1>1, YearType
<1>4. p \in Texts /\ Len(p) = 1
  BY SpaceType
<1>5. PickerText(d) = Joined(s, p, t, y)
  BY DEF PickerText, Joined
<1> HIDE DEF s, t, y, p
<1>6. /\ PickerText(d) \in Texts /\ Len(PickerText(d)) = Len(s) + Len(t) + 6
      /\ \A i \in 1..Len(s) : PickerText(d)[i] = s[i]
  BY <1>2, <1>3, <1>4, <1>5, PickerShape
<1> QED  BY <1>6 DEF s, t
-----------------------------------------------------------------------------
LEMMA TwoDigitText ==
  ASSUME NEW d \in Dates, TwoDigitDate(d)
  PROVE  PickerText(d) = DisplayDate(d)
<1>1. d.day \in 10..99 /\ d.month \in 10..99
  BY DEF TwoDigitDate, Dates
<1>2. Digits(d.day) = TwoDigits(d.day) /\ Digits(d.month) = TwoDigits(d.month)
  BY <1>1, DigitsLong
<1> QED  BY <1>2 DEF PickerText, DisplayDate

LEMMA ShortText ==
  ASSUME NEW d \in Dates, ~ TwoDigitDate(d)
  PROVE  Len(PickerText(d)) # 10
<1> DEFINE s == Digits(d.day)  t == Digits(d.month)
<1>1. d.day \in N2 \ {0} /\ d.month \in N2 \ {0}
  BY DateType DEF N31, N12, N2
<1>2. /\ d.day < 10 => Len(s) = 1
      /\ ~ (d.day < 10) => Len(s) = 2
      /\ d.month < 10 => Len(t) = 1
      /\ ~ (d.month < 10) => Len(t) = 2
  BY <1>1, DigitsType
<1>3. Len(PickerText(d)) = Len(s) + Len(t) + 6
  BY PickerParts
<1>4. d.day < 10 \/ d.month < 10
  BY DateType DEF TwoDigitDate, N31, N12
<1> HIDE DEF s, t
<1>5. /\ Len(s) = 1 \/ Len(s) = 2
      /\ Len(t) = 1 \/ Len(t) = 2
      /\ Len(s) = 1 \/ Len(t) = 1
  BY <1>2, <1>4
<1>6. \A m, n \in {1, 2} : m = 1 \/ n = 1 => m + n + 6 # 10
  OBVIOUS
<1>7. Len(s) \in {1, 2} /\ Len(t) \in {1, 2}
  BY <1>5
<1> QED  BY <1>3, <1>5, <1>6, <1>7

(* No two dates have the same text in a date format.                       *)
LEMMA SameDisplay ==
  ASSUME NEW d \in Dates, NEW e \in Dates, DisplayDate(d) = DisplayDate(e)
  PROVE  d = e
<1>1. /\ d.day \in N2 /\ d.month \in N2 /\ d.year \in N4
      /\ e.day \in N2 /\ e.month \in N2 /\ e.year \in N4
  BY DateType DEF N31, N12, N2
<1>2. d.day = e.day
  <2>1. TwoDigits(d.day)[1] = TwoDigits(e.day)[1] /\ TwoDigits(d.day)[2] = TwoDigits(e.day)[2]
    BY DisplayParts
  <2> QED  BY <2>1, <1>1, TwoDigitsSame
<1>3. d.month = e.month
  <2>1. /\ TwoDigits(d.month)[1] = TwoDigits(e.month)[1]
        /\ TwoDigits(d.month)[2] = TwoDigits(e.month)[2]
    BY DisplayParts
  <2> QED  BY <2>1, <1>1, TwoDigitsSame
<1>4. d.year = e.year
  <2>1. \A i \in 1..4 : Year(d.year)[i] = Year(e.year)[i]
    BY DisplayParts
  <2> QED  BY <2>1, <1>1, YearSame
<1> QED  BY <1>2, <1>3, <1>4 DEF Dates

(* The texts match for one date only, and only if it has two digits.       *)
LEMMA SameText ==
  ASSUME NEW d \in Dates, NEW e \in Dates
  PROVE  DisplayDate(d) = PickerText(e) <=> d = e /\ TwoDigitDate(e)
<1>1. ASSUME DisplayDate(d) = PickerText(e) PROVE d = e /\ TwoDigitDate(e)
  <2>1. Len(PickerText(e)) = 10
    BY <1>1, DisplayParts
  <2>2. TwoDigitDate(e)
    <3>1. CASE ~ TwoDigitDate(e)
      BY <2>1, <3>1, ShortText
    <3> QED  BY <3>1
  <2> QED  BY <1>1, <2>2, TwoDigitText, SameDisplay
<1>2. ASSUME d = e, TwoDigitDate(e) PROVE DisplayDate(d) = PickerText(e)
  BY <1>2, TwoDigitText
<1> QED  BY <1>1, <1>2

LEMMA BeforeFirst ==
  ASSUME NEW a, NEW b, Len(b) \in Nat, Len(b) >= 1, a[1] < b[1]
  PROVE  TextBefore(a, b)
<1>1. 1 \in 1..Len(b) /\ \A j \in 1..(1 - 1) : j <= Len(a) /\ a[j] = b[j]
  OBVIOUS
<1> QED  BY <1>1 DEF TextBefore

LEMMA BeforeSecond ==
  ASSUME NEW a, NEW b, Len(a) \in Nat, Len(a) >= 1, Len(b) \in Nat, Len(b) >= 2,
         a[1] = b[1], a[2] < b[2]
  PROVE  TextBefore(a, b)
<1>1. 2 \in 1..Len(b)
  OBVIOUS
<1>2. \A j \in 1..(2 - 1) : j = 1
  OBVIOUS
<1>3. \A j \in 1..(2 - 1) : j <= Len(a) /\ a[j] = b[j]
  BY <1>2
<1> QED  BY <1>1, <1>3 DEF TextBefore

(* Two dates whose days have the same number of digits: the texts are in   *)
(* the order of the days.                                                  *)
LEMMA PickerOrder ==
  ASSUME NEW d \in Dates, NEW e \in Dates, d.day < 10 <=> e.day < 10, d.day < e.day
  PROVE  TextBefore(PickerText(d), PickerText(e))
<1>1. d.day \in N2 \ {0} /\ e.day \in N2 \ {0}
  BY DateType DEF N31, N2
<1>2. /\ Len(PickerText(d)) \in Nat /\ Len(PickerText(d)) >= 1
      /\ Len(PickerText(e)) \in Nat /\ Len(PickerText(e)) >= 2
  <2>1. /\ Len(PickerText(d)) = Len(Digits(d.day)) + Len(Digits(d.month)) + 6
        /\ Len(PickerText(e)) = Len(Digits(e.day)) + Len(Digits(e.month)) + 6
    BY PickerParts
  <2>2. d.month \in N2 \ {0} /\ e.month \in N2 \ {0}
    BY DateType DEF N12, N2
  <2>3. \A n \in N2 \ {0} : Len(Digits(n)) \in {1, 2}
    BY DigitsType
  <2>4. /\ Len(Digits(d.day)) \in {1, 2} /\ Len(Digits(d.month)) \in {1, 2}
        /\ Len(Digits(e.day)) \in {1, 2} /\ Len(Digits(e.month)) \in {1, 2}
    BY <1>1, <2>2, <2>3
  <2> QED  BY <2>1, <2>4
<1>3. CASE d.day < 10
  <2>1. d.day \in 1..9 /\ e.day \in 1..9
    BY <1>1, <1>3 DEF N2
  <2>2. /\ Len(Digits(d.day)) = 1 /\ Digits(d.day)[1] = d.day
        /\ Len(Digits(e.day)) = 1 /\ Digits(e.day)[1] = e.day
    BY <2>1, DigitsShort
  <2>3. 1 \in 1..Len(Digits(d.day)) /\ 1 \in 1..Len(Digits(e.day))
    BY <2>2
  <2>4. PickerText(d)[1] = d.day /\ PickerText(e)[1] = e.day
    BY <2>2, <2>3, PickerParts
  <2> QED  BY <1>2, <2>4, BeforeFirst
<1>4. CASE ~ (d.day < 10)
  <2>1. d.day \in 10..99 /\ e.day \in 10..99
    BY <1>1, <1>4 DEF N2
  <2>2. Digits(d.day) = TwoDigits(d.day) /\ Digits(e.day) = TwoDigits(e.day)
    BY <2>1, DigitsLong
  <2>3. Len(Digits(d.day)) = 2 /\ Len(Digits(e.day)) = 2
    BY <1>1, <2>2, TwoDigitsType
  <2>4. \A i \in 1..2 : /\ PickerText(d)[i] = TwoDigits(d.day)[i]
                        /\ PickerText(e)[i] = TwoDigits(e.day)[i]
    BY <2>2, <2>3, PickerParts
  <2>5. \/ TwoDigits(d.day)[1] < TwoDigits(e.day)[1]
        \/ /\ TwoDigits(d.day)[1] = TwoDigits(e.day)[1]
           /\ TwoDigits(d.day)[2] < TwoDigits(e.day)[2]
    BY <1>1, TwoDigitsLess
  <2>6. \/ PickerText(d)[1] < PickerText(e)[1]
        \/ (PickerText(d)[1] = PickerText(e)[1] /\ PickerText(d)[2] < PickerText(e)[2])
    BY <2>4, <2>5
  <2> QED  BY <1>2, <2>6, BeforeFirst, BeforeSecond
<1> QED  BY <1>3, <1>4

(* Two days of one month, as a date format writes them.                    *)
LEMMA DisplayOrder ==
  ASSUME NEW d \in Dates, NEW e \in Dates, d.month = e.month, d.year = e.year
  PROVE  TextBefore(DisplayDate(d), DisplayDate(e)) <=> d.day < e.day
<1>1. d.day \in N2 /\ e.day \in N2
  BY DateType DEF N31, N2
<1>2. ASSUME NEW a \in Dates, NEW b \in Dates, a.day < b.day
      PROVE  TextBefore(DisplayDate(a), DisplayDate(b))
  <2>1. a.day \in N2 /\ b.day \in N2
    BY DateType DEF N31, N2
  <2>2. \/ TwoDigits(a.day)[1] < TwoDigits(b.day)[1]
        \/ /\ TwoDigits(a.day)[1] = TwoDigits(b.day)[1]
           /\ TwoDigits(a.day)[2] < TwoDigits(b.day)[2]
    BY <1>2, <2>1, TwoDigitsLess
  <2>3. Len(DisplayDate(a)) = 10 /\ Len(DisplayDate(b)) = 10
    BY DisplayParts
  <2>4. \/ DisplayDate(a)[1] < DisplayDate(b)[1]
        \/ (DisplayDate(a)[1] = DisplayDate(b)[1] /\ DisplayDate(a)[2] < DisplayDate(b)[2])
    BY <2>2, DisplayParts
  <2>5. CASE DisplayDate(a)[1] < DisplayDate(b)[1]
    BY <2>3, <2>5, BeforeFirst
  <2>6. CASE DisplayDate(a)[1] = DisplayDate(b)[1] /\ DisplayDate(a)[2] < DisplayDate(b)[2]
    <3>1. /\ Len(DisplayDate(a)) \in Nat /\ Len(DisplayDate(a)) >= 1
          /\ Len(DisplayDate(b)) \in Nat /\ Len(DisplayDate(b)) >= 2
      BY <2>3
    <3> QED  BY <3>1, <2>6, BeforeSecond, Zenon
  <2> QED  BY <2>4, <2>5, <2>6
<1>3. ASSUME TextBefore(DisplayDate(d), DisplayDate(e)), ~ (d.day < e.day)
      PROVE  FALSE
  <2> DEFINE s == DisplayDate(d)  t == DisplayDate(e)
  <2>1. Len(s) = 10 /\ Len(t) = 10
    BY DisplayParts
  <2>2. PICK i \in 1..10 : (\A j \in 1..(i - 1) : s[j] = t[j]) /\ s[i] < t[i]
    BY <1>3, <2>1 DEF TextBefore
  <2>3. /\ s[1] \in Int /\ t[1] \in Int /\ s[2] \in Int /\ t[2] \in Int
    BY <1>1, DisplayParts, TwoDigitsType
  <2>4. CASE d.day = e.day
    <3>1. d = e
      BY <2>4 DEF Dates
    <3>2. s \in Seq(Int)
      BY DisplayParts DEF Texts
    <3>3. s[i] \in Int
      <4> HIDE DEF s
      <4>1. i \in 1..Len(s)
        BY <2>1
      <4> QED  BY <3>2, <4>1
    <3> QED  BY <2>2, <3>1, <3>3
  <2>5. CASE e.day < d.day
    <3>1. \/ TwoDigits(e.day)[1] < TwoDigits(d.day)[1]
          \/ /\ TwoDigits(e.day)[1] = TwoDigits(d.day)[1]
             /\ TwoDigits(e.day)[2] < TwoDigits(d.day)[2]
      BY <1>1, <2>5, TwoDigitsLess
    <3>2. t[1] < s[1] \/ (t[1] = s[1] /\ t[2] < s[2])
      BY <3>1, DisplayParts
    <3> HIDE DEF s, t
    <3>3. i > 1 => s[1] = t[1]
      BY <2>2
    <3>4. i > 2 => s[2] = t[2]
      BY <2>2
    <3>5. i = 1 \/ i = 2 \/ i > 2
      BY <2>2
    <3> QED  BY <2>2, <2>3, <3>2, <3>3, <3>4, <3>5
  <2> QED  BY <1>1, <1>3, <2>4, <2>5 DEF N2
<1> QED  BY <1>2, <1>3

-----------------------------------------------------------------------------
\* Home: its events and the dates it knows them by.

EventDate == Dates \cup {Untouched}
ListEvent == [id : Ids, date : EventDate]
Lists == Seq(ListEvent)

-----------------------------------------------------------------------------
\* Facts about the calendar.

LEMMA MonthLengths ==
  ASSUME NEW month \in N12, NEW year \in N4
  PROVE  MonthLength(month, year) \in N31
<1>1. MonthLength(month, year) \in {28, 29, 30, 31}
  BY DEF MonthLength
<1> QED  BY <1>1 DEF N31

(* The day after a date is a date, and at most a year later.               *)
LEMMA NextDayIsDate ==
  ASSUME NEW d \in Dates, d.year < 9999
  PROVE  /\ NextDay(d) \in Dates
         /\ NextDay(d).year = d.year \/ NextDay(d).year = d.year + 1
<1>1. d.day \in N31 /\ d.month \in N12 /\ d.year \in N4
  BY DateType
<1>2. MonthLength(d.month, d.year) \in N31
  BY <1>1, MonthLengths
<1>3. \A a \in N31, b \in N12, c \in N4 : [day |-> a, month |-> b, year |-> c] \in Dates
  BY DEF Dates, N31, N12, N4
<1>4. d = [day |-> d.day, month |-> d.month, year |-> d.year]
  BY DEF Dates
<1>5. CASE d.day < MonthLength(d.month, d.year)
  <2>1. d.day + 1 \in N31
    BY <1>1, <1>2, <1>5 DEF N31
  <2>2. NextDay(d) = [day |-> d.day + 1, month |-> d.month, year |-> d.year]
    BY <1>4, <1>5 DEF NextDay
  <2>3. NextDay(d) \in Dates /\ NextDay(d).year = d.year
    BY <1>1, <1>3, <2>1, <2>2
  <2> QED  BY <2>3
<1>6. CASE ~ (d.day < MonthLength(d.month, d.year)) /\ d.month < 12
  <2>1. 1 \in N31 /\ d.month + 1 \in N12
    BY <1>1, <1>6 DEF N31, N12
  <2>2. NextDay(d) = [day |-> 1, month |-> d.month + 1, year |-> d.year]
    BY <1>6 DEF NextDay
  <2>3. NextDay(d) \in Dates /\ NextDay(d).year = d.year
    BY <1>1, <1>3, <2>1, <2>2
  <2> QED  BY <2>3
<1>7. CASE ~ (d.day < MonthLength(d.month, d.year)) /\ ~ (d.month < 12)
  <2>0. 1 \in N31 /\ 1 \in N12
    BY DEF N31, N12
  <2>1. d.year + 1 \in N4
    <3>1. \A y \in N4 : y < 9999 => y + 1 \in N4
      BY DEF N4
    <3> QED  BY <1>1, <3>1
  <2>2. NextDay(d) = [day |-> 1, month |-> 1, year |-> d.year + 1]
    BY <1>7 DEF NextDay
  <2>3. NextDay(d) \in Dates /\ NextDay(d).year = d.year + 1
    BY <1>3, <2>0, <2>1, <2>2
  <2> QED  BY <2>3
<1> QED  BY <1>5, <1>6, <1>7

LEMMA DateNumbers ==
  ASSUME NEW d \in Dates
  PROVE  d.day \in Int /\ d.month \in Int /\ d.year \in Int /\ d.year # 0
<1>1. d.day \in N31 /\ d.month \in N12 /\ d.year \in N4
  BY DateType
<1>2. N31 \subseteq Int /\ N12 \subseteq Int /\ N4 \subseteq Int /\ 0 \notin N4
  BY DEF N31, N12, N4
<1> QED  BY <1>1, <1>2

(* What the texts of the app match: one date, and only if it has two       *)
(* digits.                                                                 *)
LEMMA TextMatches ==
  ASSUME NEW d \in Dates, NEW e \in EventDate
  PROVE  DisplayDate(d) = Text(e) <=> e = d /\ TwoDigitDate(e)
<1>1. CASE e = Untouched
  <2>1. Text(e) = << >> /\ Len(DisplayDate(d)) = 10
    BY <1>1, DisplayParts DEF Text
  <2>2. e \notin Dates
    BY <1>1 DEF Untouched, Dates
  <2> QED  BY <2>1, <2>2
<1>2. CASE e # Untouched
  <2>1. e \in Dates /\ Text(e) = PickerText(e)
    BY <1>2 DEF EventDate, Text
  <2> QED  BY <2>1, SameText
<1> QED  BY <1>1, <1>2

(* Events of one month in the order of the calendar are in the order of    *)
(* their texts.                                                            *)
LEMMA OrderOfTexts ==
  ASSUME NEW d \in EventDate, NEW e \in EventDate, SameWidth(d, e), DateBefore(d, e)
  PROVE  TextBefore(Text(d), Text(e))
<1>1. /\ Untouched.year = 0 /\ Untouched.month = 0
      /\ \A x \in Dates : x.year \in Int /\ x.month \in Int /\ x.year # 0
  BY DateNumbers DEF Untouched
<1>2. /\ d.year = e.year /\ d.month = e.month
      /\ d.year \in Int /\ d.month \in Int
  BY <1>1 DEF SameWidth, EventDate
<1>3. d.day < e.day
  BY <1>2 DEF DateBefore
<1>4. CASE d = Untouched /\ e = Untouched
  BY <1>3, <1>4 DEF Untouched
<1>5. CASE d \in Dates /\ e \in Dates
  <2>1. d # Untouched /\ e # Untouched
    BY <1>1, <1>5
  <2>2. Text(d) = PickerText(d) /\ Text(e) = PickerText(e)
    BY <2>1 DEF Text
  <2> QED  BY <1>3, <1>5, <2>2, PickerOrder DEF SameWidth
<1> QED  BY <1>1, <1>2, <1>4, <1>5 DEF EventDate

(* The colour of a row.                                                    *)
LEMMA ColourOfRow ==
  ASSUME NEW day \in Dates, NEW event \in ListEvent
  PROVE  /\ TwoDigitDate(event.date) /\ event.date.year = day.year
            /\ event.date.month = day.month
               => RowColour(day, event) = Calendar(day, event.date)
         /\ RowColour(day, event) = "blueTone" => event.date = day
<1> DEFINE date == event.date
<1>1. date \in EventDate
  BY DEF ListEvent
<1>2. RowColour(day, event) = "blueTone" => date = day
  BY <1>1, TextMatches DEF RowColour
<1>3. ASSUME TwoDigitDate(date), date.year = day.year, date.month = day.month
      PROVE  RowColour(day, event) = Calendar(day, date)
  <2>1. date \in Dates
    BY <1>1, <1>3 DEF EventDate, Untouched, TwoDigitDate
  <2>2. Text(date) = DisplayDate(date)
    <3>1. date # Untouched
      BY <1>3 DEF Untouched, TwoDigitDate
    <3>2. Text(date) = PickerText(date)
      BY <3>1 DEF Text
    <3> QED  BY <1>3, <2>1, <3>2, TwoDigitText
  <2>3. TextBefore(DisplayDate(day), Text(date)) <=> day.day < date.day
    BY <1>3, <2>1, <2>2, DisplayOrder
  <2>4. DateBefore(day, date) <=> day.day < date.day
    <3>1. day.year \in Int /\ day.month \in Int
      BY DateNumbers
    <3> QED  BY <1>3, <3>1 DEF DateBefore
  <2>5. DisplayDate(day) = Text(date) <=> day = date
    BY <1>1, <1>3, TextMatches
  <2> HIDE DEF date
  <2>6. RowColour(day, event) = IF TextBefore(DisplayDate(day), Text(date)) THEN "purple"
                                ELSE IF DisplayDate(day) = Text(date) THEN "blueTone"
                                ELSE "gradient"
    BY DEF RowColour, date
  <2>7. Calendar(day, date) = IF DateBefore(day, date) THEN "purple"
                              ELSE IF day = date THEN "blueTone" ELSE "gradient"
    <3>1. ~ (DateBefore(day, date) /\ day = date)
      BY <2>4, DateNumbers
    <3> QED  BY <3>1 DEF Calendar
  <2> QED  BY <2>3, <2>4, <2>5, <2>6, <2>7
<1> QED  BY <1>2, <1>3
-----------------------------------------------------------------------------
\* Facts about lists.

(* The list without one of its rows.                                       *)
LEMMA RemoveAtFacts ==
  ASSUME NEW list \in Lists, NEW row \in 1..Len(list)
  PROVE  /\ RemoveAt(list, row) \in Lists
         /\ Len(RemoveAt(list, row)) = Len(list) - 1
         /\ \A i \in 1..(Len(list) - 1) :
               RemoveAt(list, row)[i] = list[IF i < row THEN i ELSE i + 1]
<1> DEFINE before == SubSeq(list, 1, row - 1)
           after == SubSeq(list, row + 1, Len(list))
<1>0. list \in Seq(ListEvent)
  BY DEF Lists
<1>1. before \in Seq(ListEvent) /\ Len(before) = row - 1 /\ \A i \in 1..(row - 1) : before[i] = list[i]
  BY <1>0
<1>2. /\ after \in Seq(ListEvent) /\ Len(after) = Len(list) - row
      /\ \A i \in 1..(Len(list) - row) : after[i] = list[row + i]
  BY <1>0
<1>3. RemoveAt(list, row) = before \o after
  BY DEF RemoveAt
<1> HIDE DEF before, after
<1>4. /\ before \o after \in Seq(ListEvent)
      /\ Len(before \o after) = Len(list) - 1
  BY <1>0, <1>1, <1>2
<1>5. ASSUME NEW i \in 1..(Len(list) - 1)
      PROVE  (before \o after)[i] = list[IF i < row THEN i ELSE i + 1]
  <2>1. CASE i < row
    BY <1>1, <1>2, <2>1
  <2>2. CASE ~ (i < row)
    <3>1. (before \o after)[i] = after[i - (row - 1)]
      BY <1>1, <1>2, <2>2
    <3>2. i - (row - 1) \in 1..(Len(list) - row) /\ row + (i - (row - 1)) = i + 1
      BY <2>2
    <3> QED  BY <1>2, <2>2, <3>1, <3>2
  <2> QED  BY <2>1, <2>2
<1> QED  BY <1>3, <1>4, <1>5 DEF Lists

InOrder(list) ==
    \A i, j \in DOMAIN list : i < j => ~ ByText(list[j], list[i])

(* A list in order stays in order.                                         *)
LEMMA RemoveAtInOrder ==
  ASSUME NEW list \in Lists, NEW row \in 1..Len(list), InOrder(list)
  PROVE  InOrder(RemoveAt(list, row))
<1> DEFINE short == RemoveAt(list, row)
           At(i) == IF i < row THEN i ELSE i + 1
<1>1. /\ short \in Lists /\ Len(short) = Len(list) - 1
      /\ \A i \in 1..(Len(list) - 1) : short[i] = list[At(i)]
  BY RemoveAtFacts
<1> HIDE DEF short
<1>2. DOMAIN short = 1..(Len(list) - 1) /\ DOMAIN list = 1..Len(list)
  BY <1>1 DEF Lists
<1>3. \A i \in 1..(Len(list) - 1) : At(i) \in 1..Len(list)
  BY DEF Lists
<1>4. \A i, j \in 1..(Len(list) - 1) : i < j => At(i) < At(j)
  BY DEF Lists
<1> HIDE DEF At
<1>5. InOrder(short)
  <2> SUFFICES ASSUME NEW i \in 1..(Len(list) - 1), NEW j \in 1..(Len(list) - 1), i < j
               PROVE  ~ ByText(short[j], short[i])
    BY <1>2 DEF InOrder
  <2>1. At(i) \in 1..Len(list) /\ At(j) \in 1..Len(list) /\ At(i) < At(j)
    BY <1>3, <1>4
  <2>2. ~ ByText(list[At(j)], list[At(i)])
    BY <1>2, <2>1 DEF InOrder
  <2> QED  BY <1>1, <2>2
<1> QED  BY <1>5 DEF short

(* What the sort returns is a list of its input, in order.                 *)
LEMMA SortedFacts ==
  ASSUME NEW events, IsFiniteSet(events), NEW list \in Sorted(events)
  PROVE  list \in Seq(events) /\ InOrder(list)
<1>1. Cardinality(events) \in Nat
  BY FS_CardinalityType
<1>2. list \in [1..Cardinality(events) -> events]
  BY DEF Sorted, SetToSeqs
<1>3. list \in Seq(events)
  BY <1>1, <1>2
<1> QED  BY <1>3 DEF Sorted, InOrder

LEMMA StoredEventsFacts ==
  ASSUME stored \in [Ids -> EventDate \cup {Gone}]
  PROVE  StoredEvents \subseteq ListEvent /\ IsFiniteSet(StoredEvents)
<1> DEFINE known == {i \in Ids : stored[i] # Gone}
           event == [i \in known |-> [id |-> i, date |-> stored[i]]]
<1>1. IsFiniteSet(known)
  BY IdsAreFinite, FS_Subset DEF IdsAreFinite
<1>2. event \in Surjection(known, StoredEvents)
  BY DEF Surjection, StoredEvents
<1>3. IsFiniteSet(StoredEvents)
  BY <1>1, <1>2, FS_Surjection
<1>4. StoredEvents \subseteq ListEvent
  BY DEF StoredEvents, ListEvent
<1> QED  BY <1>3, <1>4
-----------------------------------------------------------------------------
\* The inductive invariant.

Clock ==
    /\ today \in Dates /\ days \in 0..MaxDays /\ late \in BOOLEAN
    /\ today.year + (MaxDays - days) < 9999

Agrees(home) ==
    \/ home.rows = Len(home.eventData)
    \/ home.rows = 0 /\ (home.reload \/ ~ home.laidOut)

HomeInv(home) ==
    /\ home \in Home /\ home.day.year < 9999
    /\ ~ home.loaded => home.eventData = << >> /\ home.given = {} /\ ~ home.reload
    /\ Agrees(home)
    /\ InOrder(home.eventData)

Asked(h) == {r \in reminders \cup notified : r.home = h}
Pairs(h) == {<<r.id, r.date>> : r \in Asked(h)}
Due(home) == {e \in home.given : e.date = NextDay(home.day) /\ TwoDigitDate(e.date)}
DuePairs(home) == {<<e.id, e.date>> : e \in Due(home)}

IInv ==
    /\ Clock
    /\ choices \subseteq EventDate /\ stored \in [Ids -> choices \cup {Gone}]
    /\ homes \in Seq(Home) /\ Len(homes) <= MaxHomes
    /\ reminders \subseteq Reminders /\ notified \subseteq Reminders
    /\ \A r \in reminders \cup notified : r.home \in 1..Len(homes)
    /\ \A h \in 1..Len(homes) : HomeInv(homes[h])
    /\ \A h \in 1..Len(homes) : Pairs(h) = DuePairs(homes[h])

LEMMA HomeFields ==
  ASSUME NEW home \in Home
  PROVE  /\ home.eventData \in Lists /\ Len(home.eventData) \in Nat
         /\ home.rows \in Nat /\ home.day \in Dates /\ home.given \subseteq ListEvent
  BY DEF Home, Lists, ListEvent, EventDate

LEMMA InitIInv == Init => IInv
<1> SUFFICES ASSUME Init PROVE IInv
  OBVIOUS
<1>1. today \in Starts /\ today \in Dates /\ days = 0 /\ late \in BOOLEAN
  BY StartsAreDates DEF Init, StartsAreDates
<1>2. today.year + MaxDays < 9999 /\ MaxDays \in Nat /\ MaxHomes \in Nat
  BY <1>1, YearsHaveFourDigits, BoundsAreNat DEF YearsHaveFourDigits, BoundsAreNat
<1>3. Clock
  BY <1>1, <1>2 DEF Clock
<1>4. choices \subseteq EventDate
  BY <1>1, StartsAreDates DEF StartsAreDates, Init, EventDate
<1>5. stored \in [Ids -> choices \cup {Gone}]
  BY DEF Init
<1>6. homes = << >> /\ homes \in Seq(Home) /\ Len(homes) = 0 /\ 1..Len(homes) = {}
  BY DEF Init
<1>7. reminders = {} /\ notified = {}
  BY DEF Init
<1> QED  BY <1>2, <1>3, <1>4, <1>5, <1>6, <1>7 DEF IInv

(* A step that changes one Home and neither asks for nor shows reminders.  *)
LEMMA OneHomeChanges ==
  ASSUME IInv, NEW h \in 1..Len(homes), NEW new,
         homes' = [homes EXCEPT ![h] = new],
         HomeInv(new), new.given = homes[h].given, new.day = homes[h].day,
         UNCHANGED <<clockVars, choices, reminders, notified>>,
         stored' \in [Ids -> choices \cup {Gone}]
  PROVE  IInv'
<1>1. new \in Home
  BY DEF HomeInv
<1>2. /\ homes' \in Seq(Home) /\ Len(homes') = Len(homes)
      /\ homes'[h] = new
      /\ \A g \in 1..Len(homes) : g # h => homes'[g] = homes[g]
  BY <1>1 DEF IInv
<1>3. \A g \in 1..Len(homes) : HomeInv(homes'[g])
  BY <1>2 DEF IInv
<1>4. \A g \in 1..Len(homes) : DuePairs(homes'[g]) = DuePairs(homes[g])
  <2>1. DuePairs(new) = DuePairs(homes[h])
    BY DEF DuePairs, Due
  <2> QED  BY <1>2, <2>1
<1>5. \A g \in 1..Len(homes) : Pairs(g)' = Pairs(g)
  BY DEF Pairs, Asked
<1>6. Clock'
  BY DEF IInv, Clock, clockVars
<1>7. /\ choices' \subseteq EventDate /\ stored' \in [Ids -> choices' \cup {Gone}]
      /\ reminders' \subseteq Reminders /\ notified' \subseteq Reminders
      /\ \A r \in reminders' \cup notified' : r.home \in 1..Len(homes)
  BY DEF IInv
<1>8. \A g \in 1..Len(homes') : HomeInv(homes'[g])
  BY <1>2, <1>3
<1>9. \A g \in 1..Len(homes') : Pairs(g)' = DuePairs(homes'[g])
  BY <1>2, <1>4, <1>5 DEF IInv
<1> QED  BY <1>2, <1>6, <1>7, <1>8, <1>9 DEF IInv

LEMMA StepDidTapSave == IInv /\ DidTapSave => IInv'
<1> SUFFICES ASSUME IInv, DidTapSave PROVE IInv'
  OBVIOUS
<1>1. /\ UNCHANGED <<clockVars, choices, homes, reminders, notified>>
      /\ stored' \in [Ids -> choices \cup {Gone}]
  BY DEF DidTapSave, IInv
<1>2. \A h \in 1..Len(homes) : Pairs(h)' = Pairs(h)
  BY <1>1 DEF Pairs, Asked
<1>3. Clock'
  BY <1>1 DEF IInv, Clock, clockVars
<1> QED  BY <1>1, <1>2, <1>3 DEF IInv

LEMMA StepViewDidLoad == IInv /\ ViewDidLoad => IInv'
<1> SUFFICES ASSUME IInv, ViewDidLoad PROVE IInv'
  OBVIOUS
<1> DEFINE new == [day |-> today, loaded |-> FALSE, eventData |-> << >>, given |-> {},
                   rows |-> 0, laidOut |-> FALSE, reload |-> FALSE]
<1>n. PICK n \in Nat : n = Len(homes) + 1
  BY DEF IInv
<1>1. /\ UNCHANGED <<clockVars, choices, stored, reminders, notified>>
      /\ homes' = Append(homes, new) /\ Len(homes) < MaxHomes
  BY DEF ViewDidLoad
<1>2. HomeInv(new)
  <2>1. new \in Home
    BY DEF Home, IInv, Clock
  <2>2. new.day.year < 9999
    <3>1. today.year \in Int
      BY DateNumbers DEF IInv, Clock
    <3> QED  BY <3>1, BoundsAreNat DEF IInv, Clock, BoundsAreNat
  <2>3. InOrder(new.eventData)
    BY DEF InOrder
  <2> QED  BY <2>1, <2>2, <2>3 DEF HomeInv, Agrees
<1> HIDE DEF new
<1>3. /\ homes' \in Seq(Home) /\ Len(homes') = n /\ homes'[n] = new /\ Len(homes) \in Nat
      /\ \A g \in 1..Len(homes) : homes'[g] = homes[g]
  BY <1>n, <1>1, <1>2 DEF IInv, HomeInv
<1>4. n <= MaxHomes
  BY <1>n, <1>1, <1>3, BoundsAreNat DEF BoundsAreNat
<1>5. \A g \in 1..Len(homes') : g \in 1..Len(homes) \/ g = n
  BY <1>n, <1>3
<1>0. n \notin 1..Len(homes)
  BY <1>n, <1>3
<1>6. \A g \in 1..Len(homes') : HomeInv(homes'[g])
  BY <1>2, <1>3, <1>5 DEF IInv
<1>7. \A g \in 1..Len(homes) : Pairs(g)' = DuePairs(homes'[g])
  BY <1>1, <1>3 DEF Pairs, Asked, IInv
<1>8. Pairs(n)' = DuePairs(homes'[n])
  <2>1. Asked(n)' = {}
    <3>2. \A r \in reminders' \cup notified' : r.home \in 1..Len(homes)
      BY <1>1 DEF IInv
    <3> QED  BY <1>0, <3>2 DEF Asked
  <2>2. new.given = {}
    BY DEF new
  <2>3. Pairs(n)' = {}
    BY <2>1 DEF Pairs
  <2>4. DuePairs(new) = {}
    BY <2>2 DEF DuePairs, Due
  <2> QED  BY <1>3, <2>3, <2>4
<1>9. Clock'
  BY <1>1 DEF IInv, Clock, clockVars
<1>10. \A r \in reminders' \cup notified' : r.home \in 1..Len(homes')
  <2>1. 1..Len(homes) \subseteq 1..Len(homes')
    BY <1>n, <1>3
  <2> QED  BY <1>1, <2>1 DEF IInv
<1>11. /\ choices' \subseteq EventDate /\ stored' \in [Ids -> choices' \cup {Gone}]
       /\ reminders' \subseteq Reminders /\ notified' \subseteq Reminders
  BY <1>1 DEF IInv
<1>12. \A g \in 1..Len(homes') : Pairs(g)' = DuePairs(homes'[g])
  BY <1>5, <1>7, <1>8
<1> QED  BY <1>3, <1>4, <1>6, <1>9, <1>10, <1>11, <1>12 DEF IInv

LEMMA StepLayout ==
  ASSUME IInv, NEW h \in 1..Len(homes), Layout(h)
  PROVE  IInv'
<1> DEFINE new == [homes[h] EXCEPT !.laidOut = TRUE, !.rows = Len(homes[h].eventData)]
<1>1. /\ homes' = [homes EXCEPT ![h] = new]
      /\ UNCHANGED <<clockVars, choices, stored, reminders, notified>>
  BY DEF Layout
<1>0. HomeInv(homes[h])
  BY DEF IInv
<1>2. HomeInv(homes[h]) /\ homes[h] \in Home /\ Len(homes[h].eventData) \in Nat
  BY <1>0, HomeFields DEF HomeInv
<1>3. new \in Home /\ new.given = homes[h].given /\ new.day = homes[h].day
  BY <1>2 DEF Home
<1>4. HomeInv(new)
  BY <1>2, <1>3 DEF HomeInv, Agrees, Home
<1>5. stored' \in [Ids -> choices \cup {Gone}]
  BY <1>1 DEF IInv
<1> HIDE DEF new
<1> QED  BY <1>1, <1>3, <1>4, <1>5, OneHomeChanges

LEMMA StepReloadData ==
  ASSUME IInv, NEW h \in 1..Len(homes), ReloadData(h)
  PROVE  IInv'
<1> DEFINE new == [homes[h] EXCEPT !.reload = FALSE, !.laidOut = TRUE,
                                   !.rows = Len(homes[h].eventData)]
<1>1. /\ homes' = [homes EXCEPT ![h] = new]
      /\ UNCHANGED <<clockVars, choices, stored, reminders, notified>>
  BY DEF ReloadData
<1>0. HomeInv(homes[h])
  BY DEF IInv
<1>2. HomeInv(homes[h]) /\ homes[h] \in Home /\ Len(homes[h].eventData) \in Nat
  BY <1>0, HomeFields DEF HomeInv
<1>3. new \in Home /\ new.given = homes[h].given /\ new.day = homes[h].day
  BY <1>2 DEF Home
<1>4. HomeInv(new)
  BY <1>2, <1>3 DEF HomeInv, Agrees, Home
<1>5. stored' \in [Ids -> choices \cup {Gone}]
  BY <1>1 DEF IInv
<1> HIDE DEF new
<1> QED  BY <1>1, <1>3, <1>4, <1>5, OneHomeChanges

LEMMA StepDidTapDelete ==
  ASSUME IInv, NEW h \in 1..Len(homes), DidTapDelete(h)
  PROVE  IInv'
<1>1. PICK row \in 1..homes[h].rows :
        /\ homes' = [homes EXCEPT ![h] =
                       [@ EXCEPT !.eventData = RemoveAt(homes[h].eventData, row),
                                 !.rows = homes[h].rows - 1]]
        /\ stored' = [stored EXCEPT ![homes[h].eventData[row].id] = Gone]
        /\ UNCHANGED <<clockVars, choices, reminders, notified>>
  BY DEF DidTapDelete
<1> DEFINE list == homes[h].eventData
           new == [homes[h] EXCEPT !.eventData = RemoveAt(homes[h].eventData, row),
                                   !.rows = homes[h].rows - 1]
<1>0. HomeInv(homes[h])
  BY DEF IInv
<1>2. homes[h] \in Home /\ list \in Lists /\ Len(list) \in Nat
  BY <1>0, HomeFields DEF HomeInv
<1>3. homes[h].rows = Len(list) /\ row \in 1..Len(list)
  BY <1>0, <1>1, <1>2 DEF HomeInv, Agrees
<1>4. /\ RemoveAt(list, row) \in Lists
      /\ Len(RemoveAt(list, row)) = Len(list) - 1
      /\ InOrder(RemoveAt(list, row))
  <2>1. InOrder(list)
    BY <1>0 DEF HomeInv
  <2> HIDE DEF list
  <2> QED  BY <1>2, <1>3, <2>1, RemoveAtFacts, RemoveAtInOrder
<1>5. homes' = [homes EXCEPT ![h] = new]
  BY <1>1
<1>6. new \in Home /\ new.given = homes[h].given /\ new.day = homes[h].day
  <2>1. homes[h].rows - 1 \in Nat
    BY <1>2, <1>3
  <2>2. \A x \in Home, l \in Lists, r \in Nat :
           /\ [x EXCEPT !.eventData = l, !.rows = r] \in Home
           /\ [x EXCEPT !.eventData = l, !.rows = r].given = x.given
           /\ [x EXCEPT !.eventData = l, !.rows = r].day = x.day
    BY DEF Home, Lists, ListEvent, EventDate
  <2>3. PICK l \in Lists : l = RemoveAt(list, row)
    BY <1>4
  <2>4. PICK r \in Nat : r = homes[h].rows - 1
    BY <2>1
  <2>5. new = [homes[h] EXCEPT !.eventData = l, !.rows = r]
    BY <2>3, <2>4
  <2> HIDE DEF new, list
  <2> QED  BY <1>2, <2>2, <2>5
<1>7. HomeInv(new)
  BY <1>0, <1>2, <1>3, <1>4, <1>6 DEF HomeInv, Agrees, Home
<1>8. stored' \in [Ids -> choices \cup {Gone}]
  BY <1>1 DEF IInv
<1> HIDE DEF new
<1> QED  BY <1>1, <1>5, <1>6, <1>7, <1>8, OneHomeChanges

Loaded(home, list, events) ==
    [home EXCEPT !.loaded = TRUE, !.reload = TRUE, !.eventData = list, !.given = events]

LEMMA LoadedIsHome ==
  ASSUME NEW home \in Home, NEW list \in Lists, NEW events \in SUBSET ListEvent
  PROVE  /\ Loaded(home, list, events) \in Home
         /\ Loaded(home, list, events).day = home.day
         /\ Loaded(home, list, events).given = events
  BY DEF Loaded, Home, Lists, ListEvent, EventDate

(* The load completes: the new list is in order, and the reminders that    *)
(* are added are those of the list's events that are due.                  *)
LEMMA StepSetData ==
  ASSUME IInv, NEW h \in 1..Len(homes), SetData(h)
  PROVE  IInv'
<1>1. PICK list \in Sorted(StoredEvents) :
        homes' = [homes EXCEPT ![h] = [@ EXCEPT !.loaded = TRUE, !.reload = TRUE,
                                                !.eventData = list,
                                                !.given = StoredEvents]]
  BY DEF SetData
<1>2. /\ ~ homes[h].loaded
      /\ reminders' = reminders \cup
           {ReminderFor(h, e) : e \in {f \in StoredEvents : IsTomorrow(homes[h], f)}}
      /\ UNCHANGED <<clockVars, choices, stored, notified>>
  BY DEF SetData
<1> DEFINE new == [homes[h] EXCEPT !.loaded = TRUE, !.reload = TRUE,
                                   !.eventData = list, !.given = StoredEvents]
           tomorrow == {f \in StoredEvents : IsTomorrow(homes[h], f)}
           added == {ReminderFor(h, e) : e \in tomorrow}
<1>3. StoredEvents \subseteq ListEvent /\ IsFiniteSet(StoredEvents)
  BY StoredEventsFacts DEF IInv
<1>4. list \in Seq(StoredEvents) /\ InOrder(list)
  BY <1>3, SortedFacts
<1>5. list \in Lists
  BY <1>3, <1>4 DEF Lists
<1>6. HomeInv(homes[h])
  BY DEF IInv
<1>7. homes[h] \in Home /\ homes[h].day \in Dates /\ homes[h].day.year < 9999
  BY <1>6, HomeFields DEF HomeInv
<1>8. new \in Home /\ new.day = homes[h].day /\ new.given = StoredEvents
  <2>1. new = Loaded(homes[h], list, StoredEvents)
    BY DEF Loaded
  <2>2. StoredEvents \in SUBSET ListEvent
    BY <1>3
  <2> HIDE DEF new
  <2> QED  BY <1>5, <1>7, <2>1, <2>2, LoadedIsHome
<1>9. HomeInv(new)
  <2>1. /\ homes[h].eventData = << >> /\ homes[h].rows = 0
    BY <1>2, <1>6 DEF HomeInv, Agrees
  <2>2. /\ new.rows = 0 /\ new.reload = TRUE /\ new.loaded = TRUE /\ new.eventData = list
    BY <1>7, <2>1 DEF Home
  <2>3. new.day.year < 9999
    BY <1>7, <1>8
  <2> HIDE DEF new
  <2> QED  BY <1>4, <1>8, <2>2, <2>3 DEF HomeInv, Agrees
<1>10. homes' = [homes EXCEPT ![h] = new]
  BY <1>1
<1> HIDE DEF new
<1>11. /\ homes' \in Seq(Home) /\ Len(homes') = Len(homes) /\ homes'[h] = new
       /\ \A g \in 1..Len(homes) : g # h => homes'[g] = homes[g]
  BY <1>8, <1>10 DEF IInv
<1>12. \A g \in 1..Len(homes') : HomeInv(homes'[g])
  BY <1>9, <1>11 DEF IInv
<1>13. NextDay(homes[h].day) \in Dates
  BY <1>7, NextDayIsDate
<1>14. tomorrow = {e \in StoredEvents : /\ e.date = NextDay(homes[h].day)
                                        /\ TwoDigitDate(e.date)}
  <2>1. \A e \in ListEvent : e.date \in EventDate
    BY DEF ListEvent
  <2>2. \A e \in StoredEvents : DisplayDate(NextDay(homes[h].day)) = Text(e.date)
                                 <=> /\ e.date = NextDay(homes[h].day)
                                     /\ TwoDigitDate(e.date)
    BY <1>3, <1>13, <2>1, TextMatches
  <2> QED  BY <2>2 DEF IsTomorrow
<1>15. tomorrow = Due(new)
  BY <1>8, <1>14 DEF Due
<1>16. NextTrigger \in Dates
  <2>1. today.year \in Int /\ MaxDays \in Nat /\ days \in 0..MaxDays
    BY DateNumbers, BoundsAreNat DEF IInv, Clock, BoundsAreNat
  <2>2. today.year < 9999
    BY <2>1 DEF IInv, Clock
  <2> QED  BY <2>2, NextDayIsDate DEF NextTrigger, IInv, Clock
<1>17. \A e \in tomorrow : /\ ReminderFor(h, e) \in Reminders
                           /\ ReminderFor(h, e).home = h
                           /\ ReminderFor(h, e).id = e.id
                           /\ ReminderFor(h, e).date = e.date
  <2> SUFFICES ASSUME NEW e \in tomorrow
               PROVE  /\ ReminderFor(h, e) \in Reminders
                      /\ ReminderFor(h, e).home = h
                      /\ ReminderFor(h, e).id = e.id
                      /\ ReminderFor(h, e).date = e.date
    OBVIOUS
  <2>1. e.id \in Ids /\ e.date \in Dates
    BY <1>3, <1>13, <1>14 DEF ListEvent
  <2>2. h \in 1..MaxHomes
    BY BoundsAreNat DEF IInv, BoundsAreNat
  <2> QED  BY <1>16, <2>1, <2>2 DEF ReminderFor, Reminders
<1>18. \A r \in reminders \cup notified : r.home # h
  <2>1. DuePairs(homes[h]) = {}
    BY <1>2, <1>6 DEF HomeInv, DuePairs, Due
  <2>2. Pairs(h) = {}
    BY <2>1 DEF IInv
  <2> QED  BY <2>2 DEF Pairs, Asked
<1>19. Asked(h)' = added
  <2>1. reminders' \cup notified' = (reminders \cup notified) \cup added
    BY <1>2
  <2>2. \A r \in added : r.home = h
    BY <1>17
  <2> HIDE DEF added
  <2> QED  BY <1>18, <2>1, <2>2 DEF Asked
<1>20. Pairs(h)' = DuePairs(new)
  <2>1. {<<r.id, r.date>> : r \in added} = {<<e.id, e.date>> : e \in tomorrow}
    BY <1>17
  <2> QED  BY <1>15, <1>19, <2>1 DEF Pairs, DuePairs
<1>21. \A g \in 1..Len(homes) : g # h => Pairs(g)' = Pairs(g)
  <2> SUFFICES ASSUME NEW g \in 1..Len(homes), g # h
               PROVE  Asked(g)' = Asked(g)
    BY DEF Pairs
  <2>1. reminders' \cup notified' = (reminders \cup notified) \cup added
    BY <1>2
  <2>2. \A r \in added : r.home # g
    BY <1>17
  <2> HIDE DEF added
  <2> QED  BY <2>1, <2>2 DEF Asked
<1>22. \A g \in 1..Len(homes') : Pairs(g)' = DuePairs(homes'[g])
  BY <1>11, <1>20, <1>21 DEF IInv
<1>23. /\ reminders' \subseteq Reminders /\ notified' \subseteq Reminders
       /\ \A r \in reminders' \cup notified' : r.home \in 1..Len(homes')
  BY <1>2, <1>11, <1>17 DEF IInv
<1>24. Clock' /\ choices' \subseteq EventDate /\ stored' \in [Ids -> choices' \cup {Gone}]
  BY <1>2 DEF IInv, Clock, clockVars
<1> QED  BY <1>11, <1>12, <1>22, <1>23, <1>24 DEF IInv

LEMMA StepStrike == IInv /\ Strike => IInv'
<1> SUFFICES ASSUME IInv, Strike PROVE IInv'
  OBVIOUS
<1>1. /\ late' = TRUE /\ UNCHANGED <<today, days, choices, stored, homes>>
      /\ reminders' \cup notified' = reminders \cup notified
      /\ reminders' \subseteq Reminders /\ notified' \subseteq Reminders
  BY DEF Strike, IInv
<1>2. \A h \in 1..Len(homes) : Pairs(h)' = Pairs(h)
  BY <1>1 DEF Pairs, Asked
<1>3. Clock'
  BY <1>1 DEF IInv, Clock
<1> QED  BY <1>1, <1>2, <1>3 DEF IInv

LEMMA StepMidnight == IInv /\ Midnight => IInv'
<1> SUFFICES ASSUME IInv, Midnight PROVE IInv'
  OBVIOUS
<1>1. /\ today' = NextDay(today) /\ days' = days + 1 /\ late' = FALSE /\ days < MaxDays
      /\ UNCHANGED <<choices, stored, homes, reminders, notified>>
  BY DEF Midnight
<1>2. \A h \in 1..Len(homes) : Pairs(h)' = Pairs(h)
  BY <1>1 DEF Pairs, Asked
<1>3. Clock'
  <2>1. today \in Dates /\ today.year \in Int /\ MaxDays \in Nat /\ days \in 0..MaxDays
    BY DateNumbers, BoundsAreNat DEF IInv, Clock, BoundsAreNat
  <2>2. today.year + (MaxDays - days) < 9999
    BY DEF IInv, Clock
  <2>3. today.year < 9999
    BY <2>1, <2>2
  <2>4. NextDay(today) \in Dates
    BY <2>1, <2>3, NextDayIsDate
  <2>5. NextDay(today).year = today.year \/ NextDay(today).year = today.year + 1
    BY <2>1, <2>3, NextDayIsDate
  <2>6. days + 1 \in 0..MaxDays
    BY <1>1, <2>1
  <2>7. NextDay(today).year + (MaxDays - (days + 1)) < 9999
    BY <2>1, <2>2, <2>5
  <2>8. late' \in BOOLEAN
    BY <1>1
  <2>9. today' \in Dates /\ days' \in 0..MaxDays /\ today'.year + (MaxDays - days') < 9999
    BY <1>1, <2>4, <2>6, <2>7
  <2> QED  BY <2>8, <2>9 DEF Clock
<1> QED  BY <1>1, <1>2, <1>3 DEF IInv

(* A step of the specification keeps the invariant.                        *)
LEMMA StepIInv == IInv /\ [Next]_vars => IInv'
<1> SUFFICES ASSUME IInv, [Next]_vars PROVE IInv'
  OBVIOUS
<1>1. DOMAIN homes = 1..Len(homes)
  BY DEF IInv
<1>2. CASE \E h \in DOMAIN homes : SetData(h) \/ Layout(h) \/ ReloadData(h) \/ DidTapDelete(h)
  BY <1>1, <1>2, StepSetData, StepLayout, StepReloadData, StepDidTapDelete
<1>3. CASE UNCHANGED vars
  <2>1. \A h \in 1..Len(homes) : Pairs(h)' = Pairs(h)
    BY <1>3 DEF Pairs, Asked, vars
  <2>2. Clock'
    BY <1>3 DEF IInv, Clock, vars
  <2> QED  BY <1>3, <2>1, <2>2 DEF IInv, vars
<1> QED  BY <1>2, <1>3, StepDidTapSave, StepViewDidLoad, StepStrike, StepMidnight DEF Next

LEMMA Invariance == Spec => []IInv
  BY InitIInv, StepIInv, PTL DEF Spec
-----------------------------------------------------------------------------
(* The types of the state.                                                 *)
THEOREM TypeCorrect == Spec => []TypeOK
<1>1. IInv => TypeOK
  BY DEF IInv, TypeOK, Clock
<1> QED  BY <1>1, Invariance, PTL

(* Whatever the queues do, a table with rows has as many as its list.      *)
THEOREM RowsMatchList == Spec => []TableAgrees
<1>1. IInv => TableAgrees
  BY DEF IInv, TableAgrees, HomeInv, Agrees
<1> QED  BY <1>1, Invariance, PTL

(* A Home reminds of the events of the next day whose dates have two       *)
(* digits, and of no others, whatever the dates are.                       *)
THEOREM RemindersOfHome == Spec => []RemindsOfTwoDigitDates
<1>1. IInv => RemindsOfTwoDigitDates
  <2> SUFFICES ASSUME IInv, NEW h \in DOMAIN homes
               PROVE  {<<r.id, r.date>> : r \in {s \in reminders \cup notified : s.home = h}} =
                      {<<e.id, e.date>> : e \in {f \in homes[h].given :
                                                   /\ f.date = NextDay(homes[h].day)
                                                   /\ TwoDigitDate(f.date)}}
    BY DEF RemindsOfTwoDigitDates
  <2>1. Pairs(h) = DuePairs(homes[h])
    BY DEF IInv
  <2> QED  BY <2>1 DEF Pairs, Asked, DuePairs, Due
<1> QED  BY <1>1, Invariance, PTL

(* Sorting by text orders the days of a month with equally many digits.    *)
THEOREM MonthInOrder == Spec => []CalendarOrderWithinMonth
<1>1. IInv => CalendarOrderWithinMonth
  <2> SUFFICES ASSUME IInv, NEW h \in DOMAIN homes,
                      NEW i \in DOMAIN homes[h].eventData, NEW j \in DOMAIN homes[h].eventData,
                      i < j, SameWidth(homes[h].eventData[i].date, homes[h].eventData[j].date)
               PROVE  ~ DateBefore(homes[h].eventData[j].date, homes[h].eventData[i].date)
    BY DEF CalendarOrderWithinMonth
  <2> DEFINE list == homes[h].eventData
  <2>1. HomeInv(homes[h])
    BY DEF IInv
  <2>2. list \in Lists /\ InOrder(list)
    BY <2>1, HomeFields DEF HomeInv
  <2> HIDE DEF list
  <2>3. i \in DOMAIN list /\ j \in DOMAIN list /\ SameWidth(list[i].date, list[j].date)
    BY DEF list
  <2>4. ~ TextBefore(Text(list[j].date), Text(list[i].date))
    BY <2>2, <2>3 DEF InOrder, ByText
  <2>5. list[i].date \in EventDate /\ list[j].date \in EventDate
    <3>1. list[i] \in ListEvent /\ list[j] \in ListEvent
      BY <2>2, <2>3 DEF Lists
    <3>2. \A e \in ListEvent : e.date \in EventDate
      BY DEF ListEvent
    <3> QED  BY <3>1, <3>2
  <2>6. SameWidth(list[j].date, list[i].date)
    BY <2>3 DEF SameWidth
  <2>7. ~ DateBefore(list[j].date, list[i].date)
    BY <2>4, <2>5, <2>6, OrderOfTexts
  <2> QED  BY <2>7 DEF list
<1> QED  BY <1>1, Invariance, PTL

(* The colours tell past, present and future of the cell's day within its  *)
(* month for dates of two digits, and never call another day today.        *)
THEOREM ColoursTellTheDay == Spec => []ColoursOfTwoDigitDates
<1>1. IInv => ColoursOfTwoDigitDates
  <2> SUFFICES ASSUME IInv, NEW h \in DOMAIN homes, NEW i \in DOMAIN homes[h].eventData,
                      NEW day \in {homes[h].day, today}
               PROVE  LET event == homes[h].eventData[i]
                      IN  /\ TwoDigitDate(event.date) /\ event.date.year = day.year
                             /\ event.date.month = day.month
                                => RowColour(day, event) = Calendar(day, event.date)
                          /\ RowColour(day, event) = "blueTone" => event.date = day
    BY DEF ColoursOfTwoDigitDates
  <2>1. HomeInv(homes[h])
    BY DEF IInv
  <2>2. homes[h].eventData \in Lists /\ homes[h].day \in Dates
    BY <2>1, HomeFields DEF HomeInv
  <2>3. homes[h].eventData[i] \in ListEvent
    BY <2>2 DEF Lists
  <2>4. day \in Dates
    BY <2>2 DEF IInv, Clock
  <2> QED  BY <2>3, <2>4, ColourOfRow
<1> QED  BY <1>1, Invariance, PTL
=============================================================================
