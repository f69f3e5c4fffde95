--------------------------- MODULE HomeWeatherProofs ---------------------------
(***************************************************************************)
(* What the weather panel shows, for forecasts of any length and any       *)
(* number of columns.  setHourlyWeather is two nested loops that carry the *)
(* icon and the low temperature on: what they come to is followed cell by  *)
(* cell, each time from the last one for which the claim still holds.      *)
(***************************************************************************)
EXTENDS HomeWeather, Integers, SequenceTheorems, WellFoundedInduction, TLAPS

(* A set of naturals that is not empty has a least element: where a claim  *)
(* about a loop, or about a sequence of sequences, fails first.            *)
LEMMA LeastElement ==
    ASSUME NEW T, T \subseteq Nat, T # {}
    PROVE  \E n \in T : \A m \in T : n <= m
<1>1. PICK n \in T : \A m \in T : ~ (<<m, n>> \in OpToRel(<, Nat))
  BY NatLessThanWellFounded, WFMin
<1>2. \A m \in T : ~ (m < n)
  BY <1>1 DEF OpToRel
<1>3. QED BY <1>2

(* What holds at the start of a loop, and after a step when it held before *)
(* the step, holds all along: the steps are named by the set S of those    *)
(* for which it holds.                                                     *)
LEMMA AllAlong ==
    ASSUME NEW n \in Nat, NEW S, 0 \in S, \A k \in 1..n : k - 1 \in S => k \in S
    PROVE  \A k \in 0..n : k \in S
<1> DEFINE Bad == {k \in 0..n : k \notin S}
<1>1. SUFFICES ASSUME Bad # {} PROVE FALSE
  OBVIOUS
<1>2. PICK k \in Bad : \A j \in Bad : k <= j
  <2>1. Bad \subseteq Nat
    OBVIOUS
  <2> HIDE DEF Bad
  <2>2. QED BY <1>1, <2>1, LeastElement
<1>3. k \in 1..n /\ k - 1 \in 0..n /\ ~ (k <= k - 1)
  BY <1>2
<1>4. k - 1 \notin Bad
  <2> HIDE DEF Bad
  <2>1. QED BY <1>2, <1>3
<1>5. k - 1 \in S
  BY <1>3, <1>4
<1>6. QED BY <1>2, <1>3, <1>5

\* The values f of a loop after each of its n rounds.
Walks(f, A, b, n, step) ==
    f \in [0..n -> A] /\ f[0] = b /\ \A k \in 1..n : f[k] = step[<<f[k - 1], k>>]

(* A loop that starts with b and takes step[<<a, k>>] from a in round k has    *)
(* a value after each round.                                               *)
LEMMA LoopsAreDefined ==
    ASSUME NEW A, NEW b \in A, NEW n \in Nat, NEW step,
           \A a \in A, k \in 1..n : step[<<a, k>>] \in A
    PROVE  \E f : Walks(f, A, b, n, step)
<1> DEFINE Runs(f, m) == f[0] = b /\ \A k \in 1..m : f[k] = step[<<f[k - 1], k>>]
           S == {m \in 0..n : \E f \in [0..m -> A] : Runs(f, m)}
<1>1. 0 \in S
  <2> DEFINE g == [k \in 0..0 |-> b]
  <2>1. g \in [0..0 -> A] /\ Runs(g, 0)
    OBVIOUS
  <2>2. \E f \in [0..0 -> A] : Runs(f, 0)
    <3> HIDE DEF g, Runs
    <3>1. QED BY <2>1
  <2>3. 0 \in 0..n
    OBVIOUS
  <2> HIDE DEF Runs
  <2>4. QED BY <2>2, <2>3
<1>2. ASSUME NEW m \in 1..n, m - 1 \in S PROVE m \in S
  <2>1. m - 1 \in Nat /\ m # 0 /\ 0 \in 0..(m - 1) /\ 0..m = 0..(m - 1) \cup {m}
    OBVIOUS
  <2>2. PICK f \in [0..(m - 1) -> A] : Runs(f, m - 1)
    BY <1>2
  <2>3. f[m - 1] \in A
    BY <2>1
  <2> DEFINE g == [k \in 0..m |-> IF k = m THEN step[<<f[m - 1], m>>] ELSE f[k]]
  <2>4. g \in [0..m -> A]
    BY <2>1, <2>3
  <2>5. g[0] = b
    BY <2>1, <2>2
  <2>6. ASSUME NEW k \in 1..m PROVE g[k] = step[<<g[k - 1], k>>]
    <3>1. k \in 0..m /\ k - 1 \in 0..m /\ k - 1 # m /\ (k # m => k \in 1..(m - 1))
      OBVIOUS
    <3>2. g[k - 1] = f[k - 1]
      BY <3>1
    <3>3. CASE k = m
      BY <3>1, <3>2, <3>3
    <3>4. CASE k # m
      <4>1. g[k] = f[k]
        BY <3>1, <3>4
      <4>2. QED BY <2>2, <3>1, <3>2, <3>4, <4>1
    <3>5. QED BY <3>3, <3>4
  <2>7. Runs(g, m)
    BY <2>5, <2>6
  <2>8. \E h \in [0..m -> A] : Runs(h, m)
    <3> HIDE DEF g, Runs
    <3>1. QED BY <2>4, <2>7
  <2>9. m \in 0..n
    OBVIOUS
  <2>10. QED BY <2>8, <2>9
<1>3. n \in S
  <2> HIDE DEF S
  <2>1. \A k \in 0..n : k \in S
    BY <1>1, <1>2, AllAlong
  <2>2. QED BY <2>1
<1>4. PICK f \in [0..n -> A] : Runs(f, n)
  BY <1>3
<1>5. Walks(f, A, b, n, step)
  BY <1>4 DEF Walks
<1>6. QED BY <1>5
-----------------------------------------------------------------------------
\* What the loops of setHourlyWeather carry.
Carried == [icon : Icons, low : Lows \cup {NoLow}, rows : Seq(Rows)]

LEMMA IconsAreKnown ==
    ASSUME NEW c \in Conditions
    PROVE  HourlyIcon(c) \in Icons
<1>1. Icon(c) \in Icons
  BY DEF Icons
<1>2. Icon("lightning") = "cloud.bolt.rain.fill" /\ "lightning" \in Conditions
  BY DEF Icon, Conditions
<1>3. "cloud.bolt.rain.fill" \in Icons
  BY <1>2 DEF Icons
<1>4. QED BY <1>1, <1>3 DEF HourlyIcon

LEMMA RowsAreCarried ==
    ASSUME NEW acc \in Carried, NEW hour \in Nat, NEW c \in Conditions \cup {Missing}
    PROVE  AddRow(acc, hour, c) \in Carried
<1> DEFINE icon == IF c = Missing THEN acc.icon ELSE HourlyIcon(c)
           row == [hour |-> hour, icon |-> icon, low |-> acc.low]
<1>1. icon \in Icons
  BY IconsAreKnown DEF Carried
<1>2. row \in Rows
  <2> HIDE DEF icon
  <2>1. QED BY <1>1 DEF Rows, Carried
<1>3. Append(acc.rows, row) \in Seq(Rows)
  <2> HIDE DEF row
  <2>1. QED BY <1>2 DEF Carried
<1>4. AddRow(acc, hour, c) = [acc EXCEPT !.icon = icon, !.rows = Append(acc.rows, row)]
  BY DEF AddRow, Carried
<1> HIDE DEF icon, row
<1>5. QED BY <1>1, <1>3, <1>4 DEF Carried

LEMMA StartIsCarried == Start \in Carried
<1>1. << >> \in Seq(Rows)
  OBVIOUS
<1>2. "sun.min.fill" \in Icons
  BY DEF Icons
<1>3. QED BY <1>1, <1>2 DEF Start, Carried

(* AddRows walks the conditions of an hour, from the rows before it.       *)
LEMMA AddRowsWalks ==
    ASSUME NEW acc \in Carried, NEW hour \in Hours
    PROVE  \E r \in [0..Len(hour.conditions) -> Carried] :
               /\ r[0] = acc
               /\ \A k \in 1..Len(hour.conditions) :
                      r[k] = AddRow(r[k - 1], hour.hour, hour.conditions[k])
               /\ AddRows(acc, hour) = r[Len(hour.conditions)]
<1> DEFINE n == Len(hour.conditions)
           Body(f) == [k \in 0..n |-> IF k = 0 THEN acc
                                      ELSE AddRow(f[k - 1], hour.hour, hour.conditions[k])]
           step == [p \in Carried \X (1..n) |-> AddRow(p[1], hour.hour, hour.conditions[p[2]])]
<1>1. n \in Nat /\ hour.hour \in Nat /\ hour.conditions \in Seq(Conditions \cup {Missing})
  BY DEF Hours
<1>2. \A k \in 1..n : hour.conditions[k] \in Conditions \cup {Missing}
  BY <1>1
<1>3. \A a \in Carried, k \in 1..n : AddRow(a, hour.hour, hour.conditions[k]) \in Carried
  BY <1>1, <1>2, RowsAreCarried
<1>4. \A a \in Carried, k \in 1..n : step[<<a, k>>] = AddRow(a, hour.hour, hour.conditions[k])
  OBVIOUS
<1> HIDE DEF n, step
<1>5. PICK g : Walks(g, Carried, acc, n, step)
  <2>1. n \in Nat
    BY <1>1
  <2> HIDE DEF Body
  <2>2. \A a \in Carried, k \in 1..n : step[<<a, k>>] \in Carried
    BY <1>3, <1>4
  <2>3. QED BY <2>1, <2>2, LoopsAreDefined
<1>6. \A k \in 0..n : k # 0 => k \in 1..n /\ k - 1 \in 0..n
  BY <1>1
<1>7. g = Body(g)
  <2>1. \A k \in 0..n : g[k] = IF k = 0 THEN acc
                               ELSE AddRow(g[k - 1], hour.hour, hour.conditions[k])
    BY <1>4, <1>5, <1>6 DEF Walks
  <2>2. g = [k \in 0..n |-> g[k]]
    BY <1>5 DEF Walks
  <2>3. QED BY <2>1, <2>2
<1> DEFINE f == CHOOSE f : f = Body(f)
<1>8. f = Body(f)
  <2> HIDE DEF Body
  <2>1. QED BY <1>7
<1>9. AddRows(acc, hour) = f[n]
  BY DEF AddRows, n
<1> HIDE DEF f
<1>10. f[0] = acc /\ \A k \in 1..n : f[k] = AddRow(f[k - 1], hour.hour, hour.conditions[k])
  BY <1>1, <1>8
<1>11. \A k \in 0..n : f[k] \in Carried
  <2> DEFINE S == {k \in 0..n : f[k] \in Carried}
  <2>1. 0 \in S
    BY <1>1, <1>10
  <2>2. \A k \in 1..n : k - 1 \in S => k \in S
    <3>1. SUFFICES ASSUME NEW k \in 1..n, f[k - 1] \in Carried PROVE f[k] \in Carried
      BY <1>1
    <3>2. f[k] = AddRow(f[k - 1], hour.hour, hour.conditions[k])
      BY <1>10
    <3>3. QED BY <1>1, <1>2, <3>1, <3>2, RowsAreCarried
  <2> HIDE DEF S
  <2>3. \A k \in 0..n : k \in S
    BY <1>1, <2>1, <2>2, AllAlong
  <2>4. QED BY <2>3 DEF S
<1>12. f \in [0..n -> Carried]
  <2>1. f = [k \in 0..n |-> f[k]]
    BY <1>8
  <2>2. QED BY <1>11, <2>1
<1>13. QED BY <1>9, <1>10, <1>12 DEF n

LEMMA HoursAreCarried ==
    ASSUME NEW acc \in Carried, NEW hour \in Hours
    PROVE  /\ AddHour(acc, hour) \in Carried
           /\ [acc EXCEPT !.low = IF hour.low = Missing THEN @ ELSE hour.low] \in Carried
<1> DEFINE low == IF hour.low = Missing THEN acc.low ELSE hour.low
           with == [acc EXCEPT !.low = low]
<1>1. low \in Lows \cup {NoLow}
  BY DEF Carried, Hours
<1>2. with \in Carried
  <2> HIDE DEF low
  <2>1. QED BY <1>1 DEF Carried
<1>3. with = [acc EXCEPT !.low = IF hour.low = Missing THEN @ ELSE hour.low]
  BY DEF Carried
<1>4. AddHour(acc, hour) = AddRows(with, hour)
  BY <1>3 DEF AddHour
<1> HIDE DEF with
<1>5. AddRows(with, hour) \in Carried
  <2>1. Len(hour.conditions) \in Nat
    BY DEF Hours
  <2>2. QED BY <1>2, <2>1, AddRowsWalks
<1>6. QED BY <1>2, <1>3, <1>4, <1>5

(* SetHourlyWeather walks the hours of a forecast.                         *)
LEMMA SetHourlyWeatherWalks ==
    ASSUME NEW forecast \in Seq(Hours)
    PROVE  \E s \in [0..Len(forecast) -> Carried] :
               /\ s[0] = Start
               /\ \A h \in 1..Len(forecast) : s[h] = AddHour(s[h - 1], forecast[h])
               /\ SetHourlyWeather(forecast) = s[Len(forecast)].rows
<1> DEFINE n == Len(forecast)
           Body(f) == [h \in 0..n |-> IF h = 0 THEN Start ELSE AddHour(f[h - 1], forecast[h])]
           step == [p \in Carried \X (1..n) |-> AddHour(p[1], forecast[p[2]])]
<1>1. n \in Nat /\ \A h \in 1..n : forecast[h] \in Hours
  OBVIOUS
<1>2. \A a \in Carried, h \in 1..n : AddHour(a, forecast[h]) \in Carried
  BY <1>1, HoursAreCarried
<1>3. \A a \in Carried, h \in 1..n : step[<<a, h>>] = AddHour(a, forecast[h])
  OBVIOUS
<1> HIDE DEF n, step
<1>4. PICK g : Walks(g, Carried, Start, n, step)
  BY <1>1, <1>2, <1>3, StartIsCarried, LoopsAreDefined
<1>5. \A h \in 0..n : h # 0 => h \in 1..n /\ h - 1 \in 0..n
  BY <1>1
<1>6. g = Body(g)
  <2>1. \A h \in 0..n : g[h] = IF h = 0 THEN Start ELSE AddHour(g[h - 1], forecast[h])
    BY <1>3, <1>4, <1>5 DEF Walks
  <2>2. g = [h \in 0..n |-> g[h]]
    BY <1>4 DEF Walks
  <2>3. QED BY <2>1, <2>2
<1> DEFINE f == CHOOSE f : f = Body(f)
<1>7. f = Body(f)
  <2> HIDE DEF Body
  <2>1. QED BY <1>6
<1>8. SetHourlyWeather(forecast) = f[n].rows
  BY DEF SetHourlyWeather, n
<1> HIDE DEF f
<1>9. f[0] = Start /\ \A h \in 1..n : f[h] = AddHour(f[h - 1], forecast[h])
  BY <1>1, <1>7
<1>10. \A h \in 0..n : f[h] \in Carried
  <2> DEFINE S == {h \in 0..n : f[h] \in Carried}
  <2>1. 0 \in S
    BY <1>1, <1>9, StartIsCarried
  <2>2. \A h \in 1..n : h - 1 \in S => h \in S
    <3>1. SUFFICES ASSUME NEW h \in 1..n, f[h - 1] \in Carried PROVE f[h] \in Carried
      BY <1>1
    <3>2. f[h] = AddHour(f[h - 1], forecast[h])
      BY <1>9
    <3>3. QED BY <1>2, <3>1, <3>2
  <2> HIDE DEF S
  <2>3. \A h \in 0..n : h \in S
    BY <1>1, <2>1, <2>2, AllAlong
  <2>4. QED BY <2>3 DEF S
<1>11. f \in [0..n -> Carried]
  <2>1. f = [h \in 0..n |-> f[h]]
    BY <1>7
  <2>2. QED BY <1>10, <2>1
<1>12. QED BY <1>8, <1>9, <1>11 DEF n
-----------------------------------------------------------------------------
(* Where the parts of a flattened sequence lie: part h ends at at[h].      *)
Lies(flat, seqs, at) ==
    /\ at \in [0..Len(seqs) -> Nat] /\ at[0] = 0 /\ at[Len(seqs)] = Len(flat)
    /\ \A h \in 1..Len(seqs) :
           /\ at[h] = at[h - 1] + Len(seqs[h]) /\ at[h] <= Len(flat)
           /\ \A k \in 1..Len(seqs[h]) : flat[at[h - 1] + k] = seqs[h][k]

LEMMA FlattenIs ==
    ASSUME NEW C, NEW seqs \in Seq(Seq(C))
    PROVE  FlattenSeq(seqs) \in Seq(C) /\ \E at : Lies(FlattenSeq(seqs), seqs, at)
<1> DEFINE n == Len(seqs)
           Body(f) == [i \in 1..n |-> IF i = 1 THEN seqs[i] ELSE f[i - 1] \o seqs[i]]
<1>1. n \in Nat /\ \A i \in 1..n : seqs[i] \in Seq(C)
  OBVIOUS
<1>2. CASE n = 0
  <2> DEFINE at == [h \in 0..0 |-> 0]
  <2>1. seqs = << >> /\ FlattenSeq(seqs) = << >>
    BY <1>2 DEF FlattenSeq
  <2>2. Lies(<< >>, << >>, at)
    BY DEF Lies
  <2>3. QED BY <2>1, <2>2
<1>3. CASE n # 0
  <2> DEFINE step == [p \in Seq(C) \X (1..n) |-> p[1] \o seqs[p[2]]]
  <2>1. \A a \in Seq(C), i \in 1..n : step[<<a, i>>] = a \o seqs[i] /\ step[<<a, i>>] \in Seq(C)
    BY <1>1, ConcatProperties
  <2>2. << >> \in Seq(C)
    OBVIOUS
  <2> HIDE DEF n, step
  <2>3. PICK g : Walks(g, Seq(C), << >>, n, step)
    BY <1>1, <2>1, <2>2, LoopsAreDefined
  <2>4. \A i \in 1..n : g[i] = g[i - 1] \o seqs[i] /\ g[i - 1] \in Seq(C)
    <3>1. TAKE i \in 1..n
    <3>2. i - 1 \in 0..n
      BY <1>1
    <3>3. QED BY <2>1, <2>3, <3>2 DEF Walks
  <2> DEFINE w == [i \in 1..n |-> g[i]]
  <2>5. w = Body(w)
    <3>1. \A i \in 1..n : w[i] = IF i = 1 THEN seqs[i] ELSE w[i - 1] \o seqs[i]
      <4>1. TAKE i \in 1..n
      <4>2. CASE i = 1
        <5>1. g[i - 1] = << >>
          BY <2>3, <4>2 DEF Walks
        <5>2. QED BY <1>1, <2>4, <4>2, <5>1, ConcatEmptySeq
      <4>3. CASE i # 1
        <5>1. i - 1 \in 1..n
          BY <1>1, <4>3
        <5>2. QED BY <2>4, <4>3, <5>1
      <4>4. QED BY <4>2, <4>3
    <3>2. QED BY <3>1
  <2> DEFINE f == CHOOSE f : f = Body(f)
  <2>6. f = Body(f)
    <3> HIDE DEF Body
    <3>1. QED BY <2>5
  <2>7. FlattenSeq(seqs) = f[n]
    BY <1>3 DEF FlattenSeq, n
  <2> HIDE DEF f
  <2>8. \A i \in 1..n : f[i] = g[i]
    <3> DEFINE S == {i \in 0..n : i # 0 => f[i] = g[i]}
    <3>1. 0 \in S
      BY <1>1
    <3>2. \A i \in 1..n : i - 1 \in S => i \in S
      <4>1. SUFFICES ASSUME NEW i \in 1..n, i - 1 # 0 => f[i - 1] = g[i - 1]
                     PROVE  f[i] = g[i]
        BY <1>1
      <4>2. f[i] = IF i = 1 THEN seqs[i] ELSE f[i - 1] \o seqs[i]
        BY <2>6
      <4>3. g[i] = g[i - 1] \o seqs[i] /\ << >> \o seqs[i] = seqs[i]
        BY <1>1, <2>4, ConcatEmptySeq
      <4>4. CASE i = 1
        <5>1. g[i - 1] = << >>
          BY <2>3, <4>4 DEF Walks
        <5>2. QED BY <4>2, <4>3, <4>4, <5>1
      <4>5. CASE i # 1
        <5>1. i - 1 # 0
          BY <1>1, <4>5
        <5>2. QED BY <4>1, <4>2, <4>3, <4>5, <5>1
      <4>6. QED BY <4>4, <4>5
    <3> HIDE DEF S
    <3>3. \A i \in 0..n : i \in S
      BY <1>1, <3>1, <3>2, AllAlong
    <3>4. QED BY <1>1, <3>3 DEF S
  <2>9. FlattenSeq(seqs) = g[n] /\ g[n] \in Seq(C)
    BY <1>1, <1>3, <2>3, <2>7, <2>8 DEF Walks
  <2> DEFINE at == [h \in 0..n |-> Len(g[h])]
  <2>10. \A h \in 0..n : g[h] \in Seq(C) /\ at[h] = Len(g[h]) /\ at[h] \in Nat
    BY <2>3 DEF Walks
  <2>11. \A h \in 1..n : h - 1 \in 0..n /\ h \in 0..n
    BY <1>1
  <2>12. \A h \in 1..n : /\ at[h] = at[h - 1] + Len(seqs[h])
                         /\ \A k \in 1..at[h - 1] : g[h][k] = g[h - 1][k]
                         /\ \A k \in 1..Len(seqs[h]) : g[h][at[h - 1] + k] = seqs[h][k]
    <3>1. TAKE h \in 1..n
    <3>2. g[h - 1] \in Seq(C) /\ seqs[h] \in Seq(C) /\ g[h] = g[h - 1] \o seqs[h]
      BY <1>1, <2>4
    <3>3. at[h] = Len(g[h]) /\ at[h - 1] = Len(g[h - 1])
      BY <2>10, <2>11
    <3> HIDE DEF at
    <3> DEFINE u == Len(g[h - 1])  v == Len(seqs[h])
    <3>4. u \in Nat /\ v \in Nat
      BY <3>2
    <3>5. Len(g[h]) = u + v
      BY <3>2, ConcatProperties
    <3>6. \A i \in 1..(u + v) : g[h][i] = IF i <= u THEN g[h - 1][i] ELSE seqs[h][i - u]
      BY <3>2, ConcatProperties
    <3> HIDE DEF u, v
    <3>7. ASSUME NEW k \in 1..u PROVE g[h][k] = g[h - 1][k]
      <4>1. k \in 1..(u + v) /\ k <= u
        BY <3>4
      <4>2. QED BY <3>6, <4>1
    <3>8. ASSUME NEW k \in 1..v PROVE g[h][u + k] = seqs[h][k]
      <4>1. u + k \in 1..(u + v) /\ ~ (u + k <= u) /\ (u + k) - u = k
        BY <3>4
      <4>2. QED BY <3>6, <4>1
    <3>9. QED BY <3>3, <3>5, <3>7, <3>8 DEF u, v
  \* The parts before h stay where they are.
  <2>13. \A h \in 0..n : \A j \in 1..h : /\ at[j] <= at[h]
                                         /\ \A k \in 1..Len(seqs[j]) : g[h][at[j - 1] + k] = seqs[j][k]
    <3> HIDE DEF at
    <3> DEFINE P(h) == \A j \in 1..h : /\ at[j] <= at[h]
                                       /\ \A k \in 1..Len(seqs[j]) : g[h][at[j - 1] + k] = seqs[j][k]
               S == {h \in 0..n : P(h)}
    <3>1. 0 \in S
      BY <1>1
    <3>2. ASSUME NEW h \in 1..n, h - 1 \in S PROVE h \in S
      <4>1. h \in 0..n /\ h - 1 \in 0..n /\ P(h - 1)
        BY <2>11, <3>2
      <4>2. ASSUME NEW j \in 1..h
            PROVE  /\ at[j] <= at[h]
                   /\ \A k \in 1..Len(seqs[j]) : g[h][at[j - 1] + k] = seqs[j][k]
        <5>1. CASE j = h
          BY <2>10, <2>12, <4>1, <5>1
        <5>2. CASE j # h
          <6>1. j \in 1..(h - 1) /\ j \in 1..n /\ j - 1 \in 0..n /\ j \in 0..n
            BY <1>1, <5>2
          <6>2. /\ at[j] = at[j - 1] + Len(seqs[j]) /\ at[j] <= at[h - 1]
                /\ at[j] \in Nat /\ at[j - 1] \in Nat /\ at[h - 1] \in Nat /\ Len(seqs[j]) \in Nat
                /\ at[h] = at[h - 1] + Len(seqs[h]) /\ Len(seqs[h]) \in Nat
            <7>1. Len(seqs[j]) \in Nat /\ Len(seqs[h]) \in Nat
              BY <1>1, <6>1
            <7>2. at[j] \in Nat /\ at[j - 1] \in Nat /\ at[h - 1] \in Nat
              BY <2>10, <4>1, <6>1
            <7>3. at[j] = at[j - 1] + Len(seqs[j]) /\ at[h] = at[h - 1] + Len(seqs[h])
              BY <2>12, <6>1
            <7>4. at[j] <= at[h - 1]
              BY <4>1, <6>1
            <7>5. QED BY <7>1, <7>2, <7>3, <7>4
          <6>3. \A k \in 1..Len(seqs[j]) : at[j - 1] + k \in 1..at[h - 1]
            <7> DEFINE x == at[j - 1]  y == Len(seqs[j])  z == at[h - 1]
            <7>1. x \in Nat /\ y \in Nat /\ z \in Nat /\ x + y <= z
              BY <6>2
            <7> HIDE DEF x, y, z
            <7>2. \A k \in 1..y : x + k \in 1..z
              BY <7>1
            <7>3. QED BY <7>2 DEF x, y, z
          <6>4. at[j] <= at[h]
            BY <6>2
          <6>5. ASSUME NEW k \in 1..Len(seqs[j]) PROVE g[h][at[j - 1] + k] = seqs[j][k]
            <7>1. g[h][at[j - 1] + k] = g[h - 1][at[j - 1] + k]
              BY <2>12, <6>3
            <7>2. g[h - 1][at[j - 1] + k] = seqs[j][k]
              BY <4>1, <6>1
            <7>3. QED BY <7>1, <7>2
          <6>6. QED BY <6>4, <6>5
        <5>3. QED BY <5>1, <5>2
      <4>3. P(h)
        BY <4>2
      <4> HIDE DEF P
      <4>4. QED BY <4>1, <4>3
    <3> HIDE DEF S
    <3>3. \A h \in 0..n : h \in S
      BY <1>1, <3>1, <3>2, AllAlong
    <3>4. QED BY <3>3 DEF S
  <2>14. at \in [0..n -> Nat] /\ at[0] = 0 /\ at[n] = Len(g[n])
    BY <1>1, <2>3, <2>10 DEF Walks
  <2>15. Lies(g[n], seqs, at)
    <3>1. n \in 0..n
      BY <1>1
    <3> HIDE DEF at
    <3>2. QED BY <2>12, <2>13, <2>14, <3>1 DEF Lies, n
  <2>16. QED BY <2>9, <2>15
<1>4. QED BY <1>2, <1>3
-----------------------------------------------------------------------------
(* Where the cells of each hour lie among those of the forecast.           *)
LEMMA CellsAre ==
    ASSUME NEW forecast \in Seq(Hours)
    PROVE  /\ Len(Cells(forecast)) \in Nat
           /\ \E at \in [0..Len(forecast) -> Nat] :
                  /\ at[0] = 0 /\ at[Len(forecast)] = Len(Cells(forecast))
                  /\ \A h \in 1..Len(forecast) :
                         /\ at[h] = at[h - 1] + Len(forecast[h].conditions)
                         /\ \A k \in 1..Len(forecast[h].conditions) :
                                Cells(forecast)[at[h - 1] + k] =
                                    [at |-> h, condition |-> forecast[h].conditions[k]]
<1> DEFINE n == Len(forecast)
           C == [at : 1..n, condition : Conditions \cup {Missing}]
           part(h) == [k \in DOMAIN forecast[h].conditions |->
                          [at |-> h, condition |-> forecast[h].conditions[k]]]
           seqs == [h \in DOMAIN forecast |-> part(h)]
<1>1. n \in Nat /\ DOMAIN forecast = 1..n /\ \A h \in 1..n : forecast[h] \in Hours
  OBVIOUS
<1>2. ASSUME NEW h \in 1..n
      PROVE  /\ part(h) \in Seq(C) /\ Len(part(h)) = Len(forecast[h].conditions)
             /\ \A k \in 1..Len(forecast[h].conditions) :
                    part(h)[k] = [at |-> h, condition |-> forecast[h].conditions[k]]
  <2> DEFINE cs == forecast[h].conditions  m == Len(cs)
  <2>1. cs \in Seq(Conditions \cup {Missing})
    BY <1>1 DEF Hours
  <2>2. m \in Nat /\ DOMAIN cs = 1..m /\ \A k \in 1..m : cs[k] \in Conditions \cup {Missing}
    BY <2>1
  <2> HIDE DEF m, cs
  <2>3. \A k \in 1..m : [at |-> h, condition |-> cs[k]] \in C
    BY <2>2
  <2>4. part(h) = [k \in 1..m |-> [at |-> h, condition |-> cs[k]]]
    BY <2>2 DEF cs
  <2> HIDE DEF C, part
  <2>5. part(h) \in Seq(C) /\ Len(part(h)) = m
    BY <2>2, <2>3, <2>4
  <2>6. QED BY <2>4, <2>5 DEF m, cs
<1>3. seqs \in Seq(Seq(C)) /\ Len(seqs) = n /\ \A h \in 1..n : seqs[h] = part(h)
  <2> HIDE DEF n, C, part
  <2>1. seqs = [h \in 1..n |-> part(h)]
    BY <1>1
  <2>2. QED BY <1>1, <1>2, <2>1
<1>4. Cells(forecast) = FlattenSeq(seqs)
  BY DEF Cells
<1> HIDE DEF seqs, C, part, n
<1>5. PICK at : Lies(FlattenSeq(seqs), seqs, at)
  BY <1>3, FlattenIs
<1>6. Len(Cells(forecast)) \in Nat
  <2>1. FlattenSeq(seqs) \in Seq(C)
    BY <1>3, FlattenIs
  <2>2. QED BY <1>4, <2>1
<1>7. /\ at \in [0..n -> Nat] /\ at[0] = 0 /\ at[n] = Len(Cells(forecast))
      /\ \A h \in 1..n :
             /\ at[h] = at[h - 1] + Len(forecast[h].conditions)
             /\ \A k \in 1..Len(forecast[h].conditions) :
                    Cells(forecast)[at[h - 1] + k] =
                        [at |-> h, condition |-> forecast[h].conditions[k]]
  BY <1>2, <1>3, <1>4, <1>5 DEF Lies
<1>8. QED BY <1>6, <1>7 DEF n
-----------------------------------------------------------------------------
LEMMA GreatestElement ==
    ASSUME NEW n \in Nat, NEW T, T \subseteq 0..n, T # {}
    PROVE  \E x \in T : \A y \in T : x >= y
<1> DEFINE U == {n - x : x \in T}
<1>1. U \subseteq Nat /\ U # {}
  <2>1. \A x \in T : n - x \in Nat
    OBVIOUS
  <2>2. PICK x : x \in T
    OBVIOUS
  <2>3. n - x \in U
    BY <2>2
  <2>4. QED BY <2>1, <2>3
<1>2. PICK u \in U : \A v \in U : u <= v
  <2> HIDE DEF U
  <2>1. QED BY <1>1, LeastElement
<1>3. PICK x \in T : u = n - x
  BY <1>2
<1>4. ASSUME NEW y \in T PROVE x >= y
  <2>1. n - y \in U
    OBVIOUS
  <2>2. n - x <= n - y
    BY <1>2, <1>3, <2>1
  <2>3. QED BY <2>2
<1>5. QED BY <1>4

LEMMA MaxIsLast ==
    ASSUME NEW i \in Nat, NEW T, T \subseteq 0..i, i \in T
    PROVE  Max(T) = i
<1>1. \E x \in T : \A y \in T : x >= y
  OBVIOUS
<1>2. Max(T) \in T /\ \A y \in T : Max(T) >= y
  BY <1>1 DEF Max
<1>3. Max(T) >= i /\ Max(T) \in 0..i
  BY <1>2
<1>4. QED BY <1>3

(* What is known last after one more cell, or one more hour.               *)
LEMMA IconMovesOn ==
    ASSUME NEW cells, NEW i \in Nat \ {0}
    PROVE  IconAt(cells, i) = IF cells[i].condition = Missing THEN IconAt(cells, i - 1)
                              ELSE HourlyIcon(cells[i].condition)
<1> DEFINE known(m) == {j \in 1..m : cells[j].condition # Missing}
<1>1. CASE cells[i].condition = Missing
  <2>1. known(i) = known(i - 1)
    BY <1>1
  <2>2. QED BY <1>1, <2>1 DEF IconAt, LastKnown
<1>2. CASE cells[i].condition # Missing
  <2>1. i \in known(i) /\ known(i) \subseteq 0..i
    BY <1>2
  <2>2. Max(known(i)) = i /\ known(i) # {}
    <3> HIDE DEF known
    <3>1. QED BY <2>1, MaxIsLast
  <2>3. QED BY <1>2, <2>2 DEF IconAt, LastKnown
<1>3. QED BY <1>1, <1>2

LEMMA LowMovesOn ==
    ASSUME NEW forecast, NEW h \in Nat \ {0}
    PROVE  LowAt(forecast, h) = IF forecast[h].low = Missing THEN LowAt(forecast, h - 1)
                                ELSE forecast[h].low
<1> DEFINE known(m) == {j \in 1..m : forecast[j].low # Missing}
<1>1. CASE forecast[h].low = Missing
  <2>1. known(h) = known(h - 1)
    BY <1>1
  <2>2. QED BY <1>1, <2>1 DEF LowAt, LastKnown
<1>2. CASE forecast[h].low # Missing
  <2>1. h \in known(h) /\ known(h) \subseteq 0..h
    BY <1>2
  <2>2. Max(known(h)) = h /\ known(h) # {}
    <3> HIDE DEF known
    <3>1. QED BY <2>1, MaxIsLast
  <2>3. QED BY <1>2, <2>2 DEF LowAt, LastKnown
<1>3. QED BY <1>1, <1>2

LEMMA NothingKnownYet ==
    /\ \A cells : IconAt(cells, 0) = "sun.min.fill"
    /\ \A forecast : LowAt(forecast, 0) = NoLow
<1>1. 1..0 = {}
  OBVIOUS
<1>2. QED BY <1>1 DEF IconAt, LowAt, LastKnown
-----------------------------------------------------------------------------
\* The rows so far are those of the first i cells, and the icon is theirs.
Reaches(acc, forecast, i) ==
    /\ Len(acc.rows) = i
    /\ acc.icon = IconAt(Cells(forecast), i)
    /\ \A j \in 1..i : acc.rows[j] = RowAt(forecast, j)

LEMMA RowReaches ==
    ASSUME NEW forecast, NEW acc \in Carried, NEW i \in Nat \ {0}, NEW h, NEW c,
           Cells(forecast)[i].at = h, Cells(forecast)[i].condition = c,
           Reaches(acc, forecast, i - 1), acc.low = LowAt(forecast, h)
    PROVE  /\ Reaches(AddRow(acc, forecast[h].hour, c), forecast, i)
           /\ AddRow(acc, forecast[h].hour, c).low = LowAt(forecast, h)
<1> DEFINE icon == IF c = Missing THEN acc.icon ELSE HourlyIcon(c)
           row == [hour |-> forecast[h].hour, icon |-> icon, low |-> acc.low]
           next == AddRow(acc, forecast[h].hour, c)
<1>1. next = [acc EXCEPT !.icon = icon, !.rows = Append(acc.rows, row)]
  BY DEF AddRow, Carried
<1>2. next.icon = icon /\ next.low = acc.low /\ next.rows = Append(acc.rows, row)
  <2> HIDE DEF icon, row, next
  <2>1. QED BY <1>1 DEF Carried
<1>3. Cells(forecast)[i].at = h /\ Cells(forecast)[i].condition = c
  OBVIOUS
<1>4. icon = IconAt(Cells(forecast), i)
  <2>1. IconAt(Cells(forecast), i) = IF c = Missing THEN IconAt(Cells(forecast), i - 1)
                                     ELSE HourlyIcon(c)
    BY <1>3, IconMovesOn
  <2>2. QED BY <2>1 DEF Reaches
<1> HIDE DEF next, icon
<1>5. row = RowAt(forecast, i)
  BY <1>3, <1>4 DEF RowAt
<1> HIDE DEF row
<1>6. Len(next.rows) = i /\ \A j \in 1..i : next.rows[j] = RowAt(forecast, j)
  <2>1. acc.rows \in Seq(Rows) /\ Len(acc.rows) = i - 1
        /\ \A j \in 1..(i - 1) : acc.rows[j] = RowAt(forecast, j)
    BY DEF Carried, Reaches
  <2>2. Len(next.rows) = i /\ next.rows[i] = row
    BY <1>2, <2>1
  <2>3. \A j \in 1..i : j # i => j \in 1..(i - 1) /\ next.rows[j] = acc.rows[j]
    BY <1>2, <2>1
  <2>4. QED BY <1>5, <2>1, <2>2, <2>3
<1>7. QED BY <1>2, <1>4, <1>6 DEF Reaches, next

LEMMA HourReaches ==
    ASSUME NEW forecast \in Seq(Hours), NEW acc \in Carried,
           NEW h \in 1..Len(forecast), NEW i \in Nat,
           \A k \in 1..Len(forecast[h].conditions) :
               Cells(forecast)[i + k] = [at |-> h, condition |-> forecast[h].conditions[k]],
           Reaches(acc, forecast, i), acc.low = LowAt(forecast, h - 1)
    PROVE  /\ Reaches(AddHour(acc, forecast[h]), forecast, i + Len(forecast[h].conditions))
           /\ AddHour(acc, forecast[h]).low = LowAt(forecast, h)
<1> DEFINE hour == forecast[h]
           n == Len(hour.conditions)
           with == [acc EXCEPT !.low = IF hour.low = Missing THEN @ ELSE hour.low]
<1>1. hour \in Hours /\ n \in Nat
  <2>1. hour \in Hours
    OBVIOUS
  <2> HIDE DEF hour
  <2>2. QED BY <2>1 DEF Hours
<1>2. with \in Carried
  BY <1>1, HoursAreCarried
<1>3. h \in Nat \ {0}
  OBVIOUS
<1>4. with.rows = acc.rows /\ with.icon = acc.icon
      /\ with.low = IF hour.low = Missing THEN acc.low ELSE hour.low
  BY DEF Carried
<1>5. with.low = LowAt(forecast, h)
  BY <1>3, <1>4, LowMovesOn
<1>6. AddHour(acc, hour) = AddRows(with, hour)
  BY DEF AddHour
<1> HIDE DEF hour, with, n
<1>7. Reaches(with, forecast, i)
  BY <1>4 DEF Reaches
<1>8. PICK r \in [0..n -> Carried] :
          /\ r[0] = with
          /\ \A k \in 1..n : r[k] = AddRow(r[k - 1], hour.hour, hour.conditions[k])
          /\ AddRows(with, hour) = r[n]
  BY <1>1, <1>2, AddRowsWalks DEF n
<1> DEFINE S == {k \in 0..n : Reaches(r[k], forecast, i + k) /\ r[k].low = LowAt(forecast, h)}
<1>9. 0 \in S
  <2>1. i + 0 = i /\ 0 \in 0..n
    BY <1>1
  <2>2. QED BY <1>5, <1>7, <1>8, <2>1
<1>10. ASSUME NEW k \in 1..n, k - 1 \in S PROVE k \in S
  <2>1. k \in 0..n /\ k - 1 \in 0..n /\ i + k \in Nat \ {0} /\ (i + k) - 1 = i + (k - 1)
    BY <1>1
  <2>2. Reaches(r[k - 1], forecast, (i + k) - 1) /\ r[k - 1].low = LowAt(forecast, h)
    BY <1>10, <2>1
  <2>3. Cells(forecast)[i + k] = [at |-> h, condition |-> hour.conditions[k]]
    BY DEF hour, n
  <2>4. r[k - 1] \in Carried
    BY <2>1
  <2>5. r[k] = AddRow(r[k - 1], hour.hour, hour.conditions[k])
    BY <1>8
  <2>6. Reaches(r[k], forecast, i + k) /\ r[k].low = LowAt(forecast, h)
    <3> DEFINE j == i + k  c == hour.conditions[k]  acc0 == r[k - 1]
    <3>1. /\ j \in Nat \ {0} /\ acc0 \in Carried /\ Cells(forecast)[j].at = h /\ Cells(forecast)[j].condition = c
          /\ Reaches(acc0, forecast, j - 1) /\ acc0.low = LowAt(forecast, h)
      BY <2>1, <2>2, <2>3, <2>4
    <3>2. r[k] = AddRow(acc0, forecast[h].hour, c)
      BY <2>5 DEF hour
    <3> HIDE DEF j, c, acc0
    <3>3. /\ Reaches(AddRow(acc0, forecast[h].hour, c), forecast, j)
          /\ AddRow(acc0, forecast[h].hour, c).low = LowAt(forecast, h)
      BY <3>1, RowReaches
    <3>4. QED BY <3>2, <3>3 DEF j
  <2>7. QED BY <2>1, <2>6
<1>11. n \in S
  <2> HIDE DEF S
  <2>1. \A k \in 0..n : k \in S
    BY <1>1, <1>9, <1>10, AllAlong
  <2>2. QED BY <1>1, <2>1
<1>12. QED BY <1>6, <1>8, <1>11 DEF hour, n

(* setHourlyWeather gives one row for each cell, the row RowAt names.      *)
LEMMA SetHourlyWeatherIs ==
    ASSUME NEW forecast \in Seq(Hours)
    PROVE  /\ SetHourlyWeather(forecast) \in Seq(Rows)
           /\ Len(SetHourlyWeather(forecast)) = Len(Cells(forecast))
           /\ \A j \in 1..Len(Cells(forecast)) :
                  SetHourlyWeather(forecast)[j] = RowAt(forecast, j)
<1> DEFINE n == Len(forecast)
<1>1. n \in Nat /\ Len(Cells(forecast)) \in Nat
  BY CellsAre
<1>2. PICK at \in [0..n -> Nat] :
          /\ at[0] = 0 /\ at[n] = Len(Cells(forecast))
          /\ \A h \in 1..n :
                 /\ at[h] = at[h - 1] + Len(forecast[h].conditions)
                 /\ \A k \in 1..Len(forecast[h].conditions) :
                        Cells(forecast)[at[h - 1] + k] =
                            [at |-> h, condition |-> forecast[h].conditions[k]]
  BY CellsAre
<1>3. PICK s \in [0..n -> Carried] :
          /\ s[0] = Start
          /\ \A h \in 1..n : s[h] = AddHour(s[h - 1], forecast[h])
          /\ SetHourlyWeather(forecast) = s[n].rows
  BY SetHourlyWeatherWalks
<1> DEFINE S == {h \in 0..n : Reaches(s[h], forecast, at[h]) /\ s[h].low = LowAt(forecast, h)}
<1>4. 0 \in S
  <2>1. Reaches(Start, forecast, 0) /\ Start.low = LowAt(forecast, 0)
    BY NothingKnownYet DEF Reaches, Start
  <2>2. QED BY <1>1, <1>2, <1>3, <2>1
<1>5. ASSUME NEW h \in 1..n, h - 1 \in S PROVE h \in S
  <2>1. h \in 0..n /\ h - 1 \in 0..n
    BY <1>1
  <2>2. s[h - 1] \in Carried /\ at[h - 1] \in Nat
    BY <2>1
  <2>3. Reaches(s[h - 1], forecast, at[h - 1]) /\ s[h - 1].low = LowAt(forecast, h - 1)
    BY <1>5
  <2>4. s[h] = AddHour(s[h - 1], forecast[h]) /\ at[h] = at[h - 1] + Len(forecast[h].conditions)
    BY <1>2, <1>3
  <2>5. \A k \in 1..Len(forecast[h].conditions) :
            Cells(forecast)[at[h - 1] + k] = [at |-> h, condition |-> forecast[h].conditions[k]]
    BY <1>2
  <2> HIDE DEF S
  <2>6. Reaches(s[h], forecast, at[h]) /\ s[h].low = LowAt(forecast, h)
    BY <2>2, <2>3, <2>4, <2>5, HourReaches
  <2>7. QED BY <2>1, <2>6 DEF S
<1>6. n \in S
  <2> HIDE DEF S
  <2>1. \A h \in 0..n : h \in S
    BY <1>1, <1>4, <1>5, AllAlong
  <2>2. QED BY <1>1, <2>1
<1>7. Reaches(s[n], forecast, Len(Cells(forecast))) /\ s[n].rows \in Seq(Rows)
  <2>1. s[n] \in Carried
    BY <1>1
  <2>2. QED BY <1>2, <1>6, <2>1 DEF Carried
<1>8. QED BY <1>3, <1>7 DEF Reaches
-----------------------------------------------------------------------------
\* TypeOK says enough for each step to keep the columns what they should be.
IInv == TypeOK /\ ColumnsAreLastKnown

LEMMA InitHolds == Init => IInv
<1>1. SUFFICES ASSUME Init PROVE IInv
  OBVIOUS
<1>2. TypeOK
  <2>1. columns \in [1..Slots -> Rows \cup {Blank}] /\ current \in Views \cup {Blank}
    BY <1>1 DEF Init
  <2>2. << >> \in Seq(Completions) /\ << >> \in Seq(Successes) /\ << >> \in Seq(Forecasts)
    OBVIOUS
  <2>3. QED BY <1>1, <2>1, <2>2 DEF Init, TypeOK
<1>3. ColumnsAreLastKnown
  <2>1. \A i \in 1..Slots : columns[i] = Blank
    BY <1>1 DEF Init
  <2>2. \A i : {n \in DOMAIN applied : Len(Cells(applied[n])) >= i} = {}
    BY <1>1 DEF Init
  <2>3. QED BY <2>1, <2>2 DEF ColumnsAreLastKnown, LastKnown
<1>4. QED BY <1>2, <1>3 DEF IInv

LEMMA SuccessesAre ==
    ASSUME NEW x \in Completions
    PROVE  /\ x.kind # "failure" => x \in Successes
           /\ x \in Successes => (\/ x.kind = "hourly" /\ x.forecast \in Forecasts
                                  \/ x.kind = "current" /\ x.weather \in Currents)
<1>1. x \in Successes => (\/ x \in [kind : {"hourly"}, forecast : Forecasts]
                          \/ x \in [kind : {"current"}, weather : Currents])
  BY DEF Successes
<1>2. x \notin Successes => x.kind = "failure"
  BY DEF Completions
<1>3. QED BY <1>1, <1>2

LEMMA AnsweredKeepsTypes ==
    ASSUME TypeOK, NEW call, NEW x \in Completions, Answered(call, x)
    PROVE  TypeOK'
<1>1. Append(callbackQ, x) \in Seq(Completions)
  BY DEF TypeOK
<1>2. calls' \subseteq Calls /\ callbackQ' \in Seq(Completions)
  BY <1>1 DEF TypeOK, Answered
<1>3. QED BY <1>2 DEF TypeOK, Answered

LEMMA RunCallbackKeepsTypes ==
    ASSUME TypeOK, RunCallback
    PROVE  TypeOK'
<1> DEFINE x == Head(callbackQ)
<1>1. callbackQ \in Seq(Completions) /\ callbackQ # << >> /\ mainQ \in Seq(Successes)
  BY DEF TypeOK, RunCallback
<1>2. x \in Completions /\ Tail(callbackQ) \in Seq(Completions)
  BY <1>1
<1> HIDE DEF x
<1>3. x.kind # "failure" => Append(mainQ, x) \in Seq(Successes)
  BY <1>1, <1>2, SuccessesAre
<1>4. mainQ' \in Seq(Successes) /\ callbackQ' = Tail(callbackQ)
  BY <1>1, <1>3 DEF RunCallback, x
<1>5. QED BY <1>2, <1>4 DEF TypeOK, RunCallback

LEMMA CurrentIsSeen ==
    ASSUME NEW c \in Currents
    PROVE  UpdateCurrent(c) \in Views
<1>1. c.low \in Lows \cup {Missing} /\ c.condition \in Conditions \cup {Missing}
  BY ForecastsType
<1>2. (IF c.condition = Missing THEN "sun.min.fill" ELSE Icon(c.condition)) \in Icons
  BY <1>1 DEF Icons
<1>3. (IF c.low = Missing THEN "No high temp" ELSE c.low) \in Lows \cup {"No high temp"}
  BY <1>1
<1>4. QED BY <1>2, <1>3 DEF UpdateCurrent, Views

\* A block of hours on the main queue.
Displays(f) ==
    /\ columns' = HourlyDisplay(columns, SetHourlyWeather(f))
    /\ applied' = Append(applied, f)

LEMMA DisplayIs ==
    ASSUME TypeOK, Display
    PROVE  /\ mainQ' \in Seq(Successes)
           /\ \/ (\E f \in Forecasts : Displays(f)) /\ UNCHANGED current
              \/ current' \in Views /\ UNCHANGED <<columns, applied>>
<1> DEFINE x == Head(mainQ)
<1>1. mainQ \in Seq(Successes) /\ mainQ # << >>
  BY DEF TypeOK, Display
<1>2. x \in Successes /\ Tail(mainQ) \in Seq(Successes)
  BY <1>1
<1> HIDE DEF x
<1>3. CASE x.kind = "hourly" /\ x.forecast \in Forecasts
  BY <1>2, <1>3 DEF Display, Displays, x
<1>4. CASE x.kind = "current" /\ x.weather \in Currents
  <2>1. current' = UpdateCurrent(x.weather)
    BY <1>4 DEF Display, x
  <2>2. QED BY <1>2, <1>4, <2>1, CurrentIsSeen DEF Display, x
<1>5. QED BY <1>2, <1>3, <1>4, SuccessesAre DEF Completions

(* One forecast more: the columns it reaches show its rows, the others     *)
(* what they showed.                                                       *)
LEMMA DisplaysKeepsColumns ==
    ASSUME IInv, NEW f \in Forecasts, Displays(f)
    PROVE  /\ columns' \in [1..Slots -> Rows \cup {Blank}]
           /\ applied' \in Seq(Forecasts)
           /\ ColumnsAreLastKnown'
<1> DEFINE rows == SetHourlyWeather(f)
           m == Len(Cells(f))
           last == Len(applied) + 1
           reach(i) == {n \in DOMAIN applied : Len(Cells(applied[n])) >= i}
<1>1. f \in Seq(Hours)
  BY ForecastsType
<1>2. m \in Nat /\ Len(rows) = m /\ rows \in Seq(Rows) /\ \A j \in 1..m : rows[j] = RowAt(f, j)
  BY <1>1, CellsAre, SetHourlyWeatherIs
<1>3. applied \in Seq(Forecasts) /\ applied' = Append(applied, f)
  BY DEF IInv, TypeOK, Displays
<1>4. Slots \in Nat /\ \A i \in 1..Slots : i \in Nat \ {0}
  BY SlotsExist
<1>5. columns' = [i \in 1..Slots |-> IF i <= m THEN rows[i] ELSE columns[i]]
  BY <1>2 DEF Displays, HourlyDisplay
<1> HIDE DEF rows, m
<1>6. columns' \in [1..Slots -> Rows \cup {Blank}]
  <2>1. \A i \in 1..Slots : columns[i] \in Rows \cup {Blank}
    BY DEF IInv, TypeOK
  <2>2. \A i \in 1..Slots : i <= m => rows[i] \in Rows
    BY <1>2, <1>4
  <2>3. QED BY <1>5, <2>1, <2>2
<1>7. applied' \in Seq(Forecasts)
  BY <1>3
<1>8. /\ last \in Nat /\ DOMAIN applied' = 1..last /\ applied'[last] = f
      /\ DOMAIN applied = 1..(last - 1)
      /\ \A n \in 1..(last - 1) : applied'[n] = applied[n]
  BY <1>3
<1>9. ASSUME NEW i \in 1..Slots
      PROVE  columns'[i] = LastKnown({n \in DOMAIN applied' : Len(Cells(applied'[n])) >= i},
                                     Blank, LAMBDA n : RowAt(applied'[n], i))
  <2> DEFINE now == {n \in DOMAIN applied' : Len(Cells(applied'[n])) >= i}
  <2> HIDE DEF last
  <2>1. CASE i <= m
    <3>1. columns'[i] = RowAt(f, i)
      BY <1>2, <1>4, <1>5, <2>1
    <3>2. last \in now /\ now \subseteq 0..last
      <4>1. last \in 1..last
        BY <1>3 DEF last
      <4>2. Len(Cells(applied'[last])) >= i
        BY <1>2, <1>4, <1>8, <2>1 DEF m
      <4>3. QED BY <1>8, <4>1, <4>2
    <3> HIDE DEF now
    <3>3. Max(now) = last /\ now # {}
      BY <1>8, <3>2, MaxIsLast
    <3>4. QED BY <1>8, <3>1, <3>3 DEF LastKnown, now
  <2>2. CASE ~ (i <= m)
    <3>1. columns'[i] = columns[i]
      BY <1>5, <2>2
    <3>2. columns[i] = LastKnown(reach(i), Blank, LAMBDA n : RowAt(applied[n], i))
      BY DEF IInv, ColumnsAreLastKnown
    <3>3. now = reach(i)
      <4>1. ~ (Len(Cells(applied'[last])) >= i)
        BY <1>2, <1>4, <1>8, <2>2 DEF m
      <4>2. \A n \in 1..last : n # last => n \in 1..(last - 1)
        BY <1>8
      <4>3. 1..(last - 1) \subseteq 1..last
        BY <1>8
      <4>4. QED BY <1>8, <4>1, <4>2, <4>3
    <3>4. reach(i) # {} => Max(reach(i)) \in reach(i)
      <4>1. reach(i) \subseteq 0..last
        BY <1>8
      <4> HIDE DEF reach
      <4>2. reach(i) # {} => \E x \in reach(i) : \A y \in reach(i) : x >= y
        BY <1>8, <4>1, GreatestElement
      <4>3. QED BY <4>2 DEF Max
    <3>5. reach(i) # {} => applied'[Max(reach(i))] = applied[Max(reach(i))]
      BY <1>8, <3>4
    <3> HIDE DEF now, reach
    <3>6. QED BY <3>1, <3>2, <3>3, <3>5 DEF LastKnown, now
  <2>3. QED BY <2>1, <2>2
<1>10. QED BY <1>6, <1>7, <1>9 DEF ColumnsAreLastKnown, LastKnown

LEMMA ColumnsStay ==
    ASSUME ColumnsAreLastKnown, UNCHANGED <<columns, applied>>
    PROVE  ColumnsAreLastKnown'
<1>1. columns' = columns /\ applied' = applied
  OBVIOUS
<1>2. QED BY <1>1 DEF ColumnsAreLastKnown, LastKnown

LEMMA StepHolds == IInv /\ [Next]_vars => IInv'
<1>1. SUFFICES ASSUME IInv, [Next]_vars PROVE IInv'
  OBVIOUS
<1>2. ASSUME NEW call, NEW x \in Completions, Answered(call, x) PROVE IInv'
  <2>1. UNCHANGED <<columns, applied>>
    BY <1>2 DEF Answered
  <2>2. QED BY <1>1, <1>2, <2>1, AnsweredKeepsTypes, ColumnsStay DEF IInv
<1>3. CASE CallFails
  <2>1. [kind |-> "failure"] \in Completions
    BY DEF Completions
  <2>2. QED BY <1>2, <1>3, <2>1 DEF CallFails
<1>4. CASE ForecastArrives
  <2>1. \A f \in Forecasts : [kind |-> "hourly", forecast |-> f] \in Completions
    BY DEF Completions, Successes
  <2>2. QED BY <1>2, <1>4, <2>1 DEF ForecastArrives
<1>5. CASE CurrentArrives
  <2>1. \A c \in Currents : [kind |-> "current", weather |-> c] \in Completions
    BY DEF Completions, Successes
  <2>2. QED BY <1>2, <1>5, <2>1 DEF CurrentArrives
<1>6. CASE RunCallback
  <2>1. UNCHANGED <<columns, applied>>
    BY <1>6 DEF RunCallback
  <2>2. QED BY <1>1, <1>6, <2>1, RunCallbackKeepsTypes, ColumnsStay DEF IInv
<1>7. CASE Display
  <2>1. calls' = calls /\ callbackQ' = callbackQ /\ TypeOK /\ ColumnsAreLastKnown
    BY <1>1, <1>7 DEF Display, IInv
  <2>2. mainQ' \in Seq(Successes)
    BY <1>7, <2>1, DisplayIs
  <2>3. CASE (\E f \in Forecasts : Displays(f)) /\ UNCHANGED current
    <3>1. PICK f \in Forecasts : Displays(f)
      BY <2>3
    <3>2. /\ columns' \in [1..Slots -> Rows \cup {Blank}]
          /\ applied' \in Seq(Forecasts) /\ ColumnsAreLastKnown'
      BY <1>1, <3>1, DisplaysKeepsColumns
    <3>3. QED BY <2>1, <2>2, <2>3, <3>2 DEF IInv, TypeOK
  <2>4. CASE current' \in Views /\ UNCHANGED <<columns, applied>>
    <3>1. ColumnsAreLastKnown'
      BY <2>1, <2>4, ColumnsStay
    <3>2. TypeOK'
      BY <2>1, <2>2, <2>4 DEF TypeOK
    <3>3. QED BY <3>1, <3>2 DEF IInv
  <2>5. QED BY <1>7, <2>1, <2>3, <2>4, DisplayIs
<1>8. CASE UNCHANGED vars
  <2>1. UNCHANGED <<columns, applied>>
    BY <1>8 DEF vars
  <2>2. ColumnsAreLastKnown'
    BY <1>1, <2>1, ColumnsStay DEF IInv
  <2>3. TypeOK'
    BY <1>1, <1>8 DEF IInv, TypeOK, vars
  <2>4. QED BY <2>2, <2>3 DEF IInv
<1>9. QED BY <1>1, <1>3, <1>4, <1>5, <1>6, <1>7, <1>8 DEF Next

(* The panel's state is always of its types; in particular no failure ever *)
(* reaches the main queue, where it would be taken for the current weather *)
(* (HomePresenter.swift:46-75).                                            *)
THEOREM PanelIsTyped == Spec => []TypeOK
<1>1. Init => IInv
  BY InitHolds
<1>2. IInv /\ [Next]_vars => IInv'
  BY StepHolds
<1>3. IInv => TypeOK
  BY DEF IInv
<1>4. QED BY <1>1, <1>2, <1>3, PTL DEF Spec

(* However many hours and conditions the answers hold and however few the  *)
(* columns are, in whatever order the answers come and whichever of them   *)
(* fail, a column shows a row of the last forecast that reached it, with   *)
(* the icon and low temperature last known by then                         *)
(* (HomePresenter.swift:119-152, HomeViewController.swift:177-187).        *)
THEOREM ColumnsShowTheForecast == Spec => []ColumnsAreLastKnown
<1>1. Init => IInv
  BY InitHolds
<1>2. IInv /\ [Next]_vars => IInv'
  BY StepHolds
<1>3. IInv => ColumnsAreLastKnown
  BY DEF IInv
<1>4. QED BY <1>1, <1>2, <1>3, PTL DEF Spec
=============================================================================
