----------------------------- MODULE LdbIterProofs -----------------------------
(***************************************************************************)
(* The database iterator stands where one on a fixed map would: for any    *)
(* keys, entries and children, and whatever other threads write meanwhile. *)
(* First the order of the entries, then what one step of the merging       *)
(* iterator passes over, then the three loops of DBIter and the refinement.*)
(***************************************************************************)
EXTENDS LdbIter, SequenceTheorems, WellFoundedInduction, TLAPS

(* A set of naturals that is not empty has a least element.                *)
LEMMA LeastElement ==
    ASSUME NEW T, T \subseteq Nat, T # {}
    PROVE  \E n \in T : \A m \in T : n <= m
<1>1. PICK n \in T : \A m \in T : ~ (<<m, n>> \in OpToRel(<, Nat))
  BY NatLessThanWellFounded, WFMin
<1>2. \A m \in T : ~ (m < n)
  BY <1>1 DEF OpToRel
<1>3. QED BY <1>2

(* What holds of 0, and of a number when it holds of the one before, holds *)
(* up to n.                                                                *)
LEMMA AllAlong ==
    ASSUME NEW n \in Nat, NEW S, 0 \in S, \A k \in 1..n : k - 1 \in S => k \in S
    PROVE  \A k \in 0..n : k \in S
<1> DEFINE Bad == {k \in 0..n : k \notin S}
<1>1. SUFFICES ASSUME Bad # {} PROVE FALSE
  OBVIOUS
<1>2. PICK k \in Bad : \A j \in Bad : k <= j
  <2>1. Bad \subseteq Nat
    OBVIOUS
  <2> HIDE DEF Bad
  <2>2. QED BY <1>1, <2>1, LeastElement
<1>3. k \in 1..n /\ k - 1 \in 0..n /\ ~ (k <= k - 1)
  BY <1>2
<1>4. k - 1 \notin Bad
  <2> HIDE DEF Bad
  <2>1. QED BY <1>2, <1>3
<1>5. k - 1 \in S
  BY <1>3, <1>4
<1>6. QED BY <1>2, <1>3, <1>5

\* The values f of a loop after each of its n rounds.
Walks(f, A, b, n, step) ==
    f \in [0..n -> A] /\ f[0] = b /\ \A k \in 1..n : f[k] = step[<<f[k - 1], k>>]
-----------------------------------------------------------------------------
Entry == [key : Keys, del : BOOLEAN, child : Children]
Written == writes \in Seq(Entry) /\ sequence \in Nat /\ sequence <= Len(writes)

\* Not after, in the order of the internal keys.
Upto(s, t) == s = t \/ Precedes(s, t)

LEMMA EntriesAre ==
    ASSUME Written
    PROVE  /\ Len(writes) \in Nat /\ DOMAIN writes = 1..Len(writes)
           /\ \A s \in DOMAIN writes : /\ writes[s] \in Entry /\ s \in Nat \ {0}
                                       /\ Of(writes, s) \in Keys /\ Of(writes, s) \in Nat \ {0}
                                       /\ writes[s].child \in Children
<1>1. Len(writes) \in Nat /\ DOMAIN writes = 1..Len(writes)
      /\ \A s \in DOMAIN writes : writes[s] \in Entry
  BY DEF Written
<1>2. \A s \in DOMAIN writes : writes[s].key \in Keys /\ writes[s].child \in Children
  BY <1>1 DEF Entry
<1>3. \A k \in Keys : k \in Nat \ {0}
  BY KeysArePositive
<1>4. \A s \in DOMAIN writes : s \in Nat \ {0}
  BY <1>1
<1>5. QED BY <1>1, <1>2, <1>3, <1>4 DEF Of

(* The internal keys are totally ordered, first by user key and then from  *)
(* the newest entry.                                                       *)
LEMMA EntriesAreOrdered ==
    ASSUME Written
    PROVE  /\ \A s \in DOMAIN writes : ~ Precedes(s, s)
           /\ \A s, t \in DOMAIN writes :
                  /\ s = t \/ Precedes(s, t) \/ Precedes(t, s)
                  /\ Precedes(s, t) => ~ Precedes(t, s) /\ Of(writes, s) <= Of(writes, t)
                  /\ Of(writes, s) < Of(writes, t) => Precedes(s, t)
                  /\ Of(writes, s) = Of(writes, t) => (Precedes(s, t) <=> s > t)
           /\ \A s, t, u \in DOMAIN writes :
                  Precedes(s, t) /\ Precedes(t, u) => Precedes(s, u)
<1>1. \A s \in DOMAIN writes : s \in Nat /\ Of(writes, s) \in Nat
  BY EntriesAre
<1>2. QED BY <1>1 DEF Precedes

(* Among some entries there is a first one and a last one.                 *)
LEMMA FirstAndLast ==
    ASSUME Written, NEW E, E \subseteq DOMAIN writes, E # {}
    PROVE  /\ \E f \in E : \A t \in E : Upto(f, t)
           /\ \E l \in E : \A t \in E : Upto(t, l)
<1> DEFINE n == Len(writes)
           P(F) == /\ \E f \in F : \A t \in F : Upto(f, t)
                   /\ \E l \in F : \A t \in F : Upto(t, l)
           S == {m \in 0..n : \A F \in SUBSET (1..m) : F # {} => P(F)}
<1>1. n \in Nat /\ DOMAIN writes = 1..n
  BY EntriesAre
<1>2. 0 \in S
  <2>1. 1..0 = {}
    OBVIOUS
  <2>2. \A F \in SUBSET (1..0) : F = {}
    BY <2>1
  <2>3. 0 \in 0..n
    BY <1>1
  <2> HIDE DEF P
  <2>4. QED BY <2>2, <2>3
<1>3. ASSUME NEW m \in 1..n, m - 1 \in S PROVE m \in S
  <2>1. ASSUME NEW F \in SUBSET (1..m), F # {} PROVE P(F)
    <3> DEFINE G == F \ {m}
    <3>1. G \in SUBSET (1..(m - 1)) /\ m \in DOMAIN writes /\ F \subseteq DOMAIN writes
      BY <1>1
    <3>2. G # {} => P(G)
      BY <1>3, <3>1
    <3>3. CASE m \notin F
      BY <2>1, <3>2, <3>3
    <3>4. CASE G = {}
      BY <2>1, <3>4 DEF Upto
    <3>5. CASE m \in F /\ G # {}
      <4>1. PICK f \in G : \A t \in G : Upto(f, t)
        BY <3>2, <3>5
      <4>2. PICK l \in G : \A t \in G : Upto(t, l)
        BY <3>2, <3>5
      <4>3. \A t \in F : t = m \/ t \in G
        OBVIOUS
      <4>4. f \in DOMAIN writes /\ l \in DOMAIN writes /\ f \in F /\ l \in F
        BY <3>1
      <4> HIDE DEF G
      <4>5. \E x \in F : \A t \in F : Upto(x, t)
        <5>1. CASE Precedes(m, f)
          <6>1. \A t \in G : t \in DOMAIN writes /\ Upto(f, t)
            BY <3>1, <4>1, <4>3
          <6>2. \A t \in G : Precedes(m, t)
            BY <3>1, <4>4, <5>1, <6>1, EntriesAreOrdered DEF Upto
          <6>3. QED BY <3>5, <4>3, <6>2 DEF Upto
        <5>2. CASE Upto(f, m)
          BY <4>1, <4>3, <4>4, <5>2
        <5>3. QED BY <3>1, <4>4, <5>1, <5>2, EntriesAreOrdered DEF Upto
      <4>6. \E x \in F : \A t \in F : Upto(t, x)
        <5>1. CASE Precedes(l, m)
          BY <3>1, <3>5, <4>2, <4>3, <4>4, <5>1, EntriesAreOrdered DEF Upto
        <5>2. CASE Upto(m, l)
          BY <4>2, <4>3, <4>4, <5>2
        <5>3. QED BY <3>1, <4>4, <5>1, <5>2, EntriesAreOrdered DEF Upto
      <4>7. QED BY <4>5, <4>6
    <3>6. QED BY <3>3, <3>4, <3>5
  <2>2. QED BY <2>1
<1>4. n \in S
  <2> HIDE DEF S
  <2>1. \A k \in 0..n : k \in S
    BY <1>1, <1>2, <1>3, AllAlong
  <2>2. QED BY <1>1, <2>1
<1>5. QED BY <1>1, <1>4

LEMMA FirstOfIs ==
    ASSUME Written, NEW E, E \subseteq DOMAIN writes
    PROVE  /\ E = {} => FirstOf(E) = 0
           /\ E # {} => FirstOf(E) \in E /\ FirstOf(E) # 0 /\ \A t \in E : Upto(FirstOf(E), t)
<1>1. SUFFICES ASSUME E # {}
               PROVE  FirstOf(E) \in E /\ FirstOf(E) # 0 /\ \A t \in E : Upto(FirstOf(E), t)
  BY DEF FirstOf
<1>2. \E f \in E : \A t \in E \ {f} : Precedes(f, t)
  BY <1>1, FirstAndLast DEF Upto
<1>3. FirstOf(E) \in E /\ \A t \in E \ {FirstOf(E)} : Precedes(FirstOf(E), t)
  BY <1>1, <1>2 DEF FirstOf
<1>4. FirstOf(E) # 0
  BY <1>3, EntriesAre
<1>5. QED BY <1>3, <1>4 DEF Upto

LEMMA LastOfIs ==
    ASSUME Written, NEW E, E \subseteq DOMAIN writes
    PROVE  /\ E = {} => LastOf(E) = 0
           /\ E # {} => LastOf(E) \in E /\ LastOf(E) # 0 /\ \A t \in E : Upto(t, LastOf(E))
<1>1. SUFFICES ASSUME E # {}
               PROVE  LastOf(E) \in E /\ LastOf(E) # 0 /\ \A t \in E : Upto(t, LastOf(E))
  BY DEF LastOf
<1>2. \E f \in E : \A t \in E \ {f} : Precedes(t, f)
  BY <1>1, FirstAndLast DEF Upto
<1>3. LastOf(E) \in E /\ \A t \in E \ {LastOf(E)} : Precedes(t, LastOf(E))
  BY <1>1, <1>2 DEF LastOf
<1>4. LastOf(E) # 0
  BY <1>3, EntriesAre
<1>5. QED BY <1>3, <1>4 DEF Upto
-----------------------------------------------------------------------------
Visible == {s \in DOMAIN writes : s <= sequence}

Merging == [pos : [Children -> Nat], dir : {"forward", "reverse"}, current : Children \cup {0}]

\* The children stand on entries of their own, the current one on some entry.
Positioned(m) ==
    /\ m \in Merging
    /\ \A c \in Children : m.pos[c] = 0 \/ m.pos[c] \in In(c)
    /\ Valid(m) => m.pos[m.current] # 0

\* ChildrenAreInPlace, of any state of the merging iterator, when it has to
\* see the entries of V.
InPlace(m, V) ==
    Valid(m) =>
        \A c \in Children \ {m.current} : \A s \in In(c) :
            LET beyond(t) == IF m.dir = "forward" THEN Precedes(Here(m), t)
                             ELSE Precedes(t, Here(m))
                later(t) == IF m.dir = "forward" THEN Precedes(m.pos[c], t)
                            ELSE Precedes(t, m.pos[c])
            IN /\ s = m.pos[c] => beyond(s)
               /\ beyond(s) /\ s \in V =>
                     m.pos[c] # 0 /\ (s = m.pos[c] \/ later(s))

SoundFor(m, V) == Positioned(m) /\ InPlace(m, V)
Sound(m) == Positioned(m) /\ InPlace(m, Visible)

LEMMA InIs ==
    ASSUME Written, NEW c \in Children
    PROVE  /\ In(c) \subseteq DOMAIN writes /\ 0 \notin In(c)
           /\ \A d \in Children : \A s \in In(c) : s \in In(d) => c = d
BY EntriesAre DEF In

LEMMA HereIs ==
    ASSUME Written, NEW m, Positioned(m), Valid(m)
    PROVE  /\ m.current \in Children /\ Here(m) = m.pos[m.current]
           /\ Here(m) \in In(m.current) /\ Here(m) \in DOMAIN writes
<1>1. m.current \in Children
  BY DEF Positioned, Merging, Valid
<1>2. QED BY <1>1, InIs DEF Positioned, Here

(* Children that stand on the first entry of A, each among its own, are in *)
(* place and leave no visible entry of A behind.                           *)
LEMMA FindSmallestIs ==
    ASSUME Written, NEW pos \in [Children -> Nat], NEW A \in SUBSET DOMAIN writes,
           \A s \in A : \A t \in DOMAIN writes : Precedes(s, t) => t \in A,
           \A c \in Children : pos[c] # 0 => pos[c] \in In(c) \cap A,
           \A c \in Children : \A s \in In(c) \cap A \cap Visible : pos[c] # 0 /\ Upto(pos[c], s)
    PROVE  /\ Sound(FindSmallest(pos)) /\ FindSmallest(pos).dir = "forward"
           /\ Valid(FindSmallest(pos)) => Here(FindSmallest(pos)) \in A
           /\ \A s \in A \cap Visible :
                  Valid(FindSmallest(pos)) /\ Upto(Here(FindSmallest(pos)), s)
<1> DEFINE E == Entries(pos)
           m == FindSmallest(pos)
<1>1. E \subseteq DOMAIN writes /\ \A c \in Children : pos[c] # 0 => pos[c] \in E
  BY DEF Entries
<1>2. \A e \in E : \E c \in Children : pos[c] = e
  BY DEF Entries
<1>3. /\ E = {} => FirstOf(E) = 0
      /\ E # {} => FirstOf(E) \in E /\ FirstOf(E) # 0 /\ \A t \in E : Upto(FirstOf(E), t)
  BY <1>1, FirstOfIs
<1>4. m.pos = pos /\ m.dir = "forward" /\ m.current = At(pos, FirstOf(E))
  BY DEF FindSmallest
<1>5. m = [pos |-> pos, dir |-> "forward", current |-> At(pos, FirstOf(E))]
  BY DEF FindSmallest
<1>6. 0 \notin Children
  BY DEF Children
<1> HIDE DEF E, m
<1>7. CASE E = {}
  <2>1. m.current = 0
    BY <1>3, <1>4, <1>7 DEF At
  <2>2. m \in Merging
    BY <1>4, <1>5, <2>1 DEF Merging
  <2>3. Sound(m)
    BY <1>4, <2>1, <2>2 DEF Sound, Positioned, InPlace, Valid
  <2>4. A \cap Visible = {}
    <3>1. SUFFICES ASSUME NEW s \in A \cap Visible PROVE FALSE
      OBVIOUS
    <3>2. s \in In(writes[s].child) /\ writes[s].child \in Children
      BY <3>1, EntriesAre DEF In
    <3>3. QED BY <1>1, <1>7, <3>1, <3>2
  <2>5. QED BY <1>4, <2>1, <2>3, <2>4 DEF Valid, m
<1>8. CASE E # {}
  <2>1. m.current \in Children /\ pos[m.current] = FirstOf(E)
    BY <1>2, <1>3, <1>4, <1>8 DEF At
  <2>2. m \in Merging
    BY <1>4, <1>5, <2>1 DEF Merging
  <2>3. Valid(m) /\ Here(m) = FirstOf(E) /\ Here(m) \in A /\ Here(m) \in DOMAIN writes
    BY <1>1, <1>3, <1>4, <1>6, <1>8, <2>1 DEF Valid, Here
  <2>4. Positioned(m)
    BY <1>3, <1>4, <1>8, <2>1, <2>2 DEF Positioned
  <2>5. ASSUME NEW c \in Children \ {m.current}, pos[c] # 0
        PROVE  Precedes(Here(m), pos[c])
    <3>1. Here(m) \in In(m.current) /\ pos[c] \in In(c) /\ pos[c] \in E
      BY <1>1, <1>3, <1>8, <2>1, <2>3, <2>5
    <3>2. Here(m) # pos[c]
      BY <2>1, <3>1, InIs
    <3>3. QED BY <1>3, <1>8, <2>3, <3>1, <3>2 DEF Upto
  <2>6. \A c \in Children : \A s \in In(c) \cap A \cap Visible : pos[c] # 0 /\ Upto(pos[c], s)
    OBVIOUS
  <2>7. InPlace(m, Visible)
    <3>1. SUFFICES ASSUME NEW c \in Children \ {m.current}, NEW s \in In(c)
                   PROVE  /\ s = pos[c] => Precedes(Here(m), s)
                          /\ Precedes(Here(m), s) /\ s \in Visible =>
                                pos[c] # 0 /\ (s = pos[c] \/ Precedes(pos[c], s))
      BY <1>4 DEF InPlace
    <3>2. s \in DOMAIN writes /\ s # 0
      BY InIs
    <3>3. Precedes(Here(m), s) => s \in A
      BY <2>3, <3>2
    <3>4. QED BY <2>5, <2>6, <3>2, <3>3 DEF Visible, Upto
  <2>8. ASSUME NEW s \in A \cap Visible PROVE Upto(Here(m), s)
    <3> DEFINE c == writes[s].child
    <3>1. s \in In(c) /\ c \in Children /\ s \in DOMAIN writes
      BY EntriesAre DEF In
    <3> HIDE DEF c
    <3>2. pos[c] # 0 /\ Upto(pos[c], s) /\ pos[c] \in E
      BY <1>1, <2>6, <2>8, <3>1
    <3>3. Upto(Here(m), pos[c]) /\ pos[c] \in DOMAIN writes
      BY <1>1, <1>3, <1>8, <2>3, <3>2
    <3>4. QED BY <2>3, <3>1, <3>2, <3>3, EntriesAreOrdered DEF Upto
  <2>9. QED BY <1>4, <2>3, <2>4, <2>7, <2>8 DEF Sound, m
<1>9. QED BY <1>7, <1>8

(* Children that stand on the last entry of A are in place for the other  *)
(* direction.                                                              *)
LEMMA FindLargestIs ==
    ASSUME Written, NEW pos \in [Children -> Nat], NEW A \in SUBSET DOMAIN writes, NEW V,
           \A s \in A : \A t \in DOMAIN writes : Precedes(t, s) => t \in A,
           \A c \in Children : pos[c] # 0 => pos[c] \in In(c) \cap A,
           \A c \in Children : \A s \in In(c) \cap A \cap V : pos[c] # 0 /\ Upto(s, pos[c])
    PROVE  /\ SoundFor(FindLargest(pos), V) /\ FindLargest(pos).dir = "reverse"
           /\ Valid(FindLargest(pos)) => Here(FindLargest(pos)) \in A
           /\ \A s \in A \cap V :
                  Valid(FindLargest(pos)) /\ Upto(s, Here(FindLargest(pos)))
<1> DEFINE E == Entries(pos)
           m == FindLargest(pos)
<1>1. E \subseteq DOMAIN writes /\ \A c \in Children : pos[c] # 0 => pos[c] \in E
  BY DEF Entries
<1>2. \A e \in E : \E c \in Children : pos[c] = e
  BY DEF Entries
<1>3. /\ E = {} => LastOf(E) = 0
      /\ E # {} => LastOf(E) \in E /\ LastOf(E) # 0 /\ \A t \in E : Upto(t, LastOf(E))
  BY <1>1, LastOfIs
<1>4. m.pos = pos /\ m.dir = "reverse" /\ m.current = At(pos, LastOf(E))
  BY DEF FindLargest
<1>5. m = [pos |-> pos, dir |-> "reverse", current |-> At(pos, LastOf(E))]
  BY DEF FindLargest
<1>6. 0 \notin Children
  BY DEF Children
<1> HIDE DEF E, m
<1>7. CASE E = {}
  <2>1. m.current = 0
    BY <1>3, <1>4, <1>7 DEF At
  <2>2. m \in Merging
    BY <1>4, <1>5, <2>1 DEF Merging
  <2>3. SoundFor(m, V)
    BY <1>4, <2>1, <2>2 DEF SoundFor, Positioned, InPlace, Valid
  <2>4. A \cap V = {}
    <3>1. SUFFICES ASSUME NEW s \in A \cap V PROVE FALSE
      OBVIOUS
    <3>2. s \in In(writes[s].child) /\ writes[s].child \in Children
      BY <3>1, EntriesAre DEF In
    <3>3. QED BY <1>1, <1>7, <3>1, <3>2
  <2>5. QED BY <1>4, <2>1, <2>3, <2>4 DEF Valid, m
<1>8. CASE E # {}
  <2>1. m.current \in Children /\ pos[m.current] = LastOf(E)
    BY <1>2, <1>3, <1>4, <1>8 DEF At
  <2>2. m \in Merging
    BY <1>4, <1>5, <2>1 DEF Merging
  <2>3. Valid(m) /\ Here(m) = LastOf(E) /\ Here(m) \in A /\ Here(m) \in DOMAIN writes
    BY <1>1, <1>3, <1>4, <1>6, <1>8, <2>1 DEF Valid, Here
  <2>4. Positioned(m)
    BY <1>3, <1>4, <1>8, <2>1, <2>2 DEF Positioned
  <2>5. ASSUME NEW c \in Children \ {m.current}, pos[c] # 0
        PROVE  Precedes(pos[c], Here(m))
    <3>1. Here(m) \in In(m.current) /\ pos[c] \in In(c) /\ pos[c] \in E
      BY <1>1, <1>3, <1>8, <2>1, <2>3, <2>5
    <3>2. Here(m) # pos[c]
      BY <2>1, <3>1, InIs
    <3>3. QED BY <1>3, <1>8, <2>3, <3>1, <3>2 DEF Upto
  <2>6. \A c \in Children : \A s \in In(c) \cap A \cap V : pos[c] # 0 /\ Upto(s, pos[c])
    OBVIOUS
  <2>7. InPlace(m, V)
    <3>1. SUFFICES ASSUME NEW c \in Children \ {m.current}, NEW s \in In(c)
                   PROVE  /\ s = pos[c] => Precedes(s, Here(m))
                          /\ Precedes(s, Here(m)) /\ s \in V =>
                                pos[c] # 0 /\ (s = pos[c] \/ Precedes(s, pos[c]))
      BY <1>4 DEF InPlace
    <3>2. s \in DOMAIN writes /\ s # 0
      BY InIs
    <3>3. Precedes(s, Here(m)) => s \in A
      BY <2>3, <3>2
    <3>4. QED BY <2>5, <2>6, <3>2, <3>3 DEF Upto
  <2>8. ASSUME NEW s \in A \cap V PROVE Upto(s, Here(m))
    <3> DEFINE c == writes[s].child
    <3>1. s \in In(c) /\ c \in Children /\ s \in DOMAIN writes
      BY EntriesAre DEF In
    <3> HIDE DEF c
    <3>2. pos[c] # 0 /\ Upto(s, pos[c]) /\ pos[c] \in E
      BY <1>1, <2>6, <2>8, <3>1
    <3>3. Upto(pos[c], Here(m)) /\ pos[c] \in DOMAIN writes
      BY <1>1, <1>3, <1>8, <2>3, <3>2
    <3>4. QED BY <2>3, <3>1, <3>2, <3>3, EntriesAreOrdered DEF Upto
  <2>9. QED BY <1>4, <2>3, <2>4, <2>7, <2>8 DEF SoundFor, m
<1>9. QED BY <1>7, <1>8
-----------------------------------------------------------------------------
LEMMA SeekInHereIs ==
    ASSUME Written, NEW s \in DOMAIN writes, NEW c \in Children, s \notin In(c)
    PROVE  SeekIn(c, Of(writes, s), s) = NextIn(c, s)
<1>1. \A t \in In(c) : (Of(writes, t) > Of(writes, s) \/ (Of(writes, t) = Of(writes, s) /\ t <= s))
                            <=> Precedes(s, t)
  <2>1. TAKE t \in In(c)
  <2>2. t \in DOMAIN writes /\ t # s
    BY InIs
  <2>3. s \in Nat /\ t \in Nat /\ Of(writes, s) \in Nat /\ Of(writes, t) \in Nat
    BY <2>2, EntriesAre
  <2>4. QED BY <2>2, <2>3 DEF Precedes
<1>2. {t \in In(c) : Of(writes, t) > Of(writes, s) \/ (Of(writes, t) = Of(writes, s) /\ t <= s)}
        = {t \in In(c) : Precedes(s, t)}
  BY <1>1
<1>3. QED BY <1>2 DEF SeekIn, NextIn

\* The entry of each child after s, and that before it.
LEMMA NeighboursAre ==
    ASSUME Written, NEW s \in DOMAIN writes, NEW c \in Children
    PROVE  /\ NextIn(c, s) \in Nat /\ PrevIn(c, s) \in Nat
           /\ NextIn(c, s) # 0 => NextIn(c, s) \in In(c) /\ Precedes(s, NextIn(c, s))
           /\ PrevIn(c, s) # 0 => PrevIn(c, s) \in In(c) /\ Precedes(PrevIn(c, s), s)
           /\ \A t \in In(c) : Precedes(s, t) => NextIn(c, s) # 0 /\ Upto(NextIn(c, s), t)
           /\ \A t \in In(c) : Precedes(t, s) => PrevIn(c, s) # 0 /\ Upto(t, PrevIn(c, s))
<1> DEFINE A == {t \in In(c) : Precedes(s, t)}
           B == {t \in In(c) : Precedes(t, s)}
<1>1. A \subseteq DOMAIN writes /\ B \subseteq DOMAIN writes
  BY InIs
<1>2. NextIn(c, s) = FirstOf(A) /\ PrevIn(c, s) = LastOf(B)
  BY DEF NextIn, PrevIn
<1>3. \A t \in DOMAIN writes : t \in Nat
  BY EntriesAre
<1>4. /\ A = {} => FirstOf(A) = 0
      /\ A # {} => FirstOf(A) \in A /\ FirstOf(A) # 0 /\ \A t \in A : Upto(FirstOf(A), t)
  <2> HIDE DEF A
  <2>1. QED BY <1>1, FirstOfIs
<1>5. /\ B = {} => LastOf(B) = 0
      /\ B # {} => LastOf(B) \in B /\ LastOf(B) # 0 /\ \A t \in B : Upto(t, LastOf(B))
  <2> HIDE DEF B
  <2>1. QED BY <1>1, LastOfIs
<1>6. QED BY <1>1, <1>2, <1>3, <1>4, <1>5

(* Next passes over nothing that is visible.                               *)
LEMMA MNextIs ==
    ASSUME Written, NEW m, Sound(m), Valid(m)
    PROVE  /\ Sound(MNext(m)) /\ MNext(m).dir = "forward"
           /\ Valid(MNext(m)) => Precedes(Here(m), Here(MNext(m)))
           /\ \A s \in Visible : Precedes(Here(m), s) =>
                  Valid(MNext(m)) /\ Upto(Here(MNext(m)), s)
<1> DEFINE here == Here(m)
           A == {s \in DOMAIN writes : Precedes(here, s)}
           pos == [c \in Children |->
                      IF c = m.current THEN NextIn(c, here)
                      ELSE IF m.dir = "forward" THEN m.pos[c]
                      ELSE SeekIn(c, Of(writes, here), here)]
<1>1. MNext(m) = FindSmallest(pos)
  BY DEF MNext
<1>2. /\ m.current \in Children /\ here = m.pos[m.current]
      /\ here \in In(m.current) /\ here \in DOMAIN writes
  BY HereIs DEF Sound
<1>3. m.dir \in {"forward", "reverse"} /\ \A c \in Children : m.pos[c] \in Nat
  BY DEF Sound, Positioned, Merging
<1> HIDE DEF here
<1>4. ASSUME NEW c \in Children
      PROVE  /\ pos[c] \in Nat
             /\ pos[c] # 0 => pos[c] \in In(c) \cap A
             /\ \A s \in In(c) \cap A \cap Visible : pos[c] # 0 /\ Upto(pos[c], s)
  <2>1. In(c) \subseteq DOMAIN writes
    BY InIs
  <2>2. CASE pos[c] = NextIn(c, here)
    BY <1>2, <2>1, <2>2, NeighboursAre
  <2>3. CASE c # m.current /\ m.dir = "forward"
    <3>1. pos[c] = m.pos[c]
      BY <2>3
    <3>2. \A s \in In(c) : /\ s = m.pos[c] => Precedes(here, s)
                           /\ Precedes(here, s) /\ s \in Visible =>
                                 m.pos[c] # 0 /\ (s = m.pos[c] \/ Precedes(m.pos[c], s))
      BY <2>3 DEF Sound, InPlace, here
    <3>3. m.pos[c] # 0 => m.pos[c] \in In(c)
      BY DEF Sound, Positioned
    <3> HIDE DEF pos
    <3>4. QED BY <1>3, <2>1, <3>1, <3>2, <3>3 DEF Visible, Upto
  <2>4. CASE c # m.current /\ m.dir # "forward"
    <3>1. here \notin In(c)
      BY <1>2, <2>4, InIs
    <3>2. pos[c] = NextIn(c, here)
      BY <1>2, <2>4, <3>1, SeekInHereIs
    <3>3. QED BY <2>2, <3>2
  <2>5. QED BY <2>2, <2>3, <2>4
<1>5. \A s \in A : \A t \in DOMAIN writes : Precedes(s, t) => t \in A
  BY <1>2, EntriesAreOrdered
<1>6. pos \in [Children -> Nat] /\ A \in SUBSET DOMAIN writes
  <2>1. pos = [c \in Children |-> pos[c]]
    OBVIOUS
  <2> HIDE DEF pos
  <2>2. QED BY <1>4, <2>1
<1> HIDE DEF pos
<1>7. /\ Sound(FindSmallest(pos)) /\ FindSmallest(pos).dir = "forward"
      /\ Valid(FindSmallest(pos)) => Here(FindSmallest(pos)) \in A
      /\ \A s \in A \cap Visible : Valid(FindSmallest(pos)) /\ Upto(Here(FindSmallest(pos)), s)
  <2> HIDE DEF A
  <2>1. QED BY <1>4, <1>5, <1>6, FindSmallestIs
<1>8. QED BY <1>1, <1>7 DEF here, Visible

(* Nor does Prev of what it owes, when it goes on back.                    *)
LEMMA MPrevIs ==
    ASSUME Written, NEW m, NEW V, SoundFor(m, V), Valid(m), m.dir = "reverse"
    PROVE  /\ SoundFor(MPrev(m), V) /\ MPrev(m).dir = "reverse"
           /\ Valid(MPrev(m)) => Precedes(Here(MPrev(m)), Here(m))
           /\ \A s \in V \cap DOMAIN writes : Precedes(s, Here(m)) =>
                  Valid(MPrev(m)) /\ Upto(s, Here(MPrev(m)))
<1> DEFINE here == Here(m)
           A == {s \in DOMAIN writes : Precedes(s, here)}
           pos == [c \in Children |-> IF c = m.current THEN PrevIn(c, here) ELSE m.pos[c]]
<1>1. /\ m.current \in Children /\ here = m.pos[m.current] /\ here # 0
      /\ here \in In(m.current) /\ here \in DOMAIN writes
  BY HereIs DEF SoundFor, Positioned
<1>2. MPrev(m) = FindLargest(pos)
  <2>1. \A c \in Children : (IF c # m.current /\ m.dir = "reverse" THEN m.pos[c]
                             ELSE IF m.pos[c] = 0 THEN LastOf(In(c)) ELSE PrevIn(c, m.pos[c]))
                                = IF c = m.current THEN PrevIn(c, here) ELSE m.pos[c]
    BY <1>1
  <2>2. QED BY <2>1 DEF MPrev
<1>3. \A c \in Children : m.pos[c] \in Nat
  BY DEF SoundFor, Positioned, Merging
<1> HIDE DEF here
<1>4. ASSUME NEW c \in Children
      PROVE  /\ pos[c] \in Nat
             /\ pos[c] # 0 => pos[c] \in In(c) \cap A
             /\ \A s \in In(c) \cap A \cap V : pos[c] # 0 /\ Upto(s, pos[c])
  <2>1. In(c) \subseteq DOMAIN writes
    BY InIs
  <2>2. CASE c = m.current
    BY <1>1, <2>1, <2>2, NeighboursAre
  <2>3. CASE c # m.current
    <3>1. pos[c] = m.pos[c]
      BY <2>3
    <3>2. \A s \in In(c) : /\ s = m.pos[c] => Precedes(s, here)
                           /\ Precedes(s, here) /\ s \in V =>
                                 m.pos[c] # 0 /\ (s = m.pos[c] \/ Precedes(s, m.pos[c]))
      BY <2>3 DEF SoundFor, InPlace, here
    <3>3. m.pos[c] # 0 => m.pos[c] \in In(c)
      BY DEF SoundFor, Positioned
    <3> HIDE DEF pos
    <3>4. QED BY <1>3, <2>1, <3>1, <3>2, <3>3 DEF Upto
  <2>4. QED BY <2>2, <2>3
<1>5. \A s \in A : \A t \in DOMAIN writes : Precedes(t, s) => t \in A
  BY <1>1, EntriesAreOrdered
<1>6. pos \in [Children -> Nat] /\ A \in SUBSET DOMAIN writes
  <2>1. pos = [c \in Children |-> pos[c]]
    OBVIOUS
  <2> HIDE DEF pos
  <2>2. QED BY <1>4, <2>1
<1> HIDE DEF pos
<1>7. /\ SoundFor(FindLargest(pos), V) /\ FindLargest(pos).dir = "reverse"
      /\ Valid(FindLargest(pos)) => Here(FindLargest(pos)) \in A
      /\ \A s \in A \cap V : Valid(FindLargest(pos)) /\ Upto(s, Here(FindLargest(pos)))
  <2> HIDE DEF A
  <2>1. QED BY <1>4, <1>5, <1>6, FindLargestIs
<1>8. QED BY <1>2, <1>7 DEF here

(* Where it turns, each child is moved back from an entry after it, or from *)
(* the end: it may then be at one that was written since, but it has passed *)
(* over none that was before.                                               *)
LEMMA MPrevTurnedIs ==
    ASSUME Written, NEW m, Sound(m), Valid(m), m.dir = "forward",
           NEW V \in SUBSET DOMAIN writes, \A s \in V : Precedes(s, Here(m))
    PROVE  /\ SoundFor(MPrev(m), V) /\ MPrev(m).dir = "reverse"
           /\ \A s \in V : Valid(MPrev(m)) /\ Upto(s, Here(MPrev(m)))
<1> DEFINE here == Here(m)
           A == DOMAIN writes
           pos == [c \in Children |-> IF m.pos[c] = 0 THEN LastOf(In(c)) ELSE PrevIn(c, m.pos[c])]
<1>1. MPrev(m) = FindLargest(pos)
  <2>1. \A c \in Children : (IF c # m.current /\ m.dir = "reverse" THEN m.pos[c]
                             ELSE IF m.pos[c] = 0 THEN LastOf(In(c)) ELSE PrevIn(c, m.pos[c]))
                                = IF m.pos[c] = 0 THEN LastOf(In(c)) ELSE PrevIn(c, m.pos[c])
    OBVIOUS
  <2>2. QED BY <2>1 DEF MPrev
<1>2. /\ m.current \in Children /\ here = m.pos[m.current] /\ here # 0
      /\ here \in In(m.current) /\ here \in DOMAIN writes
  BY HereIs DEF Sound, Positioned
<1>3. \A s \in DOMAIN writes : s \in Nat
  BY EntriesAre
<1> HIDE DEF here
<1>4. ASSUME NEW c \in Children
      PROVE  /\ pos[c] \in Nat
             /\ pos[c] # 0 => pos[c] \in In(c) \cap A
             /\ \A s \in In(c) \cap A \cap V : pos[c] # 0 /\ Upto(s, pos[c])
  <2>1. In(c) \subseteq DOMAIN writes
    BY InIs
  <2>2. CASE m.pos[c] = 0
    <3>1. pos[c] = LastOf(In(c))
      BY <2>2
    <3> HIDE DEF pos
    <3>2. /\ In(c) = {} => LastOf(In(c)) = 0
          /\ In(c) # {} => /\ LastOf(In(c)) \in In(c) /\ LastOf(In(c)) # 0
                           /\ \A t \in In(c) : Upto(t, LastOf(In(c)))
      BY <2>1, LastOfIs
    <3>3. QED BY <1>3, <2>1, <3>1, <3>2
  <2>3. CASE m.pos[c] # 0
    <3>1. pos[c] = PrevIn(c, m.pos[c]) /\ m.pos[c] \in In(c)
      BY <2>3 DEF Sound, Positioned
    <3>2. m.pos[c] = here \/ Precedes(here, m.pos[c])
      <4>1. CASE c = m.current
        BY <1>2, <4>1
      <4>2. CASE c # m.current
        BY <3>1, <4>2 DEF Sound, InPlace, here
      <4>3. QED BY <4>1, <4>2
    <3>3. \A s \in V : Precedes(s, m.pos[c])
      BY <1>2, <2>1, <3>1, <3>2, EntriesAreOrdered DEF here
    <3> HIDE DEF pos
    <3>4. QED BY <1>3, <2>1, <3>1, <3>3, NeighboursAre
  <2>4. QED BY <2>2, <2>3
<1>5. \A s \in A : \A t \in DOMAIN writes : Precedes(t, s) => t \in A
  OBVIOUS
<1>6. pos \in [Children -> Nat] /\ A \in SUBSET DOMAIN writes
  <2>1. pos = [c \in Children |-> pos[c]]
    OBVIOUS
  <2> HIDE DEF pos
  <2>2. QED BY <1>4, <2>1
<1> HIDE DEF pos
<1>7. /\ SoundFor(FindLargest(pos), V) /\ FindLargest(pos).dir = "reverse"
      /\ \A s \in A \cap V : Valid(FindLargest(pos)) /\ Upto(s, Here(FindLargest(pos)))
  <2> HIDE DEF A
  <2>1. QED BY <1>4, <1>5, <1>6, FindLargestIs
<1>8. QED BY <1>1, <1>7

(* Before that, each other child seeks the entry.                          *)
LEMMA MTurnIs ==
    ASSUME Written, NEW m, Sound(m), Valid(m), m.dir = "forward"
    PROVE  /\ Sound(MTurn(m)) /\ MTurn(m).dir = "forward"
           /\ Valid(MTurn(m)) /\ Here(MTurn(m)) = Here(m)
<1> DEFINE here == Here(m)
           on == MTurn(m)
<1>1. /\ m.current \in Children /\ here = m.pos[m.current] /\ here # 0
      /\ here \in In(m.current) /\ here \in DOMAIN writes
  BY HereIs DEF Sound, Positioned
<1>2. m.pos \in [Children -> Nat] /\ m \in Merging
  BY DEF Sound, Positioned, Merging
<1>3. on = [m EXCEPT !.pos = [c \in Children |-> IF c = m.current THEN m.pos[c]
                                                 ELSE NextIn(c, here)]]
  <2>1. \A c \in Children : (IF c = m.current \/ m.dir = "reverse" THEN m.pos[c]
                             ELSE SeekIn(c, Of(writes, here), here))
                                = IF c = m.current THEN m.pos[c] ELSE NextIn(c, here)
    <3>1. \A c \in Children : c # m.current => here \notin In(c)
      BY <1>1, InIs
    <3> HIDE DEF here
    <3>2. QED BY <1>1, <3>1, SeekInHereIs
  <2>2. QED BY <2>1 DEF MTurn
<1> HIDE DEF on, here
<1>4. /\ on.dir = "forward" /\ on.current = m.current
      /\ on.pos = [c \in Children |-> IF c = m.current THEN m.pos[c] ELSE NextIn(c, here)]
  BY <1>2, <1>3 DEF Merging
<1>5. \A c \in Children : /\ NextIn(c, here) \in Nat
                          /\ NextIn(c, here) # 0 => NextIn(c, here) \in In(c)
                                                    /\ Precedes(here, NextIn(c, here))
                          /\ \A t \in In(c) : Precedes(here, t) =>
                                 NextIn(c, here) # 0 /\ Upto(NextIn(c, here), t)
  BY <1>1, NeighboursAre
<1>6. on \in Merging
  BY <1>2, <1>3, <1>5 DEF Merging
<1>7. Valid(on) /\ Here(on) = here
  BY <1>1, <1>4 DEF Valid, Here, here
<1>8. Positioned(on)
  BY <1>1, <1>4, <1>5, <1>6, <1>7 DEF Positioned
<1>9. InPlace(on, Visible)
  <2>1. SUFFICES ASSUME NEW c \in Children \ {m.current}, NEW s \in In(c)
                 PROVE  /\ s = NextIn(c, here) => Precedes(here, s)
                        /\ Precedes(here, s) =>
                              NextIn(c, here) # 0 /\ (s = NextIn(c, here) \/ Precedes(NextIn(c, here), s))
    BY <1>4, <1>7 DEF InPlace
  <2>2. s # 0
    BY InIs
  <2>3. QED BY <1>5, <2>2 DEF Upto
<1>10. QED BY <1>4, <1>7, <1>8, <1>9 DEF Sound, on, here

(* Seek comes to the first visible entry of the key, or after it.          *)
LEMMA MSeekIs ==
    ASSUME Written, NEW k \in Nat
    PROVE  /\ Sound(MSeek(k, sequence)) /\ MSeek(k, sequence).dir = "forward"
           /\ Valid(MSeek(k, sequence)) => Of(writes, Here(MSeek(k, sequence))) >= k
           /\ \A s \in Visible : Of(writes, s) >= k =>
                  Valid(MSeek(k, sequence)) /\ Upto(Here(MSeek(k, sequence)), s)
<1> DEFINE A == {s \in DOMAIN writes : Of(writes, s) > k \/ (Of(writes, s) = k /\ s <= sequence)}
           pos == [c \in Children |-> SeekIn(c, k, sequence)]
<1>1. MSeek(k, sequence) = FindSmallest(pos)
  BY DEF MSeek
<1>2. \A s \in DOMAIN writes : s \in Nat /\ Of(writes, s) \in Nat
  BY EntriesAre
<1>3. ASSUME NEW c \in Children
      PROVE  /\ pos[c] \in Nat
             /\ pos[c] # 0 => pos[c] \in In(c) \cap A
             /\ \A s \in In(c) \cap A \cap Visible : pos[c] # 0 /\ Upto(pos[c], s)
  <2> DEFINE E == {s \in In(c) : Of(writes, s) > k \/ (Of(writes, s) = k /\ s <= sequence)}
  <2>1. E = In(c) \cap A /\ E \subseteq DOMAIN writes
    BY InIs
  <2>2. pos[c] = FirstOf(E)
    BY DEF SeekIn
  <2> HIDE DEF E, pos, A
  <2>3. /\ E = {} => FirstOf(E) = 0
        /\ E # {} => FirstOf(E) \in E /\ FirstOf(E) # 0 /\ \A t \in E : Upto(FirstOf(E), t)
    BY <2>1, FirstOfIs
  <2>4. QED BY <1>2, <2>1, <2>2, <2>3
<1>4. ASSUME NEW s \in A, NEW t \in DOMAIN writes, Precedes(s, t) PROVE t \in A
  <2>1. Of(writes, s) <= Of(writes, t)
    BY <1>4, EntriesAreOrdered
  <2>2. Of(writes, s) = Of(writes, t) => t < s
    BY <1>2, <1>4, EntriesAreOrdered
  <2>3. s \in Nat /\ t \in Nat /\ Of(writes, s) \in Nat /\ Of(writes, t) \in Nat
    BY <1>2
  <2>4. CASE Of(writes, s) > k
    BY <2>1, <2>3, <2>4
  <2>5. CASE Of(writes, s) = k /\ s <= sequence
    <3>1. CASE Of(writes, t) > k
      BY <3>1
    <3>2. CASE Of(writes, t) = k
      <4>1. t < s /\ s <= sequence
        BY <2>2, <2>5, <3>2
      <4>2. s \in DOMAIN writes
        OBVIOUS
      <4>3. t <= sequence
        BY <2>3, <4>1, EntriesAre DEF Written
      <4>4. QED BY <3>2, <4>3
    <3>3. QED BY <2>1, <2>3, <2>5, <3>1, <3>2
  <2>6. QED BY <2>4, <2>5
<1>5. pos \in [Children -> Nat] /\ A \in SUBSET DOMAIN writes
  <2>1. pos = [c \in Children |-> pos[c]]
    OBVIOUS
  <2> HIDE DEF pos
  <2>2. QED BY <1>3, <2>1
<1> HIDE DEF pos
<1>6. /\ Sound(FindSmallest(pos)) /\ FindSmallest(pos).dir = "forward"
      /\ Valid(FindSmallest(pos)) => Here(FindSmallest(pos)) \in A
      /\ \A s \in A \cap Visible : Valid(FindSmallest(pos)) /\ Upto(Here(FindSmallest(pos)), s)
  <2> HIDE DEF A
  <2>1. QED BY <1>3, <1>4, <1>5, FindSmallestIs
<1>7. \A s \in Visible : Of(writes, s) >= k => s \in A \cap Visible
  BY <1>2 DEF Visible
<1>8. \A s \in A : Of(writes, s) >= k
  BY <1>2
<1>9. QED BY <1>1, <1>6, <1>7, <1>8

LEMMA MSeekToFirstIs ==
    ASSUME Written
    PROVE  /\ Sound(MSeekToFirst) /\ MSeekToFirst.dir = "forward"
           /\ \A s \in Visible : Valid(MSeekToFirst) /\ Upto(Here(MSeekToFirst), s)
<1> DEFINE A == DOMAIN writes
           pos == [c \in Children |-> FirstOf(In(c))]
<1>1. MSeekToFirst = FindSmallest(pos)
  BY DEF MSeekToFirst
<1>2. \A s \in DOMAIN writes : s \in Nat
  BY EntriesAre
<1>3. ASSUME NEW c \in Children
      PROVE  /\ pos[c] \in Nat
             /\ pos[c] # 0 => pos[c] \in In(c) \cap A
             /\ \A s \in In(c) \cap A \cap Visible : pos[c] # 0 /\ Upto(pos[c], s)
  <2>1. In(c) \subseteq DOMAIN writes
    BY InIs
  <2>2. pos[c] = FirstOf(In(c))
    OBVIOUS
  <2> HIDE DEF pos
  <2>3. /\ In(c) = {} => FirstOf(In(c)) = 0
        /\ In(c) # {} => /\ FirstOf(In(c)) \in In(c) /\ FirstOf(In(c)) # 0
                         /\ \A t \in In(c) : Upto(FirstOf(In(c)), t)
    BY <2>1, FirstOfIs
  <2>4. QED BY <1>2, <2>1, <2>2, <2>3
<1>4. pos \in [Children -> Nat] /\ A \in SUBSET DOMAIN writes
  <2>1. pos = [c \in Children |-> pos[c]]
    OBVIOUS
  <2> HIDE DEF pos
  <2>2. QED BY <1>3, <2>1
<1>5. \A s \in A : \A t \in DOMAIN writes : Precedes(s, t) => t \in A
  OBVIOUS
<1> HIDE DEF pos
<1>6. /\ Sound(FindSmallest(pos)) /\ FindSmallest(pos).dir = "forward"
      /\ \A s \in A \cap Visible : Valid(FindSmallest(pos)) /\ Upto(Here(FindSmallest(pos)), s)
  <2> HIDE DEF A
  <2>1. QED BY <1>3, <1>4, <1>5, FindSmallestIs
<1>7. QED BY <1>1, <1>6 DEF Visible

LEMMA MSeekToLastIs ==
    ASSUME Written
    PROVE  /\ Sound(MSeekToLast) /\ MSeekToLast.dir = "reverse"
           /\ \A s \in Visible : Valid(MSeekToLast) /\ Upto(s, Here(MSeekToLast))
<1> DEFINE A == DOMAIN writes
           pos == [c \in Children |-> LastOf(In(c))]
<1>1. MSeekToLast = FindLargest(pos)
  BY DEF MSeekToLast
<1>2. \A s \in DOMAIN writes : s \in Nat
  BY EntriesAre
<1>3. ASSUME NEW c \in Children
      PROVE  /\ pos[c] \in Nat
             /\ pos[c] # 0 => pos[c] \in In(c) \cap A
             /\ \A s \in In(c) \cap A \cap Visible : pos[c] # 0 /\ Upto(s, pos[c])
  <2>1. In(c) \subseteq DOMAIN writes
    BY InIs
  <2>2. pos[c] = LastOf(In(c))
    OBVIOUS
  <2> HIDE DEF pos
  <2>3. /\ In(c) = {} => LastOf(In(c)) = 0
        /\ In(c) # {} => /\ LastOf(In(c)) \in In(c) /\ LastOf(In(c)) # 0
                         /\ \A t \in In(c) : Upto(t, LastOf(In(c)))
    BY <2>1, LastOfIs
  <2>4. QED BY <1>2, <2>1, <2>2, <2>3
<1>4. pos \in [Children -> Nat] /\ A \in SUBSET DOMAIN writes
  <2>1. pos = [c \in Children |-> pos[c]]
    OBVIOUS
  <2> HIDE DEF pos
  <2>2. QED BY <1>3, <2>1
<1>5. \A s \in A : \A t \in DOMAIN writes : Precedes(t, s) => t \in A
  OBVIOUS
<1> HIDE DEF pos
<1>6. /\ SoundFor(FindLargest(pos), Visible) /\ FindLargest(pos).dir = "reverse"
      /\ \A s \in A \cap Visible : Valid(FindLargest(pos)) /\ Upto(s, Here(FindLargest(pos)))
  <2> DEFINE V == Visible
  <2>1. \A c \in Children : \A s \in In(c) \cap A \cap V : pos[c] # 0 /\ Upto(s, pos[c])
    BY <1>3
  <2>2. \A c \in Children : pos[c] # 0 => pos[c] \in In(c) \cap A
    BY <1>3
  <2> HIDE DEF A, V
  <2>3. /\ SoundFor(FindLargest(pos), V) /\ FindLargest(pos).dir = "reverse"
        /\ \A s \in A \cap V : Valid(FindLargest(pos)) /\ Upto(s, Here(FindLargest(pos)))
    BY <1>4, <1>5, <2>1, <2>2, FindLargestIs
  <2>4. QED BY <2>3 DEF V
<1>7. QED BY <1>1, <1>6 DEF Visible, Sound, SoundFor
-----------------------------------------------------------------------------
(* The view has for each key its newest entry, unless that deletes it.     *)
LEMMA ViewIs ==
    ASSUME Written
    PROVE  /\ \A k \in DOMAIN View :
                  /\ k \in Keys /\ k \in Nat /\ View[k] \in Visible /\ Of(writes, View[k]) = k
                  /\ ~ writes[View[k]].del
                  /\ \A t \in Visible : Of(writes, t) = k => Upto(View[k], t)
           /\ \A s \in Visible :
                  ~ writes[s].del /\ (\A t \in Visible : Of(writes, t) = Of(writes, s) => Upto(s, t))
                      => Of(writes, s) \in DOMAIN View /\ View[Of(writes, s)] = s
<1>1. \A s \in DOMAIN writes : s \in Nat /\ Of(writes, s) \in Keys
  BY EntriesAre
<1>2. \A k : \A s \in Newest(k) : /\ s \in Visible /\ Of(writes, s) = k /\ ~ writes[s].del
                                  /\ \A t \in Visible : Of(writes, t) = k => t <= s
  BY DEF Newest, Visible
<1>3. \A k : \A s \in Visible : /\ Of(writes, s) = k /\ ~ writes[s].del
                                /\ \A t \in Visible : Of(writes, t) = k => t <= s
                                => s \in Newest(k)
  BY DEF Newest, Visible
<1>4. \A s, t \in Visible : Of(writes, s) = Of(writes, t) => (t <= s <=> Upto(s, t))
  BY <1>1, EntriesAreOrdered DEF Visible, Upto
<1>5. DOMAIN View = {k \in Keys : Newest(k) # {}}
      /\ \A k \in DOMAIN View : View[k] \in Newest(k)
  BY DEF View
<1>6. ASSUME NEW k \in DOMAIN View
      PROVE  /\ k \in Keys /\ k \in Nat /\ View[k] \in Visible /\ Of(writes, View[k]) = k
             /\ ~ writes[View[k]].del
             /\ \A t \in Visible : Of(writes, t) = k => Upto(View[k], t)
  <2>1. k \in Keys /\ k \in Nat
    BY <1>5, KeysArePositive
  <2>2. View[k] \in Visible /\ Of(writes, View[k]) = k /\ ~ writes[View[k]].del
        /\ \A t \in Visible : Of(writes, t) = k => t <= View[k]
    BY <1>2, <1>5
  <2>3. QED BY <1>4, <2>1, <2>2
<1>7. ASSUME NEW s \in Visible, ~ writes[s].del,
             \A t \in Visible : Of(writes, t) = Of(writes, s) => Upto(s, t)
      PROVE  Of(writes, s) \in DOMAIN View /\ View[Of(writes, s)] = s
  <2> DEFINE k == Of(writes, s)
  <2>1. k \in Keys
    BY <1>1 DEF Visible
  <2>2. s \in Newest(k)
    BY <1>3, <1>4, <1>7
  <2>3. k \in DOMAIN View /\ View[k] \in Newest(k)
    BY <1>5, <2>1, <2>2
  <2>4. View[k] <= s /\ s <= View[k]
    BY <1>2, <2>2, <2>3
  <2>5. View[k] \in Nat /\ s \in Nat
    BY <1>1, <1>2, <2>3 DEF Visible
  <2>6. QED BY <2>3, <2>4, <2>5
<1>8. QED BY <1>6, <1>7
-----------------------------------------------------------------------------
\* The keys that a call to go forward, or back, may come to, when the
\* iterator stood at p before it.
AtLeast(c, p, k) == (c[1] = "seek" => k >= c[2]) /\ (c[1] = "next" => k > p[1])
Below(c, p, k) == c[1] = "prev" => k < p[1]

NothingAhead(c, p) == \A k \in DOMAIN View : ~ AtLeast(c, p, k)
NothingBehind(c, p) == \A k \in DOMAIN View : ~ Below(c, p, k)

\* FindNextUserEntry has passed no key that the call may come to, and yields
\* no other.
Ahead(m, skip, key, c, p) ==
    /\ Valid(m) /\ c[1] \in {"first", "seek", "next"}
    /\ \A s \in Visible : Precedes(s, Here(m)) =>
           ~ AtLeast(c, p, Of(writes, s)) \/ (skip /\ Of(writes, s) <= key)
    /\ skip => \A k \in DOMAIN View : AtLeast(c, p, k) => k > key
    /\ \A s \in Visible : ~ Precedes(s, Here(m)) =>
           AtLeast(c, p, Of(writes, s)) \/ (c[1] = "next" /\ Of(writes, s) = p[1])
    /\ c[1] = "next" => skip /\ key >= p[1]

\* FindPrevUserEntry has passed this entry.
Passed(m, s) == ~ (Valid(m) /\ Upto(s, Here(m)))

\* Of the keys it has passed, FindPrevUserEntry has at most one to yield, and
\* for it the newest entry that it has passed.
Behind(m, type, key, value, c, p) ==
    /\ c[1] \in {"prev", "last"} /\ m.dir = "reverse"
    /\ Valid(m) => Below(c, p, Of(writes, Here(m)))
    /\ \A k \in DOMAIN View : Below(c, p, k) /\ Passed(m, View[k]) => type = "value" /\ k = key
    /\ type = "value" =>
           /\ value \in Visible /\ ~ writes[value].del /\ Of(writes, value) = key
           /\ Below(c, p, key) /\ Passed(m, value)
           /\ \A s \in Visible : Below(c, p, Of(writes, s)) /\ Passed(m, s) => Upto(value, s)

\* Where a valid iterator is between calls.
Stands(m, dir, key, value) ==
    /\ dir = "forward" => /\ Valid(m) /\ Here(m) \in Visible
                          /\ Of(writes, Here(m)) \in DOMAIN View
                          /\ View[Of(writes, Here(m))] = Here(m)
    /\ dir = "reverse" => /\ m.dir = "reverse"
                          /\ key \in DOMAIN View /\ View[key] = value
                          /\ Valid(m) => Of(writes, Here(m)) < key
                          /\ \A s \in Visible : Of(writes, s) < key => ~ Passed(m, s)

Seeks(c, p) ==
    /\ c[1] = "seek" => c[2] \in Nat
    /\ c[1] \in {"next", "prev"} => p # << >> /\ p[1] \in Nat

LEMMA VisibleIs ==
    ASSUME Written
    PROVE  \A s \in Visible : /\ s \in DOMAIN writes /\ s \in Nat
                              /\ Of(writes, s) \in Nat /\ Of(writes, s) \in Keys
BY EntriesAre DEF Visible

LEMMA SeekIsAhead ==
    ASSUME Written, NEW k \in Nat, NEW p
    PROVE  IF Valid(MSeek(k, sequence)) THEN Ahead(MSeek(k, sequence), FALSE, k, <<"seek", k>>, p)
           ELSE NothingAhead(<<"seek", k>>, p)
<1> DEFINE m == MSeek(k, sequence)
<1>1. /\ Sound(m)
      /\ Valid(m) => Of(writes, Here(m)) >= k
      /\ \A s \in Visible : Of(writes, s) >= k => Valid(m) /\ Upto(Here(m), s)
  BY MSeekIs
<1>2. \A j : AtLeast(<<"seek", k>>, p, j) <=> j >= k
  BY DEF AtLeast
<1> HIDE DEF m
<1>3. CASE Valid(m)
  <2>1. Here(m) \in DOMAIN writes
    BY <1>1, <1>3, HereIs DEF Sound
  <2>2. \A s \in Visible : Precedes(s, Here(m)) => ~ (Of(writes, s) >= k)
    BY <1>1, <2>1, VisibleIs, EntriesAreOrdered DEF Upto
  <2>3. \A s \in Visible : ~ Precedes(s, Here(m)) => Of(writes, s) >= k
    <3>1. TAKE s \in Visible
    <3>2. HAVE ~ Precedes(s, Here(m))
    <3>3. Of(writes, Here(m)) <= Of(writes, s)
      BY <2>1, <3>2, VisibleIs, EntriesAre, EntriesAreOrdered
    <3>4. QED BY <1>1, <1>3, <2>1, <3>3, VisibleIs, EntriesAre
  <2>4. QED BY <1>2, <1>3, <2>2, <2>3 DEF Ahead, m
<1>4. CASE ~ Valid(m)
  BY <1>1, <1>2, <1>4, ViewIs DEF NothingAhead, m
<1>5. QED BY <1>3, <1>4 DEF m

LEMMA FirstIsAhead ==
    ASSUME Written, NEW key, NEW c, NEW p, c = <<"first", 0>>
    PROVE  IF Valid(MSeekToFirst) THEN Ahead(MSeekToFirst, FALSE, key, c, p)
           ELSE NothingAhead(c, p)
<1> DEFINE m == MSeekToFirst
<1>1. Sound(m) /\ \A s \in Visible : Valid(m) /\ Upto(Here(m), s)
  BY MSeekToFirstIs
<1>2. c[1] = "first" /\ \A j : AtLeast(c, p, j)
  BY DEF AtLeast
<1> HIDE DEF m
<1>3. CASE Valid(m)
  <2>1. Here(m) \in DOMAIN writes
    BY <1>1, <1>3, HereIs DEF Sound
  <2>2. \A s \in Visible : ~ Precedes(s, Here(m))
    BY <1>1, <2>1, VisibleIs, EntriesAreOrdered DEF Upto
  <2>3. QED BY <1>2, <1>3, <2>2 DEF Ahead, m
<1>4. CASE ~ Valid(m)
  BY <1>1, <1>4, ViewIs DEF NothingAhead, m
<1>5. QED BY <1>3, <1>4 DEF m

LEMMA NextIsAhead ==
    ASSUME Written, NEW m, Sound(m), NEW key, NEW value, Stands(m, "forward", key, value),
           NEW c, NEW p, c = <<"next", 0>>, p[1] = Of(writes, Here(m))
    PROVE  Ahead(m, TRUE, Of(writes, Here(m)), c, p)
<1> DEFINE k == Of(writes, Here(m))
<1>1. Valid(m) /\ Here(m) \in Visible /\ k \in DOMAIN View /\ View[k] = Here(m)
  BY DEF Stands
<1>2. c[1] = "next" /\ \A j : AtLeast(c, p, j) <=> j > k
  BY DEF AtLeast
<1>3. k \in Nat
  BY <1>1, VisibleIs
<1>4. \A s \in Visible : Precedes(s, Here(m)) => Of(writes, s) <= k
  BY <1>1, VisibleIs, EntriesAreOrdered
<1>5. \A s \in Visible : ~ Precedes(s, Here(m)) => Of(writes, s) > k \/ Of(writes, s) = k
  <2>1. TAKE s \in Visible
  <2>2. HAVE ~ Precedes(s, Here(m))
  <2>3. k <= Of(writes, s)
    BY <1>1, <2>2, VisibleIs, EntriesAreOrdered
  <2>4. QED BY <1>3, <2>3, VisibleIs
<1>6. p[1] = k
  OBVIOUS
<1> HIDE DEF k
<1>7. Ahead(m, TRUE, k, c, p)
  BY <1>1, <1>2, <1>3, <1>4, <1>5, <1>6 DEF Ahead
<1>8. QED BY <1>7 DEF k

(* After a move back, the entries of the key are still to be passed.       *)
LEMMA NextAfterPrevIsAhead ==
    ASSUME Written, NEW m, Sound(m), NEW key, NEW value, Stands(m, "reverse", key, value),
           NEW c, NEW p, c = <<"next", 0>>, p[1] = key,
           NEW on, on = IF Valid(m) THEN MNext(m) ELSE MSeekToFirst
    PROVE  Sound(on) /\ IF Valid(on) THEN Ahead(on, TRUE, key, c, p) ELSE NothingAhead(c, p)
<1>1. /\ key \in DOMAIN View
      /\ Valid(m) => Of(writes, Here(m)) < key
      /\ \A s \in Visible : Of(writes, s) < key => ~ Passed(m, s)
  BY DEF Stands
<1>2. key \in Nat
  BY <1>1, ViewIs
<1>3. Sound(on)
  BY MNextIs, MSeekToFirstIs
<1>4. c[1] = "next" /\ \A j : AtLeast(c, p, j) <=> j > key
  BY DEF AtLeast
<1>5. Valid(m) => Here(m) \in DOMAIN writes /\ Of(writes, Here(m)) \in Nat
  BY HereIs, EntriesAre DEF Sound
<1>6. \A s \in Visible : Of(writes, s) >= key => Valid(on) /\ Upto(Here(on), s)
  <2>1. CASE Valid(m)
    <3>1. \A s \in Visible : Of(writes, s) >= key => Precedes(Here(m), s)
      BY <1>1, <1>2, <1>5, <2>1, VisibleIs, EntriesAreOrdered
    <3>2. QED BY <2>1, <3>1, MNextIs
  <2>2. CASE ~ Valid(m)
    BY <2>2, MSeekToFirstIs
  <2>3. QED BY <2>1, <2>2
<1>7. CASE ~ Valid(on)
  <2>1. ASSUME NEW j \in DOMAIN View, j > key PROVE FALSE
    <3>1. j \in Nat /\ View[j] \in Visible /\ Of(writes, View[j]) = j
      BY ViewIs
    <3>2. Of(writes, View[j]) >= key
      BY <1>2, <2>1, <3>1
    <3>3. QED BY <1>6, <1>7, <3>1, <3>2
  <2>2. QED BY <1>3, <1>4, <1>7, <2>1 DEF NothingAhead
<1>8. CASE Valid(on)
  <2>1. Here(on) \in DOMAIN writes
    BY <1>3, <1>8, HereIs DEF Sound
  <2>2. \A s \in Visible : Precedes(s, Here(on)) => Of(writes, s) < key
    <3>1. TAKE s \in Visible
    <3>2. HAVE Precedes(s, Here(on))
    <3>3. ~ Upto(Here(on), s)
      BY <2>1, <3>2, VisibleIs, EntriesAreOrdered DEF Upto
    <3>4. QED BY <1>2, <1>6, <3>3, VisibleIs
  <2>3. \A s \in Visible : ~ Precedes(s, Here(on)) => Of(writes, s) >= key
    <3>1. TAKE s \in Visible
    <3>2. HAVE ~ Precedes(s, Here(on))
    <3>3. SUFFICES ASSUME Of(writes, s) < key PROVE FALSE
      BY <1>2, VisibleIs
    <3>4. Valid(m) /\ Upto(s, Here(m))
      BY <1>1, <3>3 DEF Passed
    <3>5. on = MNext(m) /\ Precedes(Here(m), Here(on))
      BY <1>8, <3>4, MNextIs
    <3>6. QED BY <1>5, <2>1, <3>2, <3>4, <3>5, VisibleIs, EntriesAreOrdered DEF Upto
  <2>4. Ahead(on, TRUE, key, c, p)
    <3>1. /\ c[1] \in {"first", "seek", "next"}
          /\ \A s \in Visible : Precedes(s, Here(on)) =>
                 ~ AtLeast(c, p, Of(writes, s)) \/ (TRUE /\ Of(writes, s) <= key)
      BY <1>2, <1>4, <2>2, VisibleIs
    <3>2. \A k \in DOMAIN View : AtLeast(c, p, k) => k > key
      BY <1>4
    <3>3. \A s \in Visible : ~ Precedes(s, Here(on)) =>
              AtLeast(c, p, Of(writes, s)) \/ (c[1] = "next" /\ Of(writes, s) = p[1])
      BY <1>2, <1>4, <2>3, VisibleIs
    <3>4. key >= p[1]
      BY <1>2
    <3>5. QED BY <1>8, <3>1, <3>2, <3>3, <3>4 DEF Ahead
  <2>5. QED BY <1>3, <1>8, <2>4
<1>9. QED BY <1>3, <1>7, <1>8

\* What a call yields when it goes forward, or back.
NearestAhead(k, c, p) ==
    k \in DOMAIN View /\ AtLeast(c, p, k) /\ \A j \in DOMAIN View : AtLeast(c, p, j) => k <= j
NearestBehind(k, c, p) ==
    k \in DOMAIN View /\ Below(c, p, k) /\ \A j \in DOMAIN View : Below(c, p, j) => j <= k

LEMMA YieldsNearestAhead ==
    ASSUME Written, NEW m, Sound(m), NEW skip, NEW key \in Nat, NEW c, NEW p, Seeks(c, p),
           Ahead(m, skip, key, c, p),
           Here(m) <= sequence, ~ writes[Here(m)].del, ~ (skip /\ Of(writes, Here(m)) <= key)
    PROVE  /\ Here(m) \in Visible /\ View[Of(writes, Here(m))] = Here(m)
           /\ NearestAhead(Of(writes, Here(m)), c, p)
<1> DEFINE s == Here(m)
           k == Of(writes, s)
<1>1. s \in Visible /\ s \in DOMAIN writes /\ k \in Nat
  BY HereIs, EntriesAre DEF Ahead, Sound, Visible
<1>2. /\ \A t \in Visible : Precedes(t, s) =>
             ~ AtLeast(c, p, Of(writes, t)) \/ (skip /\ Of(writes, t) <= key)
      /\ skip => \A j \in DOMAIN View : AtLeast(c, p, j) => j > key
      /\ \A t \in Visible : ~ Precedes(t, s) =>
             AtLeast(c, p, Of(writes, t)) \/ (c[1] = "next" /\ Of(writes, t) = p[1])
      /\ c[1] = "next" => skip /\ key >= p[1] /\ p[1] \in Nat
  BY DEF Ahead, Seeks
<1>3. ~ writes[s].del /\ ~ (skip /\ k <= key)
  OBVIOUS
<1> HIDE DEF s
<1>4. AtLeast(c, p, k)
  BY <1>1, <1>2, <1>3, EntriesAreOrdered
<1>5. \A t \in Visible : Of(writes, t) = k => Upto(s, t)
  <2>1. TAKE t \in Visible
  <2>2. HAVE Of(writes, t) = k
  <2>3. ~ Precedes(t, s)
    BY <1>2, <1>3, <1>4, <2>2
  <2>4. QED BY <1>1, <2>3, VisibleIs, EntriesAreOrdered DEF Upto
<1>6. k \in DOMAIN View /\ View[k] = s
  BY <1>1, <1>3, <1>5, ViewIs
<1>7. ASSUME NEW j \in DOMAIN View, AtLeast(c, p, j) PROVE k <= j
  <2>1. j \in Nat /\ View[j] \in Visible /\ Of(writes, View[j]) = j
    BY ViewIs
  <2>2. ~ Precedes(View[j], s)
    <3>1. ~ (skip /\ j <= key)
      BY <1>2, <1>7, <2>1
    <3>2. QED BY <1>2, <1>7, <2>1, <3>1
  <2>3. QED BY <1>1, <2>1, <2>2, VisibleIs, EntriesAreOrdered
<1>8. QED BY <1>1, <1>4, <1>6, <1>7 DEF NearestAhead, s

(* An entry that is hidden, deletes its key, or is of a key to be skipped, *)
(* is passed; a deletion has the older entries of its key skipped as well. *)
LEMMA PassesAhead ==
    ASSUME Written, NEW m, Sound(m), NEW skip \in BOOLEAN, NEW key \in Nat, NEW c, NEW p, Seeks(c, p),
           Ahead(m, skip, key, c, p),
           ~ (Here(m) <= sequence /\ ~ writes[Here(m)].del /\ ~ (skip /\ Of(writes, Here(m)) <= key)),
           NEW deletes, deletes = (Here(m) <= sequence /\ writes[Here(m)].del)
    PROVE  IF Valid(MNext(m))
           THEN Ahead(MNext(m), IF deletes THEN TRUE ELSE skip,
                      IF deletes THEN Of(writes, Here(m)) ELSE key, c, p)
           ELSE NothingAhead(c, p)
<1> DEFINE s == Here(m)
           k == Of(writes, s)
           on == MNext(m)
           skips == IF deletes THEN TRUE ELSE skip
           skipped == IF deletes THEN k ELSE key
<1>1. s \in DOMAIN writes /\ k \in Nat /\ Valid(m)
  BY HereIs, EntriesAre DEF Ahead, Sound
<1>2. /\ \A t \in Visible : Precedes(t, s) =>
             ~ AtLeast(c, p, Of(writes, t)) \/ (skip /\ Of(writes, t) <= key)
      /\ skip => \A j \in DOMAIN View : AtLeast(c, p, j) => j > key
      /\ \A t \in Visible : ~ Precedes(t, s) =>
             AtLeast(c, p, Of(writes, t)) \/ (c[1] = "next" /\ Of(writes, t) = p[1])
      /\ c[1] = "next" => skip /\ key >= p[1] /\ p[1] \in Nat
      /\ c[1] \in {"first", "seek", "next"}
      /\ c[1] = "seek" => c[2] \in Nat
  BY DEF Ahead, Seeks
<1>3. /\ Valid(on) => Precedes(s, Here(on)) /\ Here(on) \in DOMAIN writes
      /\ \A t \in Visible : Precedes(s, t) => Valid(on) /\ Upto(Here(on), t)
  BY <1>1, MNextIs, HereIs DEF Sound
<1>4. deletes => s \in Visible /\ writes[s].del
  BY <1>1 DEF Visible
<1>5. ~ deletes => s \notin Visible \/ (skip /\ k <= key)
  BY <1>1 DEF Visible
<1> HIDE DEF s, on, k
\* The keys of the view that are to come are not skipped.
<1>6. skips => \A j \in DOMAIN View : AtLeast(c, p, j) => j > skipped
  <2>1. CASE deletes
    <3>1. SUFFICES ASSUME NEW j \in DOMAIN View, AtLeast(c, p, j) PROVE j > k
      BY <2>1
    <3>2. j \in Nat /\ View[j] \in Visible /\ Of(writes, View[j]) = j /\ ~ writes[View[j]].del
          /\ \A t \in Visible : Of(writes, t) = j => Upto(View[j], t)
      BY ViewIs
    <3>3. ~ Precedes(View[j], s)
      <4>1. ~ (skip /\ j <= key)
        BY <1>2, <3>1, <3>2
      <4>2. QED BY <1>2, <3>1, <3>2, <4>1
    <3>4. View[j] # s
      BY <1>4, <2>1, <3>2
    <3>5. Precedes(s, View[j])
      BY <1>1, <3>2, <3>3, <3>4, VisibleIs, EntriesAreOrdered
    <3>6. k # j
      BY <1>1, <1>4, <2>1, <3>2, <3>3, <3>4, VisibleIs, EntriesAreOrdered DEF Upto, k
    <3>7. k <= j
      BY <1>1, <3>2, <3>5, VisibleIs, EntriesAreOrdered DEF k
    <3>8. QED BY <1>1, <3>2, <3>6, <3>7
  <2>2. CASE ~ deletes
    BY <1>2, <2>2
  <2>3. QED BY <2>1, <2>2
\* What is passed now.
<1>7. ASSUME NEW t \in Visible, Valid(on) => Precedes(t, Here(on))
      PROVE  ~ AtLeast(c, p, Of(writes, t)) \/ (skips /\ Of(writes, t) <= skipped)
  <2>1. ~ Precedes(s, t)
    <3>1. SUFFICES ASSUME Precedes(s, t) PROVE FALSE
      OBVIOUS
    <3>2. Valid(on) /\ Upto(Here(on), t) /\ Precedes(t, Here(on))
      BY <1>3, <1>7, <3>1
    <3>3. QED BY <1>3, <3>2, VisibleIs, EntriesAreOrdered DEF Upto
  <2>2. CASE t = s
    <3>1. Of(writes, t) = k
      BY <2>2 DEF k
    <3>2. QED BY <1>1, <1>5, <2>2, <3>1
  <2>3. CASE Precedes(t, s)
    <3>1. Of(writes, t) <= k
      BY <1>1, <2>3, VisibleIs, EntriesAreOrdered DEF k
    <3>2. ~ AtLeast(c, p, Of(writes, t)) \/ (skip /\ Of(writes, t) <= key)
      BY <1>2, <2>3
    <3>3. QED BY <3>1, <3>2
  <2>4. QED BY <1>1, <2>1, <2>2, <2>3, VisibleIs, EntriesAreOrdered
<1>8. CASE Valid(on)
  <2>1. \A t \in Visible : Precedes(t, Here(on)) =>
            ~ AtLeast(c, p, Of(writes, t)) \/ (skips /\ Of(writes, t) <= skipped)
    BY <1>7
  <2>2. \A t \in Visible : ~ Precedes(t, Here(on)) =>
            AtLeast(c, p, Of(writes, t)) \/ (c[1] = "next" /\ Of(writes, t) = p[1])
    BY <1>1, <1>2, <1>3, <1>8, VisibleIs, EntriesAreOrdered
  <2>3. c[1] = "next" => skips /\ skipped >= p[1]
    <3>1. CASE deletes /\ c[1] = "next"
      <4>1. AtLeast(c, p, k) \/ k = p[1]
        BY <1>1, <1>2, <1>4, <3>1, EntriesAreOrdered DEF k
      <4>2. k >= p[1]
        BY <1>1, <1>2, <3>1, <4>1 DEF AtLeast
      <4>3. QED BY <3>1, <4>2
    <3>2. CASE ~ deletes
      BY <1>2, <3>2
    <3>3. QED BY <3>1, <3>2
  <2>4. Ahead(on, skips, skipped, c, p)
    <3> HIDE DEF skips, skipped
    <3>1. QED BY <1>2, <1>6, <1>8, <2>1, <2>2, <2>3 DEF Ahead
  <2>5. QED BY <1>8, <2>4 DEF on, s, k
<1>9. CASE ~ Valid(on)
  <2>1. ASSUME NEW j \in DOMAIN View, AtLeast(c, p, j) PROVE FALSE
    <3>1. j \in Nat /\ View[j] \in Visible /\ Of(writes, View[j]) = j
      BY ViewIs
    <3>2. skips /\ j <= skipped
      BY <1>7, <1>9, <2>1, <3>1
    <3>3. j > skipped
      BY <1>6, <2>1, <3>2
    <3>4. skipped \in Nat
      BY <1>1
    <3> HIDE DEF skipped
    <3>5. QED BY <3>1, <3>2, <3>3, <3>4
  <2>2. QED BY <1>9, <2>1 DEF NothingAhead, on
<1>10. QED BY <1>8, <1>9 DEF on

LEMMA LastIsBehind ==
    ASSUME Written, NEW key, NEW value, NEW c, NEW p, c = <<"last", 0>>
    PROVE  Behind(MSeekToLast, "deletion", key, value, c, p)
<1> DEFINE m == MSeekToLast
<1>1. m.dir = "reverse" /\ \A s \in Visible : Valid(m) /\ Upto(s, Here(m))
  BY MSeekToLastIs
<1>2. \A j \in DOMAIN View : View[j] \in Visible
  BY ViewIs
<1>3. c[1] = "last" /\ \A j : Below(c, p, j)
  BY DEF Below
<1> HIDE DEF m
<1>4. Behind(m, "deletion", key, value, c, p)
  BY <1>1, <1>2, <1>3 DEF Behind, Passed
<1>5. QED BY <1>4 DEF m

LEMMA PrevIsBehind ==
    ASSUME Written, NEW m, Sound(m), NEW key, NEW value, Stands(m, "reverse", key, value),
           NEW c, NEW p, c = <<"prev", 0>>, p[1] = key
    PROVE  Behind(m, "deletion", key, value, c, p)
<1>1. c[1] = "prev" /\ \A j : Below(c, p, j) <=> j < key
  BY DEF Below
<1>2. /\ m.dir = "reverse"
      /\ Valid(m) => Of(writes, Here(m)) < key
      /\ \A s \in Visible : Of(writes, s) < key => ~ Passed(m, s)
  BY DEF Stands
<1>3. \A j \in DOMAIN View : View[j] \in Visible /\ Of(writes, View[j]) = j
  BY ViewIs
<1>4. QED BY <1>1, <1>2, <1>3 DEF Behind

(* Scanning back over the entries of the key itself: on is the state after *)
(* one more Prev.                                                          *)
LEMMA BackIsBehind ==
    ASSUME Written, NEW on, on.dir = "reverse", NEW key \in Nat,
           \A s \in Visible : Of(writes, s) < key => Valid(on) /\ Upto(s, Here(on)),
           NEW value, NEW c, NEW p, c[1] = "prev", p[1] = key
    PROVE  /\ ~ Valid(on) => NothingBehind(c, p)
           /\ Valid(on) /\ Of(writes, Here(on)) < key =>
                  Behind(on, "deletion", key, value, c, p)
<1>1. \A j : Below(c, p, j) <=> j < key
  BY DEF Below
<1>2. \A j \in DOMAIN View : View[j] \in Visible /\ Of(writes, View[j]) = j
  BY ViewIs
<1>3. ~ Valid(on) => NothingBehind(c, p)
  BY <1>1, <1>2 DEF NothingBehind
<1>4. Valid(on) /\ Of(writes, Here(on)) < key => Behind(on, "deletion", key, value, c, p)
  BY <1>1, <1>2 DEF Behind, Passed
<1>5. QED BY <1>3, <1>4

(* What Prev owes is all that is visible, when nothing of it is passed.    *)
LEMMA MPrevPassesNothing ==
    ASSUME Written, NEW m, Sound(m), Valid(m), m.dir = "reverse"
    PROVE  /\ Sound(MPrev(m)) /\ MPrev(m).dir = "reverse"
           /\ Valid(MPrev(m)) => Precedes(Here(MPrev(m)), Here(m))
           /\ \A s \in Visible : Precedes(s, Here(m)) =>
                  Valid(MPrev(m)) /\ Upto(s, Here(MPrev(m)))
<1> DEFINE V == Visible
<1>1. SoundFor(m, V) /\ V \subseteq DOMAIN writes
  BY DEF Sound, SoundFor, Visible
<1> HIDE DEF V
<1>2. /\ SoundFor(MPrev(m), V) /\ MPrev(m).dir = "reverse"
      /\ Valid(MPrev(m)) => Precedes(Here(MPrev(m)), Here(m))
      /\ \A s \in V : Precedes(s, Here(m)) => Valid(MPrev(m)) /\ Upto(s, Here(MPrev(m)))
  BY <1>1, MPrevIs
<1>3. QED BY <1>2 DEF V, Sound, SoundFor

(* The loop goes back over one more entry.                                 *)
LEMMA PassesBehind ==
    ASSUME Written, NEW m, Sound(m), Valid(m), NEW type, NEW key, NEW value, NEW c, NEW p, Seeks(c, p),
           Behind(m, type, key, value, c, p), type \in {"deletion", "value"},
           Here(m) \in Visible => type = "deletion" \/ ~ (Of(writes, Here(m)) < key),
           NEW e, e = writes[Here(m)]
    PROVE  IF Here(m) \notin Visible THEN Behind(MPrev(m), type, key, value, c, p)
           ELSE Behind(MPrev(m), IF e.del THEN "deletion" ELSE "value",
                       IF e.del THEN 0 ELSE e.key, IF e.del THEN 0 ELSE Here(m), c, p)
<1> DEFINE s == Here(m)
           k == Of(writes, s)
           on == MPrev(m)
<1>1. s \in DOMAIN writes /\ k \in Nat /\ e.key = k
  BY HereIs, EntriesAre DEF Sound, Of
<1>2. /\ c[1] \in {"prev", "last"} /\ m.dir = "reverse"
      /\ Below(c, p, k)
      /\ \A j \in DOMAIN View : Below(c, p, j) /\ Passed(m, View[j]) => type = "value" /\ j = key
      /\ type = "value" =>
             /\ value \in Visible /\ ~ writes[value].del /\ Of(writes, value) = key
             /\ Below(c, p, key) /\ Passed(m, value)
             /\ \A t \in Visible : Below(c, p, Of(writes, t)) /\ Passed(m, t) => Upto(value, t)
  BY DEF Behind
<1>3. /\ on.dir = "reverse"
      /\ Valid(on) => Precedes(Here(on), s) /\ Here(on) \in DOMAIN writes
      /\ \A t \in Visible : Precedes(t, s) => Valid(on) /\ Upto(t, Here(on))
  BY <1>1, <1>2, MPrevPassesNothing, HereIs DEF Sound
<1>4. \A t \in Visible : (Passed(m, t) <=> Precedes(s, t)) /\ t \in DOMAIN writes
  BY <1>1, VisibleIs, EntriesAreOrdered DEF Passed, Upto
<1>5. \A t \in Visible : Passed(on, t) <=> t = s \/ Precedes(s, t)
  <2>1. TAKE t \in Visible
  <2>2. t \in DOMAIN writes
    BY VisibleIs
  <2> HIDE DEF on, s
  <2>3. CASE Precedes(t, s)
    BY <1>1, <1>3, <2>2, <2>3, EntriesAreOrdered DEF Passed
  <2>4. CASE t = s \/ Precedes(s, t)
    BY <1>1, <1>3, <2>2, <2>4, EntriesAreOrdered DEF Passed, Upto
  <2>5. QED BY <1>1, <2>2, <2>3, <2>4, EntriesAreOrdered
<1>6. Valid(on) => Below(c, p, Of(writes, Here(on)))
  <2>1. SUFFICES ASSUME Valid(on), c[1] = "prev" PROVE Of(writes, Here(on)) < p[1]
    BY DEF Below
  <2>2. Of(writes, Here(on)) <= k /\ Of(writes, Here(on)) \in Nat
    BY <1>1, <1>3, <2>1, EntriesAre, EntriesAreOrdered
  <2>3. k < p[1] /\ p[1] \in Nat
    BY <1>2, <2>1 DEF Below, Seeks
  <2>4. QED BY <1>1, <2>2, <2>3
<1>7. e = writes[s] /\ (s \in Visible => type = "deletion" \/ ~ (k < key))
  OBVIOUS
<1>8. \A j \in DOMAIN View : /\ View[j] \in Visible /\ Of(writes, View[j]) = j /\ j \in Nat
                             /\ ~ writes[View[j]].del
                             /\ \A t \in Visible : Of(writes, t) = j => Upto(View[j], t)
  BY ViewIs
<1> HIDE DEF s, on
<1>9. CASE s \notin Visible
  <2>1. \A t \in Visible : Passed(on, t) <=> Passed(m, t)
    BY <1>4, <1>5, <1>9
  <2>2. Behind(on, type, key, value, c, p)
    BY <1>2, <1>3, <1>6, <1>8, <2>1 DEF Behind
  <2>3. QED BY <1>9, <2>2 DEF s, on
<1>10. CASE s \in Visible
  \* An entry passed before is not the newest of a key that is passed now.
  <2>1. ASSUME NEW j \in DOMAIN View, Below(c, p, j), Passed(on, View[j]) PROVE View[j] = s
    <3>1. SUFFICES ASSUME View[j] # s PROVE FALSE
      OBVIOUS
    <3>2. Precedes(s, View[j]) /\ Passed(m, View[j])
      BY <1>4, <1>5, <1>8, <2>1, <3>1
    <3>3. type = "value" /\ j = key
      BY <1>2, <2>1, <3>2
    <3>4. k <= j
      BY <1>1, <1>8, <3>2, VisibleIs, EntriesAreOrdered
    <3>5. k = j
      BY <1>1, <1>7, <1>8, <1>10, <3>3, <3>4
    <3>6. Upto(View[j], s)
      BY <1>8, <1>10, <3>5
    <3>7. QED BY <1>1, <1>8, <3>2, <3>6, VisibleIs, EntriesAreOrdered DEF Upto
  <2>2. CASE e.del
    <3>1. \A j \in DOMAIN View : ~ (Below(c, p, j) /\ Passed(on, View[j]))
      BY <1>7, <1>8, <2>1, <2>2
    <3>2. Behind(on, "deletion", 0, 0, c, p)
      BY <1>2, <1>3, <1>6, <3>1 DEF Behind
    <3>3. QED BY <1>10, <2>2, <3>2 DEF s, on
  <2>3. CASE ~ e.del
    <3>1. \A j \in DOMAIN View : Below(c, p, j) /\ Passed(on, View[j]) => j = k
      BY <1>8, <2>1
    <3>2. \A t \in Visible : Passed(on, t) => Upto(s, t)
      BY <1>5 DEF Upto
    <3>3. Passed(on, s)
      BY <1>5, <1>10
    <3> HIDE DEF k
    <3>4. Behind(on, "value", k, s, c, p)
      BY <1>2, <1>3, <1>6, <1>7, <1>10, <2>3, <3>1, <3>2, <3>3 DEF Behind, k
    <3>5. QED BY <1>1, <1>10, <2>3, <3>4 DEF s, on
  <2>4. QED BY <2>2, <2>3
<1>11. QED BY <1>9, <1>10

(* The loop ends: at the front, or at the entries of a smaller key.        *)
LEMMA EndsBehind ==
    ASSUME Written, NEW m, Sound(m), NEW type \in {"deletion", "value"}, NEW key, NEW value,
           NEW c, NEW p, Seeks(c, p), Behind(m, type, key, value, c, p),
           ~ Valid(m) \/ (type = "value" /\ Of(writes, Here(m)) < key)
    PROVE  /\ type = "deletion" => NothingBehind(c, p)
           /\ type = "value" => Stands(m, "reverse", key, value) /\ NearestBehind(key, c, p)
<1>1. /\ c[1] \in {"prev", "last"} /\ m.dir = "reverse"
      /\ \A j \in DOMAIN View : Below(c, p, j) /\ Passed(m, View[j]) => type = "value" /\ j = key
      /\ type = "value" =>
             /\ value \in Visible /\ ~ writes[value].del /\ Of(writes, value) = key
             /\ Below(c, p, key) /\ Passed(m, value)
             /\ \A t \in Visible : Below(c, p, Of(writes, t)) /\ Passed(m, t) => Upto(value, t)
      /\ c[1] = "prev" => p[1] \in Nat
  BY DEF Behind, Seeks
<1>2. \A j \in DOMAIN View : View[j] \in Visible /\ Of(writes, View[j]) = j /\ j \in Nat
  BY ViewIs
<1>3. CASE type = "deletion"
  <2>1. \A s : Passed(m, s)
    BY <1>3 DEF Passed
  <2>2. QED BY <1>1, <1>3, <2>1 DEF NothingBehind
<1>4. CASE type = "value"
  <2>1. value \in DOMAIN writes /\ key \in Nat
    BY <1>1, <1>4, VisibleIs
  <2>2. \A s \in Visible : Of(writes, s) >= key => Passed(m, s)
    <3>1. CASE Valid(m)
      <4>1. Here(m) \in DOMAIN writes /\ Of(writes, Here(m)) < key /\ Of(writes, Here(m)) \in Nat
        BY <1>4, <3>1, HereIs, EntriesAre DEF Sound
      <4>2. QED BY <2>1, <4>1, VisibleIs, EntriesAreOrdered DEF Passed, Upto
    <3>2. CASE ~ Valid(m)
      BY <3>2 DEF Passed
    <3>3. QED BY <3>1, <3>2
  <2>3. \A s \in Visible : Of(writes, s) = key => Upto(value, s)
    BY <1>1, <1>4, <2>1, <2>2
  <2>4. key \in DOMAIN View /\ View[key] = value
    BY <1>1, <1>4, <2>3, ViewIs
  <2>5. \A s \in Visible : Of(writes, s) < key => ~ Passed(m, s)
    <3>1. SUFFICES ASSUME NEW s \in Visible, Of(writes, s) < key, Passed(m, s) PROVE FALSE
      OBVIOUS
    <3>2. Below(c, p, Of(writes, s))
      BY <1>1, <1>4, <2>1, <3>1, VisibleIs DEF Below
    <3>3. Upto(value, s)
      BY <1>1, <1>4, <3>1, <3>2
    <3>4. key <= Of(writes, s)
      BY <1>1, <1>4, <2>1, <3>3, VisibleIs, EntriesAreOrdered DEF Upto
    <3>5. QED BY <2>1, <3>1, <3>4, VisibleIs
  <2>6. Valid(m) => Of(writes, Here(m)) < key
    BY <1>4
  <2>7. ASSUME NEW j \in DOMAIN View, Below(c, p, j) PROVE j <= key
    <3>1. CASE j >= key
      <4>1. j = key
        BY <1>1, <1>2, <2>2, <2>7, <3>1
      <4>2. QED BY <2>1, <4>1
    <3>2. QED BY <1>2, <2>1, <3>1
  <2>8. QED BY <1>1, <1>4, <2>4, <2>5, <2>6, <2>7 DEF Stands, NearestBehind
<1>5. QED BY <1>3, <1>4
-----------------------------------------------------------------------------
\* Others only add entries, and none that the iterator may see.
Grows ==
    /\ sequence' = sequence /\ Written'
    /\ \A s \in DOMAIN writes : s \in DOMAIN writes' /\ writes'[s] = writes[s]
    /\ \A s \in DOMAIN writes' : s \in DOMAIN writes \/ s > sequence

LEMMA GrowsIs ==
    ASSUME Written, Grows
    PROVE  /\ Visible' = Visible /\ View' = View
           /\ \A s \in DOMAIN writes : writes'[s].key = writes[s].key
<1>1. Visible' = Visible
  <2>1. \A s \in DOMAIN writes' : s \in Nat
    <3>1. writes' \in Seq(Entry)
      BY DEF Grows, Written
    <3>2. DOMAIN writes' = 1..Len(writes') /\ Len(writes') \in Nat
      BY <3>1
    <3>3. QED BY <3>2
  <2>2. sequence \in Nat /\ \A s \in DOMAIN writes : s \in Nat
    BY EntriesAre DEF Written
  <2>3. \A s \in DOMAIN writes' : s <= sequence => s \in DOMAIN writes
    BY <2>1, <2>2 DEF Grows
  <2>4. QED BY <2>3 DEF Visible, Grows
<1>2. \A s \in Visible : s \in DOMAIN writes /\ writes'[s] = writes[s]
  BY DEF Visible, Grows
<1>3. \A k : Newest(k)' = Newest(k)
  <2>1. TAKE k
  <2> DEFINE seen == {s \in Visible : writes[s].key = k}
             seenThen == {s \in Visible' : writes'[s].key = k}
  <2>2. seenThen = seen
    BY <1>1, <1>2
  <2>3. Newest(k) = {s \in seen : ~ writes[s].del /\ \A t \in seen : t <= s}
    BY DEF Newest, Visible, Of
  <2>4. Newest(k)' = {s \in seenThen : ~ writes'[s].del /\ \A t \in seenThen : t <= s}
    BY DEF Newest, Visible, Of
  <2>5. \A s \in seen : writes'[s] = writes[s]
    BY <1>2
  <2> HIDE DEF seen, seenThen
  <2>6. QED BY <2>2, <2>3, <2>4, <2>5
<1>4. View' = View
  BY <1>3 DEF View
<1>5. QED BY <1>1, <1>4 DEF Grows

\* The order of the entries there were, as it is after the step.
LEMMA OrderStays ==
    ASSUME Written, Grows, NEW s \in DOMAIN writes, NEW t \in DOMAIN writes
    PROVE  /\ (writes'[s].key < writes'[t].key \/ (writes'[s].key = writes'[t].key /\ s > t))
                  <=> Precedes(s, t)
           /\ writes'[s].key = Of(writes, s)
<1>1. writes'[s].key = writes[s].key /\ writes'[t].key = writes[t].key
  BY GrowsIs
<1>2. QED BY <1>1 DEF Precedes, Of

\* What the merging iterator has to see.
OwedNow == {s \in Visible : Owed(s)}

LEMMA OwedIs ==
    ASSUME Written
    PROVE  /\ pc # "back" \/ merging.dir # "reverse" => OwedNow = Visible
           /\ pc = "back" /\ merging.dir = "reverse" =>
                  OwedNow = {s \in Visible : Of(writes, s) < saved}
BY DEF OwedNow, Owed, Visible

LEMMA SoundStays ==
    ASSUME Written, Grows, NEW m, NEW V, SoundFor(m, V), merging' = m,
           V \subseteq Visible, OwedNow' = V
    PROVE  SoundFor(merging, OwedNow)'
<1>1. \A c \in Children : \A s : s \in In(c)' => s \in In(c) \/ s > sequence
  BY DEF In, Grows
<1>2. \A c \in Children : \A s \in In(c) : s \in In(c)' /\ s \in DOMAIN writes
  BY DEF In, Grows
<1>3. Positioned(merging)'
  BY <1>2 DEF SoundFor, Positioned, Merging, Valid
<1>4. InPlace(merging, OwedNow)'
  <2>1. CASE Valid(m)
    <3>1. Here(m) \in DOMAIN writes /\ Here(m) = m.pos[m.current]
      BY <2>1, HereIs DEF SoundFor
    <3>2. ASSUME NEW c \in Children \ {m.current}, NEW s \in In(c)'
          PROVE  LET here == m.pos[m.current]
                     now(a, b) == \/ writes'[a].key < writes'[b].key
                                  \/ (writes'[a].key = writes'[b].key /\ a > b)
                     beyond(t) == IF m.dir = "forward" THEN now(here, t) ELSE now(t, here)
                     later(t) == IF m.dir = "forward" THEN now(m.pos[c], t) ELSE now(t, m.pos[c])
                 IN /\ s = m.pos[c] => beyond(s)
                    /\ beyond(s) /\ s \in V => m.pos[c] # 0 /\ (s = m.pos[c] \/ later(s))
      <4>1. m.pos[c] = 0 \/ m.pos[c] \in In(c)
        BY DEF SoundFor, Positioned
      <4>2. CASE s \in In(c)
        <5>1. LET beyond(t) == IF m.dir = "forward" THEN Precedes(Here(m), t) ELSE Precedes(t, Here(m))
                  later(t) == IF m.dir = "forward" THEN Precedes(m.pos[c], t)
                              ELSE Precedes(t, m.pos[c])
              IN /\ s = m.pos[c] => beyond(s)
                 /\ beyond(s) /\ s \in V => m.pos[c] # 0 /\ (s = m.pos[c] \/ later(s))
          BY <2>1, <4>2 DEF SoundFor, InPlace
        <5>2. s \in DOMAIN writes /\ (m.pos[c] # 0 => m.pos[c] \in DOMAIN writes)
          BY <1>2, <4>1, <4>2
        <5>3. QED BY <3>1, <5>1, <5>2, OrderStays
      <4>3. CASE s \notin In(c)
        <5>1. s > sequence /\ s \in Nat /\ sequence \in Nat
          <6>1. s \in DOMAIN writes' /\ writes' \in Seq(Entry) /\ sequence \in Nat
            BY DEF In, Grows, Written
          <6>2. DOMAIN writes' = 1..Len(writes') /\ Len(writes') \in Nat
            BY <6>1
          <6>3. QED BY <1>1, <4>3, <6>1, <6>2
        <5>2. s # m.pos[c]
          <6>1. s # 0
            BY <5>1
          <6>2. QED BY <4>1, <4>3, <6>1
        <5>3. s \notin V
          BY <5>1 DEF Visible
        <5>4. QED BY <5>2, <5>3
      <4>4. QED BY <4>2, <4>3
    <3>3. QED BY <3>2 DEF InPlace, Valid, Here, Precedes, Of
  <2>2. CASE ~ Valid(m)
    BY <2>2 DEF InPlace, Valid
  <2>3. QED BY <2>1, <2>2
<1>5. QED BY <1>3, <1>4 DEF SoundFor

\* Unless it scans back, the merging iterator has to see all that is visible.
LEMMA AllSoundStays ==
    ASSUME Written, Grows, NEW m, Sound(m), merging' = m, pc' # "back" \/ m.dir # "reverse"
    PROVE  SoundFor(merging, OwedNow)'
<1> DEFINE V == Visible
<1>1. Written' /\ Visible' = V
  BY GrowsIs DEF Grows
<1>2. OwedNow' = V
  <2>1. \A s \in Visible' : s <= sequence'
    BY DEF Visible
  <2>2. OwedNow' = Visible'
    BY <2>1 DEF OwedNow, Owed
  <2>3. QED BY <1>1, <2>2
<1>3. SoundFor(m, V)
  BY DEF Sound, SoundFor
<1> HIDE DEF V
<1>4. V \subseteq Visible
  BY DEF V
<1>5. QED BY <1>2, <1>3, <1>4, SoundStays

LEMMA AheadStays ==
    ASSUME Written, Grows, NEW m, Sound(m), merging' = m, NEW skip, NEW key, NEW c, NEW p,
           skipping' = skip, saved' = key, call' = c, was'[1] = p, Ahead(m, skip, key, c, p)
    PROVE  Ahead(merging, skipping, saved, call, was[1])'
<1>1. Visible' = Visible /\ View' = View
  BY GrowsIs
<1>2. Here(m) \in DOMAIN writes /\ Here(m) = m.pos[m.current]
  BY HereIs DEF Ahead, Sound
<1>3. \A s \in Visible : /\ writes'[s].key = Of(writes, s)
                         /\ (\/ writes'[s].key < writes'[m.pos[m.current]].key
                             \/ (writes'[s].key = writes'[m.pos[m.current]].key /\ s > m.pos[m.current]))
                            <=> Precedes(s, Here(m))
  BY <1>2, VisibleIs, OrderStays
<1>4. QED BY <1>1, <1>3 DEF Ahead, AtLeast, Valid, Here, Precedes, Of

LEMMA BehindStays ==
    ASSUME Written, Grows, NEW m, Sound(m), merging' = m, NEW type, NEW key, NEW value, NEW c, NEW p,
           valueType' = type, saved' = key, savedValue' = value, call' = c, was'[1] = p,
           Behind(m, type, key, value, c, p)
    PROVE  Behind(merging, valueType, saved, savedValue, call, was[1])'
<1>1. Visible' = Visible /\ View' = View
  BY GrowsIs
<1>2. Valid(m) => Here(m) \in DOMAIN writes /\ Here(m) = m.pos[m.current]
  BY HereIs DEF Sound
<1>3. \A s \in Visible : /\ s \in DOMAIN writes /\ writes'[s] = writes[s]
                         /\ writes'[s].key = Of(writes, s)
  BY VisibleIs, OrderStays DEF Grows
<1>4. Valid(m) => writes'[m.pos[m.current]].key = Of(writes, Here(m))
  BY <1>2, OrderStays
<1>5. \A j \in DOMAIN View : View[j] \in Visible
  BY ViewIs
\* What it takes to say that an entry is passed, or is before another.
<1> DEFINE now(s, t) == \/ writes'[s].key < writes'[t].key
                        \/ (writes'[s].key = writes'[t].key /\ s > t)
           passed(s) == ~ (m.current # 0 /\ (s = m.pos[m.current] \/ now(s, m.pos[m.current])))
<1>6. \A s \in Visible : passed(s) <=> Passed(m, s)
  <2>1. TAKE s \in Visible
  <2>2. Valid(m) => (now(s, Here(m)) <=> Precedes(s, Here(m)))
    BY <1>2, <1>3, OrderStays
  <2> HIDE DEF now
  <2>3. QED BY <1>2, <2>2 DEF Passed, Valid, Upto
<1>7. \A s, t \in Visible : (s = t \/ now(s, t)) <=> Upto(s, t)
  <2>1. TAKE s, t \in Visible
  <2>2. now(s, t) <=> Precedes(s, t)
    BY <1>3, OrderStays
  <2> HIDE DEF now
  <2>3. QED BY <2>2 DEF Upto
<1> HIDE DEF now, passed
<1>8. Valid(m) => Below(c, p, writes'[m.pos[m.current]].key)
  BY <1>4 DEF Behind
<1>9. \A k \in DOMAIN View : Below(c, p, k) /\ passed(View[k]) => type = "value" /\ k = key
  BY <1>5, <1>6 DEF Behind
<1>10. type = "value" =>
           /\ value \in Visible /\ ~ writes'[value].del /\ writes'[value].key = key
           /\ Below(c, p, key) /\ passed(value)
           /\ \A s \in Visible : Below(c, p, writes'[s].key) /\ passed(s) => s = value \/ now(value, s)
  BY <1>3, <1>6, <1>7 DEF Behind, Upto
<1>11. c[1] \in {"prev", "last"}
  BY DEF Behind
<1>12. QED BY <1>1, <1>8, <1>9, <1>10, <1>11
           DEF Behind, Below, Passed, Upto, Valid, Here, Precedes, Of, now, passed

LEMMA StandsStays ==
    ASSUME Written, Grows, NEW m, Sound(m), merging' = m, NEW dir, NEW key, NEW value,
           direction' = dir, saved' = key, savedValue' = value, Stands(m, dir, key, value)
    PROVE  /\ Stands(merging, direction, saved, savedValue)'
           /\ dir = "forward" => Key' = Of(writes, Here(m)) /\ Here(merging)' = Here(m)
<1>1. Visible' = Visible /\ View' = View
  BY GrowsIs
<1>2. Valid(m) => Here(m) \in DOMAIN writes /\ Here(m) = m.pos[m.current]
  BY HereIs DEF Sound
<1>3. \A s \in Visible : s \in DOMAIN writes /\ writes'[s].key = Of(writes, s)
  BY VisibleIs, OrderStays DEF Grows
<1>4. Valid(m) => writes'[m.pos[m.current]].key = Of(writes, Here(m))
  BY <1>2, OrderStays
<1> DEFINE now(s, t) == \/ writes'[s].key < writes'[t].key
                        \/ (writes'[s].key = writes'[t].key /\ s > t)
           passed(s) == ~ (m.current # 0 /\ (s = m.pos[m.current] \/ now(s, m.pos[m.current])))
<1>5. \A s \in Visible : passed(s) <=> Passed(m, s)
  <2>1. TAKE s \in Visible
  <2>2. Valid(m) => (now(s, Here(m)) <=> Precedes(s, Here(m)))
    BY <1>2, <1>3, OrderStays
  <2> HIDE DEF now
  <2>3. QED BY <1>2, <2>2 DEF Passed, Valid, Upto
<1> HIDE DEF now, passed
<1>6. CASE dir = "forward"
  <2>1. Valid(m) /\ Here(m) \in Visible /\ Of(writes, Here(m)) \in DOMAIN View
        /\ View[Of(writes, Here(m))] = Here(m)
    BY <1>6 DEF Stands
  <2>2. Key' = Of(writes, Here(m)) /\ Here(merging)' = Here(m)
    BY <1>2, <1>4, <2>1 DEF Key, Of, Here
  <2>3. QED BY <1>1, <1>2, <1>4, <1>6, <2>1, <2>2 DEF Stands, Valid, Here, Of
<1>7. CASE dir = "reverse"
  <2>1. key \in DOMAIN View /\ View[key] = value
        /\ (Valid(m) => Of(writes, Here(m)) < key)
        /\ \A s \in Visible : Of(writes, s) < key => ~ Passed(m, s)
    BY <1>7 DEF Stands
  <2>2. \A s \in Visible : writes'[s].key < key => ~ passed(s)
    BY <1>3, <1>5, <2>1
  <2>3. QED BY <1>1, <1>2, <1>4, <1>7, <2>1, <2>2
            DEF Stands, Passed, Upto, Valid, Here, Precedes, Of, now, passed
<1>8. CASE dir \notin {"forward", "reverse"}
  BY <1>8 DEF Stands
<1>9. QED BY <1>6, <1>7, <1>8
-----------------------------------------------------------------------------
\* The state between the rounds of the loops.
Kinds ==
    /\ direction \in {"forward", "reverse"} /\ valid \in BOOLEAN /\ skipping \in BOOLEAN
    /\ saved \in Nat /\ valueType \in {"deletion", "value"}
    /\ pc \in {"idle", "next", "turn", "back", "prev"}

Looping ==
    /\ pc # "idle" => Seeks(call, was[1])
    /\ pc = "next" => direction = "forward" /\ Ahead(merging, skipping, saved, call, was[1])
    /\ pc \in {"turn", "back"} => /\ Valid(merging) /\ call[1] = "prev" /\ was[1][1] = saved
                                  /\ Of(writes, Here(merging)) >= saved
    /\ pc = "prev" => /\ direction = "reverse"
                      /\ Behind(merging, valueType, saved, savedValue, call, was[1])

IInv ==
    /\ Written /\ SoundFor(merging, OwedNow) /\ Kinds
    /\ pc = "idle" /\ valid => Stands(merging, direction, saved, savedValue)
    /\ Looping

\* What a call has come to when it ends.
Came ==
    /\ call[1] \in {"first", "seek", "next", "prev", "last"} /\ Seeks(call, was[1])
    /\ IF ~ valid
       THEN IF call[1] \in {"first", "seek", "next"} THEN NothingAhead(call, was[1])
            ELSE NothingBehind(call, was[1])
       ELSE /\ Position = <<Position[1], View[Position[1]]>>
            /\ IF call[1] \in {"first", "seek", "next"} THEN NearestAhead(Position[1], call, was[1])
               ELSE NearestBehind(Position[1], call, was[1])

\* A step of a call: it goes on, or it has come where it should.
Moves ==
    /\ IInv' /\ View' = View
    /\ pc' = "idle" => Came'

LEMMA SoundNow ==
    ASSUME IInv, pc # "back" \/ merging.dir # "reverse"
    PROVE  Sound(merging)
BY OwedIs DEF IInv, Sound, SoundFor

LEMMA FixedGrows ==
    ASSUME Written, Fixed
    PROVE  Grows /\ View' = View
<1>1. writes' = writes /\ sequence' = sequence
  BY DEF Fixed
<1>2. Grows
  BY <1>1 DEF Grows, Written
<1>3. QED BY <1>2, GrowsIs

LEMMA NothingStays ==
    ASSUME Written, Grows, NEW c, NEW p, call' = c, was'[1] = p
    PROVE  /\ NothingAhead(c, p) => NothingAhead(call, was[1])'
           /\ NothingBehind(c, p) => NothingBehind(call, was[1])'
           /\ Seeks(c, p) => Seeks(call, was[1])'
<1>1. View' = View
  BY GrowsIs
<1>2. QED BY <1>1 DEF NothingAhead, NothingBehind, AtLeast, Below, Seeks

LEMMA NearestStays ==
    ASSUME Written, Grows, NEW k, NEW c, NEW p, call' = c, was'[1] = p, Position'[1] = k
    PROVE  /\ NearestAhead(k, c, p) => NearestAhead(Position[1], call, was[1])'
           /\ NearestBehind(k, c, p) => NearestBehind(Position[1], call, was[1])'
<1>1. View' = View
  BY GrowsIs
<1>2. QED BY <1>1 DEF NearestAhead, NearestBehind, AtLeast, Below

LEMMA EndsNowhere ==
    ASSUME Written, Fixed, Invalid, NEW m, Sound(m), merging' = m,
           direction' \in {"forward", "reverse"}, NEW c, NEW p, call' = c, was'[1] = p, Seeks(c, p),
           \/ c[1] \in {"first", "seek", "next"} /\ NothingAhead(c, p)
           \/ c[1] \in {"prev", "last"} /\ NothingBehind(c, p)
    PROVE  Moves
<1>1. Grows /\ View' = View /\ Written'
  BY FixedGrows DEF Grows
<1>2. SoundFor(merging, OwedNow)'
  BY <1>1, AllSoundStays DEF Invalid, Idle
<1>3. pc' = "idle" /\ valid' = FALSE /\ saved' = 0 /\ skipping' = FALSE /\ valueType' = "deletion"
  BY DEF Invalid, Idle
<1>4. Kinds' /\ Looping' /\ IInv'
  BY <1>1, <1>2, <1>3 DEF Kinds, Looping, IInv
<1>5. Seeks(call, was[1])'
  BY <1>1, NothingStays
<1>6. CASE c[1] \in {"first", "seek", "next"} /\ NothingAhead(c, p)
  <2>1. NothingAhead(call, was[1])'
    BY <1>1, <1>6, NothingStays
  <2>2. QED BY <1>1, <1>3, <1>4, <1>5, <1>6, <2>1 DEF Moves, Came
<1>7. CASE c[1] \in {"prev", "last"} /\ NothingBehind(c, p)
  <2>1. NothingBehind(call, was[1])'
    BY <1>1, <1>7, NothingStays
  <2>2. call'[1] \notin {"first", "seek", "next"}
    BY <1>7
  <2>3. QED BY <1>1, <1>3, <1>4, <1>5, <1>7, <2>1, <2>2 DEF Moves, Came
<1>8. QED BY <1>6, <1>7

LEMMA GoesForward ==
    ASSUME Written, Kinds, NEW m, Sound(m), NEW skip \in BOOLEAN, NEW key \in Nat,
           GoForward(m, skip, key), NEW c, NEW p, call' = c, was'[1] = p, Seeks(c, p),
           c[1] \in {"first", "seek", "next"},
           IF Valid(m) THEN Ahead(m, skip, key, c, p) ELSE NothingAhead(c, p)
    PROVE  Moves
<1>1. merging' = m /\ direction' = "forward" /\ Fixed
  BY DEF GoForward
<1>2. Grows /\ View' = View /\ Written'
  BY <1>1, FixedGrows DEF Grows
<1>3. CASE ~ Valid(m)
  BY <1>1, <1>3, EndsNowhere DEF GoForward
<1>4. CASE Valid(m)
  <2>1. pc' = "next" /\ skipping' = skip /\ saved' = key /\ valid' = valid /\ valueType' = valueType
    BY <1>4 DEF GoForward
  <2>2. Ahead(merging, skipping, saved, call, was[1])'
    BY <1>1, <1>2, <1>4, <2>1, AheadStays
  <2>3. SoundFor(merging, OwedNow)' /\ Seeks(call, was[1])'
    BY <1>1, <1>2, <2>1, AllSoundStays, NothingStays
  <2>4. Kinds'
    BY <1>1, <2>1 DEF Kinds
  <2>5. QED BY <1>1, <1>2, <2>1, <2>2, <2>3, <2>4 DEF Moves, IInv, Looping
<1>5. QED BY <1>3, <1>4

LEMMA GoesBack ==
    ASSUME Written, Kinds, NEW m, Sound(m), NEW key \in Nat, NEW value,
           GoBack(m), saved' = key, savedValue' = value,
           NEW c, NEW p, call' = c, was'[1] = p, Seeks(c, p),
           Behind(m, "deletion", key, value, c, p)
    PROVE  Moves
<1>1. merging' = m /\ direction' = "reverse" /\ Fixed /\ pc' = "prev" /\ valueType' = "deletion"
      /\ valid' = valid /\ skipping' = skipping
  BY DEF GoBack
<1>2. Grows /\ View' = View /\ Written'
  BY <1>1, FixedGrows DEF Grows
<1>3. Behind(merging, valueType, saved, savedValue, call, was[1])'
  BY <1>1, <1>2, BehindStays
<1>4. SoundFor(merging, OwedNow)' /\ Seeks(call, was[1])'
  BY <1>1, <1>2, AllSoundStays, NothingStays
<1>5. Kinds'
  BY <1>1 DEF Kinds
<1>6. QED BY <1>1, <1>2, <1>3, <1>4, <1>5 DEF Moves, IInv, Looping
-----------------------------------------------------------------------------
(* The calls.                                                              *)
LEMMA SeekMoves ==
    ASSUME IInv, NEW k \in Keys, Seek(k), call' = <<"seek", k>>
    PROVE  Moves
<1> DEFINE m == MSeek(k, sequence)  c == <<"seek", k>>  p == was'[1]
<1>1. Written /\ Kinds /\ k \in Nat
  BY KeysArePositive DEF IInv
<1>2. Sound(m)
  BY <1>1, MSeekIs
<1>3. GoForward(m, FALSE, k)
  BY DEF Seek
<1>4. IF Valid(m) THEN Ahead(m, FALSE, k, c, p) ELSE NothingAhead(c, p)
  BY <1>1, SeekIsAhead
<1>5. c[1] \in {"first", "seek", "next"} /\ Seeks(c, p)
  BY <1>1 DEF Seeks
<1> HIDE DEF m, p
<1>6. call' = c /\ was'[1] = p
  BY DEF p
<1> HIDE DEF c
<1>7. QED BY <1>1, <1>2, <1>3, <1>4, <1>5, <1>6, GoesForward

LEMMA SeekToFirstMoves ==
    ASSUME IInv, SeekToFirst, call' = <<"first", 0>>
    PROVE  Moves
<1> DEFINE m == MSeekToFirst  c == <<"first", 0>>  p == was'[1]  key == saved
<1>1. Written /\ Kinds /\ key \in Nat
  BY DEF IInv, Kinds
<1>2. Sound(m)
  BY <1>1, MSeekToFirstIs
<1>3. GoForward(m, FALSE, key)
  BY DEF SeekToFirst
<1>4. IF Valid(m) THEN Ahead(m, FALSE, key, c, p) ELSE NothingAhead(c, p)
  BY <1>1, FirstIsAhead
<1>5. c[1] \in {"first", "seek", "next"} /\ Seeks(c, p)
  BY DEF Seeks
<1> HIDE DEF m, p, key
<1>6. call' = c /\ was'[1] = p
  BY DEF p
<1> HIDE DEF c
<1>7. QED BY <1>1, <1>2, <1>3, <1>4, <1>5, <1>6, GoesForward

LEMMA SeekToLastMoves ==
    ASSUME IInv, SeekToLast, call' = <<"last", 0>>
    PROVE  Moves
<1> DEFINE m == MSeekToLast  c == <<"last", 0>>  p == was'[1]  key == saved  value == savedValue'
<1>1. Written /\ Kinds /\ key \in Nat
  BY DEF IInv, Kinds
<1>2. Sound(m)
  BY <1>1, MSeekToLastIs
<1>3. GoBack(m) /\ saved' = key
  BY DEF SeekToLast
<1>4. Behind(m, "deletion", key, value, c, p)
  BY <1>1, LastIsBehind
<1>5. Seeks(c, p)
  BY DEF Seeks
<1> HIDE DEF m, key
<1>6. call' = c /\ was'[1] = p /\ savedValue' = value
  OBVIOUS
<1> HIDE DEF c, p, value
<1>7. QED BY <1>1, <1>2, <1>3, <1>4, <1>5, <1>6, GoesBack

LEMMA MoveNextMoves ==
    ASSUME IInv, MoveNext, call' = <<"next", 0>>, was'[1] = Position
    PROVE  Moves
<1> DEFINE c == <<"next", 0>>  p == Position
<1>1. Written /\ Kinds /\ Sound(merging) /\ pc = "idle" /\ valid
      /\ Stands(merging, direction, saved, savedValue)
  BY SoundNow DEF IInv, MoveNext
<1>2. c[1] \in {"first", "seek", "next"}
  OBVIOUS
<1>3. CASE direction = "forward" /\ GoForward(merging, TRUE, Key)
  <2> DEFINE m == merging  key == Key
  <2>1. p = <<Key, Here(m)>> /\ key = Of(writes, Here(m)) /\ Valid(m) /\ Here(m) \in Visible
    BY <1>1, <1>3 DEF Position, Key, Stands
  <2>2. key \in Nat /\ p[1] = key /\ p # << >>
    BY <1>1, <2>1, VisibleIs
  <2>3. Ahead(m, TRUE, key, c, p)
    <3>1. p[1] = Of(writes, Here(m)) /\ Stands(m, "forward", saved, savedValue)
      BY <1>1, <1>3, <2>1, <2>2
    <3> HIDE DEF c, p, m, key
    <3>2. Ahead(m, TRUE, Of(writes, Here(m)), c, p)
      BY <1>1, <3>1, NextIsAhead DEF c, m
    <3>3. QED BY <2>1, <3>2
  <2>4. Seeks(c, p)
    BY <2>2 DEF Seeks
  <2>5. GoForward(m, TRUE, key) /\ call' = c /\ was'[1] = p /\ Sound(m)
    BY <1>1, <1>3
  <2> HIDE DEF c, p, m, key
  <2>6. QED BY <1>1, <1>2, <2>1, <2>2, <2>3, <2>4, <2>5, GoesForward
<1>4. CASE direction = "reverse" /\ GoForward(IntoEntries, TRUE, saved)
  <2> DEFINE m == IntoEntries  key == saved
  <2>1. p = <<saved, savedValue>> /\ key \in Nat
    BY <1>1, <1>4 DEF Position, Kinds
  <2>2. p[1] = key /\ p # << >>
    BY <2>1
  <2>3. Sound(m) /\ IF Valid(m) THEN Ahead(m, TRUE, key, c, p) ELSE NothingAhead(c, p)
    <3>1. Stands(merging, "reverse", key, savedValue) /\ m = IF Valid(merging) THEN MNext(merging)
                                                             ELSE MSeekToFirst
      BY <1>1, <1>4 DEF IntoEntries
    <3>2. c = <<"next", 0>>
      OBVIOUS
    <3> HIDE DEF c, p, m, key
    <3>3. QED BY <1>1, <2>2, <3>1, <3>2, NextAfterPrevIsAhead
  <2>4. Seeks(c, p)
    BY <2>1, <2>2 DEF Seeks
  <2>5. GoForward(m, TRUE, key) /\ call' = c /\ was'[1] = p
    BY <1>4
  <2> HIDE DEF c, p, m, key
  <2>6. QED BY <1>1, <1>2, <2>1, <2>3, <2>4, <2>5, GoesForward
<1>5. QED BY <1>3, <1>4 DEF MoveNext

LEMMA MovePrevMoves ==
    ASSUME IInv, MovePrev, call' = <<"prev", 0>>, was'[1] = Position
    PROVE  Moves
<1> DEFINE c == <<"prev", 0>>  p == Position
<1>1. Written /\ Kinds /\ Sound(merging) /\ pc = "idle" /\ valid
      /\ Stands(merging, direction, saved, savedValue)
  BY SoundNow DEF IInv, MovePrev
<1>2. CASE direction = "forward" /\ pc' = "turn"
  <2>1. /\ saved' = Key /\ Fixed /\ merging' = merging
        /\ UNCHANGED <<direction, valid, skipping, valueType>>
    BY <1>2 DEF MovePrev, GoBack
  <2>2. p = <<Key, Here(merging)>> /\ Valid(merging) /\ Here(merging) \in Visible
        /\ Key = Of(writes, Here(merging))
    BY <1>1, <1>2 DEF Position, Stands, Key
  <2>3. Key \in Nat
    BY <1>1, <2>2, VisibleIs
  <2>4. p[1] = Key /\ p # << >>
    BY <2>2
  <2>5. Seeks(c, p)
    BY <2>3, <2>4 DEF Seeks
  <2>6. Grows /\ View' = View /\ Written'
    BY <1>1, <2>1, FixedGrows DEF Grows
  <2>7. SoundFor(merging, OwedNow)' /\ Seeks(call, was[1])'
    BY <1>1, <1>2, <2>1, <2>5, <2>6, AllSoundStays, NothingStays
  <2>8. Of(writes, Here(merging))' = Key /\ Valid(merging)'
    BY <2>1, <2>2 DEF Fixed, Of, Here, Valid
  <2>9. Looping'
    BY <1>2, <2>1, <2>3, <2>4, <2>7, <2>8 DEF Looping
  <2>10. Kinds'
    BY <1>1, <1>2, <2>1, <2>3 DEF Kinds
  <2>11. QED BY <1>2, <2>6, <2>7, <2>9, <2>10 DEF Moves, IInv
<1>3. CASE direction = "reverse" /\ GoBack(merging)
  <2> DEFINE m == merging  key == saved  value == savedValue
  <2>1. p = <<saved, savedValue>> /\ key \in Nat
    BY <1>1, <1>3 DEF Position, Kinds
  <2>2. p[1] = key /\ p # << >>
    BY <2>1
  <2>3. saved' = key /\ savedValue' = value /\ GoBack(m) /\ call' = c /\ was'[1] = p
    BY <1>3 DEF MovePrev
  <2>4. Behind(m, "deletion", key, value, c, p)
    <3>1. Stands(m, "reverse", key, value) /\ Sound(m) /\ c = <<"prev", 0>>
      BY <1>1, <1>3
    <3> HIDE DEF c, p, m, key, value
    <3>2. QED BY <1>1, <2>2, <3>1, PrevIsBehind
  <2>5. Seeks(c, p)
    BY <2>1, <2>2 DEF Seeks
  <2>6. Sound(m)
    BY <1>1
  <2> HIDE DEF c, p, m, key, value
  <2>7. QED BY <1>1, <2>1, <2>3, <2>4, <2>5, <2>6, GoesBack
<1>4. QED BY <1>2, <1>3 DEF MovePrev
-----------------------------------------------------------------------------
(* The rounds.                                                             *)
LEMMA FindNextMoves ==
    ASSUME IInv, FindNextUserEntry, UNCHANGED <<call, was>>
    PROVE  Moves
<1> DEFINE m == merging  s == Here(m)  k == Of(writes, s)  on == MNext(m)
           c == call  p == was[1]
<1>1. Written /\ Kinds /\ Sound(m) /\ pc = "next" /\ Seeks(c, p) /\ direction = "forward"
      /\ Ahead(m, skipping, saved, c, p) /\ Fixed /\ direction' = "forward"
  BY SoundNow DEF IInv, Looping, FindNextUserEntry
<1>2. Grows /\ View' = View /\ Written'
  BY <1>1, FixedGrows DEF Grows
<1>3. Valid(m) /\ c[1] \in {"first", "seek", "next"}
  BY <1>1 DEF Ahead
<1>4. s \in DOMAIN writes /\ k \in Nat /\ s \in Nat /\ sequence \in Nat
  BY <1>1, <1>3, HereIs, EntriesAre DEF Sound, Written
<1>5. skipping \in BOOLEAN /\ saved \in Nat
  BY <1>1 DEF Kinds
<1> DEFINE yields == s <= sequence /\ ~ writes[s].del /\ ~ (skipping /\ k <= saved)
<1>6. CASE yields
  <2>1. valid' = TRUE /\ saved' = 0 /\ pc' = "idle" /\ skipping' = FALSE
        /\ valueType' = "deletion" /\ merging' = m
    BY <1>4, <1>6 DEF FindNextUserEntry, Hidden, Idle, Of
  <2>2. s \in Visible /\ View[k] = s /\ NearestAhead(k, c, p)
    <3> HIDE DEF c, p
    <3>1. QED BY <1>1, <1>5, <1>6, YieldsNearestAhead
  <2>3. Stands(m, "forward", 0, savedValue')
    BY <1>3, <2>2 DEF Stands, NearestAhead
  <2>4. SoundFor(merging, OwedNow)'
    BY <1>1, <1>2, <2>1, AllSoundStays
  <2>5. /\ Stands(merging, direction, saved, savedValue)'
        /\ Key' = k /\ Here(merging)' = s
    BY <1>1, <1>2, <2>1, <2>3, StandsStays
  <2>6. Kinds' /\ Looping'
    BY <1>1, <2>1 DEF Kinds, Looping
  <2>7. Position' = <<k, s>>
    BY <1>1, <2>1, <2>5 DEF Position
  <2>8. Position'[1] = k /\ Position'[2] = s
    BY <2>7
  <2>9. NearestAhead(Position[1], call, was[1])' /\ Seeks(call, was[1])'
    BY <1>1, <1>2, <2>2, <2>8, NearestStays, NothingStays
  <2>10. call'[1] \in {"first", "seek", "next"}
    BY <1>3
  <2> HIDE DEF k, s
  <2>11. Came'
    BY <1>2, <2>1, <2>2, <2>7, <2>8, <2>9, <2>10 DEF Came
  <2>12. QED BY <1>2, <2>1, <2>4, <2>5, <2>6, <2>11 DEF Moves, IInv
<1>7. CASE ~ yields
  <2> DEFINE deletes == s <= sequence /\ writes[s].del
             skips == IF deletes THEN TRUE ELSE skipping
             skipped == IF deletes THEN k ELSE saved
  <2>1. IF Valid(on) THEN Ahead(on, skips, skipped, c, p) ELSE NothingAhead(c, p)
    <3> HIDE DEF c, p
    <3>1. QED BY <1>1, <1>5, <1>7, PassesAhead
  <2>2. Sound(on)
    BY <1>1, <1>3, MNextIs
  <2>3. merging' = on
    BY <1>4, <1>7 DEF FindNextUserEntry, Hidden, Of
  <2>4. CASE ~ Valid(on)
    <3>1. Invalid
      BY <1>4, <1>7, <2>4 DEF FindNextUserEntry, Hidden, Of
    <3>2. NothingAhead(c, p)
      BY <2>1, <2>4
    <3>3. call' = c /\ was'[1] = p /\ direction' \in {"forward", "reverse"}
      BY <1>1
    <3> HIDE DEF on, c, p
    <3>4. QED BY <1>1, <1>3, <2>2, <2>3, <3>1, <3>2, <3>3, EndsNowhere
  <2>5. CASE Valid(on)
    <3>1. /\ skipping' = skips /\ saved' = skipped
          /\ UNCHANGED <<valid, pc, valueType>>
      <4>1. /\ UNCHANGED <<valid, pc, valueType>>
            /\ IF ~ Hidden /\ writes[s].del THEN saved' = writes[s].key /\ skipping' = TRUE
               ELSE UNCHANGED <<saved, skipping>>
        BY <1>4, <1>7, <2>5 DEF FindNextUserEntry, Hidden, Of
      <4>2. CASE deletes
        <5>1. ~ Hidden /\ writes[s].del
          BY <1>4, <4>2 DEF Hidden
        <5>2. QED BY <4>1, <4>2, <5>1 DEF Of
      <4>3. CASE ~ deletes
        <5>1. ~ (~ Hidden /\ writes[s].del)
          BY <1>4, <4>3 DEF Hidden
        <5>2. QED BY <4>1, <4>3, <5>1
      <4>4. QED BY <4>2, <4>3
    <3>2. skips \in BOOLEAN /\ skipped \in Nat
      BY <1>4, <1>5
    <3>3. Ahead(on, skips, skipped, c, p) /\ call' = c /\ was'[1] = p
      BY <2>1, <2>5
    <3> HIDE DEF on, skips, skipped, c, p
    <3>4. /\ Ahead(merging, skipping, saved, call, was[1])'
          /\ SoundFor(merging, OwedNow)' /\ Seeks(call, was[1])'
      BY <1>1, <1>2, <2>2, <2>3, <3>1, <3>3, AheadStays, AllSoundStays, NothingStays
    <3>5. Kinds'
      BY <1>1, <3>1, <3>2 DEF Kinds
    <3>6. QED BY <1>1, <1>2, <3>1, <3>4, <3>5 DEF Moves, IInv, Looping
  <2>6. QED BY <2>4, <2>5
<1>8. QED BY <1>6, <1>7

LEMMA TurnMoves ==
    ASSUME IInv, Turn, UNCHANGED <<call, was>>
    PROVE  Moves
<1> DEFINE m == merging  on == MTurn(m)
<1>1. Written /\ Kinds /\ Sound(m) /\ pc = "turn" /\ Seeks(call, was[1]) /\ Fixed
      /\ Valid(m) /\ call[1] = "prev" /\ was[1][1] = saved /\ Of(writes, Here(m)) >= saved
  BY SoundNow DEF IInv, Looping, Turn
<1>2. Grows /\ View' = View /\ Written'
  BY <1>1, FixedGrows DEF Grows
<1>3. merging' = on /\ pc' = "back" /\ UNCHANGED <<direction, valid, saved, savedValue>>
      /\ UNCHANGED <<skipping, valueType>>
  BY DEF Turn, dbIter
<1>4. m.dir \in {"forward", "reverse"} /\ m.pos = [c \in Children |-> m.pos[c]] /\ m \in Merging
  BY <1>1 DEF Sound, Positioned, Merging
<1>5. SoundFor(merging, OwedNow)' /\ Valid(on) /\ Here(on) = Here(m)
  <2>1. CASE m.dir = "forward"
    <3>1. Sound(on) /\ on.dir = "forward" /\ Valid(on) /\ Here(on) = Here(m)
      BY <1>1, <2>1, MTurnIs
    <3> HIDE DEF on, m
    <3>2. QED BY <1>1, <1>2, <1>3, <3>1, AllSoundStays
  <2>2. CASE m.dir = "reverse"
    <3>1. on = m
      BY <1>4, <2>2 DEF MTurn, Merging
    <3>2. OwedNow' \subseteq Visible
      BY <1>1, <1>2, GrowsIs DEF OwedNow
    <3>3. PICK V \in SUBSET Visible : OwedNow' = V
      BY <3>2
    <3>4. SoundFor(m, V)
      BY <1>1 DEF Sound, SoundFor, InPlace
    <3>5. merging' = m
      BY <1>3, <3>1
    <3>6. SoundFor(merging, OwedNow)'
      <4> HIDE DEF m, on
      <4>1. QED BY <1>1, <1>2, <3>3, <3>4, <3>5, SoundStays
    <3>7. QED BY <1>1, <3>1, <3>6
  <2>3. QED BY <1>4, <2>1, <2>2
<1>6. Seeks(call, was[1])'
  BY <1>1, <1>2, NothingStays
<1>7. Valid(merging)' /\ Of(writes, Here(merging))' >= saved'
  BY <1>1, <1>3, <1>5 DEF Fixed, Valid, Here, Of
<1>8. Looping' /\ Kinds'
  BY <1>1, <1>3, <1>6, <1>7 DEF Looping, Kinds
<1>9. QED BY <1>2, <1>3, <1>5, <1>8 DEF Moves, IInv

(* Scanning back, Prev passes over nothing of the keys before.             *)
LEMMA MPrevGoesBack ==
    ASSUME IInv, pc = "back", NEW V, V = {s \in Visible : Of(writes, s) < saved}
    PROVE  /\ SoundFor(MPrev(merging), V) /\ MPrev(merging).dir = "reverse"
           /\ \A s \in V : Valid(MPrev(merging)) /\ Upto(s, Here(MPrev(merging)))
<1> DEFINE m == merging
<1>1. Written /\ SoundFor(m, OwedNow) /\ Valid(m) /\ Of(writes, Here(m)) >= saved /\ saved \in Nat
  BY DEF IInv, Looping, Kinds
<1>2. Here(m) \in DOMAIN writes /\ Of(writes, Here(m)) \in Nat /\ m.dir \in {"forward", "reverse"}
  BY <1>1, HereIs, EntriesAre DEF SoundFor, Positioned, Merging
<1>3. V \subseteq DOMAIN writes /\ \A s \in V : Precedes(s, Here(m))
  BY <1>1, <1>2, VisibleIs, EntriesAreOrdered
<1>4. CASE m.dir = "reverse"
  <2>1. SoundFor(m, V)
    BY <1>1, <1>4, OwedIs
  <2> HIDE DEF m
  <2>2. QED BY <1>1, <1>3, <1>4, <2>1, MPrevIs DEF m
<1>5. CASE m.dir = "forward"
  <2>1. Sound(m)
    BY <1>5, SoundNow
  <2> HIDE DEF m
  <2>2. QED BY <1>1, <1>3, <1>5, <2>1, MPrevTurnedIs DEF m
<1>6. QED BY <1>2, <1>4, <1>5

LEMMA BackMoves ==
    ASSUME IInv, Back, UNCHANGED <<call, was>>
    PROVE  Moves
<1> DEFINE m == merging  on == MPrev(m)  key == saved  c == call  p == was[1]
           V == {s \in Visible : Of(writes, s) < saved}
<1>1. Written /\ Kinds /\ pc = "back" /\ Seeks(c, p) /\ Fixed
      /\ c[1] = "prev" /\ p[1] = key /\ key \in Nat
  BY DEF IInv, Looping, Kinds, Back
<1>2. Grows /\ View' = View /\ Written'
  BY <1>1, FixedGrows DEF Grows
<1>3. /\ SoundFor(on, V) /\ on.dir = "reverse" /\ Positioned(on)
      /\ \A s \in Visible : Of(writes, s) < key => Valid(on) /\ Upto(s, Here(on))
  <2>1. SoundFor(on, V) /\ on.dir = "reverse" /\ \A s \in V : Valid(on) /\ Upto(s, Here(on))
    BY <1>1, MPrevGoesBack
  <2>2. \A s \in Visible : Of(writes, s) < key => s \in V
    OBVIOUS
  <2> HIDE DEF V, on
  <2>3. QED BY <2>1, <2>2 DEF SoundFor
<1>4. call' = c /\ was'[1] = p
  OBVIOUS
<1>5. /\ ~ Valid(on) => NothingBehind(c, p)
      /\ \A value : Valid(on) /\ Of(writes, Here(on)) < key =>
             Behind(on, "deletion", key, value, c, p)
  <2> HIDE DEF c, p, m, on, key
  <2>1. QED BY <1>1, <1>3, BackIsBehind
<1>6. CASE ~ Valid(on)
  <2>1. merging' = on /\ Invalid /\ direction' = direction
    BY <1>6 DEF Back
  <2>2. direction' \in {"forward", "reverse"}
    BY <1>1, <2>1 DEF Kinds
  <2>3. Sound(on)
    BY <1>3, <1>6 DEF Sound, InPlace
  <2> HIDE DEF c, p, m, on, key
  <2>4. QED BY <1>1, <1>2, <1>4, <1>5, <1>6, <2>1, <2>2, <2>3, EndsNowhere
<1>7. CASE Valid(on) /\ Of(writes, Here(on)) < key
  <2> DEFINE value == savedValue
  <2>1. GoBack(on) /\ saved' = key /\ savedValue' = value
    BY <1>7 DEF Back
  <2>2. Behind(on, "deletion", key, value, c, p)
    BY <1>5, <1>7
  <2>3. Sound(on)
    <3>1. Here(on) \in DOMAIN writes /\ Of(writes, Here(on)) \in Nat
      BY <1>1, <1>3, <1>7, HereIs, EntriesAre
    <3>2. \A s \in Visible : Precedes(s, Here(on)) => s \in V
      BY <1>1, <1>7, <3>1, VisibleIs, EntriesAreOrdered
    <3> HIDE DEF V, on
    <3>3. InPlace(on, V)
      BY <1>3 DEF SoundFor
    <3>4. InPlace(on, Visible)
      BY <1>3, <3>2, <3>3 DEF InPlace
    <3>5. QED BY <1>3, <3>4 DEF Sound
  <2> HIDE DEF c, p, m, on, key, value
  <2>4. QED BY <1>1, <1>4, <2>1, <2>2, <2>3, GoesBack
<1>8. CASE Valid(on) /\ ~ (Of(writes, Here(on)) < key)
  <2>1. merging' = on /\ UNCHANGED <<dbIter, pc, skipping, valueType>>
    BY <1>8 DEF Back
  <2>2. Of(writes, Here(on)) \in Nat
    BY <1>1, <1>3, <1>8, HereIs, EntriesAre
  <2>3. Of(writes, Here(on)) >= key
    BY <1>1, <1>8, <2>2
  <2>4. Valid(merging)' /\ Of(writes, Here(merging))' = Of(writes, Here(on))
    BY <1>1, <1>8, <2>1 DEF Fixed, Valid, Here, Of
  <2>5. pc' = "back" /\ saved' = saved /\ valid' = valid /\ direction' = direction
        /\ skipping' = skipping /\ valueType' = valueType
    BY <1>1, <2>1 DEF dbIter
  <2>6. OwedNow' = V
    <3>1. OwedNow' = {s \in Visible' : Of(writes, s)' < saved'}
      BY <1>2, <1>3, <2>1, <2>5, OwedIs DEF OwedNow, Owed, Visible
    <3>2. Visible' = Visible /\ \A s \in Visible : Of(writes, s)' = Of(writes, s)
      BY <1>1, <1>2, GrowsIs DEF Fixed, Of
    <3>3. QED BY <2>5, <3>1, <3>2
  <2>7. V \subseteq Visible
    OBVIOUS
  <2>8. SoundFor(merging, OwedNow)' /\ Seeks(call, was[1])'
    <3>1. SoundFor(merging, OwedNow)'
      <4> HIDE DEF V, on, m
      <4>1. QED BY <1>1, <1>2, <1>3, <2>1, <2>6, <2>7, SoundStays
    <3>2. QED BY <1>1, <1>2, <1>4, <3>1, NothingStays
  <2>9. Looping'
    BY <1>1, <2>3, <2>4, <2>5, <2>8 DEF Looping
  <2>10. Kinds'
    BY <1>1, <2>5 DEF Kinds
  <2>11. QED BY <1>2, <2>5, <2>8, <2>9, <2>10 DEF Moves, IInv
<1>9. QED BY <1>6, <1>7, <1>8

LEMMA FindPrevMoves ==
    ASSUME IInv, FindPrevUserEntry, UNCHANGED <<call, was>>
    PROVE  Moves
<1> DEFINE m == merging  s == Here(m)  k == Of(writes, s)  on == MPrev(m)  e == writes[s]
           type == valueType  key == saved  value == savedValue  c == call  p == was[1]
<1>1. Written /\ Kinds /\ Sound(m) /\ pc = "prev" /\ Seeks(c, p) /\ Fixed /\ direction = "reverse"
      /\ Behind(m, type, key, value, c, p) /\ type \in {"deletion", "value"} /\ key \in Nat
  BY SoundNow DEF IInv, Looping, Kinds, FindPrevUserEntry
<1>2. Grows /\ View' = View /\ Written'
  BY <1>1, FixedGrows DEF Grows
<1>3. Valid(m) => /\ s \in DOMAIN writes /\ k \in Nat /\ s \in Nat /\ sequence \in Nat
                  /\ (s \in Visible <=> ~ Hidden)
  <2>1. Valid(m) => s \in DOMAIN writes /\ k \in Nat /\ s \in Nat /\ sequence \in Nat
    BY <1>1, HereIs, EntriesAre DEF Sound, Written
  <2>2. QED BY <2>1 DEF Hidden, Visible
<1>4. c[1] \in {"prev", "last"} /\ m.dir = "reverse"
  BY <1>1 DEF Behind
<1> DEFINE ends == ~ Valid(m) \/ (~ Hidden /\ type # "deletion" /\ StopsAtKey)
<1>5. CASE ends
  <2>1. PrevEnds
    BY <1>5 DEF FindPrevUserEntry
  <2>2. ~ Valid(m) \/ (type = "value" /\ Of(writes, Here(m)) < key)
    BY <1>1, <1>5 DEF StopsAtKey
  <2>3. /\ type = "deletion" => NothingBehind(c, p)
        /\ type = "value" => Stands(m, "reverse", key, value) /\ NearestBehind(key, c, p)
    <3> HIDE DEF m, type, key, value, c, p
    <3>1. QED BY <1>1, <2>2, EndsBehind
  <2>4. CASE type = "deletion"
    <3>1. Invalid /\ direction' \in {"forward", "reverse"} /\ merging' = m
      BY <2>1, <2>4 DEF PrevEnds
    <3>2. call' = c /\ was'[1] = p
      OBVIOUS
    <3> HIDE DEF m, type, c, p
    <3>3. QED BY <1>1, <1>4, <2>3, <2>4, <3>1, <3>2, EndsNowhere
  <2>5. CASE type = "value"
    <3>1. valid' = TRUE /\ pc' = "idle" /\ skipping' = FALSE /\ valueType' = "deletion"
          /\ direction' = "reverse" /\ saved' = key /\ savedValue' = value /\ merging' = m
      BY <1>1, <2>1, <2>5 DEF PrevEnds, Idle
    <3>2. /\ Stands(merging, direction, saved, savedValue)'
          /\ SoundFor(merging, OwedNow)'
      BY <1>1, <1>2, <2>3, <2>5, <3>1, StandsStays, AllSoundStays
    <3>3. Position' = <<key, value>>
      BY <3>1 DEF Position
    <3>4. Position'[1] = key /\ Position'[2] = value
      BY <3>3
    <3>5. NearestBehind(Position[1], call, was[1])' /\ Seeks(call, was[1])'
      BY <1>1, <1>2, <2>3, <2>5, <3>4, NearestStays, NothingStays
    <3>6. View[key] = value
      BY <2>3, <2>5 DEF Stands
    <3>7. Kinds' /\ Looping'
      BY <1>1, <3>1 DEF Kinds, Looping
    <3>8. call'[1] \notin {"first", "seek", "next"}
      BY <1>4
    <3>9. Came'
      BY <1>2, <1>4, <3>1, <3>3, <3>4, <3>5, <3>6, <3>8 DEF Came
    <3>10. QED BY <1>2, <3>1, <3>2, <3>7, <3>9 DEF Moves, IInv
  <2>6. QED BY <1>1, <2>4, <2>5
<1>6. CASE ~ ends
  <2>1. Valid(m) /\ s \in DOMAIN writes /\ k \in Nat /\ s \in Nat /\ (s \in Visible <=> ~ Hidden)
    BY <1>3, <1>6
  <2>2. s \in Visible => type = "deletion" \/ ~ (k < key)
    BY <1>6, <2>1 DEF StopsAtKey
  <2>3. /\ merging' = on /\ UNCHANGED <<direction, valid, pc, skipping>>
        /\ IF Hidden THEN UNCHANGED <<valueType, saved, savedValue>>
           ELSE /\ valueType' = IF e.del THEN "deletion" ELSE "value"
                /\ saved' = IF e.del THEN 0 ELSE e.key
                /\ savedValue' = IF e.del THEN 0 ELSE s
    BY <1>6 DEF FindPrevUserEntry
  <2>4. IF s \notin Visible THEN Behind(on, type, key, value, c, p)
        ELSE Behind(on, IF e.del THEN "deletion" ELSE "value",
                    IF e.del THEN 0 ELSE e.key, IF e.del THEN 0 ELSE s, c, p)
    <3>1. e = writes[Here(m)]
      OBVIOUS
    <3> HIDE DEF m, type, key, value, c, p, e
    <3>2. QED BY <1>1, <2>1, <2>2, <3>1, PassesBehind
  <2>5. Sound(on) /\ SoundFor(merging, OwedNow)' /\ Seeks(call, was[1])'
    BY <1>1, <1>2, <1>4, <2>1, <2>3, MPrevPassesNothing, AllSoundStays, NothingStays
  <2>6. e.key \in Nat
    BY <2>1 DEF Of
  <2>7. Behind(merging, valueType, saved, savedValue, call, was[1])'
    <3>1. Behind(on, valueType', saved', savedValue', c, p)
      <4>1. CASE Hidden
        BY <2>1, <2>3, <2>4, <4>1
      <4>2. CASE ~ Hidden
        BY <2>1, <2>3, <2>4, <4>2
      <4>3. QED BY <4>1, <4>2
    <3> DEFINE t == valueType'  q == saved'  v == savedValue'
    <3>2. Behind(on, t, q, v, c, p) /\ valueType' = t /\ saved' = q /\ savedValue' = v
          /\ call' = c /\ was'[1] = p /\ merging' = on
      BY <2>3, <3>1
    <3> HIDE DEF t, q, v, c, p, on
    <3>3. QED BY <1>1, <1>2, <2>5, <3>2, BehindStays
  <2>8. Kinds'
    <3>1. valueType' \in {"deletion", "value"} /\ saved' \in Nat
      BY <1>1, <2>3, <2>6
    <3>2. QED BY <1>1, <2>3, <3>1 DEF Kinds
  <2>9. Looping' /\ pc' = "prev"
    BY <1>1, <2>3, <2>5, <2>7 DEF Looping
  <2>10. QED BY <1>2, <2>5, <2>8, <2>9 DEF Moves, IInv
<1>7. QED BY <1>5, <1>6
-----------------------------------------------------------------------------
(* The first state, and what others do.                                    *)
LEMMA AppendGrows ==
    ASSUME Written, NEW k \in Keys, NEW del \in BOOLEAN, More(k, del)
    PROVE  Grows
<1> DEFINE e == [key |-> k, del |-> del, child |-> 1]  n == Len(writes)
<1>1. writes' = Append(writes, e) /\ sequence' = sequence
  BY DEF More
<1>2. e \in Entry
  <2>1. 1 \in Children
    BY BoundsAreNat DEF Children
  <2>2. QED BY <2>1 DEF Entry
<1>3. writes \in Seq(Entry) /\ sequence \in Nat /\ sequence <= n
  BY DEF Written
<1> HIDE DEF e
<1>4. n \in Nat /\ DOMAIN writes = 1..n /\ writes' \in Seq(Entry) /\ Len(writes') = n + 1
      /\ DOMAIN writes' = 1..(n + 1) /\ \A s \in 1..n : writes'[s] = writes[s]
  BY <1>1, <1>2, <1>3
<1>5. Written'
  BY <1>1, <1>3, <1>4 DEF Written
<1>6. QED BY <1>1, <1>3, <1>4, <1>5 DEF Grows

LEMMA GrowsKeeps ==
    ASSUME IInv, Grows, UNCHANGED <<merging, dbIter, pc, skipping, valueType, call>>,
           pc # "idle" => was' = was
    PROVE  IInv' /\ View' = View /\ (pc = "idle" => Position' = Position)
<1> DEFINE m == merging  c == call  p == was[1]
<1>1. Written /\ Kinds /\ SoundFor(m, OwedNow) /\ Written' /\ View' = View
  BY GrowsIs DEF IInv, Grows
<1>2. merging' = m /\ direction' = direction /\ valid' = valid /\ saved' = saved
      /\ savedValue' = savedValue /\ pc' = pc /\ skipping' = skipping /\ valueType' = valueType
      /\ call' = c
  BY DEF dbIter
<1>3. SoundFor(merging, OwedNow)'
  <2> DEFINE V == OwedNow
  <2>1. V \subseteq Visible
    BY DEF OwedNow
  <2>2. Visible' = Visible /\ \A s \in Visible : writes'[s].key = writes[s].key
    BY <1>1, GrowsIs, VisibleIs
  <2>3. OwedNow' = V
    BY <1>2, <2>2 DEF OwedNow, Owed, Of, Visible, Grows
  <2> HIDE DEF V
  <2>4. SoundFor(m, V)
    BY <1>1 DEF V
  <2>5. QED BY <1>1, <1>2, <2>1, <2>3, <2>4, SoundStays
<1>4. Kinds'
  BY <1>1, <1>2 DEF Kinds
<1>5. CASE pc = "idle" /\ valid
  <2>1. Stands(m, direction, saved, savedValue) /\ Sound(m)
    BY <1>5, SoundNow DEF IInv
  <2>2. /\ Stands(merging, direction, saved, savedValue)'
        /\ direction = "forward" => Key' = Of(writes, Here(m)) /\ Here(merging)' = Here(m)
    <3> DEFINE dir == direction  key == saved  value == savedValue
    <3>1. direction' = dir /\ saved' = key /\ savedValue' = value /\ Stands(m, dir, key, value)
      BY <1>2, <2>1
    <3> HIDE DEF dir, key, value
    <3>2. /\ Stands(merging, direction, saved, savedValue)'
          /\ dir = "forward" => Key' = Of(writes, Here(m)) /\ Here(merging)' = Here(m)
      BY <1>1, <1>2, <2>1, <3>1, StandsStays
    <3>3. QED BY <3>2 DEF dir
  <2>3. Looping'
    BY <1>2, <1>5 DEF Looping
  <2>4. Position' = Position
    BY <1>2, <1>5, <2>2 DEF Position, Key
  <2>5. QED BY <1>1, <1>3, <1>4, <2>2, <2>3, <2>4 DEF IInv
<1>6. CASE pc = "idle" /\ ~ valid
  BY <1>1, <1>2, <1>3, <1>4, <1>6 DEF IInv, Looping, Position
<1>7. CASE pc # "idle"
  <2>1. was'[1] = p /\ Seeks(c, p)
    BY <1>7 DEF IInv, Looping
  <2>2. Seeks(call, was[1])'
    BY <1>1, <1>2, <2>1, NothingStays
  <2>3. pc = "next" => direction' = "forward" /\ Ahead(merging, skipping, saved, call, was[1])'
    <3>1. HAVE pc = "next"
    <3> DEFINE skip == skipping  key == saved
    <3>2. direction = "forward" /\ Ahead(m, skip, key, c, p) /\ Sound(m)
      BY <3>1, SoundNow DEF IInv, Looping
    <3>3. skipping' = skip /\ saved' = key
      BY <1>2
    <3> HIDE DEF m, c, p, skip, key
    <3>4. QED BY <1>1, <1>2, <2>1, <3>2, <3>3, AheadStays
  <2>4. pc \in {"turn", "back"} => /\ Valid(merging)' /\ call'[1] = "prev" /\ was'[1][1] = saved'
                                  /\ Of(writes, Here(merging))' >= saved'
    <3>1. HAVE pc \in {"turn", "back"}
    <3>2. Valid(m) /\ c[1] = "prev" /\ p[1] = saved /\ Of(writes, Here(m)) >= saved
      BY <3>1 DEF IInv, Looping
    <3>3. Here(m) \in DOMAIN writes
      BY <1>1, <3>2, HereIs DEF SoundFor
    <3>4. Of(writes, Here(merging))' = Of(writes, Here(m)) /\ Valid(merging)'
      BY <1>1, <1>2, <3>2, <3>3, OrderStays DEF Of, Here, Valid
    <3>5. QED BY <1>2, <2>1, <3>2, <3>4
  <2>5. pc = "prev" => /\ direction' = "reverse"
                       /\ Behind(merging, valueType, saved, savedValue, call, was[1])'
    <3>1. HAVE pc = "prev"
    <3> DEFINE type == valueType  key == saved  value == savedValue
    <3>2. direction = "reverse" /\ Behind(m, type, key, value, c, p) /\ Sound(m)
      BY <3>1, SoundNow DEF IInv, Looping
    <3>3. valueType' = type /\ saved' = key /\ savedValue' = value
      BY <1>2
    <3> HIDE DEF m, c, p, type, key, value
    <3>4. QED BY <1>1, <1>2, <2>1, <3>2, <3>3, BehindStays
  <2>6. Looping'
    BY <1>2, <2>2, <2>3, <2>4, <2>5 DEF Looping
  <2>7. QED BY <1>1, <1>2, <1>3, <1>4, <1>7, <2>6 DEF IInv
<1>8. QED BY <1>5, <1>6, <1>7

LEMMA InitHolds == Init => IInv
<1>1. HAVE Init
<1>2. Written
  <2>1. PICK n \in 0..MaxSeq :
          \E w \in [1..n -> [key : Keys, del : BOOLEAN, child : Children]] :
             writes = w /\ sequence \in 0..n
    BY <1>1 DEF Init
  <2>2. n \in Nat /\ writes \in [1..n -> Entry] /\ sequence \in Nat
    BY <2>1, BoundsAreNat DEF Entry
  <2>3. writes \in Seq(Entry) /\ Len(writes) = n
    BY <2>2
  <2>4. sequence <= n
    BY <2>1, <2>2
  <2>5. QED BY <2>2, <2>3, <2>4 DEF Written
<1>3. SoundFor(merging, OwedNow)
  <2>1. merging = [pos |-> [c \in Children |-> 0], dir |-> "forward", current |-> 0]
    BY <1>1 DEF Init
  <2>2. merging \in Merging /\ ~ Valid(merging) /\ \A c \in Children : merging.pos[c] = 0
    BY <2>1 DEF Merging, Valid
  <2>3. QED BY <2>2 DEF SoundFor, Positioned, InPlace
<1>4. QED BY <1>1, <1>2, <1>3 DEF Init, IInv, Kinds, Looping

\* A step of a call, or one that the iterator does not see.
LEMMA StepIs ==
    ASSUME IInv, [Next]_vars
    PROVE  /\ IInv' /\ View' = View
           /\ \/ /\ pc' = "idle" => Came'
                 /\ IF pc = "idle" THEN was' = <<Position, call>> ELSE UNCHANGED <<call, was>>
              \/ /\ UNCHANGED <<pc, call>> /\ (pc = "idle" => Position' = Position)
                 /\ pc # "idle" => was' = was
<1>1. ASSUME Next, pc = "idle", NEW k \in Keys, Seek(k), call' = <<"seek", k>>
      PROVE  Moves
  BY <1>1, SeekMoves DEF Next
<1>2. ASSUME Next, pc = "idle", SeekToFirst, call' = <<"first", 0>>
      PROVE  Moves
  BY <1>2, SeekToFirstMoves DEF Next
<1>3. ASSUME Next, pc = "idle", SeekToLast, call' = <<"last", 0>>
      PROVE  Moves
  BY <1>3, SeekToLastMoves DEF Next
<1>4. ASSUME Next, pc = "idle", MoveNext, call' = <<"next", 0>>
      PROVE  Moves
  <2>1. was' = <<Position, call>>
    BY <1>4 DEF Next
  <2>2. was'[1] = Position
    BY <2>1
  <2>3. QED BY <1>4, <2>2, MoveNextMoves
<1>5. ASSUME Next, pc = "idle", MovePrev, call' = <<"prev", 0>>
      PROVE  Moves
  <2>1. was' = <<Position, call>>
    BY <1>5 DEF Next
  <2>2. was'[1] = Position
    BY <2>1
  <2>3. QED BY <1>5, <2>2, MovePrevMoves
<1>6. ASSUME Next, Round, UNCHANGED call
      PROVE  Moves /\ pc # "idle" /\ was' = was
  <2>1. pc # "idle"
    BY <1>6 DEF Round, FindNextUserEntry, Turn, Back, FindPrevUserEntry
  <2>2. was' = was
    BY <1>6, <2>1 DEF Next
  <2>3. QED BY <1>6, <2>1, <2>2, FindNextMoves, TurnMoves, BackMoves, FindPrevMoves DEF Round
<1>7. ASSUME Grows, UNCHANGED <<merging, dbIter, pc, skipping, valueType, call>>,
             pc # "idle" => was' = was
      PROVE  IInv' /\ View' = View /\ (pc = "idle" => Position' = Position)
  BY <1>7, GrowsKeeps
<1>8. ASSUME Next, NEW k \in Keys, NEW del \in BOOLEAN, More(k, del), UNCHANGED call
      PROVE  /\ Grows /\ UNCHANGED <<merging, dbIter, pc, skipping, valueType, call>>
             /\ pc # "idle" => was' = was
  <2>1. Grows
    BY <1>8, AppendGrows DEF IInv
  <2>2. UNCHANGED <<merging, dbIter, pc, skipping, valueType, call>>
    BY <1>8 DEF More
  <2>3. pc # "idle" => was' = was
    BY <1>8 DEF Next
  <2>4. QED BY <2>1, <2>2, <2>3
<1>9. CASE UNCHANGED vars
  <2>1. Grows
    <3>1. Fixed
      BY <1>9 DEF vars, Fixed
    <3>2. QED BY <3>1, FixedGrows DEF IInv
  <2>2. UNCHANGED <<merging, dbIter, pc, skipping, valueType, call, was>>
    BY <1>9 DEF vars
  <2>3. QED BY <1>7, <2>1, <2>2
<1>10. CASE Next
  <2>1. pc = "idle" => was' = <<Position, call>>
    BY <1>10 DEF Next
  <2>2. CASE Moves /\ (pc # "idle" => UNCHANGED <<call, was>>)
    BY <2>1, <2>2 DEF Moves
  <2>3. CASE \E k \in Keys, del \in BOOLEAN : More(k, del) /\ UNCHANGED call
    BY <1>7, <1>8, <1>10, <2>3
  <2>4. (\/ SeekToFirst \/ SeekToLast \/ MoveNext \/ MovePrev \/ \E k \in Keys : Seek(k)) => pc = "idle"
    BY DEF Seek, SeekToFirst, SeekToLast, MoveNext, MovePrev
  <2>5. QED BY <1>1, <1>2, <1>3, <1>4, <1>5, <1>6, <1>10, <2>2, <2>3, <2>4 DEF Next
<1>11. QED BY <1>9, <1>10
-----------------------------------------------------------------------------
\* The iterator has all it needs at every step.
THEOREM IteratorInvariant == Spec => []IInv
<1>1. IInv /\ [Next]_vars => IInv'
  BY StepIs
<1>2. QED BY <1>1, InitHolds, PTL DEF Spec

\* ``Ensure that all children are positioned after key()'': whatever is
\* called in what order, and whatever others write meanwhile (also between
\* the Seek and the Prev of a child that turns), the children of
\* MergingIterator pass over nothing that the iterator has to see; only among
\* the entries that Prev scans back over may one be missed.
THEOREM ChildrenWait == Spec => []ChildrenAreInPlace
<1>1. ASSUME IInv PROVE ChildrenAreInPlace
  <2>1. Written /\ InPlace(merging, OwedNow)
    BY <1>1 DEF IInv, SoundFor
  <2>2. ASSUME NEW c \in Children, NEW s \in In(c) PROVE Owed(s) <=> s \in OwedNow
    BY <2>1, InIs DEF OwedNow, Owed, Visible
  <2>3. QED BY <2>1, <2>2 DEF InPlace, ChildrenAreInPlace
<1>2. QED BY <1>1, IteratorInvariant, PTL
-----------------------------------------------------------------------------
(* KvIter.                                                                 *)
\* Nearest, of the least and of the greatest key.
NearestUp(keys) ==
    IF keys = {} THEN << >>
    ELSE LET k == CHOOSE j \in keys : \A i \in keys \ {j} : j < i IN <<k, View[k]>>
NearestDown(keys) ==
    IF keys = {} THEN << >>
    ELSE LET k == CHOOSE j \in keys : \A i \in keys \ {j} : j > i IN <<k, View[k]>>

LEMMA NearestIs ==
    ASSUME NEW keys \in SUBSET Nat
    PROVE  /\ keys = {} => NearestUp(keys) = << >> /\ NearestDown(keys) = << >>
           /\ \A k \in keys : (\A j \in keys : k <= j) => NearestUp(keys) = <<k, View[k]>>
           /\ \A k \in keys : (\A j \in keys : j <= k) => NearestDown(keys) = <<k, View[k]>>
<1>1. ASSUME NEW k \in keys, \A j \in keys : k <= j
      PROVE  NearestUp(keys) = <<k, View[k]>>
  <2>1. \A j \in keys : (\A i \in keys \ {j} : j < i) <=> j = k
    BY <1>1
  <2>2. (CHOOSE j \in keys : \A i \in keys \ {j} : j < i) = k
    BY <2>1
  <2>3. QED BY <2>2 DEF NearestUp
<1>2. ASSUME NEW k \in keys, \A j \in keys : j <= k
      PROVE  NearestDown(keys) = <<k, View[k]>>
  <2>1. \A j \in keys : (\A i \in keys \ {j} : j > i) <=> j = k
    BY <1>2
  <2>2. (CHOOSE j \in keys : \A i \in keys \ {j} : j > i) = k
    BY <2>1
  <2>3. QED BY <2>2 DEF NearestDown
<1>3. QED BY <1>1, <1>2 DEF NearestUp, NearestDown

\* Where a call that has ended leaves the iterator.
LEMMA EndsNearest ==
    ASSUME IInv, View' = View, Came'
    PROVE  LET ahead == {k \in DOMAIN View : AtLeast(call', was'[1], k)}
               behind == {k \in DOMAIN View : Below(call', was'[1], k)}
           IN /\ Seeks(call', was'[1])
              /\ \/ call'[1] \in {"first", "seek", "next"} /\ Position' = NearestUp(ahead)
                 \/ call'[1] \in {"prev", "last"} /\ Position' = NearestDown(behind)
<1> DEFINE c == call'  p == was'[1]  v == View
           ahead == {k \in DOMAIN v : AtLeast(c, p, k)}
           behind == {k \in DOMAIN v : Below(c, p, k)}
           forward == c[1] \in {"first", "seek", "next"}
<1>1. /\ c[1] \in {"first", "seek", "next", "prev", "last"} /\ Seeks(c, p)
      /\ ~ valid' => Position' = << >>
      /\ ~ valid' /\ forward => \A k \in DOMAIN v : ~ AtLeast(c, p, k)
      /\ ~ valid' /\ ~ forward => \A k \in DOMAIN v : ~ Below(c, p, k)
      /\ valid' => Position' = <<Position'[1], v[Position'[1]]>>
      /\ valid' /\ forward => /\ Position'[1] \in DOMAIN v /\ AtLeast(c, p, Position'[1])
                              /\ \A j \in DOMAIN v : AtLeast(c, p, j) => Position'[1] <= j
      /\ valid' /\ ~ forward => /\ Position'[1] \in DOMAIN v /\ Below(c, p, Position'[1])
                                /\ \A j \in DOMAIN v : Below(c, p, j) => j <= Position'[1]
  <2>1. Seeks(c, p)
    BY DEF Came, Seeks
  <2>2. ~ valid' => Position' = << >>
    BY DEF Position
  <2>3. QED BY <2>1, <2>2 DEF Came, NothingAhead, NothingBehind, NearestAhead, NearestBehind,
                             AtLeast, Below
<1>2. \A k \in DOMAIN v : k \in Nat
  BY ViewIs DEF IInv
<1>3. ahead \in SUBSET Nat /\ behind \in SUBSET Nat
  BY <1>2
<1> DEFINE q == Position'
<1> HIDE DEF q, c, p, v
<1>4. CASE forward
  <2>1. q = NearestUp(ahead)
    <3>1. ~ valid' => ahead = {} /\ q = << >>
      BY <1>1, <1>4 DEF q
    <3>2. valid' => q = <<q[1], v[q[1]]>> /\ q[1] \in ahead /\ \A j \in ahead : q[1] <= j
      BY <1>1, <1>4 DEF q
    <3> HIDE DEF ahead
    <3>3. QED BY <1>3, <3>1, <3>2, NearestIs DEF v
  <2>2. QED BY <1>1, <1>4, <2>1 DEF q, c, p, v
<1>5. CASE ~ forward
  <2>1. q = NearestDown(behind)
    <3>1. ~ valid' => behind = {} /\ q = << >>
      BY <1>1, <1>5 DEF q
    <3>2. valid' => q = <<q[1], v[q[1]]>> /\ q[1] \in behind /\ \A j \in behind : j <= q[1]
      BY <1>1, <1>5 DEF q
    <3> HIDE DEF behind
    <3>3. QED BY <1>3, <3>1, <3>2, NearestIs DEF v
  <2>2. c[1] \in {"prev", "last"}
    BY <1>1, <1>5
  <2>3. QED BY <1>1, <2>1, <2>2 DEF q, c, p, v
<1>6. QED BY <1>4, <1>5

\* It is a step of an iterator on the map.
LEMMA CallsAreMapSteps ==
    ASSUME IInv, View' = View, pc' = "idle", Came',
           was'[1] = IF pc = "idle" THEN Position ELSE was[1]
    PROVE  Map!Next
<1> DEFINE c == call'  p == was'[1]  v == View
           ahead == {k \in DOMAIN v : AtLeast(c, p, k)}
           behind == {k \in DOMAIN v : Below(c, p, k)}
           q == Position'
<1>1. /\ \/ c[1] \in {"first", "seek", "next"} /\ q = NearestUp(ahead)
         \/ c[1] \in {"prev", "last"} /\ q = NearestDown(behind)
      /\ c[1] \in {"next", "prev"} => p # << >>
  BY EndsNearest DEF Seeks
<1>2. /\ c[1] = "first" => ahead = DOMAIN v
      /\ c[1] = "seek" => ahead = {k \in DOMAIN v : k >= c[2]}
      /\ c[1] = "next" => ahead = {k \in DOMAIN v : k > p[1]}
      /\ c[1] = "last" => behind = DOMAIN v
      /\ c[1] = "prev" => behind = {k \in DOMAIN v : k < p[1]}
  BY DEF AtLeast, Below
<1> HIDE DEF q, c, p, ahead, behind
<1>3. /\ c[1] = "first" => q = NearestUp(DOMAIN View)
      /\ c[1] = "last" => q = NearestDown(DOMAIN View)
      /\ c[1] = "seek" => q = NearestUp({k \in DOMAIN View : k >= c[2]})
      /\ c[1] = "next" => q = NearestUp({k \in DOMAIN View : k > p[1]}) /\ p # << >>
      /\ c[1] = "prev" => q = NearestDown({k \in DOMAIN View : k < p[1]}) /\ p # << >>
      /\ c[1] \in {"first", "seek", "next", "prev", "last"}
  BY <1>1, <1>2
<1>4. CASE c[1] = "first"
  <2>1. Map!SeekToFirst
    BY <1>3, <1>4 DEF Map!SeekToFirst, Map!Nearest, NearestUp, q, c
  <2>2. QED BY <2>1 DEF Map!Next
<1>5. CASE c[1] = "last"
  <2>1. Map!SeekToLast
    BY <1>3, <1>5 DEF Map!SeekToLast, Map!Nearest, NearestDown, q, c
  <2>2. QED BY <2>1 DEF Map!Next
<1>6. CASE c[1] = "seek"
  <2>1. Map!Seek
    BY <1>3, <1>6 DEF Map!Seek, Map!Nearest, NearestUp, q, c
  <2>2. QED BY <2>1 DEF Map!Next
<1>7. CASE c[1] = "next"
  <2>1. Map!MoveNext
    BY <1>3, <1>7 DEF Map!MoveNext, Map!Nearest, Map!After, NearestUp, q, c, p
  <2>2. QED BY <2>1 DEF Map!Next
<1>8. CASE c[1] = "prev"
  <2>1. Map!MovePrev
    BY <1>3, <1>8 DEF Map!MovePrev, Map!Nearest, Map!Before, NearestDown, q, c, p
  <2>2. QED BY <2>1 DEF Map!Next
<1>9. QED BY <1>3, <1>4, <1>5, <1>6, <1>7, <1>8

\* Between calls the iterator stands where one on a fixed map would: every
\* Seek, Next and Prev, of however many rounds, and however many entries
\* others add in between, is one step to the neighbouring key, and all else
\* does not show.
THEOREM IteratorIsOnAMap == Spec => StandsOnTheMap
<1>1. Init => Map!Init
  <2>1. HAVE Init
  <2>2. pc = "idle" /\ Position = << >> /\ call = <<"none", 0>>
    BY <2>1 DEF Init, Position
  <2>3. QED BY <2>2 DEF Map!Init
<1>2. ASSUME IInv, [Next]_vars
      PROVE  Map!Next \/ UNCHANGED <<View, IF pc = "idle" THEN Position ELSE was[1],
                                     IF pc = "idle" THEN call ELSE was[2]>>
  <2>1. View' = View
    BY <1>2, StepIs
  <2>2. CASE /\ pc' = "idle" => Came'
             /\ IF pc = "idle" THEN was' = <<Position, call>> ELSE UNCHANGED <<call, was>>
    <3>1. was'[1] = IF pc = "idle" THEN Position ELSE was[1]
      BY <2>2
    <3>2. CASE pc' = "idle"
      BY <1>2, <2>1, <2>2, <3>1, <3>2, CallsAreMapSteps
    <3>3. CASE pc' # "idle"
      <4>1. was'[2] = IF pc = "idle" THEN call ELSE was[2]
        BY <2>2
      <4>2. QED BY <2>1, <3>1, <3>3, <4>1
    <3>4. QED BY <3>2, <3>3
  <2>3. CASE /\ UNCHANGED <<pc, call>> /\ (pc = "idle" => Position' = Position)
             /\ pc # "idle" => was' = was
    BY <2>1, <2>3
  <2>4. QED BY <1>2, <2>2, <2>3, StepIs
<1>3. QED BY <1>1, <1>2, IteratorInvariant, PTL DEF Spec, StandsOnTheMap, Map!Spec
=============================================================================
