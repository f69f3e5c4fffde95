---------------------------- MODULE LdbWriteProofs ----------------------------
(***************************************************************************)
(* The queue of writers keeps its promises for any number of calls: what   *)
(* was acknowledged with sync is synced, readers see whole batches, and    *)
(* batches are numbered in an order that agrees with that of the calls.    *)
(***************************************************************************)
EXTENDS LdbWrite, FiniteSetTheorems, SequenceTheorems, WellFoundedInduction, TLAPS

\* Where the first call of the queue can be, and where it writes its group
\* with the mutex released.
Writing == {"log", "sync", "insert", "relock", "unsynced"}
Leading == {"room", "sleep", "stall", "finish"} \cup Writing

Phase == IF writers = << >> THEN "none" ELSE call[writers[1]].pc
InGroup(c) == \E i \in DOMAIN group : group[i] = c
Pending(c) == InGroup(c) /\ Phase \in Writing

\* The group is being written, and nothing has failed so far.
GoesWell == call[writers[1]].ok

\* What a call was told, or is about to be told by the first of its group.
Good(c) == \/ call[c].pc \in {"await", "done"} /\ call[c].ok
           \/ InGroup(c) /\ Phase = "finish" /\ GoesWell

\* The first number behind the entries of a call.
Beyond(c) == call[c].seq + call[c].count

(* Beyond types: a new memtable is made only below the stop trigger, so    *)
(* that the file it becomes is the last one at most; and the thread that   *)
(* is to write imm_ finds it.                                              *)
Types == /\ TypeOK
         /\ imm # NoTable => l0 < StopTrigger
         /\ bg = "flush" => imm # NoTable
         /\ \A c \in Calls : call[c].pc = "idle" => call[c] = NewCall

(* Only the first call of the queue leads, the others wait.                *)
Queue ==
    /\ \A i, j \in DOMAIN writers : i # j => writers[i] # writers[j]
    /\ \A c \in Calls : (\E i \in DOMAIN writers : writers[i] = c)
                            <=> call[c].pc \in Leading \cup {"queued"}
    /\ \A i \in DOMAIN writers : i # 1 => call[writers[i]].pc = "queued"
    /\ \A c \in Calls : mutex = c <=> call[c].pc \in {"room", "finish"}

(* A group is the beginning of the queue, and is synced if one in it asks. *)
Groups ==
    /\ group # << >> <=> Phase \in Writing \cup {"finish"}
    /\ Len(group) <= Len(writers)
    /\ \A i \in DOMAIN group : group[i] = writers[i]
    /\ \A i \in DOMAIN group : call[group[i]].sync => call[group[1]].sync

(* Numbers up to LastSequence are given, those of the group come next.     *)
Numbers ==
    /\ \A c \in Calls : call[c].seq # 0 => call[c].pc \in {"await", "done"} \/ InGroup(c)
    /\ \A c \in Calls : call[c].seq # 0 => IF Pending(c) THEN call[c].seq > lastSequence
                                           ELSE Beyond(c) <= lastSequence + 1
    /\ Phase \in Writing =>
          \A i \in DOMAIN group : call[group[i]].seq = lastSequence + 1 + Count(group, i - 1)

(* Batches come one after the other, behind those that they saw succeed.   *)
Order ==
    /\ \A c, d \in Calls : c # d /\ call[c].seq # 0 /\ call[d].seq # 0 =>
          Beyond(c) <= call[d].seq \/ Beyond(d) <= call[c].seq
    /\ \A d \in Calls : \A c \in call[d].before :
          Succeeded(c) /\ (call[d].seq # 0 => Beyond(c) <= call[d].seq)

(* What is stored is below LastSequence, or is of the group that is being  *)
(* inserted; a batch that is not being written is there whole or not.      *)
Stores ==
    /\ \A e \in Stored : \/ e <= lastSequence
                         \/ Phase \in {"insert", "relock"} /\ GoesWell /\ e \in GroupEntries
    /\ \A c \in Calls : call[c].seq # 0 /\ ~ Pending(c) =>
          Entries(c) \subseteq Stored \/ Entries(c) \cap Stored = {}
    /\ Phase = "relock" /\ GoesWell => GroupEntries \subseteq Stored

(* What the calls are told is true.                                        *)
Answers ==
    /\ \A c \in Calls : Good(c) => Entries(c) \subseteq Stored /\ (call[c].seq = 0 => call[c].count = 0)
    /\ \A c \in Calls : call[c].pc = "await" => call[c].count = 0
    /\ Phase \in {"room", "sleep", "stall", "log", "sync", "insert"} => GoesWell
    /\ Phase = "unsynced" => ~ GoesWell
    /\ \A c \in Calls : call[c].pc = "queued" => call[c].ok

(* The log has the group before it is synced, and what is acknowledged     *)
(* with sync is synced.                                                    *)
Logs ==
    /\ Phase = "sync" => GroupEntries \subseteq log
    /\ Phase \in {"insert", "relock"} /\ GoesWell /\ call[writers[1]].sync =>
          GroupEntries \subseteq synced
    /\ \A c \in Calls : Good(c) /\ call[c].sync => Entries(c) \subseteq synced

IInv == Types /\ Queue /\ Groups /\ Numbers /\ Order /\ Stores /\ Answers /\ Logs
-----------------------------------------------------------------------------
(* A set of naturals that is not empty has a least element: where a claim  *)
(* about a sum, or about the calls that fit in a group, fails first.       *)
LEMMA LeastElement ==
    ASSUME NEW T, T \subseteq Nat, T # {}
    PROVE  \E n \in T : \A m \in T : n <= m
<1>1. PICK n \in T : \A m \in T : ~ (<<m, n>> \in OpToRel(<, Nat))
  BY NatLessThanWellFounded, WFMin
<1>2. \A m \in T : ~ (m < n)
  BY <1>1 DEF OpToRel
<1>3. QED BY <1>2

\* The recursion of Sum, one step further.
SumBody(numbers, f, n) ==
    [i \in 0..n |-> IF i = 0 THEN 0 ELSE f[i - 1] + numbers[i]]

(* The recursion of Sum has a solution, for every number of summands.      *)
LEMMA SumIsDefined ==
    ASSUME NEW numbers, NEW n \in Nat
    PROVE  \E f : f = SumBody(numbers, f, n)
<1> DEFINE Bad == {m \in Nat : ~ \E f : f = SumBody(numbers, f, m)}
<1>1. SUFFICES ASSUME Bad # {} PROVE FALSE
  OBVIOUS
<1>2. PICK m \in Bad : \A k \in Bad : m <= k
  <2>1. Bad \subseteq Nat
    OBVIOUS
  <2> HIDE DEF Bad
  <2>2. QED BY <1>1, <2>1, LeastElement
<1>3. CASE m = 0
  <2> DEFINE g == [i \in 0..0 |-> 0]
  <2>1. g = SumBody(numbers, g, 0)
    BY DEF SumBody
  <2>2. QED BY <1>2, <1>3, <2>1
<1>4. CASE m # 0
  <2>1. m \in Nat /\ m - 1 \in Nat /\ m - 1 \notin Bad
    <3>1. m \in Nat /\ m - 1 \in Nat /\ ~ (m <= m - 1)
      BY <1>2, <1>4
    <3> HIDE DEF Bad
    <3>2. QED BY <1>2, <3>1
  <2>2. PICK f : f = SumBody(numbers, f, m - 1)
    BY <2>1
  <2> DEFINE g == [i \in 0..m |-> IF i = m THEN f[m - 1] + numbers[m] ELSE f[i]]
  <2>3. \A i \in 0..m : g[i] = SumBody(numbers, g, m)[i]
    <3>1. TAKE i \in 0..m
    <3>2. CASE i = m
      BY <3>2, <1>4, <2>1 DEF SumBody
    <3>3. CASE i # m
      <4>1. i \in 0..(m - 1) /\ (i # 0 => i - 1 \in 0..m /\ i - 1 # m)
        BY <3>3, <2>1
      <4>2. f[i] = SumBody(numbers, f, m - 1)[i] /\ (i # 0 => g[i - 1] = f[i - 1])
        BY <4>1, <2>2
      <4>3. QED BY <3>3, <4>1, <4>2 DEF SumBody
    <3>4. QED BY <3>2, <3>3
  <2>4. g = SumBody(numbers, g, m)
    BY <2>3 DEF SumBody
  <2>5. QED BY <1>2, <2>4
<1>5. QED BY <1>3, <1>4

(* Solutions of different lengths agree as far as they go.                 *)
LEMMA SumIsUnique ==
    ASSUME NEW numbers, NEW n \in Nat, NEW m \in Nat, n <= m,
           NEW f, f = SumBody(numbers, f, n), NEW g, g = SumBody(numbers, g, m)
    PROVE  \A i \in 0..n : f[i] = g[i]
<1> DEFINE Bad == {i \in 0..n : f[i] # g[i]}
<1>1. SUFFICES ASSUME Bad # {} PROVE FALSE
  OBVIOUS
<1>2. PICK i \in Bad : \A k \in Bad : i <= k
  <2>1. Bad \subseteq Nat
    OBVIOUS
  <2> HIDE DEF Bad
  <2>2. QED BY <1>1, <2>1, LeastElement
<1>3. i \in 0..n /\ i \in 0..m
  BY <1>2
<1>4. /\ f[i] = IF i = 0 THEN 0 ELSE f[i - 1] + numbers[i]
      /\ g[i] = IF i = 0 THEN 0 ELSE g[i - 1] + numbers[i]
  <2>1. f[i] = SumBody(numbers, f, n)[i] /\ g[i] = SumBody(numbers, g, m)[i]
    OBVIOUS
  <2>2. QED BY <1>3, <2>1 DEF SumBody
<1>5. CASE i = 0
  BY <1>2, <1>4, <1>5
<1>6. CASE i # 0
  <2>1. i - 1 \in 0..n /\ ~ (i <= i - 1)
    BY <1>3, <1>6
  <2>2. i - 1 \notin Bad
    <3> HIDE DEF Bad
    <3>1. QED BY <1>2, <2>1
  <2>3. QED BY <1>2, <1>4, <1>6, <2>1, <2>2
<1>7. QED BY <1>5, <1>6

(* Sum adds the numbers up one by one.                                     *)
LEMMA SumStep ==
    ASSUME NEW numbers
    PROVE  /\ Sum(numbers, 0) = 0
           /\ \A n \in Nat : Sum(numbers, n + 1) = Sum(numbers, n) + numbers[n + 1]
<1> DEFINE S(n) == CHOOSE f : f = SumBody(numbers, f, n)
<1>1. \A n \in Nat : S(n) = SumBody(numbers, S(n), n)
  BY SumIsDefined
<1>2. \A n : Sum(numbers, n) = S(n)[n]
  BY DEF Sum, SumBody
<1> HIDE DEF S
<1>3. Sum(numbers, 0) = 0
  BY <1>1, <1>2 DEF SumBody
<1>4. ASSUME NEW n \in Nat
      PROVE  Sum(numbers, n + 1) = Sum(numbers, n) + numbers[n + 1]
  <2>1. S(n + 1)[n + 1] = S(n + 1)[n] + numbers[n + 1]
    <3>1. S(n + 1)[n + 1] = SumBody(numbers, S(n + 1), n + 1)[n + 1]
      BY <1>1
    <3>2. QED BY <3>1 DEF SumBody
  <2>2. S(n)[n] = S(n + 1)[n]
    BY <1>1, SumIsUnique
  <2>3. QED BY <1>2, <2>1, <2>2
<1>5. QED BY <1>3, <1>4

(* A sum of naturals is one, and does not get smaller with more of them.   *)
LEMMA SumGrows ==
    ASSUME NEW len \in Nat, NEW numbers \in [1..len -> Nat]
    PROVE  \A n \in 0..len : \A m \in 0..n :
              Sum(numbers, m) \in Nat /\ Sum(numbers, n) \in Nat /\ Sum(numbers, m) <= Sum(numbers, n)
<1> DEFINE Bad == {n \in 0..len : ~ \A m \in 0..n : /\ Sum(numbers, m) \in Nat
                                                  /\ Sum(numbers, n) \in Nat
                                                  /\ Sum(numbers, m) <= Sum(numbers, n)}
<1>1. SUFFICES ASSUME Bad # {} PROVE FALSE
  OBVIOUS
<1>2. PICK n \in Bad : \A k \in Bad : n <= k
  <2>1. Bad \subseteq Nat
    OBVIOUS
  <2> HIDE DEF Bad
  <2>2. QED BY <1>1, <2>1, LeastElement
<1>3. n \in 0..len
  BY <1>2
<1>4. CASE n = 0
  BY <1>2, <1>4, SumStep
<1>5. CASE n # 0
  <2>1. n - 1 \in Nat /\ n - 1 \in 0..len /\ ~ (n <= n - 1) /\ n \in 1..len
    BY <1>3, <1>5
  <2>2. n - 1 \notin Bad
    <3> HIDE DEF Bad
    <3>1. QED BY <1>2, <2>1
  <2>3. Sum(numbers, n) = Sum(numbers, n - 1) + numbers[n]
    BY <2>1, SumStep
  <2>4. numbers[n] \in Nat
    BY <2>1
  <2>5. \A m \in 0..(n - 1) : /\ Sum(numbers, m) \in Nat /\ Sum(numbers, n - 1) \in Nat
                              /\ Sum(numbers, m) <= Sum(numbers, n - 1)
    BY <2>1, <2>2
  <2>6. Sum(numbers, n - 1) \in Nat
    BY <2>1, <2>5
  <2>7. ASSUME NEW m \in 0..n
        PROVE  /\ Sum(numbers, m) \in Nat /\ Sum(numbers, n) \in Nat
               /\ Sum(numbers, m) <= Sum(numbers, n)
    <3>1. CASE m = n
      BY <2>3, <2>4, <2>6, <3>1
    <3>2. CASE m # n
      <4>1. m \in 0..(n - 1)
        BY <2>1, <3>2
      <4>2. QED BY <2>3, <2>4, <2>5, <2>6, <4>1
    <3>3. QED BY <3>1, <3>2
  <2>8. QED BY <1>2, <2>7
<1>6. QED BY <1>4, <1>5
-----------------------------------------------------------------------------
CallType == [pc : Places, sync : BOOLEAN, count : Nat, seq : Nat, ok : BOOLEAN,
             awake : BOOLEAN, delayed : BOOLEAN, before : SUBSET Calls]

\* Count, for the calls as f has them.
CountIn(f, calls, n) == Sum([i \in DOMAIN calls |-> f[calls[i]].count], n)

(* Count adds the entries of calls in a queue up one by one.               *)
LEMMA CountSteps ==
    ASSUME NEW calls \in Seq(Calls), NEW f \in [Calls -> CallType]
    PROVE  /\ CountIn(f, calls, 0) = 0
           /\ \A i \in DOMAIN calls :
                 CountIn(f, calls, i) = CountIn(f, calls, i - 1) + f[calls[i]].count
           /\ \A n \in 0..Len(calls) : \A m \in 0..n :
                 /\ CountIn(f, calls, m) \in Nat /\ CountIn(f, calls, n) \in Nat
                 /\ CountIn(f, calls, m) <= CountIn(f, calls, n)
<1> DEFINE numbers == [i \in DOMAIN calls |-> f[calls[i]].count]
<1>1. Len(calls) \in Nat /\ DOMAIN calls = 1..Len(calls)
  OBVIOUS
<1>2. numbers \in [1..Len(calls) -> Nat]
  BY <1>1 DEF CallType
<1>3. \A n : CountIn(f, calls, n) = Sum(numbers, n)
  BY DEF CountIn
<1>4. \A i \in DOMAIN calls : numbers[i] = f[calls[i]].count
  OBVIOUS
<1> HIDE DEF numbers
<1>5. Sum(numbers, 0) = 0
  BY SumStep
<1>6. ASSUME NEW i \in DOMAIN calls
      PROVE  CountIn(f, calls, i) = CountIn(f, calls, i - 1) + f[calls[i]].count
  <2>1. i - 1 \in Nat /\ (i - 1) + 1 = i
    BY <1>1
  <2>2. Sum(numbers, (i - 1) + 1) = Sum(numbers, i - 1) + numbers[(i - 1) + 1]
    BY <2>1, SumStep
  <2>3. QED BY <1>3, <1>4, <2>1, <2>2
<1>7. \A n \in 0..Len(calls) : \A m \in 0..n :
         Sum(numbers, m) \in Nat /\ Sum(numbers, n) \in Nat /\ Sum(numbers, m) <= Sum(numbers, n)
  BY <1>1, <1>2, SumGrows
<1>8. QED BY <1>3, <1>5, <1>6, <1>7

SameCounts(f, g, calls) == \A i \in DOMAIN calls : f[calls[i]].count = g[calls[i]].count

(* It depends on the batches alone, and these never change.                *)
LEMMA CountIsSame ==
    ASSUME NEW calls, NEW f, NEW g, SameCounts(f, g, calls)
    PROVE  \A n : CountIn(f, calls, n) = CountIn(g, calls, n)
<1>1. [i \in DOMAIN calls |-> f[calls[i]].count] = [i \in DOMAIN calls |-> g[calls[i]].count]
  BY DEF SameCounts
<1>2. QED BY <1>1 DEF CountIn
-----------------------------------------------------------------------------
(* What a call in the queue, or at its head, says of the queue.            *)
LEMMA LeaderIsFirst ==
    ASSUME IInv, NEW c \in Calls, call[c].pc \in Leading
    PROVE  /\ writers # << >> /\ 1 \in DOMAIN writers
           /\ writers[1] = c /\ Phase = call[c].pc /\ Head(writers) = c
<1>1. PICK i \in DOMAIN writers : writers[i] = c
  BY DEF IInv, Queue
<1>2. i = 1
  BY <1>1 DEF IInv, Queue, Leading, Writing
<1>3. writers \in Seq(Calls)
  BY DEF IInv, Types, TypeOK
<1>4. QED BY <1>1, <1>2, <1>3 DEF Phase

(* A call that is not at the head does not lead.                           *)
LEMMA PhaseIsOfFirst ==
    ASSUME IInv, Phase \in Leading
    PROVE  /\ writers # << >> /\ 1 \in DOMAIN writers /\ writers[1] \in Calls
           /\ Phase = call[writers[1]].pc
<1>1. writers \in Seq(Calls) /\ writers # << >>
  BY DEF IInv, Types, TypeOK, Phase, Leading, Writing
<1>2. QED BY <1>1 DEF Phase

(* The calls of a group are the first of the queue, and there are some     *)
(* from the log record on to the end.                                      *)
LEMMA GroupIsFirst ==
    ASSUME IInv, Phase \in Writing \cup {"finish"}
    PROVE  /\ group \in Seq(Calls) /\ Len(group) \in Nat /\ Len(group) >= 1
           /\ DOMAIN group = 1..Len(group) /\ group[1] = writers[1] /\ Head(group) = writers[1]
           /\ InGroup(writers[1])
           /\ \A i, j \in DOMAIN group : i # j => group[i] # group[j]
<1>1. group \in Seq(Calls) /\ writers \in Seq(Calls) /\ group # << >>
  BY DEF IInv, Types, TypeOK, Groups
<1>2. Len(group) \in Nat /\ Len(group) >= 1 /\ DOMAIN group = 1..Len(group)
  BY <1>1
<1>3. group[1] = writers[1] /\ Head(group) = writers[1]
  BY <1>1, <1>2 DEF IInv, Groups
<1>4. ASSUME NEW i \in DOMAIN group, NEW j \in DOMAIN group, i # j
      PROVE  group[i] # group[j]
  <2>1. i \in DOMAIN writers /\ j \in DOMAIN writers
    BY <1>1, <1>2 DEF IInv, Groups
  <2>2. QED BY <1>4, <2>1 DEF IInv, Groups, Queue
<1>5. QED BY <1>1, <1>2, <1>3, <1>4 DEF InGroup

LEMMA NoGroup ==
    ASSUME IInv, Phase \notin Writing \cup {"finish"}
    PROVE  group = << >> /\ \A c : ~ InGroup(c) /\ ~ Pending(c)
  BY DEF IInv, Groups, InGroup, Pending

LEMMA GroupEntriesAre ==
    ASSUME group \in Seq(Calls)
    PROVE  \A e : e \in GroupEntries <=> \E c \in Calls : InGroup(c) /\ e \in Entries(c)
  BY DEF GroupEntries, InGroup, ToSet

(* Numbers of a call's entries.                                            *)
LEMMA EntriesAre ==
    ASSUME NEW c \in Calls, call \in [Calls -> CallType]
    PROVE  /\ \A e : e \in Entries(c) <=> e \in Nat /\ call[c].seq <= e /\ e < Beyond(c)
           /\ call[c].seq \in Nat /\ call[c].count \in Nat /\ Beyond(c) \in Nat
           /\ call[c].seq <= Beyond(c)
<1>1. call[c].seq \in Nat /\ call[c].count \in Nat
  BY DEF CallType
<1>2. QED BY <1>1 DEF Entries, Beyond

(* A group is a part of the queue from its first call on, in which only    *)
(* calls that joined one with sync ask for it.                             *)
LEMMA GroupIsBuilt ==
    ASSUME IInv, writers # << >>
    PROVE  LET g == BuildBatchGroup
           IN  /\ g \in Seq(Calls) /\ g # << >> /\ Len(g) \in Nat /\ Len(g) >= 1
               /\ DOMAIN g = 1..Len(g) /\ Len(g) <= Len(writers)
               /\ \A i \in DOMAIN g : g[i] = writers[i]
               /\ \A i \in DOMAIN g : call[g[i]].sync => call[g[1]].sync
<1> DEFINE first == Head(writers)
           limit == IF call[first].count <= SmallBatch
                    THEN call[first].count + SmallBatch ELSE MaxBatch
           fits(n) == \A i \in 2..n :
                         /\ JoinsGroup(first, writers[i])
                         /\ call[writers[i]].count # 0 => Count(writers, i) <= limit
           last(n) == n = Len(writers) \/ ~ fits(n + 1)
<1>1. writers \in Seq(Calls) /\ Len(writers) \in Nat /\ Len(writers) >= 1 /\ first = writers[1]
  BY DEF IInv, Types, TypeOK
<1> HIDE DEF first, fits
<1>2. \E n \in 1..Len(writers) : fits(n) /\ last(n)
  <2> DEFINE T == {n \in 1..Len(writers) : last(n)}
  <2>1. T \subseteq Nat /\ Len(writers) \in T
    BY <1>1
  <2> HIDE DEF T
  <2>2. PICK n \in T : \A m \in T : n <= m
    BY <2>1, LeastElement
  <2>3. n \in 1..Len(writers) /\ last(n)
    BY DEF T
  <2>4. CASE n = 1
    <3>1. fits(1)
      BY DEF fits
    <3>2. QED BY <2>3, <2>4, <3>1
  <2>5. CASE n # 1
    <3>1. n - 1 \in 1..Len(writers) /\ ~ (n <= n - 1) /\ (n - 1) + 1 = n
      BY <1>1, <2>3, <2>5
    <3>2. ~ last(n - 1)
      BY <2>2, <3>1 DEF T
    <3>3. QED BY <2>3, <3>1, <3>2
  <2>6. QED BY <2>4, <2>5
<1> DEFINE k == CHOOSE n \in 1..Len(writers) : fits(n) /\ last(n)
<1>3. k \in 1..Len(writers) /\ fits(k)
  BY <1>2
<1>4. BuildBatchGroup = SubSeq(writers, 1, k)
  BY DEF BuildBatchGroup, Prefix, fits, first
<1> HIDE DEF k
<1> DEFINE g == SubSeq(writers, 1, k)
<1>5. g \in Seq(Calls) /\ Len(g) = k /\ DOMAIN g = 1..k /\ \A i \in 1..k : g[i] = writers[i]
  BY <1>1, <1>3
<1> HIDE DEF g
<1>6. \A i \in 1..k : call[g[i]].sync => call[g[1]].sync
  <2>1. TAKE i \in 1..k
  <2>2. g[i] = writers[i] /\ g[1] = writers[1]
    BY <1>3, <1>5
  <2>3. CASE i = 1
    BY <2>3
  <2>4. CASE i # 1
    <3>1. i \in 2..k
      BY <2>4, <1>3
    <3>2. JoinsGroup(first, writers[i])
      BY <1>3, <3>1 DEF fits
    <3>3. QED BY <1>1, <2>2, <3>2 DEF JoinsGroup
  <2>5. QED BY <2>3, <2>4
<1>7. k \in Nat /\ k >= 1 /\ k <= Len(writers) /\ g # << >>
  BY <1>1, <1>3, <1>5
<1>8. BuildBatchGroup = g
  BY <1>4 DEF g
<1>9. QED BY <1>5, <1>6, <1>7, <1>8

(* A group's numbers go on from LastSequence, call by call.                *)
LEMMA GroupIsNumbered ==
    ASSUME call \in [Calls -> CallType], lastSequence \in Nat,
           NEW g \in Seq(Calls), \A i, j \in DOMAIN g : i # j => g[i] # g[j]
    PROVE  /\ Numbered(g) \in [Calls -> CallType]
           /\ \A i \in DOMAIN g : Numbered(g)[g[i]] =
                 [call[g[i]] EXCEPT !.seq = lastSequence + 1 + CountIn(call, g, i - 1)]
           /\ \A c \in Calls : (\A i \in DOMAIN g : g[i] # c) => Numbered(g)[c] = call[c]
<1>1. DOMAIN g = 1..Len(g) /\ Len(g) \in Nat
  OBVIOUS
<1>2. \A i \in DOMAIN g : CountIn(call, g, i - 1) \in Nat
  <2>1. \A n \in 0..Len(g) : \A m \in 0..n : CountIn(call, g, m) \in Nat
    BY CountSteps
  <2>2. QED BY <1>1, <2>1
<1>3. \A n : Count(g, n) = CountIn(call, g, n)
  BY DEF Count, CountIn
<1>4. ASSUME NEW i \in DOMAIN g
      PROVE  Numbered(g)[g[i]] =
                [call[g[i]] EXCEPT !.seq = lastSequence + 1 + CountIn(call, g, i - 1)]
  <2>1. g[i] \in Calls /\ g[i] \in ToSet(g)
    BY DEF ToSet
  <2>2. (CHOOSE j \in DOMAIN g : g[j] = g[i]) = i
    OBVIOUS
  <2>3. QED BY <1>3, <2>1, <2>2 DEF Numbered
<1>5. ASSUME NEW c \in Calls, \A i \in DOMAIN g : g[i] # c
      PROVE  Numbered(g)[c] = call[c]
  BY <1>5 DEF Numbered, ToSet
<1>6. ASSUME NEW c \in Calls PROVE Numbered(g)[c] \in CallType
  <2>1. CASE \A i \in DOMAIN g : g[i] # c
    BY <1>5, <2>1
  <2>2. CASE \E i \in DOMAIN g : g[i] = c
    <3>1. PICK i \in DOMAIN g : g[i] = c
      BY <2>2
    <3>2. lastSequence + 1 + CountIn(call, g, i - 1) \in Nat
      BY <1>2
    <3>3. Numbered(g)[c] = [call[c] EXCEPT !.seq = lastSequence + 1 + CountIn(call, g, i - 1)]
      BY <1>4, <3>1
    <3>4. call[c] \in CallType
      OBVIOUS
    <3> DEFINE n == lastSequence + 1 + CountIn(call, g, i - 1)
    <3>5. n \in Nat /\ Numbered(g)[c] = [call[c] EXCEPT !.seq = n]
      BY <3>2, <3>3
    <3> HIDE DEF n
    <3>6. [call[c] EXCEPT !.seq = n] \in CallType
      BY <3>4, <3>5 DEF CallType
    <3>7. QED BY <3>5, <3>6
  <2>3. QED BY <2>1, <2>2
<1>7. DOMAIN Numbered(g) = Calls /\ Numbered(g) = [c \in Calls |-> Numbered(g)[c]]
  BY DEF Numbered
<1>8. QED BY <1>4, <1>5, <1>6, <1>7
-----------------------------------------------------------------------------
\* What no step changes of a call, once it has joined the queue.
SameBatch(c) == /\ call'[c].sync = call[c].sync /\ call'[c].count = call[c].count
                /\ call'[c].seq = call[c].seq /\ call'[c].before = call[c].before
                /\ call'[c].pc \in {"await", "done"} <=> call[c].pc \in {"await", "done"}

\* A step that neither makes nor ends a group, and publishes nothing.
Keeps == /\ \A c \in Calls : SameBatch(c) /\ (Succeeded(c) => Succeeded(c)')
         /\ writers' = writers /\ group' = group /\ lastSequence' = lastSequence
         /\ Phase' \in Writing <=> Phase \in Writing

LEMMA Typing ==
    ASSUME IInv
    PROVE  /\ call \in [Calls -> CallType] /\ lastSequence \in Nat
           /\ writers \in Seq(Calls) /\ group \in Seq(Calls)
  BY DEF IInv, Types, TypeOK, CallType

(* Such a step leaves the numbers and their order as they are.             *)
LEMMA KeepsNumbers ==
    ASSUME IInv, Keeps
    PROVE  /\ Numbers' /\ Order' /\ GroupEntries' = GroupEntries
           /\ \A c \in Calls : /\ Entries(c)' = Entries(c) /\ (InGroup(c)' <=> InGroup(c))
                               /\ (Pending(c)' <=> Pending(c)) /\ Beyond(c)' = Beyond(c)
<1> USE Typing
<1>1. \A c \in Calls : /\ Entries(c)' = Entries(c) /\ Beyond(c)' = Beyond(c)
                       /\ call'[c].seq = call[c].seq /\ call'[c].before = call[c].before
                       /\ call'[c].pc \in {"await", "done"} <=> call[c].pc \in {"await", "done"}
  BY DEF Keeps, SameBatch, Entries, Beyond
<1>2. \A c : InGroup(c)' <=> InGroup(c)
  BY DEF Keeps, InGroup
<1>3. \A c : Pending(c)' <=> Pending(c)
  BY <1>2 DEF Keeps, Pending
<1>4. \A n : Count(group, n)' = Count(group, n)
  <2>1. SameCounts(call', call, group)
    BY DEF Keeps, SameBatch, SameCounts
  <2>2. \A n : CountIn(call', group, n) = CountIn(call, group, n)
    BY <2>1, CountIsSame
  <2>3. QED BY <2>2 DEF Count, CountIn, Keeps
<1>5. GroupEntries' = GroupEntries
  <2>1. \A c \in ToSet(group) : c \in Calls
    BY DEF ToSet
  <2>2. QED BY <1>1, <2>1 DEF GroupEntries, Keeps
<1>6. Numbers'
  <2>1. \A c \in Calls : call'[c].seq # 0 => call'[c].pc \in {"await", "done"} \/ InGroup(c)'
    BY <1>1, <1>2 DEF IInv, Numbers
  <2>2. \A c \in Calls : call'[c].seq # 0 => IF Pending(c)' THEN call'[c].seq > lastSequence'
                                             ELSE Beyond(c)' <= lastSequence' + 1
    BY <1>1, <1>3 DEF IInv, Numbers, Keeps
  <2>3. ASSUME Phase' \in Writing, NEW i \in DOMAIN group'
        PROVE  call'[group'[i]].seq = lastSequence' + 1 + Count(group, i - 1)'
    <3>1. group' = group /\ group[i] \in Calls /\ Phase \in Writing /\ lastSequence' = lastSequence
      BY <2>3 DEF Keeps
    <3>2. call[group[i]].seq = lastSequence + 1 + Count(group, i - 1)
      BY <2>3, <3>1 DEF IInv, Numbers
    <3>3. QED BY <1>1, <1>4, <3>1, <3>2
  <2>4. QED BY <2>1, <2>2, <2>3 DEF Numbers
<1>7. Order'
  <2>1. \A c, d \in Calls : c # d /\ call'[c].seq # 0 /\ call'[d].seq # 0 =>
           Beyond(c)' <= call'[d].seq \/ Beyond(d)' <= call'[c].seq
    BY <1>1 DEF IInv, Order
  <2>2. \A d \in Calls : call[d].before \subseteq Calls
    BY DEF CallType
  <2>3. \A d \in Calls : \A c \in call'[d].before :
           Succeeded(c)' /\ (call'[d].seq # 0 => Beyond(c)' <= call'[d].seq)
    BY <1>1, <2>2 DEF IInv, Order, Keeps
  <2>4. QED BY <2>1, <2>3 DEF Order
<1>8. QED BY <1>1, <1>2, <1>3, <1>5, <1>6, <1>7

\* A step of a call that waits, or of the background thread.
Waiting == {"none", "queued", "room", "sleep", "stall"}
Quiet == /\ Keeps /\ Stored' = Stored /\ log' = log /\ synced' = synced
         /\ Phase' = Phase \/ (Phase \in Waiting /\ Phase' \in Waiting)
         /\ \A c \in Calls : /\ call[c].pc # "await" => call'[c].ok = call[c].ok
                             /\ call'[c].pc = "await" => call[c].pc = "await"
                             /\ call'[c].pc = "queued" => call[c].pc = "queued"

(* Such a step leaves what is stored and what calls are told as it is.     *)
LEMMA QuietKeeps ==
    ASSUME IInv, Quiet
    PROVE  Groups' /\ Numbers' /\ Order' /\ Stores' /\ Answers' /\ Logs'
<1> USE Typing
<1>1. Keeps /\ Stored' = Stored /\ log' = log /\ synced' = synced
  BY DEF Quiet
<1>2. /\ Numbers' /\ Order' /\ GroupEntries' = GroupEntries
      /\ \A c \in Calls : /\ Entries(c)' = Entries(c) /\ (InGroup(c)' <=> InGroup(c))
                          /\ (Pending(c)' <=> Pending(c)) /\ Beyond(c)' = Beyond(c)
  BY <1>1, KeepsNumbers
<1>3. /\ writers' = writers /\ group' = group /\ lastSequence' = lastSequence
      /\ \A c \in Calls : /\ call'[c].sync = call[c].sync /\ call'[c].count = call[c].count
                          /\ call'[c].seq = call[c].seq
                          /\ call'[c].pc \in {"await", "done"} <=> call[c].pc \in {"await", "done"}
  BY <1>1 DEF Keeps, SameBatch
<1>4. \A P \in SUBSET (Writing \cup {"finish"}) : Phase' \in P <=> Phase \in P
  BY DEF Quiet, Writing, Waiting
<1>5. /\ Phase' = "relock" <=> Phase = "relock"
      /\ Phase' = "finish" <=> Phase = "finish"
      /\ Phase' = "sync" <=> Phase = "sync"
      /\ Phase' \in {"insert", "relock"} <=> Phase \in {"insert", "relock"}
  BY DEF Quiet, Waiting
<1>6. ASSUME Phase \in Leading \cup {"queued"}
      PROVE  /\ writers[1] \in Calls /\ call[writers[1]].pc = Phase /\ (GoesWell' <=> GoesWell)
             /\ call'[writers[1]].sync = call[writers[1]].sync
  <2>1. writers # << >> /\ writers[1] \in Calls /\ call[writers[1]].pc = Phase
    <3>1. writers # << >>
      BY <1>6 DEF Phase, Leading, Writing
    <3>2. QED BY <3>1 DEF Phase
  <2>2. call[writers[1]].pc # "await"
    BY <1>6, <2>1 DEF Leading, Writing
  <2>3. QED BY <1>3, <2>1, <2>2 DEF Quiet, GoesWell
<1>7. Groups'
  <2>1. group' # << >> <=> Phase' \in Writing \cup {"finish"}
    BY <1>3, <1>4 DEF IInv, Groups
  <2>2. Len(group') <= Len(writers') /\ \A i \in DOMAIN group' : group'[i] = writers'[i]
    BY <1>3 DEF IInv, Groups
  <2>3. \A i \in DOMAIN group' : call'[group'[i]].sync => call'[group'[1]].sync
    <3>1. \A i \in DOMAIN group : group[i] \in Calls /\ group[1] \in Calls
      OBVIOUS
    <3>2. QED BY <1>3, <3>1 DEF IInv, Groups
  <2>4. QED BY <2>1, <2>2, <2>3 DEF Groups
<1>8. Stores'
  <2>1. \A e \in Stored' : \/ e <= lastSequence'
                           \/ Phase' \in {"insert", "relock"} /\ GoesWell' /\ e \in GroupEntries'
    BY <1>1, <1>2, <1>3, <1>5, <1>6 DEF IInv, Stores, Leading, Writing
  <2>2. \A c \in Calls : call'[c].seq # 0 /\ ~ Pending(c)' =>
          Entries(c)' \subseteq Stored' \/ Entries(c)' \cap Stored' = {}
    BY <1>1, <1>2, <1>3 DEF IInv, Stores
  <2>3. Phase' = "relock" /\ GoesWell' => GroupEntries' \subseteq Stored'
    BY <1>1, <1>2, <1>5, <1>6 DEF IInv, Stores, Leading, Writing
  <2>4. QED BY <2>1, <2>2, <2>3 DEF Stores
<1>9. ASSUME NEW c \in Calls, Good(c)'
      PROVE  call[c].count = 0 \/ Good(c)
  <2>1. CASE call'[c].pc \in {"await", "done"} /\ call'[c].ok
    BY <1>3, <2>1 DEF Quiet, Good, IInv, Answers
  <2>2. CASE InGroup(c)' /\ Phase' = "finish" /\ GoesWell'
    BY <1>2, <1>5, <1>6, <2>2 DEF Good, Leading
  <2>3. QED BY <1>9, <2>1, <2>2 DEF Good
<1>10. \A c \in Calls : call[c].count = 0 => Entries(c) = {}
  BY EntriesAre DEF Beyond
<1>11. Answers'
  <2>1. ASSUME NEW c \in Calls, Good(c)'
        PROVE  Entries(c)' \subseteq Stored' /\ (call'[c].seq = 0 => call'[c].count = 0)
    BY <1>1, <1>2, <1>3, <1>9, <1>10, <2>1 DEF IInv, Answers
  <2>2. \A c \in Calls : call'[c].pc = "await" => call'[c].count = 0
    BY <1>3 DEF IInv, Answers, Quiet
  <2>3. Phase' \in {"room", "sleep", "stall", "log", "sync", "insert"} => GoesWell'
    <3>1. SUFFICES ASSUME Phase' \in {"room", "sleep", "stall", "log", "sync", "insert"}
                   PROVE  GoesWell'
      OBVIOUS
    <3>2. writers # << >>
      BY <1>3, <3>1 DEF Phase
    <3>3. Phase = Phase' \/ Phase \in {"queued", "room", "sleep", "stall"}
      <4>1. Phase = call[writers[1]].pc /\ call[writers[1]] \in CallType
        BY <3>2 DEF Phase
      <4>2. Phase # "none"
        BY <4>1 DEF CallType, Places
      <4>3. QED BY <4>2 DEF Quiet, Waiting
    <3>4. Phase \in Leading \cup {"queued"}
      BY <3>1, <3>3 DEF Leading, Writing
    <3>5. CASE Phase = "queued"
      BY <1>6, <3>5 DEF IInv, Answers, GoesWell
    <3>6. CASE Phase # "queued"
      BY <1>6, <3>1, <3>3, <3>4, <3>6 DEF IInv, Answers
    <3>7. QED BY <3>5, <3>6
  <2>4. \A c \in Calls : call'[c].pc = "queued" => call'[c].ok
    BY DEF IInv, Answers, Quiet
  <2>5. Phase' = "unsynced" => ~ GoesWell'
    BY <1>6 DEF Quiet, Waiting, IInv, Answers, Leading, Writing
  <2>6. QED BY <2>1, <2>2, <2>3, <2>4, <2>5 DEF Answers
<1>12. Logs'
  <2>1. Phase' = "sync" => GroupEntries' \subseteq log'
    BY <1>1, <1>2, <1>5 DEF IInv, Logs
  <2>2. Phase' \in {"insert", "relock"} /\ GoesWell' /\ call'[writers'[1]].sync =>
          GroupEntries' \subseteq synced'
    BY <1>1, <1>2, <1>3, <1>5, <1>6 DEF IInv, Logs, Leading, Writing
  <2>3. \A c \in Calls : Good(c)' /\ call'[c].sync => Entries(c)' \subseteq synced'
    BY <1>1, <1>2, <1>3, <1>9, <1>10 DEF IInv, Logs
  <2>4. QED BY <2>1, <2>2, <2>3 DEF Logs
<1>13. QED BY <1>2, <1>7, <1>8, <1>11, <1>12
-----------------------------------------------------------------------------
(* Waking the calls changes nothing but who goes on.                       *)
SameButAwake(c) == /\ call'[c].pc = call[c].pc /\ call'[c].ok = call[c].ok
                   /\ call'[c].sync = call[c].sync /\ call'[c].count = call[c].count
                   /\ call'[c].seq = call[c].seq /\ call'[c].before = call[c].before
                   /\ (call[c].pc = "idle" => call'[c] = call[c])

LEMMA WakeAllIsQuiet ==
    ASSUME call \in [Calls -> CallType], call' = WakeAll(call) \/ call' = call
    PROVE  call' \in [Calls -> CallType] /\ \A c \in Calls : SameButAwake(c)
<1>1. CASE call' = call
  BY <1>1 DEF SameButAwake
<1>2. CASE call' = WakeAll(call)
  <2>1. \A c \in Calls : call'[c] = IF call[c].pc \in {"stall", "await"}
                                    THEN [call[c] EXCEPT !.awake = TRUE] ELSE call[c]
    BY <1>2 DEF WakeAll
  <2>2. ASSUME NEW c \in Calls PROVE call'[c] \in CallType /\ SameButAwake(c)
    <3>1. call[c] \in CallType
      OBVIOUS
    <3>2. [call[c] EXCEPT !.awake = TRUE] \in CallType
      BY <3>1 DEF CallType
    <3>3. QED BY <2>1, <3>1, <3>2 DEF SameButAwake, CallType
  <2>3. call' = [c \in Calls |-> call'[c]]
    BY <1>2 DEF WakeAll
  <2>4. QED BY <2>2, <2>3
<1>3. QED BY <1>1, <1>2

LEMMA WakingIsQuiet ==
    ASSUME IInv, \A c \in Calls : SameButAwake(c),
           UNCHANGED <<mutex, writers, group, lastSequence, log, synced>>, Stored' = Stored
    PROVE  Queue' /\ Quiet
<1> USE Typing
<1>1. Phase' = Phase
  BY DEF Phase, SameButAwake
<1>2. Quiet
  BY <1>1 DEF Quiet, Keeps, SameBatch, SameButAwake, Succeeded, Returned
<1>3. Queue'
  BY DEF IInv, Queue, SameButAwake
<1>4. QED BY <1>2, <1>3

(* imm_ becomes a table, and level 0 has one file more at most.            *)
LEMMA FlushedKeeps ==
    ASSUME IInv, Flushed, imm # NoTable
    PROVE  /\ Stored' = Stored /\ lastSequence' = lastSequence /\ log' = log /\ synced' = synced
           /\ mem' \subseteq Nat /\ imm' = NoTable /\ tables' \subseteq Nat /\ l0' \in 0..StopTrigger
<1>1. imm \subseteq Nat /\ l0 \in 0..StopTrigger /\ l0 < StopTrigger /\ mem \subseteq Nat /\ tables \subseteq Nat
  BY DEF IInv, Types, TypeOK
<1>2. StopTrigger \in Nat
  BY TriggersAreOrdered
<1>3. l0' \in 0..StopTrigger
  BY <1>1, <1>2 DEF Flushed
<1>4. QED BY <1>1, <1>3 DEF Flushed, Stored

LEMMA StepBackground ==
    ASSUME IInv, Background
    PROVE  IInv'
<1> USE Typing
<1>1. UNCHANGED <<mutex, writers, group, closing>>
  BY DEF Background, BackgroundCall, CompactMemTable, FlushFirst, Compact
<1>2. call' = WakeAll(call) \/ call' = call
  BY DEF Background, BackgroundCall, CompactMemTable, FlushFirst, Compact, BgFinish, BgError
<1>3. call' \in [Calls -> CallType] /\ \A c \in Calls : SameButAwake(c)
  BY <1>2, WakeAllIsQuiet
<1>4. TypeOK
  BY DEF IInv, Types
<1>5. errors' \in 0..MaxErrors
  <2>1. errors \in 0..MaxErrors /\ MaxErrors \in Nat
    BY <1>4, LimitsAreNat DEF TypeOK
  <2>2. QED BY <2>1 DEF Background, BackgroundCall, CompactMemTable, FlushFirst, Compact, BgFails
<1>6. bgError' \in BOOLEAN /\ scheduled' \in BOOLEAN
  BY <1>4 DEF TypeOK, Background, BackgroundCall, CompactMemTable, FlushFirst, Compact,
              BgFinish, BgError, Schedules
<1>7. /\ Stored' = Stored /\ UNCHANGED <<lastSequence, log, synced>>
      /\ mem' \subseteq Nat /\ (imm' = NoTable \/ imm' \subseteq Nat) /\ tables' \subseteq Nat
      /\ l0' \in 0..StopTrigger /\ (imm' # NoTable => l0' < StopTrigger)
      /\ bg' \in {"idle", "flush", "compact"} /\ (bg' = "flush" => imm' # NoTable)
  <2>1. CASE UNCHANGED dataVars
    <3>1. UNCHANGED <<lastSequence, log, synced, mem, imm, tables, l0>> /\ Stored' = Stored
      BY <2>1 DEF dataVars, Stored
    <3>2. bg' = "idle" \/ (bg' \in {"flush", "compact"} /\ (bg' = "flush" => imm # NoTable)) \/ bg' = bg
      BY DEF Background, BackgroundCall, CompactMemTable, FlushFirst, Compact, BgFinish, BgError
    <3>3. QED BY <1>4, <3>1, <3>2 DEF IInv, Types, TypeOK
  <2>2. CASE Flushed /\ imm # NoTable /\ bg' \in {"idle", "compact"}
    BY <2>2, FlushedKeeps
  <2>3. CASE /\ l0' = 0 /\ bg' = "idle"
             /\ UNCHANGED <<lastSequence, log, synced, mem, imm, tables>>
    <3>1. StopTrigger \in Nat \ {0}
      BY TriggersAreOrdered
    <3>2. Stored' = Stored
      BY <2>3 DEF Stored
    <3>3. QED BY <1>4, <2>3, <3>1, <3>2 DEF TypeOK
  <2>4. QED
    <3>1. BackgroundCall => UNCHANGED dataVars
      BY DEF BackgroundCall
    <3>2. CompactMemTable => \/ UNCHANGED dataVars
                             \/ Flushed /\ imm # NoTable /\ bg' \in {"idle", "compact"}
      BY DEF CompactMemTable, BgError, BgFinish, IInv, Types
    <3>3. FlushFirst => \/ UNCHANGED dataVars
                        \/ Flushed /\ imm # NoTable /\ bg' \in {"idle", "compact"}
      BY DEF FlushFirst
    <3>4. Compact => \/ UNCHANGED dataVars
                     \/ /\ l0' = 0 /\ bg' = "idle"
                        /\ UNCHANGED <<lastSequence, log, synced, mem, imm, tables>>
      BY DEF Compact, BgError, BgFinish
    <3>5. QED BY <2>1, <2>2, <2>3, <3>1, <3>2, <3>3, <3>4 DEF Background
<1>8. Types'
  <2>1. TypeOK'
    BY <1>1, <1>3, <1>4, <1>5, <1>6, <1>7 DEF TypeOK, CallType
  <2>2. \A c \in Calls : call'[c].pc = "idle" => call'[c] = NewCall
    BY <1>3 DEF SameButAwake, IInv, Types
  <2>3. QED BY <1>7, <2>1, <2>2 DEF Types
<1>9. Queue' /\ Quiet
  BY <1>1, <1>3, <1>7, WakingIsQuiet
<1>10. QED BY <1>8, <1>9, QuietKeeps DEF IInv

LEMMA StepClose ==
    ASSUME IInv, Close \/ UNCHANGED vars
    PROVE  IInv'
<1> USE Typing
<1>1. UNCHANGED <<mutex, queueVars, dataVars, bg, scheduled, bgError, errors>>
  BY DEF Close, vars, bgVars
<1>2. /\ UNCHANGED <<mutex, call, writers, group, lastSequence, log, synced, mem, imm, tables, l0>>
      /\ Stored' = Stored
  BY <1>1 DEF queueVars, dataVars, Stored
<1>3. closing' \in {"no", "wait", "done"}
  BY DEF Close, vars, bgVars, IInv, Types, TypeOK
<1>4. Types'
  <2>1. TypeOK'
    BY <1>1, <1>2, <1>3 DEF IInv, Types, TypeOK
  <2>2. QED BY <1>1, <1>2, <2>1 DEF IInv, Types
<1>5. \A c \in Calls : SameButAwake(c)
  BY <1>2 DEF SameButAwake
<1>6. QED BY <1>2, <1>4, <1>5, WakingIsQuiet, QuietKeeps DEF IInv

(* A call that waits goes on, or waits again: only the first of the queue  *)
(* gets the mutex and leads.                                               *)
LEMMA WaitingMoves ==
    ASSUME IInv, NEW c \in Calls, NEW r \in CallType, call' = [call EXCEPT ![c] = r],
           r.sync = call[c].sync, r.count = call[c].count, r.seq = call[c].seq,
           r.before = call[c].before, r.ok = call[c].ok,
           call[c].pc \in {"queued", "room", "sleep", "stall"},
           r.pc \in {"queued", "room", "sleep", "stall"},
           r.pc = "queued" => call[c].pc = "queued", r.pc # "queued" => writers[1] = c,
           mutex \in {None, c}, mutex' = IF r.pc = "room" THEN c ELSE None,
           UNCHANGED <<writers, group, dataVars, bgVars, errors>>
    PROVE  IInv'
<1> USE Typing
<1>1. /\ UNCHANGED <<lastSequence, log, synced, mem, imm, tables, l0, bg, scheduled, bgError, closing>>
      /\ Stored' = Stored /\ writers' = writers /\ group' = group /\ errors' = errors
  BY DEF dataVars, bgVars, Stored
<1>2. call' \in [Calls -> CallType] /\ call'[c] = r /\ \A d \in Calls \ {c} : call'[d] = call[d]
  OBVIOUS
<1>3. Types'
  <2>1. mutex' \in Calls \cup {None}
    OBVIOUS
  <2>2. TypeOK'
    BY <1>1, <1>2, <2>1 DEF IInv, Types, TypeOK, CallType
  <2>3. \A d \in Calls : call'[d].pc = "idle" => call'[d] = NewCall
    BY <1>2 DEF IInv, Types
  <2>4. QED BY <1>1, <2>2, <2>3 DEF IInv, Types
<1>4. PICK k \in DOMAIN writers : writers[k] = c
  BY DEF IInv, Queue, Leading
<1>5. writers # << >> /\ 1 \in DOMAIN writers /\ writers[1] \in Calls
  BY <1>4
<1>6. Queue'
  <2>1. \A d \in Calls : call'[d].pc \in Leading \cup {"queued"} <=> call[d].pc \in Leading \cup {"queued"}
    BY <1>2 DEF Leading
  <2>2. \A i, j \in DOMAIN writers' : i # j => writers'[i] # writers'[j]
    BY <1>1 DEF IInv, Queue
  <2>3. \A d \in Calls : (\E i \in DOMAIN writers' : writers'[i] = d)
                            <=> call'[d].pc \in Leading \cup {"queued"}
    BY <1>1, <2>1 DEF IInv, Queue
  <2>4. \A i \in DOMAIN writers' : i # 1 => call'[writers'[i]].pc = "queued"
    <3>1. TAKE i \in DOMAIN writers'
    <3>2. SUFFICES ASSUME i # 1 PROVE call'[writers[i]].pc = "queued"
      BY <1>1
    <3>3. i \in DOMAIN writers /\ writers[i] \in Calls /\ writers[i] # writers[1]
      BY <1>1, <1>5, <3>2 DEF IInv, Queue
    <3>4. CASE writers[i] = c
      BY <1>2, <3>3, <3>4
    <3>5. CASE writers[i] # c
      BY <1>2, <3>2, <3>3, <3>5 DEF IInv, Queue
    <3>6. QED BY <3>4, <3>5
  <2>5. \A d \in Calls : mutex' = d <=> call'[d].pc \in {"room", "finish"}
    <3>1. TAKE d \in Calls
    <3>2. CASE d = c
      BY <1>2, <3>2, CallsAreFinite
    <3>3. CASE d # c
      BY <1>2, <3>3, CallsAreFinite DEF IInv, Queue
    <3>4. QED BY <3>2, <3>3
  <2>6. QED BY <2>2, <2>3, <2>4, <2>5 DEF Queue
<1>7. Quiet
  <2>1. Phase = call[writers[1]].pc /\ Phase' = call'[writers[1]].pc
    BY <1>1, <1>5 DEF Phase
  <2>2. Phase' = Phase \/ (Phase \in Waiting /\ Phase' \in Waiting)
    BY <1>2, <1>5, <2>1 DEF Waiting
  <2>3. Phase' \in Writing <=> Phase \in Writing
    BY <2>2 DEF Waiting, Writing
  <2>4. \A d \in Calls : SameBatch(d) /\ (Succeeded(d) => Succeeded(d)')
    BY <1>2 DEF SameBatch, Succeeded, Returned
  <2>5. QED BY <1>1, <1>2, <2>2, <2>3, <2>4 DEF Quiet, Keeps
<1>8. QED BY <1>3, <1>6, <1>7, QuietKeeps DEF IInv

LEMMA HeadIsFirst ==
    ASSUME IInv
    PROVE  writers # << >> => Head(writers) = writers[1]
  BY Typing

LEMMA MutexIsNone ==
    ASSUME IInv, NEW c \in Calls
    PROVE  /\ mutex = None => call[c].pc \notin {"room", "finish"}
           /\ call[c].pc \in {"room", "finish"} => mutex = c
  BY CallsAreFinite DEF IInv, Queue

LEMMA StepWakeUp ==
    ASSUME IInv, NEW c \in Calls, WakeUp(c)
    PROVE  IInv'
<1> USE Typing
<1> DEFINE r == [call[c] EXCEPT !.awake = FALSE, !.pc = IF Head(writers) = c THEN "room" ELSE "queued"]
<1>1. call[c] \in CallType /\ mutex = None /\ call[c].pc = "queued"
  BY DEF WakeUp
<1>2. r \in CallType /\ r.pc = IF Head(writers) = c THEN "room" ELSE "queued"
  BY <1>1 DEF CallType, Places
<1>3. call' = [call EXCEPT ![c] = r]
  BY DEF WakeUp
<1>4. /\ r.sync = call[c].sync /\ r.count = call[c].count /\ r.seq = call[c].seq
      /\ r.before = call[c].before /\ r.ok = call[c].ok
  BY <1>1 DEF CallType
<1>5. writers # << >>
  BY <1>1 DEF IInv, Queue
<1>6. mutex' = IF r.pc = "room" THEN c ELSE None
  BY <1>2 DEF WakeUp
<1>7. UNCHANGED <<writers, group, dataVars, bgVars, errors>>
  BY DEF WakeUp
<1> HIDE DEF r
<1>8. QED BY <1>1, <1>2, <1>3, <1>4, <1>5, <1>6, <1>7, HeadIsFirst, WaitingMoves

LEMMA StepReturn ==
    ASSUME IInv, NEW c \in Calls, Return(c, "sleep") \/ Return(c, "stall")
    PROVE  IInv'
<1> USE Typing
<1> DEFINE r == [call[c] EXCEPT !.pc = "room", !.awake = FALSE]
<1>1. call[c] \in CallType /\ mutex = None /\ call[c].pc \in {"sleep", "stall"}
  BY DEF Return
<1>2. r \in CallType /\ r.pc = "room"
  BY <1>1 DEF CallType, Places
<1>3. call' = [call EXCEPT ![c] = r]
  BY DEF Return
<1>4. /\ r.sync = call[c].sync /\ r.count = call[c].count /\ r.seq = call[c].seq
      /\ r.before = call[c].before /\ r.ok = call[c].ok
  BY <1>1 DEF CallType
<1>5. writers[1] = c
  BY <1>1, LeaderIsFirst DEF Leading
<1>6. mutex' = c /\ UNCHANGED <<writers, group, dataVars, bgVars, errors>>
  BY DEF Return
<1> HIDE DEF r
<1>7. QED BY <1>1, <1>2, <1>3, <1>4, <1>5, <1>6, WaitingMoves

LEMMA StepDelayOrStall ==
    ASSUME IInv, NEW c \in Calls, Delay(c) \/ Stall(c)
    PROVE  IInv'
<1> USE Typing
<1> DEFINE r == IF Delay(c) THEN [call[c] EXCEPT !.pc = "sleep", !.delayed = TRUE]
                ELSE [call[c] EXCEPT !.pc = "stall"]
<1>1. call[c] \in CallType /\ mutex = c /\ call[c].pc = "room"
  BY DEF Delay, Stall, InRoom
<1>2. r \in CallType /\ r.pc \in {"sleep", "stall"}
  BY <1>1 DEF CallType, Places
<1>3. call' = [call EXCEPT ![c] = r]
  BY DEF Delay, Stall
<1>4. /\ r.sync = call[c].sync /\ r.count = call[c].count /\ r.seq = call[c].seq
      /\ r.before = call[c].before /\ r.ok = call[c].ok
  BY <1>1 DEF CallType
<1>5. writers[1] = c
  BY <1>1, LeaderIsFirst DEF Leading
<1>6. mutex' = None /\ UNCHANGED <<writers, group, dataVars, bgVars, errors>>
  BY DEF Delay, Stall
<1> HIDE DEF r
<1>7. QED BY <1>1, <1>2, <1>3, <1>4, <1>5, <1>6, WaitingMoves

LEMMA StepAwaitFlush ==
    ASSUME IInv, NEW c \in Calls, AwaitFlush(c)
    PROVE  IInv'
<1> USE Typing
<1> DEFINE r == [call[c] EXCEPT !.awake = FALSE, !.ok = imm = NoTable,
                                !.pc = IF imm = NoTable \/ bgError THEN "done" ELSE "await"]
<1>1. call[c] \in CallType /\ call[c].pc = "await"
  BY DEF AwaitFlush
<1>2. r \in CallType /\ r.pc \in {"await", "done"}
  BY <1>1 DEF CallType, Places
<1>3. call' = [call EXCEPT ![c] = r]
  BY DEF AwaitFlush
<1>4. /\ r.sync = call[c].sync /\ r.count = call[c].count /\ r.seq = call[c].seq
      /\ r.before = call[c].before
  BY <1>1 DEF CallType
<1>5. UNCHANGED <<mutex, writers, group, dataVars, bgVars, errors>>
  BY DEF AwaitFlush
<1> HIDE DEF r
<1>6. /\ UNCHANGED <<lastSequence, log, synced, mem, imm, tables, l0, bg, scheduled, bgError, closing>>
      /\ Stored' = Stored
  BY <1>5 DEF dataVars, bgVars, Stored
<1>7. call' \in [Calls -> CallType] /\ call'[c] = r /\ \A d \in Calls \ {c} : call'[d] = call[d]
  BY <1>2, <1>3
<1>8. Types'
  <2>1. TypeOK'
    BY <1>5, <1>6, <1>7 DEF IInv, Types, TypeOK, CallType
  <2>2. \A d \in Calls : call'[d].pc = "idle" => call'[d] = NewCall
    BY <1>2, <1>7 DEF IInv, Types
  <2>3. QED BY <1>6, <2>1, <2>2 DEF IInv, Types
<1>9. \A i \in DOMAIN writers : writers[i] \in Calls /\ writers[i] # c
  <2>1. call[c].pc \notin Leading \cup {"queued"}
    BY <1>1 DEF Leading, Writing
  <2>2. QED BY <2>1 DEF IInv, Queue
<1>10. Queue'
  <2>1. \A d \in Calls : /\ call'[d].pc \in Leading \cup {"queued"} <=> call[d].pc \in Leading \cup {"queued"}
                         /\ call'[d].pc \in {"room", "finish"} <=> call[d].pc \in {"room", "finish"}
    BY <1>1, <1>2, <1>7 DEF Leading, Writing
  <2>2. \A i \in DOMAIN writers : call'[writers[i]] = call[writers[i]]
    BY <1>7, <1>9
  <2>3. QED BY <1>5, <2>1, <2>2 DEF IInv, Queue
<1>11. Quiet
  <2>1. Phase' = Phase
    <3>1. writers # << >> => writers[1] \in Calls /\ writers[1] # c
      BY <1>9
    <3>2. QED BY <1>5, <1>7, <3>1 DEF Phase
  <2>2. \A d \in Calls : SameBatch(d) /\ (Succeeded(d) => Succeeded(d)')
    BY <1>1, <1>2, <1>4, <1>7 DEF SameBatch, Succeeded, Returned
  <2>3. \A d \in Calls : /\ call[d].pc # "await" => call'[d].ok = call[d].ok
                         /\ call'[d].pc = "await" => call[d].pc = "await"
                         /\ call'[d].pc = "queued" => call[d].pc = "queued"
    BY <1>1, <1>2, <1>7
  <2>4. QED BY <1>5, <1>6, <2>1, <2>2, <2>3 DEF Quiet, Keeps
<1>12. QED BY <1>8, <1>10, <1>11, QuietKeeps DEF IInv

(* A call that is new has no entries yet, and is behind all that were told *)
(* of success.                                                             *)
LEMMA StepEnqueue ==
    ASSUME IInv, NEW c \in Calls, Enqueue(c)
    PROVE  IInv'
<1> USE Typing
<1>1. /\ mutex = None /\ call[c].pc = "idle" /\ call[c] = NewCall /\ writers' = Append(writers, c)
      /\ mutex' = IF writers = << >> THEN c ELSE None
      /\ UNCHANGED <<group, dataVars, bgVars, errors>>
  BY DEF Enqueue, IInv, Types
<1>2. PICK r : /\ call' = [call EXCEPT ![c] = r] /\ r \in CallType
               /\ r.pc = IF writers = << >> THEN "room" ELSE "queued"
               /\ r.before = {d \in Calls : Succeeded(d)} /\ r.ok /\ r.seq = 0
  <2>1. PICK kind \in Kinds :
          call' = [call EXCEPT ![c].sync = kind.sync, ![c].count = kind.count,
                     ![c].pc = IF writers = << >> THEN "room" ELSE "queued",
                     ![c].before = {d \in Calls : Succeeded(d)}]
    BY DEF Enqueue
  <2>2. kind \in [sync : BOOLEAN, count : Nat]
    BY KindsType
  <2> DEFINE r == [call[c] EXCEPT !.sync = kind.sync, !.count = kind.count,
                     !.pc = IF writers = << >> THEN "room" ELSE "queued",
                     !.before = {d \in Calls : Succeeded(d)}]
  <2>3. call' = [call EXCEPT ![c] = r]
    BY <2>1
  <2>4. {d \in Calls : Succeeded(d)} \in SUBSET Calls
    OBVIOUS
  <2>5. r \in CallType
    BY <1>1, <2>2, <2>4 DEF CallType, Places, NewCall
  <2>6. /\ r.pc = IF writers = << >> THEN "room" ELSE "queued"
        /\ r.before = {d \in Calls : Succeeded(d)} /\ r.ok /\ r.seq = 0
    BY <1>1 DEF NewCall
  <2> HIDE DEF r
  <2>7. QED BY <2>3, <2>5, <2>6
<1>3. call' \in [Calls -> CallType] /\ call'[c] = r /\ \A d \in Calls \ {c} : call'[d] = call[d]
  BY <1>2
<1>4. /\ UNCHANGED <<lastSequence, log, synced, mem, imm, tables, l0, bg, scheduled, bgError, closing>>
      /\ Stored' = Stored /\ group' = group /\ errors' = errors
  BY <1>1 DEF dataVars, bgVars, Stored
<1>5. /\ writers' \in Seq(Calls) /\ Len(writers') = Len(writers) + 1 /\ Len(writers) \in Nat
      /\ DOMAIN writers = 1..Len(writers) /\ DOMAIN writers' = 1..(Len(writers) + 1)
      /\ \A i \in DOMAIN writers : writers'[i] = writers[i]
      /\ writers'[Len(writers) + 1] = c /\ writers' # << >>
  BY <1>1
<1>6. \A i \in DOMAIN writers : writers[i] \in Calls /\ writers[i] # c
  <2>1. call[c].pc \notin Leading \cup {"queued"}
    BY <1>1 DEF Leading, Writing
  <2>2. QED BY <2>1 DEF IInv, Queue
<1>7. Types'
  <2>1. mutex' \in Calls \cup {None}
    BY <1>1
  <2>2. TypeOK'
    BY <1>3, <1>4, <1>5, <2>1 DEF IInv, Types, TypeOK, CallType
  <2>3. \A d \in Calls : call'[d].pc = "idle" => call'[d] = NewCall
    BY <1>2, <1>3 DEF IInv, Types
  <2>4. QED BY <1>4, <2>2, <2>3 DEF IInv, Types
<1>8. Queue'
  <2>1. \A i, j \in DOMAIN writers' : i # j => writers'[i] # writers'[j]
    <3>1. TAKE i, j \in DOMAIN writers'
    <3>2. \A k \in DOMAIN writers' : k \in DOMAIN writers \/ k = Len(writers) + 1
      BY <1>5
    <3>3. QED BY <1>5, <1>6, <3>2 DEF IInv, Queue
  <2>2. \A d \in Calls : (\E i \in DOMAIN writers' : writers'[i] = d)
                            <=> call'[d].pc \in Leading \cup {"queued"}
    <3>1. TAKE d \in Calls
    <3>2. CASE d = c
      BY <1>2, <1>3, <1>5, <3>2 DEF Leading
    <3>3. CASE d # c
      <4>1. (\E i \in DOMAIN writers' : writers'[i] = d) <=> (\E i \in DOMAIN writers : writers[i] = d)
        BY <1>5, <3>3
      <4>2. QED BY <1>3, <3>3, <4>1 DEF IInv, Queue
    <3>4. QED BY <3>2, <3>3
  <2>3. ASSUME NEW i \in DOMAIN writers', i # 1
        PROVE  call'[writers'[i]].pc = "queued"
    <3>1. CASE i \in DOMAIN writers
      BY <1>3, <1>5, <1>6, <2>3, <3>1 DEF IInv, Queue
    <3>2. CASE i = Len(writers) + 1
      <4>1. writers # << >>
        BY <1>5, <2>3, <3>2
      <4>2. QED BY <1>2, <1>3, <1>5, <3>2, <4>1
    <3>3. QED BY <1>5, <3>1, <3>2
  <2>4. \A d \in Calls : mutex' = d <=> call'[d].pc \in {"room", "finish"}
    <3>1. TAKE d \in Calls
    <3>2. CASE d = c
      BY <1>1, <1>2, <1>3, <3>2, CallsAreFinite
    <3>3. CASE d # c
      BY <1>1, <1>3, <3>3, CallsAreFinite DEF IInv, Queue
    <3>4. QED BY <3>2, <3>3
  <2>5. QED BY <2>1, <2>2, <2>3, <2>4 DEF Queue
<1>9. /\ writers = << >> => Phase = "none" /\ Phase' = "room"
      /\ writers # << >> => /\ Phase' = Phase /\ writers'[1] = writers[1] /\ 1 \in DOMAIN writers
                            /\ (GoesWell' <=> GoesWell)
                            /\ call'[writers'[1]] = call[writers[1]]
  <2>1. CASE writers = << >>
    BY <1>2, <1>3, <1>5, <2>1 DEF Phase
  <2>2. CASE writers # << >>
    <3>1. 1 \in DOMAIN writers
      BY <2>2
    <3>2. writers'[1] = writers[1] /\ call'[writers[1]] = call[writers[1]]
      BY <1>3, <1>5, <1>6, <3>1
    <3>3. QED BY <1>5, <2>2, <3>1, <3>2 DEF Phase, GoesWell
  <2>3. QED BY <2>1, <2>2
<1>10. /\ \A P \in SUBSET (Writing \cup {"finish"}) : Phase' \in P <=> Phase \in P
       /\ Phase \in Writing \cup {"finish"} =>
             /\ Phase' = Phase /\ (GoesWell' <=> GoesWell) /\ call'[writers'[1]] = call[writers[1]]
  BY <1>9 DEF Writing
<1>11. /\ ~ InGroup(c) /\ \A i \in DOMAIN group : group[i] \in Calls \ {c} /\ group[i] = writers[i]
       /\ \A i \in DOMAIN group : i \in DOMAIN writers
  <2>1. ASSUME NEW i \in DOMAIN group
        PROVE  i \in DOMAIN writers /\ group[i] = writers[i]
    <3>1. Len(group) <= Len(writers) /\ Len(group) \in Nat /\ i \in 1..Len(group)
      BY DEF IInv, Groups
    <3>2. QED BY <1>5, <3>1 DEF IInv, Groups
  <2>2. QED BY <1>6, <2>1 DEF InGroup
<1>12. \A d \in Calls : /\ InGroup(d)' <=> InGroup(d)
                        /\ Pending(d)' <=> Pending(d)
                        /\ d # c => Entries(d)' = Entries(d) /\ Beyond(d)' = Beyond(d) /\ (Good(d)' <=> Good(d))
  <2>1. \A d \in Calls : InGroup(d)' <=> InGroup(d)
    BY <1>4 DEF InGroup
  <2>2. Phase' \in Writing <=> Phase \in Writing
    BY <1>10
  <2>3. Phase' = "finish" /\ GoesWell' <=> Phase = "finish" /\ GoesWell
    BY <1>9 
  <2>4. QED BY <1>3, <2>1, <2>2, <2>3 DEF Pending, Entries, Beyond, Good
<1>13. ~ Good(c)' /\ ~ Pending(c)' /\ ~ InGroup(c)'
  BY <1>2, <1>3, <1>11, <1>12 DEF Good, Pending
<1>14. GroupEntries' = GroupEntries
  <2>1. ToSet(group) \subseteq Calls \ {c}
    BY <1>11 DEF ToSet
  <2>2. \A d \in ToSet(group) : Entries(d)' = Entries(d)
    BY <1>12, <2>1
  <2>3. QED BY <1>4, <2>2 DEF GroupEntries
<1>15. Groups'
  <2>1. group' # << >> <=> Phase' \in Writing \cup {"finish"}
    BY <1>4, <1>10 DEF IInv, Groups
  <2>2. Len(group') <= Len(writers')
    BY <1>4, <1>5 DEF IInv, Groups
  <2>3. \A i \in DOMAIN group' : group'[i] = writers'[i]
    BY <1>4, <1>5, <1>11
  <2>4. \A i \in DOMAIN group' : call'[group'[i]].sync => call'[group'[1]].sync
    <3>1. TAKE i \in DOMAIN group'
    <3>2. 1 \in DOMAIN group
      BY <1>4
    <3>3. QED BY <1>3, <1>4, <1>11, <3>2 DEF IInv, Groups
  <2>5. QED BY <2>1, <2>2, <2>3, <2>4 DEF Groups
<1>16. Numbers'
  <2>1. \A d \in Calls : call'[d].seq # 0 => call'[d].pc \in {"await", "done"} \/ InGroup(d)'
    BY <1>2, <1>3, <1>12 DEF IInv, Numbers
  <2>2. \A d \in Calls : call'[d].seq # 0 => IF Pending(d)' THEN call'[d].seq > lastSequence'
                                             ELSE Beyond(d)' <= lastSequence' + 1
    BY <1>2, <1>3, <1>4, <1>12 DEF IInv, Numbers
  <2>3. \A n : Count(group, n)' = Count(group, n)
    <3>1. SameCounts(call', call, group)
      BY <1>3, <1>11 DEF SameCounts
    <3>2. \A n : CountIn(call', group, n) = CountIn(call, group, n)
      BY <3>1, CountIsSame
    <3>3. QED BY <1>4, <3>2 DEF Count, CountIn
  <2>4. Phase' \in Writing =>
          \A i \in DOMAIN group' : call'[group'[i]].seq = lastSequence' + 1 + Count(group, i - 1)'
    BY <1>3, <1>4, <1>10, <1>11, <2>3 DEF IInv, Numbers
  <2>5. QED BY <2>1, <2>2, <2>4 DEF Numbers
<1>17. Order'
  <2>1. \A d, e \in Calls : d # e /\ call'[d].seq # 0 /\ call'[e].seq # 0 =>
           Beyond(d)' <= call'[e].seq \/ Beyond(e)' <= call'[d].seq
    BY <1>2, <1>3, <1>12 DEF IInv, Order
  <2>2. \A d \in Calls : Succeeded(d)' <=> Succeeded(d)
    BY <1>1, <1>2, <1>3 DEF Succeeded, Returned
  <2>3. ASSUME NEW d \in Calls, NEW e \in call'[d].before
        PROVE  Succeeded(e)' /\ (call'[d].seq # 0 => Beyond(e)' <= call'[d].seq)
    <3>1. CASE d = c
      BY <1>2, <1>3, <2>2, <2>3, <3>1
    <3>2. CASE d # c
      <4>1. e \in Calls /\ Succeeded(e) /\ (call[d].seq # 0 => Beyond(e) <= call[d].seq)
        BY <1>3, <2>3, <3>2 DEF IInv, Order, CallType
      <4>2. e # c
        BY <1>1, <4>1 DEF Succeeded, Returned
      <4>3. QED BY <1>3, <1>12, <2>2, <3>2, <4>1, <4>2
    <3>3. QED BY <3>1, <3>2
  <2>4. QED BY <2>1, <2>3 DEF Order
<1>18. Stores'
  <2>1. \A e \in Stored' : \/ e <= lastSequence'
                           \/ Phase' \in {"insert", "relock"} /\ GoesWell' /\ e \in GroupEntries'
    BY <1>4, <1>10, <1>14 DEF IInv, Stores, Writing
  <2>2. \A d \in Calls : call'[d].seq # 0 /\ ~ Pending(d)' =>
          Entries(d)' \subseteq Stored' \/ Entries(d)' \cap Stored' = {}
    BY <1>2, <1>3, <1>4, <1>12 DEF IInv, Stores
  <2>3. Phase' = "relock" /\ GoesWell' => GroupEntries' \subseteq Stored'
    BY <1>4, <1>9, <1>14 DEF IInv, Stores
  <2>4. QED BY <2>1, <2>2, <2>3 DEF Stores
<1>19. Answers'
  <2>1. \A d \in Calls : Good(d)' => Entries(d)' \subseteq Stored' /\ (call'[d].seq = 0 => call'[d].count = 0)
    BY <1>3, <1>4, <1>12, <1>13 DEF IInv, Answers
  <2>2. \A d \in Calls : call'[d].pc = "await" => call'[d].count = 0
    BY <1>2, <1>3 DEF IInv, Answers
  <2>3. Phase' \in {"room", "sleep", "stall", "log", "sync", "insert"} => GoesWell'
    <3>1. CASE writers = << >>
      BY <1>2, <1>3, <1>5, <3>1 DEF GoesWell
    <3>2. CASE writers # << >>
      BY <1>9, <3>2 DEF IInv, Answers
    <3>3. QED BY <3>1, <3>2
  <2>4. \A d \in Calls : call'[d].pc = "queued" => call'[d].ok
    BY <1>2, <1>3 DEF IInv, Answers
  <2>5. Phase' = "unsynced" => ~ GoesWell'
    BY <1>9 DEF IInv, Answers
  <2>6. QED BY <2>1, <2>2, <2>3, <2>4, <2>5 DEF Answers
<1>20. Logs'
  <2>1. Phase' = "sync" => GroupEntries' \subseteq log'
    BY <1>4, <1>9, <1>14 DEF IInv, Logs
  <2>2. Phase' \in {"insert", "relock"} /\ GoesWell' /\ call'[writers'[1]].sync =>
          GroupEntries' \subseteq synced'
    BY <1>4, <1>9, <1>14 DEF IInv, Logs
  <2>3. \A d \in Calls : Good(d)' /\ call'[d].sync => Entries(d)' \subseteq synced'
    BY <1>3, <1>4, <1>12, <1>13 DEF IInv, Logs
  <2>4. QED BY <2>1, <2>2, <2>3 DEF Logs
<1>21. QED BY <1>7, <1>8, <1>15, <1>16, <1>17, <1>18, <1>19, <1>20 DEF IInv
-----------------------------------------------------------------------------
(* The first of the queue ends without writing: it could not make room, or *)
(* a nullptr batch is done once there is room.                             *)
LEMMA LoneGroup ==
    ASSUME IInv, NEW c \in Calls, InRoom(c), NEW r \in CallType, call' = [call EXCEPT ![c] = r],
           r.pc = "finish", r.sync = call[c].sync, r.count = call[c].count, r.seq = call[c].seq,
           r.before = call[c].before, r.ok => call[c].count = 0,
           group' = <<c>>, mutex' = mutex, writers' = writers, lastSequence' = lastSequence,
           synced' = synced, Stored' = Stored, Types'
    PROVE  IInv'
<1> USE Typing
<1>1. mutex = c /\ call[c].pc = "room" /\ call[c].pc \in Leading
  BY DEF InRoom, Leading
<1>2. /\ writers # << >> /\ 1 \in DOMAIN writers /\ writers[1] = c /\ Phase = "room"
  BY <1>1, LeaderIsFirst
<1>3. group = << >> /\ \A d : ~ InGroup(d) /\ ~ Pending(d)
  BY <1>2, NoGroup DEF Writing
<1>4. call' \in [Calls -> CallType] /\ call'[c] = r /\ \A d \in Calls \ {c} : call'[d] = call[d]
  OBVIOUS
<1>5. Phase' = "finish" /\ (GoesWell' <=> r.ok)
  BY <1>2, <1>4 DEF Phase, GoesWell
<1>6. \A d \in Calls : /\ call'[d].seq = call[d].seq /\ Beyond(d)' = Beyond(d) /\ Entries(d)' = Entries(d)
                       /\ call'[d].before = call[d].before /\ call'[d].sync = call[d].sync
                       /\ call'[d].count = call[d].count
                       /\ (Succeeded(d)' <=> Succeeded(d)) /\ ~ Pending(d)'
  BY <1>1, <1>4, <1>5 DEF Beyond, Entries, Succeeded, Returned, Pending, Writing
<1>7. call[c].seq = 0
  BY <1>1, <1>3 DEF IInv, Numbers
<1>8. DOMAIN group' = {1} /\ group'[1] = c /\ Len(group') = 1 /\ group' # << >>
  OBVIOUS
<1>9. Queue'
  <2>1. \A d \in Calls : /\ call'[d].pc \in Leading \cup {"queued"} <=> call[d].pc \in Leading \cup {"queued"}
                         /\ call'[d].pc \in {"room", "finish"} <=> call[d].pc \in {"room", "finish"}
    BY <1>1, <1>4 DEF Leading, Writing
  <2>2. \A i \in DOMAIN writers : i # 1 => writers[i] # c /\ writers[i] \in Calls
    BY <1>2 DEF IInv, Queue
  <2>3. QED BY <1>4, <2>1, <2>2 DEF IInv, Queue
<1>10. Groups'
  <2>1. Len(writers) \in Nat /\ Len(writers) >= 1
    BY <1>2
  <2>2. QED BY <1>2, <1>5, <1>8, <2>1 DEF Groups
<1>11. Numbers'
  BY <1>3, <1>4, <1>5, <1>6, <1>7, <1>8 DEF IInv, Numbers, Writing
<1>12. Order'
  <2>1. \A d \in Calls : call[d].before \subseteq Calls
    BY DEF CallType
  <2>2. QED BY <1>6, <2>1 DEF IInv, Order
<1>13. Stores'
  BY <1>2, <1>3, <1>5, <1>6 DEF IInv, Stores
<1>14. ASSUME NEW d \in Calls, Good(d)'
       PROVE  Good(d) \/ (d = c /\ call[c].count = 0 /\ Entries(c) = {})
  <2>1. CASE call'[d].pc \in {"await", "done"} /\ call'[d].ok
    BY <1>4, <2>1 DEF Good
  <2>2. CASE InGroup(d)' /\ Phase' = "finish" /\ GoesWell'
    <3>1. d = c /\ r.ok
      BY <1>5, <1>8, <2>2 DEF InGroup
    <3>2. call[c].count = 0
      BY <3>1
    <3>3. QED BY <1>7, <3>1, <3>2, EntriesAre DEF Beyond
  <2>3. QED BY <1>14, <2>1, <2>2 DEF Good
<1>15. Answers'
  <2>1. \A d \in Calls : Good(d)' => Entries(d)' \subseteq Stored' /\ (call'[d].seq = 0 => call'[d].count = 0)
    BY <1>6, <1>14 DEF IInv, Answers
  <2>2. \A d \in Calls : /\ call'[d].pc = "await" => call'[d].count = 0
                         /\ call'[d].pc = "queued" => call'[d].ok
    BY <1>4, <1>6 DEF IInv, Answers
  <2>3. QED BY <1>5, <2>1, <2>2 DEF Answers
<1>16. Logs'
  BY <1>5, <1>6, <1>14 DEF IInv, Logs
<1>17. QED BY <1>9, <1>10, <1>11, <1>12, <1>13, <1>15, <1>16 DEF IInv

LEMMA StepFailInRoom ==
    ASSUME IInv, NEW c \in Calls, FailInRoom(c)
    PROVE  IInv'
<1> USE Typing
<1> DEFINE r == [call[c] EXCEPT !.pc = "finish", !.ok = FALSE]
<1>1. call[c] \in CallType /\ InRoom(c) /\ call[c].pc = "room"
  BY DEF FailInRoom, InRoom
<1>2. r \in CallType /\ r.pc = "finish" /\ ~ r.ok
  BY <1>1 DEF CallType, Places
<1>3. call' = [call EXCEPT ![c] = r]
  BY DEF FailInRoom
<1>4. /\ r.sync = call[c].sync /\ r.count = call[c].count /\ r.seq = call[c].seq
      /\ r.before = call[c].before
  BY <1>1 DEF CallType
<1> HIDE DEF r
<1>5. group' = <<c>> /\ UNCHANGED <<mutex, writers, dataVars, bgVars>>
  BY DEF FailInRoom
<1>6. /\ UNCHANGED <<lastSequence, log, synced, mem, imm, tables, l0, bg, scheduled, bgError, closing>>
      /\ Stored' = Stored
  BY <1>5 DEF dataVars, bgVars, Stored
<1>7. call' \in [Calls -> CallType] /\ call'[c] = r /\ \A d \in Calls \ {c} : call'[d] = call[d]
  BY <1>2, <1>3
<1>8. Types'
  <2>1. errors' \in 0..MaxErrors
    <3>1. errors \in 0..MaxErrors /\ MaxErrors \in Nat
      BY LimitsAreNat DEF IInv, Types, TypeOK
    <3>2. QED BY <3>1 DEF FailInRoom
  <2>2. group' \in Seq(Calls)
    BY <1>5
  <2>3. TypeOK'
    BY <1>5, <1>6, <1>7, <2>1, <2>2 DEF IInv, Types, TypeOK, CallType
  <2>4. \A d \in Calls : call'[d].pc = "idle" => call'[d] = NewCall
    BY <1>2, <1>7 DEF IInv, Types
  <2>5. QED BY <1>6, <2>3, <2>4 DEF IInv, Types
<1>9. QED BY <1>1, <1>2, <1>3, <1>4, <1>5, <1>6, <1>8, LoneGroup

\* The group c makes: the calls behind it join, and all get their numbers.
MakesGroup(c) == /\ group' = BuildBatchGroup
                 /\ call' = [Numbered(BuildBatchGroup) EXCEPT ![c].pc = "log"]

LEMMA GroupIsMade ==
    ASSUME IInv, NEW c \in Calls, InRoom(c), MakesGroup(c)
    PROVE  /\ call' \in [Calls -> CallType] /\ group' \in Seq(Calls)
           /\ Len(group') \in Nat /\ Len(group') >= 1 /\ DOMAIN group' = 1..Len(group')
           /\ Len(group') <= Len(writers) /\ group'[1] = c
           /\ \A i \in DOMAIN group' : group'[i] = writers[i] /\ i \in DOMAIN writers
           /\ \A i \in DOMAIN group' : call[group'[i]].sync => call[group'[1]].sync
           /\ \A i, j \in DOMAIN group' : i # j => group'[i] # group'[j]
           /\ \A i \in DOMAIN group' :
                 call'[group'[i]].seq = lastSequence + 1 + CountIn(call, group', i - 1)
           /\ \A d \in Calls : /\ call'[d].sync = call[d].sync /\ call'[d].count = call[d].count
                               /\ call'[d].before = call[d].before /\ call'[d].ok = call[d].ok
                               /\ call'[d].pc = IF d = c THEN "log" ELSE call[d].pc
                               /\ (\A i \in DOMAIN group' : group'[i] # d) => call'[d] = call[d]
<1> USE Typing
<1> DEFINE g == BuildBatchGroup
<1>1. call[c].pc = "room" /\ call[c].pc \in Leading
  BY DEF InRoom, Leading
<1>2. writers # << >> /\ 1 \in DOMAIN writers /\ writers[1] = c
  BY <1>1, LeaderIsFirst
<1>3. /\ g \in Seq(Calls) /\ g # << >> /\ Len(g) \in Nat /\ Len(g) >= 1
      /\ DOMAIN g = 1..Len(g) /\ Len(g) <= Len(writers)
      /\ \A i \in DOMAIN g : g[i] = writers[i]
      /\ \A i \in DOMAIN g : call[g[i]].sync => call[g[1]].sync
  BY <1>2, GroupIsBuilt
<1>4. group' = g /\ call' = [Numbered(g) EXCEPT ![c].pc = "log"]
  BY DEF MakesGroup
<1> HIDE DEF g
<1>5. \A i \in DOMAIN g : i \in DOMAIN writers
  BY <1>3
<1>6. \A i, j \in DOMAIN g : i # j => g[i] # g[j]
  BY <1>3, <1>5 DEF IInv, Queue
<1>7. /\ Numbered(g) \in [Calls -> CallType]
      /\ \A i \in DOMAIN g : Numbered(g)[g[i]] =
            [call[g[i]] EXCEPT !.seq = lastSequence + 1 + CountIn(call, g, i - 1)]
      /\ \A d \in Calls : (\A i \in DOMAIN g : g[i] # d) => Numbered(g)[d] = call[d]
  BY <1>3, <1>6, GroupIsNumbered
<1>8. ASSUME NEW d \in Calls
      PROVE  /\ Numbered(g)[d].sync = call[d].sync /\ Numbered(g)[d].count = call[d].count
             /\ Numbered(g)[d].before = call[d].before /\ Numbered(g)[d].ok = call[d].ok
             /\ Numbered(g)[d].pc = call[d].pc
  <2>1. CASE \A i \in DOMAIN g : g[i] # d
    BY <1>7, <2>1
  <2>2. CASE \E i \in DOMAIN g : g[i] = d
    <3>1. PICK i \in DOMAIN g : g[i] = d
      BY <2>2
    <3>2. Numbered(g)[d] = [call[d] EXCEPT !.seq = lastSequence + 1 + CountIn(call, g, i - 1)]
      BY <1>7, <3>1
    <3>3. call[d] \in CallType
      OBVIOUS
    <3>4. QED BY <3>2, <3>3 DEF CallType
  <2>3. QED BY <2>1, <2>2
<1>9. /\ \A d \in Calls \ {c} : call'[d] = Numbered(g)[d]
      /\ call'[c] = [Numbered(g)[c] EXCEPT !.pc = "log"]
      /\ DOMAIN call' = Calls
  BY <1>4, <1>7
<1>10. /\ call'[c] \in CallType /\ call'[c].pc = "log" /\ call'[c].seq = Numbered(g)[c].seq
       /\ call'[c].sync = Numbered(g)[c].sync /\ call'[c].count = Numbered(g)[c].count
       /\ call'[c].before = Numbered(g)[c].before /\ call'[c].ok = Numbered(g)[c].ok
  <2>1. Numbered(g)[c] \in CallType
    BY <1>7
  <2>2. QED BY <1>9, <2>1 DEF CallType, Places
<1>11. call' \in [Calls -> CallType]
  <2>1. call' = [d \in Calls |-> call'[d]]
    BY <1>4, <1>7
  <2>2. \A d \in Calls : call'[d] \in CallType
    BY <1>7, <1>9, <1>10
  <2>3. QED BY <2>1, <2>2
<1>12. g[1] = c /\ 1 \in DOMAIN g
  BY <1>2, <1>3
<1>13. \A i \in DOMAIN g : call'[g[i]].seq = lastSequence + 1 + CountIn(call, g, i - 1)
  <2>1. TAKE i \in DOMAIN g
  <2>2. g[i] \in Calls /\ call[g[i]] \in CallType
    BY <1>3
  <2>3. Numbered(g)[g[i]].seq = lastSequence + 1 + CountIn(call, g, i - 1)
    BY <1>7, <2>2 DEF CallType
  <2>4. call'[g[i]].seq = Numbered(g)[g[i]].seq
    BY <1>9, <1>10, <2>2
  <2>5. QED BY <2>3, <2>4
<1>14. \A d \in Calls : /\ call'[d].sync = call[d].sync /\ call'[d].count = call[d].count
                        /\ call'[d].before = call[d].before /\ call'[d].ok = call[d].ok
                        /\ call'[d].pc = IF d = c THEN "log" ELSE call[d].pc
                        /\ (\A i \in DOMAIN g : g[i] # d) => call'[d] = call[d]
  <2>1. TAKE d \in Calls
  <2>2. CASE d = c
    BY <1>1, <1>8, <1>10, <1>12, <2>2
  <2>3. CASE d # c
    BY <1>7, <1>8, <1>9, <2>3
  <2>4. QED BY <2>2, <2>3
<1>15. QED BY <1>3, <1>4, <1>5, <1>6, <1>11, <1>12, <1>13, <1>14

(* The numbers of the group are behind all that were given before.         *)
LEMMA NumberedGroup ==
    ASSUME IInv, NEW c \in Calls, InRoom(c), MakesGroup(c),
           mutex' = None, writers' = writers, lastSequence' = lastSequence,
           synced' = synced, Stored' = Stored, Types'
    PROVE  IInv'
<1> USE Typing
<1> DEFINE L == lastSequence
           g == group'
           N(n) == CountIn(call, g, n)
<1>1. mutex = c /\ call[c].pc = "room" /\ call[c].pc \in Leading
  BY DEF InRoom, Leading
<1>2. /\ writers # << >> /\ 1 \in DOMAIN writers /\ writers[1] = c /\ Phase = "room"
  BY <1>1, LeaderIsFirst
<1>3. group = << >> /\ \A d : ~ InGroup(d) /\ ~ Pending(d)
  BY <1>2, NoGroup DEF Writing
<1>4. /\ call' \in [Calls -> CallType] /\ g \in Seq(Calls)
      /\ Len(g) \in Nat /\ Len(g) >= 1 /\ DOMAIN g = 1..Len(g)
      /\ Len(g) <= Len(writers) /\ g[1] = c
      /\ \A i \in DOMAIN g : g[i] = writers[i] /\ i \in DOMAIN writers
      /\ \A i \in DOMAIN g : call[g[i]].sync => call[g[1]].sync
      /\ \A i, j \in DOMAIN g : i # j => g[i] # g[j]
      /\ \A i \in DOMAIN g : call'[g[i]].seq = L + 1 + N(i - 1)
      /\ \A d \in Calls : /\ call'[d].sync = call[d].sync /\ call'[d].count = call[d].count
                          /\ call'[d].before = call[d].before /\ call'[d].ok = call[d].ok
                          /\ call'[d].pc = IF d = c THEN "log" ELSE call[d].pc
                          /\ (\A i \in DOMAIN g : g[i] # d) => call'[d] = call[d]
  BY GroupIsMade
<1>5. /\ \A i \in DOMAIN g : N(i) = N(i - 1) + call[g[i]].count
      /\ \A n \in 0..Len(g) : \A m \in 0..n : N(m) \in Nat /\ N(n) \in Nat /\ N(m) <= N(n)
  BY <1>4, CountSteps
<1> HIDE DEF g, N
<1>21. \A d \in Calls : /\ call'[d].sync = call[d].sync /\ call'[d].count = call[d].count
                        /\ call'[d].before = call[d].before /\ call'[d].ok = call[d].ok
                        /\ call'[d].pc = IF d = c THEN "log" ELSE call[d].pc
  BY <1>4
<1>22. \A d \in Calls : /\ call[d].seq \in Nat /\ call[d].count \in Nat /\ Beyond(d) \in Nat
                        /\ call'[d].seq \in Nat /\ Beyond(d)' \in Nat
                        /\ Beyond(d)' = call'[d].seq + call[d].count
  <2>1. \A d \in Calls : call[d] \in CallType /\ call'[d] \in CallType
    BY <1>4
  <2>2. QED BY <1>21, <2>1 DEF CallType, Beyond
<1>6. \A i \in DOMAIN g : /\ g[i] \in Calls /\ call[g[i]].pc \in {"room", "queued"}
                          /\ N(i - 1) \in Nat /\ call'[g[i]].seq > L
  <2>1. TAKE i \in DOMAIN g
  <2>2. call[g[i]].pc \in {"room", "queued"}
    BY <1>1, <1>2, <1>4 DEF IInv, Queue
  <2>3. N(i - 1) \in Nat
    <3>1. i - 1 \in 0..Len(g)
      BY <1>4
    <3>2. QED BY <1>5, <3>1
  <2>4. QED BY <1>4, <2>2, <2>3
<1>7. Phase' = "log" /\ GoesWell'
  <2>1. call[c].ok
    BY <1>2 DEF IInv, Answers, GoesWell
  <2>2. QED BY <1>2, <1>4, <2>1 DEF Phase, GoesWell
<1>8. \A d \in Calls : /\ InGroup(d)' <=> \E i \in DOMAIN g : g[i] = d
                       /\ Pending(d)' <=> InGroup(d)'
                       /\ ~ InGroup(d)' => /\ call'[d] = call[d] /\ Beyond(d)' = Beyond(d)
                                           /\ Entries(d)' = Entries(d)
  BY <1>4, <1>7 DEF InGroup, Pending, Writing, g, Beyond, Entries
<1>9. \A d \in Calls : call[d].pc \notin {"room", "queued"} => ~ InGroup(d)'
  BY <1>6, <1>8
<1>10. \A d \in Calls : /\ call[d].seq # 0 => ~ InGroup(d)' /\ Beyond(d) <= L + 1
                        /\ call[d].seq # 0 => call[d].pc \in {"await", "done"}
  BY <1>3, <1>9 DEF IInv, Numbers
<1>11. Queue'
  <2>1. \A d \in Calls : /\ call'[d].pc \in Leading \cup {"queued"} <=> call[d].pc \in Leading \cup {"queued"}
                         /\ d # c => call'[d].pc = call[d].pc
                         /\ call'[d].pc \in {"room", "finish"} <=> call[d].pc \in {"room", "finish"} /\ d # c
    BY <1>1, <1>4 DEF Leading, Writing
  <2>2. \A i \in DOMAIN writers : i # 1 => writers[i] # c /\ writers[i] \in Calls
    BY <1>2 DEF IInv, Queue
  <2>3. \A d \in Calls : mutex' = d <=> call'[d].pc \in {"room", "finish"}
    BY <1>1, <2>1, CallsAreFinite DEF IInv, Queue
  <2>4. QED BY <2>1, <2>2, <2>3 DEF IInv, Queue
<1>12. Groups'
  <2>1. group' = g
    BY DEF g
  <2>2. 1 \in DOMAIN g /\ \A i \in DOMAIN g : g[i] \in Calls
    BY <1>4
  <2>3. \A i \in DOMAIN g : call'[g[i]].sync => call'[g[1]].sync
    BY <1>4, <2>2
  <2>4. group' # << >> 
    BY <1>4, <2>1
  <2>5. QED BY <1>4, <1>7, <2>1, <2>3, <2>4 DEF Groups, Writing
<1>13. Numbers'
  <2>1. \A d \in Calls : call'[d].seq # 0 => call'[d].pc \in {"await", "done"} \/ InGroup(d)'
    BY <1>8, <1>10
  <2>2. \A d \in Calls : call'[d].seq # 0 => IF Pending(d)' THEN call'[d].seq > lastSequence'
                                             ELSE Beyond(d)' <= lastSequence' + 1
    BY <1>6, <1>8, <1>10
  <2>3. \A n : Count(group, n)' = N(n)
    <3>1. SameCounts(call', call, g)
      BY <1>4 DEF SameCounts
    <3>2. \A n : CountIn(call', g, n) = CountIn(call, g, n)
      BY <3>1, CountIsSame
    <3>3. QED BY <3>2 DEF Count, CountIn, N, g
  <2>4. \A i \in DOMAIN group' : call'[group'[i]].seq = lastSequence' + 1 + Count(group, i - 1)'
    BY <1>4, <2>3 DEF g
  <2>5. QED BY <2>1, <2>2, <2>4 DEF Numbers
<1>14. ASSUME NEW d \in Calls, NEW e \in Calls, InGroup(d)', InGroup(e)', d # e
       PROVE  Beyond(d)' <= call'[e].seq \/ Beyond(e)' <= call'[d].seq
  <2>1. PICK i \in DOMAIN g : g[i] = d
    BY <1>8, <1>14
  <2>2. PICK j \in DOMAIN g : g[j] = e
    BY <1>8, <1>14
  <2>3. /\ Beyond(d)' = L + 1 + N(i) /\ call'[d].seq = L + 1 + N(i - 1)
        /\ Beyond(e)' = L + 1 + N(j) /\ call'[e].seq = L + 1 + N(j - 1)
    <3>1. N(i - 1) \in Nat /\ N(j - 1) \in Nat
      BY <1>6
    <3>2. /\ call'[d].seq = L + 1 + N(i - 1) /\ N(i) = N(i - 1) + call[d].count
          /\ call'[e].seq = L + 1 + N(j - 1) /\ N(j) = N(j - 1) + call[e].count
      BY <1>4, <1>5, <2>1, <2>2
    <3>3. /\ call[d].count \in Nat /\ call[e].count \in Nat /\ L \in Nat
          /\ Beyond(d)' = call'[d].seq + call[d].count /\ Beyond(e)' = call'[e].seq + call[e].count
      BY <1>22
    <3>4. \A a, b, k \in Nat : (k + 1 + a) + b = k + 1 + (a + b)
      OBVIOUS
    <3>5. /\ (L + 1 + N(i - 1)) + call[d].count = L + 1 + (N(i - 1) + call[d].count)
          /\ (L + 1 + N(j - 1)) + call[e].count = L + 1 + (N(j - 1) + call[e].count)
      BY <3>1, <3>3, <3>4
    <3>6. Beyond(d)' = L + 1 + N(i) /\ Beyond(e)' = L + 1 + N(j)
      BY <3>2, <3>3, <3>5, Zenon
    <3>7. QED BY <3>2, <3>6
  <2>4. i \in 1..Len(g) /\ j \in 1..Len(g) /\ i # j
    BY <1>4, <1>14, <2>1, <2>2
  <2>5. CASE i < j
    <3>1. i \in 0..(j - 1) /\ j - 1 \in 0..Len(g)
      BY <1>4, <2>4, <2>5
    <3>2. N(i) <= N(j - 1) /\ N(i) \in Nat /\ N(j - 1) \in Nat
      BY <1>5, <3>1
    <3>3. QED BY <2>3, <3>2
  <2>6. CASE j < i
    <3>1. j \in 0..(i - 1) /\ i - 1 \in 0..Len(g)
      BY <1>4, <2>4, <2>6
    <3>2. N(j) <= N(i - 1) /\ N(j) \in Nat /\ N(i - 1) \in Nat
      BY <1>5, <3>1
    <3>3. QED BY <2>3, <3>2
  <2>7. QED BY <2>4, <2>5, <2>6
<1>15. Order'
  <2>1. ASSUME NEW d \in Calls, NEW e \in Calls, d # e, call'[d].seq # 0, call'[e].seq # 0
        PROVE  Beyond(d)' <= call'[e].seq \/ Beyond(e)' <= call'[d].seq
    <3>1. CASE InGroup(d)' /\ InGroup(e)'
      BY <1>14, <2>1, <3>1
    <3>2. CASE InGroup(d)' /\ ~ InGroup(e)'
      <4>1. Beyond(e)' <= L + 1 /\ Beyond(e)' \in Nat /\ call'[d].seq > L /\ call'[d].seq \in Nat
        BY <1>6, <1>8, <1>10, <1>22, <2>1, <3>2
      <4>2. QED BY <4>1
    <3>3. CASE ~ InGroup(d)' /\ InGroup(e)'
      <4>1. Beyond(d)' <= L + 1 /\ Beyond(d)' \in Nat /\ call'[e].seq > L /\ call'[e].seq \in Nat
        BY <1>6, <1>8, <1>10, <1>22, <2>1, <3>3
      <4>2. QED BY <4>1
    <3>4. CASE ~ InGroup(d)' /\ ~ InGroup(e)'
      BY <1>8, <2>1, <3>4 DEF IInv, Order
    <3>5. QED BY <3>1, <3>2, <3>3, <3>4
  <2>2. ASSUME NEW d \in Calls, NEW e \in call'[d].before
        PROVE  Succeeded(e)' /\ (call'[d].seq # 0 => Beyond(e)' <= call'[d].seq)
    <3>1. e \in Calls /\ Succeeded(e) /\ (call[d].seq # 0 => Beyond(e) <= call[d].seq)
      BY <1>4, <2>2 DEF IInv, Order, CallType
    <3>2. ~ InGroup(e)' /\ call'[e] = call[e] /\ Beyond(e)' = Beyond(e)
      BY <1>8, <1>9, <3>1 DEF Succeeded, Returned
    <3>3. CASE InGroup(d)'
      <4>1. Beyond(e) <= L + 1
        <5>1. call[e].seq = 0 => call[e].count = 0
          BY <3>1 DEF IInv, Answers, Good, Succeeded, Returned
        <5>2. CASE call[e].seq = 0
          BY <5>1, <5>2 DEF Beyond
        <5>3. CASE call[e].seq # 0
          BY <1>10, <3>1, <5>3
        <5>4. QED BY <5>2, <5>3
      <4>2. call'[d].seq > L /\ call'[d].seq \in Nat /\ Beyond(e) \in Nat
        BY <1>6, <1>8, <1>22, <3>1, <3>3
      <4>3. Succeeded(e)'
        BY <3>1, <3>2 DEF Succeeded, Returned
      <4>4. QED BY <3>2, <4>1, <4>2, <4>3
    <3>4. CASE ~ InGroup(d)'
      BY <1>8, <3>1, <3>2, <3>4 DEF Succeeded, Returned
    <3>5. QED BY <3>3, <3>4
  <2>3. QED BY <2>1, <2>2 DEF Order
<1>16. Stores'
  <2>1. \A e \in Stored' : e <= lastSequence'
    BY <1>2 DEF IInv, Stores
  <2>2. \A d \in Calls : call'[d].seq # 0 /\ ~ Pending(d)' =>
          Entries(d)' \subseteq Stored' \/ Entries(d)' \cap Stored' = {}
    BY <1>3, <1>8 DEF IInv, Stores
  <2>3. QED BY <1>7, <2>1, <2>2 DEF Stores
<1>17. \A d \in Calls : Good(d)' => /\ Good(d) /\ Entries(d)' = Entries(d)
                                    /\ call'[d].seq = call[d].seq /\ call'[d].count = call[d].count
                                    /\ call'[d].sync = call[d].sync
  <2>1. TAKE d \in Calls
  <2>2. SUFFICES ASSUME Good(d)'
                 PROVE  Good(d) /\ ~ InGroup(d)'
    BY <1>8
  <2>3. call'[d].pc \in {"await", "done"} /\ call'[d].ok
    BY <1>7, <2>2 DEF Good
  <2>4. call[d].pc \in {"await", "done"} /\ call[d].ok
    BY <1>4, <2>3
  <2>5. QED BY <1>9, <2>4 DEF Good
<1>18. Answers'
  <2>1. \A d \in Calls : Good(d)' => Entries(d)' \subseteq Stored' /\ (call'[d].seq = 0 => call'[d].count = 0)
    BY <1>17 DEF IInv, Answers
  <2>2. \A d \in Calls : /\ call'[d].pc = "await" => call'[d].count = 0
                         /\ call'[d].pc = "queued" => call'[d].ok
    BY <1>21 DEF IInv, Answers
  <2>3. QED BY <1>7, <2>1, <2>2 DEF Answers
<1>19. Logs'
  <2>1. \A d \in Calls : Good(d)' /\ call'[d].sync => Entries(d)' \subseteq synced'
    BY <1>17 DEF IInv, Logs
  <2>2. QED BY <1>7, <2>1 DEF Logs
<1>20. QED BY <1>11, <1>12, <1>13, <1>15, <1>16, <1>18, <1>19 DEF IInv

(* The calls of a new group have been in the queue.                        *)
LEMMA IdleStaysNew ==
    ASSUME IInv, NEW c \in Calls, InRoom(c), MakesGroup(c)
    PROVE  \A d \in Calls : call'[d].pc = "idle" => call'[d] = NewCall
<1> USE Typing
<1>1. ASSUME NEW d \in Calls, call'[d].pc = "idle"
      PROVE  call'[d] = NewCall
  <2>1. call[d].pc = "idle" /\ call[d].pc \notin Leading \cup {"queued"}
    <3>1. call'[d].pc = IF d = c THEN "log" ELSE call[d].pc
      BY GroupIsMade
    <3>2. QED BY <1>1, <3>1 DEF Leading, Writing
  <2>2. \A i \in DOMAIN writers : writers[i] # d
    BY <2>1 DEF IInv, Queue
  <2>3. call'[d] = call[d]
    BY <2>2, GroupIsMade
  <2>4. QED BY <2>1, <2>3 DEF IInv, Types
<1>2. QED BY <1>1

LEMMA StepStartGroup ==
    ASSUME IInv, NEW c \in Calls, StartGroup(c)
    PROVE  IInv'
<1> USE Typing
<1>1. InRoom(c) /\ MakesGroup(c)
  BY DEF StartGroup, MakesGroup
<1>2. mutex' = None /\ UNCHANGED <<writers, dataVars, bgVars, errors>>
  BY DEF StartGroup
<1>3. /\ UNCHANGED <<lastSequence, log, synced, mem, imm, tables, l0, bg, scheduled, bgError, closing>>
      /\ Stored' = Stored
  BY <1>2 DEF dataVars, bgVars, Stored
<1>4. Types'
  <2>1. call' \in [Calls -> CallType] /\ group' \in Seq(Calls)
    BY <1>1, GroupIsMade
  <2>2. TypeOK'
    BY <1>2, <1>3, <2>1 DEF IInv, Types, TypeOK, CallType
  <2>3. \A d \in Calls : call'[d].pc = "idle" => call'[d] = NewCall
    BY <1>1, IdleStaysNew
  <2>4. QED BY <1>3, <2>2, <2>3 DEF IInv, Types
<1>5. QED BY <1>1, <1>2, <1>3, <1>4, NumberedGroup

(* imm_ was free, so that what the memtable holds is stored as before.     *)
LEMMA StepSwitchMemTable ==
    ASSUME IInv, NEW c \in Calls, SwitchMemTable(c)
    PROVE  IInv'
<1> USE Typing
<1>1. /\ InRoom(c) /\ imm = NoTable /\ l0 < StopTrigger /\ mem \subseteq Nat
      /\ imm' = mem /\ mem' = {} /\ log' = {} /\ scheduled' \in BOOLEAN
      /\ UNCHANGED <<writers, lastSequence, synced, tables, l0, bg, bgError, closing, errors>>
  <2>1. l0 \in 0..StopTrigger /\ StopTrigger \in Nat /\ ~ (l0 >= StopTrigger) /\ imm = NoTable
    BY TriggersAreOrdered DEF SwitchMemTable, MustWait, IInv, Types, TypeOK
  <2>2. l0 < StopTrigger
    BY <2>1
  <2>3. scheduled' \in BOOLEAN
    BY DEF SwitchMemTable, Schedules, IInv, Types, TypeOK
  <2>4. QED BY <2>1, <2>2, <2>3 DEF SwitchMemTable, IInv, Types, TypeOK
<1>2. mem # NoTable
  <2>1. -1 \notin Nat
    OBVIOUS
  <2>2. QED BY <1>1, <2>1 DEF NoTable
<1>3. Stored' = Stored
  BY <1>1, <1>2 DEF Stored
<1>4. ASSUME call' \in [Calls -> CallType], group' \in Seq(Calls), mutex' \in Calls \cup {None},
             \A d \in Calls : call'[d].pc = "idle" => call'[d] = NewCall
      PROVE  Types'
  <2>1. TypeOK'
    BY <1>1, <1>4 DEF IInv, Types, TypeOK, CallType
  <2>2. QED BY <1>1, <1>2, <1>4, <2>1 DEF IInv, Types
<1>5. CASE Forced(c)
  <2> DEFINE r == [call[c] EXCEPT !.pc = "finish"]
  <2>1. call' = [call EXCEPT ![c] = r] /\ group' = <<c>> /\ mutex' = mutex /\ call[c] \in CallType
    BY <1>5 DEF SwitchMemTable
  <2>2. /\ r \in CallType /\ r.pc = "finish" /\ r.sync = call[c].sync /\ r.count = call[c].count
        /\ r.seq = call[c].seq /\ r.before = call[c].before
    <3>1. r \in CallType /\ r.pc = "finish"
      BY <2>1 DEF CallType, Places
    <3>2. /\ r.sync = call[c].sync /\ r.count = call[c].count /\ r.seq = call[c].seq
          /\ r.before = call[c].before
      BY <2>1 DEF CallType
    <3>3. QED BY <3>1, <3>2
  <2>3. call[c].count = 0
    BY <1>5 DEF Forced
  <2> HIDE DEF r
  <2>4. Types'
    <3>1. call' \in [Calls -> CallType] /\ group' \in Seq(Calls) /\ mutex' \in Calls \cup {None}
      BY <2>1, <2>2 DEF IInv, Types, TypeOK
    <3>2. \A d \in Calls : call'[d].pc = "idle" => call'[d] = NewCall
      BY <2>1, <2>2 DEF IInv, Types
    <3>3. QED BY <1>4, <3>1, <3>2
  <2>5. QED BY <1>1, <1>3, <2>1, <2>2, <2>3, <2>4, LoneGroup
<1>6. CASE ~ Forced(c)
  <2>1. MakesGroup(c) /\ mutex' = None
    BY <1>6 DEF SwitchMemTable, MakesGroup
  <2>2. Types'
    <3>1. call' \in [Calls -> CallType] /\ group' \in Seq(Calls) /\ mutex' \in Calls \cup {None}
      BY <1>1, <2>1, GroupIsMade
    <3>2. \A d \in Calls : call'[d].pc = "idle" => call'[d] = NewCall
      BY <1>1, <2>1, IdleStaysNew
    <3>3. QED BY <1>4, <3>1, <3>2
  <2>3. QED BY <1>1, <1>3, <2>1, <2>2, NumberedGroup
<1>7. QED BY <1>5, <1>6
-----------------------------------------------------------------------------
(* The numbers of a group that is being written are behind LastSequence.   *)
LEMMA PendingIsBeyond ==
    ASSUME IInv, Phase \in Writing
    PROVE  \A d \in Calls : InGroup(d) => call[d].seq > lastSequence /\ call[d].seq \in Nat
<1> USE Typing
<1>1. ASSUME NEW d \in Calls, InGroup(d)
      PROVE  call[d].seq > lastSequence /\ call[d].seq \in Nat
  <2>1. PICK i \in DOMAIN group : group[i] = d
    BY <1>1 DEF InGroup
  <2>2. call[d].seq = lastSequence + 1 + Count(group, i - 1)
    BY <2>1 DEF IInv, Numbers
  <2>3. Count(group, i - 1) \in Nat
    <3>1. \A n \in 0..Len(group) : \A m \in 0..n : CountIn(call, group, n) \in Nat
      BY CountSteps
    <3>2. i - 1 \in 0..Len(group) /\ 0 \in 0..(i - 1)
      BY <2>1
    <3>3. QED BY <3>1, <3>2 DEF Count, CountIn
  <2>4. QED BY <2>2, <2>3
<1>2. QED BY <1>1

(* The leader goes on with its group: nobody else is told anything.        *)
LEMMA LeaderWrites ==
    ASSUME IInv, NEW c \in Calls, call[c].pc \in Writing,
           NEW r \in CallType, call' = [call EXCEPT ![c] = r], r.pc \in Writing,
           r.sync = call[c].sync, r.count = call[c].count, r.seq = call[c].seq,
           r.before = call[c].before,
           r.pc \in {"log", "sync", "insert"} => r.ok, r.pc = "unsynced" => ~ r.ok,
           UNCHANGED <<mutex, writers, group, lastSequence>>,
           Stored \subseteq Stored', synced \subseteq synced'
    PROVE  /\ call' \in [Calls -> CallType]
           /\ \A d \in Calls : call'[d].pc = "idle" => call'[d] = NewCall
           /\ Queue' /\ Groups' /\ Numbers' /\ Order' /\ Answers'
           /\ Phase = call[c].pc /\ Phase' = r.pc /\ (GoesWell <=> call[c].ok) /\ (GoesWell' <=> r.ok)
           /\ writers[1] = c /\ GroupEntries' = GroupEntries
           /\ \A d \in Calls : /\ Entries(d)' = Entries(d) /\ (Pending(d)' <=> Pending(d))
                               /\ call'[d].seq = call[d].seq /\ call'[d].sync = call[d].sync
           /\ \A d \in Calls : Good(d)' /\ call'[d].sync => Entries(d)' \subseteq synced'
<1> USE Typing
<1>1. call' \in [Calls -> CallType] /\ call'[c] = r /\ \A d \in Calls \ {c} : call'[d] = call[d]
  OBVIOUS
<1>2. writers # << >> /\ 1 \in DOMAIN writers /\ writers[1] = c /\ Phase = call[c].pc
  BY LeaderIsFirst DEF Leading
<1>3. /\ call[c].pc \notin {"idle", "queued", "room", "finish", "await", "done"}
      /\ r.pc \notin {"idle", "queued", "room", "finish", "await", "done"}
  BY DEF Writing
<1>4. \A d \in Calls : call'[d].pc = "idle" => call'[d] = NewCall
  BY <1>1, <1>3 DEF IInv, Types
<1>5. Phase' = r.pc /\ (GoesWell <=> call[c].ok) /\ (GoesWell' <=> r.ok)
  BY <1>1, <1>2 DEF Phase, GoesWell
<1>6. Queue'
  <2>1. \A d \in Calls : /\ call'[d].pc \in Leading \cup {"queued"} <=> call[d].pc \in Leading \cup {"queued"}
                         /\ call'[d].pc \in {"room", "finish"} <=> call[d].pc \in {"room", "finish"}
    BY <1>1, <1>3 DEF Leading
  <2>2. \A i \in DOMAIN writers : i # 1 => writers[i] # c /\ writers[i] \in Calls
    BY <1>2 DEF IInv, Queue
  <2>3. \A i \in DOMAIN writers : i # 1 => call'[writers[i]].pc = "queued"
    BY <1>1, <2>2 DEF IInv, Queue
  <2>4. QED BY <2>1, <2>3 DEF IInv, Queue
<1>7. \A d \in Calls : SameBatch(d) /\ (Succeeded(d) => Succeeded(d)')
  BY <1>1, <1>3 DEF SameBatch, Succeeded, Returned
<1>8. Keeps
  BY <1>2, <1>5, <1>7 DEF Keeps
<1>9. /\ Numbers' /\ Order' /\ GroupEntries' = GroupEntries
      /\ \A d \in Calls : /\ Entries(d)' = Entries(d) /\ (InGroup(d)' <=> InGroup(d))
                          /\ (Pending(d)' <=> Pending(d)) /\ Beyond(d)' = Beyond(d)
  BY <1>8, KeepsNumbers
<1>10. \A d \in Calls : /\ call'[d].sync = call[d].sync /\ call'[d].count = call[d].count
                        /\ call'[d].seq = call[d].seq
  BY <1>7 DEF SameBatch
<1>11. Groups'
  <2>1. \A i \in DOMAIN group : group[i] \in Calls /\ group[1] \in Calls
    OBVIOUS
  <2>2. \A i \in DOMAIN group' : call'[group'[i]].sync => call'[group'[1]].sync
    BY <1>10, <2>1 DEF IInv, Groups
  <2>3. group' # << >> <=> Phase' \in Writing \cup {"finish"}
    BY <1>2, <1>5 DEF IInv, Groups
  <2>4. QED BY <2>2, <2>3 DEF IInv, Groups
<1>12. \A d \in Calls : Good(d)' => Good(d)
  BY <1>1, <1>3, <1>5 DEF Good
<1>13. Answers'
  <2>1. \A d \in Calls : Good(d)' => Entries(d)' \subseteq Stored' /\ (call'[d].seq = 0 => call'[d].count = 0)
    BY <1>9, <1>10, <1>12 DEF IInv, Answers
  <2>2. \A d \in Calls : /\ call'[d].pc = "await" => call'[d].count = 0
                         /\ call'[d].pc = "queued" => call'[d].ok
    BY <1>1, <1>3 DEF IInv, Answers
  <2>3. /\ Phase' \in {"room", "sleep", "stall", "log", "sync", "insert"} => GoesWell'
        /\ Phase' = "unsynced" => ~ GoesWell'
    BY <1>5 DEF Writing
  <2>4. QED BY <2>1, <2>2, <2>3 DEF Answers
<1>14. \A d \in Calls : Good(d)' /\ call'[d].sync => Entries(d)' \subseteq synced'
  BY <1>9, <1>10, <1>12 DEF IInv, Logs
<1>15. QED BY <1>1, <1>2, <1>4, <1>5, <1>6, <1>9, <1>10, <1>11, <1>13, <1>14

LEMMA StepAddRecord ==
    ASSUME IInv, NEW c \in Calls, AddRecord(c)
    PROVE  IInv'
<1> USE Typing
<1> DEFINE r == IF errors' = errors
                THEN [call[c] EXCEPT !.pc = IF call[c].sync THEN "sync" ELSE "insert"]
                ELSE [call[c] EXCEPT !.pc = "relock", !.ok = FALSE]
<1>1. /\ call[c].pc = "log" /\ call[c] \in CallType
      /\ UNCHANGED <<mutex, writers, group, lastSequence, synced, mem, imm, tables, l0>>
      /\ UNCHANGED <<bg, scheduled, bgError, closing>> /\ Stored' = Stored
  BY DEF AddRecord, bgVars, Stored
<1>2. call[c].ok
  <2>1. writers[1] = c /\ Phase = "log"
    BY <1>1, LeaderIsFirst DEF Leading, Writing
  <2>2. QED BY <2>1 DEF IInv, Answers, GoesWell
<1>3. errors \in 0..MaxErrors /\ MaxErrors \in Nat
  BY LimitsAreNat DEF IInv, Types, TypeOK
<1>4. /\ call' = [call EXCEPT ![c] = r] /\ errors' \in 0..MaxErrors
      /\ \/ log' = log \cup GroupEntries /\ r.pc \in {"sync", "insert"} /\ r.ok
            /\ (r.pc = "insert" => ~ call[c].sync)
         \/ log' = log /\ r.pc = "relock" /\ ~ r.ok
      /\ r \in CallType /\ r.pc \in Writing
  <2>1. CASE /\ log' = log \cup GroupEntries /\ errors' = errors
             /\ call' = [call EXCEPT ![c].pc = IF call[c].sync THEN "sync" ELSE "insert"]
    <3>1. r = [call[c] EXCEPT !.pc = IF call[c].sync THEN "sync" ELSE "insert"]
      BY <2>1
    <3> HIDE DEF r
    <3>2. /\ r \in CallType /\ r.pc = IF call[c].sync THEN "sync" ELSE "insert"
          /\ r.ok = call[c].ok
      BY <1>1, <3>1 DEF CallType, Places
    <3>3. call' = [call EXCEPT ![c] = r]
      BY <2>1, <3>1
    <3>4. QED BY <1>2, <1>3, <2>1, <3>2, <3>3 DEF Writing
  <2>2. CASE /\ errors < MaxErrors /\ errors' = errors + 1 /\ log' = log
             /\ call' = [call EXCEPT ![c].pc = "relock", ![c].ok = FALSE]
    <3>1. r = [call[c] EXCEPT !.pc = "relock", !.ok = FALSE]
      BY <1>3, <2>2
    <3> HIDE DEF r
    <3>2. r \in CallType /\ r.pc = "relock" /\ ~ r.ok
      BY <1>1, <3>1 DEF CallType, Places
    <3>3. call' = [call EXCEPT ![c] = r]
      BY <2>2, <3>1
    <3>4. errors' \in 0..MaxErrors
      BY <1>3, <2>2
    <3>5. QED BY <2>2, <3>2, <3>3, <3>4 DEF Writing
  <2>3. QED BY <2>1, <2>2 DEF AddRecord
<1>5. /\ r.sync = call[c].sync /\ r.count = call[c].count /\ r.seq = call[c].seq
      /\ r.before = call[c].before
  BY <1>1 DEF CallType
<1> HIDE DEF r
<1>6. call[c].pc \in Writing
  BY <1>1 DEF Writing
<1>7. /\ call' \in [Calls -> CallType]
      /\ \A d \in Calls : call'[d].pc = "idle" => call'[d] = NewCall
      /\ Queue' /\ Groups' /\ Numbers' /\ Order' /\ Answers'
      /\ Phase = "log" /\ Phase' = r.pc /\ (GoesWell' <=> r.ok)
      /\ writers[1] = c /\ GroupEntries' = GroupEntries
      /\ \A d \in Calls : /\ Entries(d)' = Entries(d) /\ (Pending(d)' <=> Pending(d))
                          /\ call'[d].seq = call[d].seq /\ call'[d].sync = call[d].sync
      /\ \A d \in Calls : Good(d)' /\ call'[d].sync => Entries(d)' \subseteq synced'
  BY <1>1, <1>4, <1>5, <1>6, LeaderWrites
<1>8. Types'
  <2>1. log' \subseteq Nat
    <3>1. \A d \in Calls : Entries(d) \subseteq Nat
      BY EntriesAre
    <3>2. GroupEntries \subseteq Nat
      BY <3>1, GroupEntriesAre
    <3>3. QED BY <1>4, <3>2 DEF IInv, Types, TypeOK
  <2>2. TypeOK'
    BY <1>1, <1>4, <1>7, <2>1 DEF IInv, Types, TypeOK, CallType
  <2>3. QED BY <1>1, <1>7, <2>2 DEF IInv, Types
<1>9. Stores'
  <2>1. \A e \in Stored' : e <= lastSequence'
    BY <1>1, <1>7 DEF IInv, Stores
  <2>2. Phase' = "relock" => ~ GoesWell'
    BY <1>4, <1>7
  <2>3. QED BY <1>1, <1>7, <2>1, <2>2 DEF IInv, Stores
<1>10. Logs'
  <2>1. call'[writers'[1]].sync = call[c].sync
    BY <1>1, <1>7
  <2>2. QED BY <1>4, <1>7, <2>1 DEF Logs
<1>11. QED BY <1>7, <1>8, <1>9, <1>10 DEF IInv

LEMMA StepSync ==
    ASSUME IInv, NEW c \in Calls, Sync(c)
    PROVE  IInv'
<1> USE Typing
<1> DEFINE r == IF errors' = errors THEN [call[c] EXCEPT !.pc = "insert"]
                ELSE [call[c] EXCEPT !.pc = "unsynced", !.ok = FALSE]
<1>1. /\ call[c].pc = "sync" /\ call[c] \in CallType
      /\ UNCHANGED <<mutex, writers, group, lastSequence, log, mem, imm, tables, l0>>
      /\ UNCHANGED <<bg, scheduled, bgError, closing>> /\ Stored' = Stored
  BY DEF Sync, bgVars, Stored
<1>2. call[c].ok
  <2>1. writers[1] = c /\ Phase = "sync"
    BY <1>1, LeaderIsFirst DEF Leading, Writing
  <2>2. QED BY <2>1 DEF IInv, Answers, GoesWell
<1>3. errors \in 0..MaxErrors /\ MaxErrors \in Nat
  BY LimitsAreNat DEF IInv, Types, TypeOK
<1>4. /\ call' = [call EXCEPT ![c] = r] /\ errors' \in 0..MaxErrors
      /\ \/ synced' = synced \cup log /\ r.pc = "insert" /\ r.ok
         \/ synced' = synced /\ r.pc = "unsynced" /\ ~ r.ok
      /\ r \in CallType /\ r.pc \in Writing
  <2>1. CASE /\ synced' = synced \cup log /\ errors' = errors
             /\ call' = [call EXCEPT ![c].pc = "insert"]
    <3>1. r = [call[c] EXCEPT !.pc = "insert"]
      BY <2>1
    <3> HIDE DEF r
    <3>2. r \in CallType /\ r.pc = "insert" /\ r.ok = call[c].ok
      BY <1>1, <3>1 DEF CallType, Places
    <3>3. call' = [call EXCEPT ![c] = r]
      BY <2>1, <3>1
    <3>4. QED BY <1>2, <1>3, <2>1, <3>2, <3>3 DEF Writing
  <2>2. CASE /\ errors < MaxErrors /\ errors' = errors + 1 /\ synced' = synced
             /\ call' = [call EXCEPT ![c].pc = "unsynced", ![c].ok = FALSE]
    <3>1. r = [call[c] EXCEPT !.pc = "unsynced", !.ok = FALSE]
      BY <1>3, <2>2
    <3> HIDE DEF r
    <3>2. r \in CallType /\ r.pc = "unsynced" /\ ~ r.ok
      BY <1>1, <3>1 DEF CallType, Places
    <3>3. call' = [call EXCEPT ![c] = r]
      BY <2>2, <3>1
    <3>4. errors' \in 0..MaxErrors
      BY <1>3, <2>2
    <3>5. QED BY <2>2, <3>2, <3>3, <3>4 DEF Writing
  <2>3. QED BY <2>1, <2>2 DEF Sync
<1>5. /\ r.sync = call[c].sync /\ r.count = call[c].count /\ r.seq = call[c].seq
      /\ r.before = call[c].before
  BY <1>1 DEF CallType
<1> HIDE DEF r
<1>6. call[c].pc \in Writing
  BY <1>1 DEF Writing
<1>7. /\ call' \in [Calls -> CallType]
      /\ \A d \in Calls : call'[d].pc = "idle" => call'[d] = NewCall
      /\ Queue' /\ Groups' /\ Numbers' /\ Order' /\ Answers'
      /\ Phase = "sync" /\ Phase' = r.pc /\ (GoesWell' <=> r.ok)
      /\ writers[1] = c /\ GroupEntries' = GroupEntries
      /\ \A d \in Calls : /\ Entries(d)' = Entries(d) /\ (Pending(d)' <=> Pending(d))
                          /\ call'[d].seq = call[d].seq /\ call'[d].sync = call[d].sync
      /\ \A d \in Calls : Good(d)' /\ call'[d].sync => Entries(d)' \subseteq synced'
  BY <1>1, <1>4, <1>5, <1>6, LeaderWrites
<1>8. Types'
  <2>1. synced' \subseteq Nat
    BY <1>4 DEF IInv, Types, TypeOK
  <2>2. TypeOK'
    BY <1>1, <1>4, <1>7, <2>1 DEF IInv, Types, TypeOK, CallType
  <2>3. QED BY <1>1, <1>7, <2>2 DEF IInv, Types
<1>9. Stores'
  <2>1. \A e \in Stored' : e <= lastSequence'
    BY <1>1, <1>7 DEF IInv, Stores
  <2>2. Phase' # "relock"
    BY <1>4, <1>7
  <2>3. QED BY <1>1, <1>7, <2>1, <2>2 DEF IInv, Stores
<1>10. Logs'
  <2>1. GroupEntries \subseteq log
    BY <1>7 DEF IInv, Logs
  <2>2. QED BY <1>4, <1>7, <2>1 DEF Logs
<1>11. QED BY <1>7, <1>8, <1>9, <1>10 DEF IInv

(* The entry that is inserted is of the group, so that no reader sees it,  *)
(* and of no batch that was written before.                                *)
LEMMA StepInsert ==
    ASSUME IInv, NEW c \in Calls, Insert(c)
    PROVE  IInv'
<1> USE Typing
<1> DEFINE left == GroupEntries \ mem
           r == IF left = {} THEN [call[c] EXCEPT !.pc = "relock"] ELSE call[c]
<1>1. /\ call[c].pc = "insert" /\ call[c] \in CallType
      /\ UNCHANGED <<mutex, writers, group, lastSequence, log, synced, imm, tables, l0, errors>>
      /\ UNCHANGED <<bg, scheduled, bgError, closing>>
  BY DEF Insert, bgVars
<1>2. writers[1] = c /\ Phase = "insert" /\ call[c].ok
  <2>1. writers[1] = c /\ Phase = "insert"
    BY <1>1, LeaderIsFirst DEF Leading, Writing
  <2>2. QED BY <2>1 DEF IInv, Answers, GoesWell
<1>3. GroupEntries \subseteq Nat
  <2>1. \A d \in Calls : Entries(d) \subseteq Nat
    BY EntriesAre
  <2>2. QED BY <2>1, GroupEntriesAre
<1>4. /\ call' = [call EXCEPT ![c] = r] /\ r \in CallType /\ r.ok = call[c].ok
      /\ r.pc = IF left = {} THEN "relock" ELSE "insert"
      /\ r.sync = call[c].sync /\ r.count = call[c].count /\ r.seq = call[c].seq
      /\ r.before = call[c].before
  <2>1. CASE left = {}
    <3>1. r = [call[c] EXCEPT !.pc = "relock"] /\ call' = [call EXCEPT ![c].pc = "relock"]
      BY <2>1 DEF Insert
    <3> HIDE DEF r, left
    <3>2. /\ r \in CallType /\ r.pc = "relock" /\ r.ok = call[c].ok
          /\ r.sync = call[c].sync /\ r.count = call[c].count /\ r.seq = call[c].seq
          /\ r.before = call[c].before
      BY <1>1, <3>1 DEF CallType, Places
    <3>3. call' = [call EXCEPT ![c] = r]
      BY <3>1
    <3>4. QED BY <2>1, <3>2, <3>3
  <2>2. CASE left # {}
    <3>1. r = call[c] /\ call' = call
      BY <2>2 DEF Insert
    <3> HIDE DEF r, left
    <3>2. call' = [call EXCEPT ![c] = r]
      BY <3>1
    <3>3. QED BY <1>1, <2>2, <3>1, <3>2
  <2>3. QED BY <2>1, <2>2
<1>5. \/ left = {} /\ mem' = mem
      \/ left # {} /\ \E e \in left : mem' = mem \cup {e}
  <2>1. CASE left = {}
    BY <2>1 DEF Insert
  <2>2. CASE left # {}
    <3>1. \E e \in left : \A f \in left : e <= f
      <4>1. left \subseteq Nat
        BY <1>3
      <4> HIDE DEF left
      <4>2. QED BY <2>2, <4>1, LeastElement
    <3>2. mem' = mem \cup {CHOOSE e \in left : \A f \in left : e <= f}
      BY <2>2 DEF Insert
    <3> HIDE DEF left
    <3>3. QED BY <2>2, <3>1, <3>2
  <2>3. QED BY <2>1, <2>2
<1>6. Stored \subseteq Stored' /\ \A e \in Stored' : e \in Stored \/ e \in GroupEntries
  BY <1>1, <1>5 DEF Stored
<1>7. left = {} => GroupEntries \subseteq Stored /\ Stored' = Stored
  BY <1>1, <1>5 DEF Stored
<1> HIDE DEF r, left
<1>8. call[c].pc \in Writing /\ r.pc \in Writing
  BY <1>1, <1>4 DEF Writing
<1>9. /\ call' \in [Calls -> CallType]
      /\ \A d \in Calls : call'[d].pc = "idle" => call'[d] = NewCall
      /\ Queue' /\ Groups' /\ Numbers' /\ Order' /\ Answers'
      /\ Phase' = r.pc /\ (GoesWell' <=> r.ok) /\ GoesWell /\ GroupEntries' = GroupEntries
      /\ \A d \in Calls : /\ Entries(d)' = Entries(d) /\ (Pending(d)' <=> Pending(d))
                          /\ call'[d].seq = call[d].seq /\ call'[d].sync = call[d].sync
      /\ \A d \in Calls : Good(d)' /\ call'[d].sync => Entries(d)' \subseteq synced'
  <2>1. r.ok /\ r.pc # "unsynced"
    BY <1>2, <1>4
  <2>2. UNCHANGED <<mutex, writers, group, lastSequence>> /\ synced \subseteq synced'
    BY <1>1
  <2>3. QED BY <1>2, <1>4, <1>6, <1>8, <2>1, <2>2, LeaderWrites
<1>10. Types'
  <2>1. mem' \subseteq Nat
    BY <1>3, <1>5 DEF left, IInv, Types, TypeOK
  <2>2. TypeOK'
    BY <1>1, <1>9, <2>1 DEF IInv, Types, TypeOK, CallType
  <2>3. QED BY <1>1, <1>9, <2>2 DEF IInv, Types
<1>11. Stores'
  <2>1. \A e \in Stored' : e <= lastSequence' \/ e \in GroupEntries'
    BY <1>1, <1>6, <1>9 DEF IInv, Stores
  <2>2. Phase' \in {"insert", "relock"} /\ GoesWell'
    BY <1>2, <1>4, <1>9
  <2>3. ASSUME NEW d \in Calls, call'[d].seq # 0, ~ Pending(d)'
        PROVE  Entries(d)' \subseteq Stored' \/ Entries(d)' \cap Stored' = {}
    <3>1. /\ Entries(d)' = Entries(d) /\ Beyond(d) <= lastSequence + 1 /\ Beyond(d) \in Nat
          /\ (Entries(d) \subseteq Stored \/ Entries(d) \cap Stored = {})
      BY <1>9, <2>3, EntriesAre DEF IInv, Numbers, Stores
    <3>2. ASSUME NEW e \in GroupEntries PROVE e \notin Entries(d)
      <4>1. PICK x \in Calls : InGroup(x) /\ e \in Entries(x)
        BY GroupEntriesAre
      <4>2. call[x].seq > lastSequence /\ call[x].seq \in Nat
        BY <1>2, <4>1, PendingIsBeyond DEF Writing
      <4>3. e \in Nat /\ call[x].seq <= e
        BY <4>1, EntriesAre
      <4>4. e \in Entries(d) => e < Beyond(d)
        BY EntriesAre
      <4>5. QED BY <3>1, <4>2, <4>3, <4>4
    <3>3. QED BY <1>6, <3>1, <3>2
  <2>4. Phase' = "relock" => GroupEntries' \subseteq Stored'
    BY <1>4, <1>7, <1>9
  <2>5. QED BY <2>1, <2>2, <2>3, <2>4 DEF Stores
<1>12. Logs'
  <2>1. call[c].sync => GroupEntries \subseteq synced
    BY <1>2, <1>9 DEF IInv, Logs
  <2>2. call'[writers'[1]].sync = call[c].sync /\ Phase' # "sync"
    BY <1>1, <1>2, <1>4, <1>9
  <2>3. QED BY <1>1, <1>9, <2>1, <2>2 DEF Logs
<1>13. QED BY <1>9, <1>10, <1>11, <1>12 DEF IInv

(* LastSequence becomes the last number of the group.                      *)
LEMMA LastEntryIs ==
    ASSUME IInv, Phase \in Writing
    PROVE  /\ LastEntry \in Nat /\ lastSequence <= LastEntry
           /\ \A d \in Calls : InGroup(d) => Beyond(d) <= LastEntry + 1
<1> USE Typing
<1> DEFINE N(n) == CountIn(call, group, n)
<1>1. /\ Len(group) \in Nat /\ Len(group) >= 1 /\ DOMAIN group = 1..Len(group)
      /\ Head(group) = group[1]
  BY GroupIsFirst
<1>2. /\ N(0) = 0 /\ \A i \in DOMAIN group : N(i) = N(i - 1) + call[group[i]].count
      /\ \A n \in 0..Len(group) : \A m \in 0..n : N(m) \in Nat /\ N(n) \in Nat /\ N(m) <= N(n)
  BY CountSteps
<1>3. \A n : Count(group, n) = N(n)
  BY DEF Count, CountIn
<1> HIDE DEF N
<1>4. \A i \in DOMAIN group : call[group[i]].seq = lastSequence + 1 + N(i - 1)
  BY <1>3 DEF IInv, Numbers
<1>5. N(Len(group)) \in Nat
  BY <1>1, <1>2
<1>6. LastEntry = lastSequence + N(Len(group))
  <2>1. 1 \in DOMAIN group /\ 1 - 1 = 0
    BY <1>1
  <2>2. call[group[1]].seq = lastSequence + 1 + N(0)
    BY <1>4, <2>1
  <2>3. LastEntry = call[group[1]].seq + N(Len(group)) - 1
    BY <1>1, <1>3 DEF LastEntry
  <2>4. QED BY <1>2, <1>5, <2>2, <2>3
<1>7. ASSUME NEW d \in Calls, InGroup(d)
      PROVE  Beyond(d) <= LastEntry + 1
  <2>1. PICK i \in DOMAIN group : group[i] = d
    BY <1>7 DEF InGroup
  <2>2. i \in 0..Len(group) /\ i - 1 \in 0..Len(group) /\ Len(group) \in 0..Len(group)
    BY <1>1, <2>1
  <2>3. N(i) \in Nat /\ N(i - 1) \in Nat /\ N(i) <= N(Len(group)) /\ call[d].count \in Nat
    BY <1>2, <2>2, EntriesAre
  <2>4. call[d].seq = lastSequence + 1 + N(i - 1) /\ N(i) = N(i - 1) + call[d].count
    BY <1>2, <1>4, <2>1
  <2>5. \A l, a, b, s \in Nat : a + b <= s => (l + 1 + a) + b <= (l + s) + 1
    OBVIOUS
  <2>6. (lastSequence + 1 + N(i - 1)) + call[d].count <= (lastSequence + N(Len(group))) + 1
    BY <1>5, <2>3, <2>4, <2>5
  <2>7. Beyond(d) = (lastSequence + 1 + N(i - 1)) + call[d].count
    BY <2>4, Zenon DEF Beyond
  <2>8. QED BY <1>6, <2>6, <2>7
<1>8. LastEntry \in Nat /\ lastSequence <= LastEntry
  BY <1>5, <1>6
<1>9. QED BY <1>7, <1>8

(* The group is visible all at once, if it is stored.                      *)
LEMMA StepRelock ==
    ASSUME IInv, NEW c \in Calls, Relock(c)
    PROVE  IInv'
<1> USE Typing
<1> DEFINE calls == [call EXCEPT ![c].pc = "finish"]
<1>1. /\ mutex = None /\ mutex' = c /\ call[c].pc \in {"relock", "unsynced"}
      /\ call' = calls \/ call' = WakeAll(calls)
      /\ lastSequence' = LastEntry
      /\ UNCHANGED <<writers, group, log, synced, mem, imm, tables, l0, bg, scheduled, closing, errors>>
      /\ Stored' = Stored
  BY DEF Relock, Stored
<1>2. bgError' \in BOOLEAN
  BY DEF Relock, IInv, Types, TypeOK
<1>3. call[c].pc \in Writing /\ call[c].pc \in Leading
  BY <1>1 DEF Writing, Leading
<1>4. writers # << >> /\ 1 \in DOMAIN writers /\ writers[1] = c /\ Phase = call[c].pc
  BY <1>3, LeaderIsFirst
<1>5. /\ call' \in [Calls -> CallType]
      /\ \A d \in Calls : /\ call'[d].sync = call[d].sync /\ call'[d].count = call[d].count
                          /\ call'[d].seq = call[d].seq /\ call'[d].before = call[d].before
                          /\ call'[d].ok = call[d].ok
                          /\ call'[d].pc = IF d = c THEN "finish" ELSE call[d].pc
                          /\ (call[d].pc = "idle" => call'[d] = call[d])
  <2>1. calls \in [Calls -> CallType]
    BY DEF CallType, Places
  <2>2. ASSUME NEW d \in Calls
        PROVE  /\ calls[d].sync = call[d].sync /\ calls[d].count = call[d].count
               /\ calls[d].seq = call[d].seq /\ calls[d].before = call[d].before
               /\ calls[d].ok = call[d].ok /\ calls[d].pc = IF d = c THEN "finish" ELSE call[d].pc
               /\ (call[d].pc = "idle" => calls[d] = call[d])
    <3>1. call[d] \in CallType
      OBVIOUS
    <3>2. CASE d = c
      BY <1>1, <3>1, <3>2 DEF CallType
    <3>3. CASE d # c
      BY <3>3
    <3>4. QED BY <3>2, <3>3
  <2> HIDE DEF calls
  <2>3. CASE call' = calls
    BY <2>1, <2>2, <2>3
  <2>4. CASE call' = WakeAll(calls)
    <3>1. \A d \in Calls : call'[d] = IF calls[d].pc \in {"stall", "await"}
                                      THEN [calls[d] EXCEPT !.awake = TRUE] ELSE calls[d]
      BY <2>4 DEF WakeAll
    <3>2. ASSUME NEW d \in Calls
          PROVE  /\ call'[d] \in CallType
                 /\ call'[d].sync = calls[d].sync /\ call'[d].count = calls[d].count
                 /\ call'[d].seq = calls[d].seq /\ call'[d].before = calls[d].before
                 /\ call'[d].ok = calls[d].ok /\ call'[d].pc = calls[d].pc
                 /\ (calls[d].pc = "idle" => call'[d] = calls[d])
      <4>1. calls[d] \in CallType
        BY <2>1
      <4>2. QED BY <3>1, <4>1 DEF CallType
    <3>3. call' = [d \in Calls |-> call'[d]]
      BY <2>4 DEF WakeAll
    <3>4. \A d \in Calls : call[d].pc = "idle" => calls[d].pc = "idle"
      BY <2>2
    <3>5. QED BY <2>2, <3>2, <3>3, <3>4
  <2>5. QED BY <1>1, <2>3, <2>4
<1>6. LastEntry \in Nat /\ lastSequence <= LastEntry
      /\ \A d \in Calls : InGroup(d) => Beyond(d) <= LastEntry + 1
  BY <1>3, <1>4, LastEntryIs
<1>7. \A d \in Calls : InGroup(d) => call[d].seq > lastSequence /\ call[d].seq \in Nat
  BY <1>3, <1>4, PendingIsBeyond
<1>8. Phase' = "finish" /\ (GoesWell' <=> GoesWell) /\ (GoesWell <=> call[c].ok)
  BY <1>1, <1>4, <1>5 DEF Phase, GoesWell
<1>9. \A d \in Calls : /\ Entries(d)' = Entries(d) /\ Beyond(d)' = Beyond(d)
                       /\ (InGroup(d)' <=> InGroup(d)) /\ ~ Pending(d)' /\ (Pending(d) <=> InGroup(d))
  BY <1>1, <1>3, <1>4, <1>5, <1>8 DEF Entries, Beyond, InGroup, Pending, Writing
<1>10. Types'
  <2>1. TypeOK'
    BY <1>1, <1>2, <1>5, <1>6 DEF IInv, Types, TypeOK, CallType
  <2>2. \A d \in Calls : call'[d].pc = "idle" => call'[d] = NewCall
    BY <1>5 DEF IInv, Types
  <2>3. QED BY <1>1, <2>1, <2>2 DEF IInv, Types
<1>11. Queue'
  <2>1. \A d \in Calls : /\ call'[d].pc \in Leading \cup {"queued"} <=> call[d].pc \in Leading \cup {"queued"}
                         /\ d # c => call'[d].pc = call[d].pc
    BY <1>3, <1>5 DEF Leading
  <2>2. \A i \in DOMAIN writers : i # 1 => writers[i] # c /\ writers[i] \in Calls
    BY <1>4 DEF IInv, Queue
  <2>3. \A d \in Calls : mutex' = d <=> call'[d].pc \in {"room", "finish"}
    BY <1>1, <1>5, MutexIsNone
  <2>4. \A i \in DOMAIN writers : i # 1 => call'[writers[i]].pc = "queued"
    BY <2>1, <2>2 DEF IInv, Queue
  <2>5. QED BY <1>1, <2>1, <2>3, <2>4 DEF IInv, Queue
<1>12. Groups'
  <2>1. \A i \in DOMAIN group : group[i] \in Calls /\ group[1] \in Calls
    OBVIOUS
  <2>2. \A i \in DOMAIN group' : call'[group'[i]].sync => call'[group'[1]].sync
    BY <1>1, <1>5, <2>1 DEF IInv, Groups
  <2>3. group' # << >> <=> Phase' \in Writing \cup {"finish"}
    BY <1>1, <1>3, <1>4, <1>8 DEF IInv, Groups
  <2>4. QED BY <1>1, <2>2, <2>3 DEF IInv, Groups
<1>13. Numbers'
  <2>1. \A d \in Calls : call'[d].seq # 0 => call'[d].pc \in {"await", "done"} \/ InGroup(d)'
    BY <1>3, <1>5, <1>9 DEF IInv, Numbers, Writing
  <2>2. ASSUME NEW d \in Calls, call'[d].seq # 0
        PROVE  Beyond(d)' <= lastSequence' + 1
    <3>1. CASE InGroup(d)
      BY <1>1, <1>6, <1>9, <3>1
    <3>2. CASE ~ InGroup(d)
      <4>1. Beyond(d) <= lastSequence + 1 /\ Beyond(d) \in Nat
        BY <1>5, <1>9, <2>2, <3>2, EntriesAre DEF IInv, Numbers
      <4>2. QED BY <1>1, <1>6, <1>9, <4>1
    <3>3. QED BY <3>1, <3>2
  <2>3. Phase' \notin Writing
    BY <1>8 DEF Writing
  <2>4. QED BY <1>9, <2>1, <2>2, <2>3 DEF Numbers
<1>14. Order'
  <2>1. \A d, e \in Calls : d # e /\ call'[d].seq # 0 /\ call'[e].seq # 0 =>
           Beyond(d)' <= call'[e].seq \/ Beyond(e)' <= call'[d].seq
    BY <1>5, <1>9 DEF IInv, Order
  <2>2. \A d \in Calls : call[d].before \subseteq Calls
    BY DEF CallType
  <2>3. \A d \in Calls : Succeeded(d) => Succeeded(d)'
    BY <1>1, <1>5 DEF Succeeded, Returned
  <2>4. ASSUME NEW d \in Calls, NEW e \in call'[d].before
        PROVE  Succeeded(e)' /\ (call'[d].seq # 0 => Beyond(e)' <= call'[d].seq)
    <3>1. e \in Calls /\ Succeeded(e) /\ (call[d].seq # 0 => Beyond(e) <= call[d].seq)
      BY <1>5, <2>2, <2>4 DEF IInv, Order
    <3>2. Succeeded(e)' /\ Beyond(e)' = Beyond(e) /\ call'[d].seq = call[d].seq
      BY <1>5, <1>9, <2>3, <3>1
    <3>3. QED BY <3>1, <3>2
  <2>5. QED BY <2>1, <2>4 DEF Order
<1>15. GroupEntries \subseteq Stored \/ \A e \in Stored : e <= lastSequence
  <2>1. CASE GoesWell
    BY <1>1, <1>4, <2>1 DEF IInv, Stores, Answers
  <2>2. CASE ~ GoesWell
    BY <2>2 DEF IInv, Stores
  <2>3. QED BY <2>1, <2>2
<1>16. ASSUME NEW e \in GroupEntries
       PROVE  e \in Nat /\ e > lastSequence /\ e <= LastEntry
  <2>1. PICK x \in Calls : InGroup(x) /\ e \in Entries(x)
    BY GroupEntriesAre
  <2>2. e \in Nat /\ call[x].seq <= e /\ e < Beyond(x) /\ Beyond(x) \in Nat
    BY <2>1, EntriesAre
  <2>3. QED BY <1>6, <1>7, <2>1, <2>2
<1>17. Stored \subseteq Nat
  BY DEF Stored, IInv, Types, TypeOK
<1>18. Stores'
  <2>1. ASSUME NEW e \in Stored' PROVE e <= lastSequence'
    <3>1. e \in Nat /\ (e <= lastSequence \/ e \in GroupEntries)
      BY <1>1, <1>17, <2>1 DEF IInv, Stores
    <3>2. QED BY <1>1, <1>6, <1>16, <3>1
  <2>2. ASSUME NEW d \in Calls, call'[d].seq # 0
        PROVE  Entries(d)' \subseteq Stored' \/ Entries(d)' \cap Stored' = {}
    <3>1. CASE InGroup(d)
      <4>1. Entries(d) \subseteq GroupEntries
        BY <3>1, GroupEntriesAre
      <4>2. CASE GroupEntries \subseteq Stored
        BY <1>1, <1>9, <4>1, <4>2
      <4>3. CASE \A e \in Stored : e <= lastSequence
        <5>1. \A e \in Entries(d) : e \notin Stored
          BY <1>16, <4>1, <4>3
        <5>2. QED BY <1>1, <1>9, <5>1
      <4>4. QED BY <1>15, <4>2, <4>3
    <3>2. CASE ~ InGroup(d)
      BY <1>1, <1>5, <1>9, <2>2, <3>2 DEF IInv, Stores
    <3>3. QED BY <3>1, <3>2
  <2>3. QED BY <1>8, <2>1, <2>2 DEF Stores
<1>19. ASSUME NEW d \in Calls, Good(d)'
       PROVE  \/ Good(d)
              \/ /\ InGroup(d) /\ Phase = "relock" /\ GoesWell
                 /\ Entries(d) \subseteq GroupEntries /\ call[d].seq # 0
  <2>1. CASE call'[d].pc \in {"await", "done"} /\ call'[d].ok
    BY <1>5, <2>1 DEF Good
  <2>2. CASE InGroup(d)' /\ GoesWell'
    <3>1. InGroup(d) /\ GoesWell /\ Phase = "relock"
      BY <1>1, <1>4, <1>8, <1>9, <2>2 DEF IInv, Answers
    <3>2. call[d].seq # 0
      BY <1>7, <3>1
    <3>3. QED BY <3>1, <3>2, GroupEntriesAre
  <2>3. QED BY <1>19, <2>1, <2>2 DEF Good
<1>20. Answers'
  <2>1. ASSUME NEW d \in Calls, Good(d)'
        PROVE  Entries(d)' \subseteq Stored' /\ (call'[d].seq = 0 => call'[d].count = 0)
    <3>1. CASE Good(d)
      BY <1>1, <1>5, <1>9, <3>1 DEF IInv, Answers
    <3>2. CASE ~ Good(d)
      BY <1>1, <1>5, <1>9, <1>19, <2>1, <3>2 DEF IInv, Stores
    <3>3. QED BY <3>1, <3>2
  <2>2. \A d \in Calls : /\ call'[d].pc = "await" => call'[d].count = 0
                         /\ call'[d].pc = "queued" => call'[d].ok
    BY <1>5 DEF IInv, Answers
  <2>3. QED BY <1>8, <2>1, <2>2 DEF Answers
<1>21. Logs'
  <2>1. ASSUME NEW d \in Calls, Good(d)', call'[d].sync
        PROVE  Entries(d)' \subseteq synced'
    <3>1. CASE Good(d)
      BY <1>1, <1>5, <1>9, <2>1, <3>1 DEF IInv, Logs
    <3>2. CASE ~ Good(d)
      <4>1. InGroup(d) /\ Phase = "relock" /\ GoesWell /\ Entries(d) \subseteq GroupEntries
        BY <1>19, <2>1, <3>2
      <4>2. call[d].sync /\ call[writers[1]].sync
        <5>1. PICK i \in DOMAIN group : group[i] = d
          BY <4>1 DEF InGroup
        <5>2. group[1] = writers[1]
          BY <1>3, <1>4, GroupIsFirst
        <5>3. QED BY <1>5, <2>1, <5>1, <5>2 DEF IInv, Groups
      <4>3. QED BY <1>1, <1>9, <4>1, <4>2 DEF IInv, Logs
    <3>3. QED BY <3>1, <3>2
  <2>2. QED BY <1>8, <2>1 DEF Logs
<1>22. QED BY <1>10, <1>11, <1>12, <1>13, <1>14, <1>18, <1>20, <1>21 DEF IInv

(* What is left of a sequence behind its first n elements.                  *)
LEMMA RestIs ==
    ASSUME NEW q \in Seq(Calls), NEW n \in Nat, n <= Len(q), NEW r, r = SubSeq(q, n + 1, Len(q))
    PROVE  /\ r \in Seq(Calls) /\ Len(r) = Len(q) - n /\ Len(r) \in Nat
           /\ DOMAIN r = 1..Len(r)
           /\ \A i \in DOMAIN r : r[i] = q[i + n] /\ i + n \in DOMAIN q /\ i + n > n
           /\ \A i \in DOMAIN q : i \notin 1..n => i - n \in DOMAIN r /\ (i - n) + n = i
<1>1. Len(q) \in Nat /\ DOMAIN q = 1..Len(q)
  OBVIOUS
<1> DEFINE l == Len(q)
<1>2. /\ r \in Seq(Calls) /\ Len(r) = (IF n + 1 <= l THEN l - (n + 1) + 1 ELSE 0)
      /\ \A i \in 1..(l - (n + 1) + 1) : r[i] = q[(n + 1) + i - 1]
  <2>1. \A i \in (n + 1)..l : q[i] \in Calls
    BY <1>1
  <2>2. n + 1 \in Int /\ l \in Int
    BY <1>1
  <2>3. QED BY <2>1, <2>2, SubSeqProperties
<1>3. l \in Nat /\ n <= l /\ DOMAIN q = 1..l
  BY <1>1
<1>4. DOMAIN r = 1..Len(r)
  BY <1>2
<1> HIDE DEF l
<1>5. Len(r) = l - n /\ Len(r) \in Nat
  BY <1>2, <1>3
<1>6. l - (n + 1) + 1 = l - n
  BY <1>3
<1>7. ASSUME NEW i \in 1..(l - n)
      PROVE  r[i] = q[i + n] /\ i + n \in 1..l /\ i + n > n
  <2>1. (n + 1) + i - 1 = i + n /\ i + n \in 1..l /\ i + n > n
    BY <1>3
  <2>2. r[i] = q[(n + 1) + i - 1]
    BY <1>2, <1>6
  <2>3. QED BY <2>1, <2>2
<1>8. ASSUME NEW i \in 1..l, i \notin 1..n
      PROVE  i - n \in 1..(l - n) /\ (i - n) + n = i
  BY <1>3, <1>8
<1>9. \A i \in DOMAIN r : r[i] = q[i + n] /\ i + n \in DOMAIN q /\ i + n > n
  <2>1. DOMAIN r = 1..(l - n)
    BY <1>4, <1>5
  <2>2. QED BY <1>3, <1>7, <2>1, Zenon
<1>10. \A i \in DOMAIN q : i \notin 1..n => i - n \in DOMAIN r /\ (i - n) + n = i
  <2>1. DOMAIN r = 1..(l - n)
    BY <1>4, <1>5
  <2>2. QED BY <1>3, <1>8, <2>1, Zenon
<1>11. QED BY <1>2, <1>4, <1>5, <1>9, <1>10 DEF l

\* What Finish tells a call.
Told(c, rest, d) ==
    IF d \in ToSet(group)
    THEN [call[d] EXCEPT !.ok = call[c].ok, !.awake = TRUE,
                         !.pc = IF Forced(d) /\ call[c].ok THEN "await" ELSE "done"]
    ELSE IF rest # << >> /\ d = Head(rest)
         THEN [call[d] EXCEPT !.awake = TRUE] ELSE call[d]

(* The calls of the group are told what became of it, and the queue goes   *)
(* on behind it.                                                           *)
LEMMA StepFinish ==
    ASSUME IInv, NEW c \in Calls, Finish(c)
    PROVE  IInv'
<1> USE Typing
<1> DEFINE k == Len(group)
<1>1. /\ mutex = c /\ mutex' = None /\ call[c].pc = "finish" /\ group' = << >>
      /\ writers' = SubSeq(writers, k + 1, Len(writers))
      /\ call' = [d \in Calls |-> Told(c, writers', d)]
      /\ UNCHANGED <<dataVars, bgVars, errors>>
  BY Zenon DEF Finish, Told
<1>2. /\ UNCHANGED <<lastSequence, log, synced, mem, imm, tables, l0, bg, scheduled, bgError, closing>>
      /\ Stored' = Stored
  BY <1>1 DEF dataVars, bgVars, Stored
<1>3. writers # << >> /\ 1 \in DOMAIN writers /\ writers[1] = c /\ Phase = "finish"
  BY <1>1, LeaderIsFirst DEF Leading
<1>4. /\ k \in Nat /\ k >= 1 /\ DOMAIN group = 1..k /\ k <= Len(writers) /\ Len(writers) \in Nat
      /\ \A i \in 1..k : group[i] = writers[i]
  BY <1>3, GroupIsFirst DEF IInv, Groups
<1>5. /\ writers' \in Seq(Calls) /\ Len(writers') \in Nat /\ DOMAIN writers' = 1..Len(writers')
      /\ \A i \in DOMAIN writers' : writers'[i] = writers[i + k] /\ i + k \in DOMAIN writers /\ i + k > k
      /\ \A i \in DOMAIN writers : i \notin 1..k => i - k \in DOMAIN writers' /\ (i - k) + k = i
  BY <1>1, <1>4, RestIs
<1> HIDE DEF k
<1>6. \A d \in Calls : d \in ToSet(group) <=> InGroup(d)
  BY DEF ToSet, InGroup
<1>7. ASSUME NEW d \in Calls, InGroup(d)
      PROVE  /\ call[d].pc \in {"finish", "queued"} /\ ~ \E i \in DOMAIN writers' : writers'[i] = d
             /\ \E i \in DOMAIN writers : writers[i] = d
  <2>1. PICK i \in 1..k : group[i] = d /\ writers[i] = d /\ i \in DOMAIN writers
    BY <1>4, <1>7 DEF InGroup
  <2>2. call[d].pc \in {"finish", "queued"}
    BY <1>1, <1>3, <2>1 DEF IInv, Queue
  <2>3. ASSUME NEW j \in DOMAIN writers' PROVE writers'[j] # d
    <3>1. j + k \in DOMAIN writers /\ j + k # i
      BY <1>4, <1>5, <2>1
    <3>2. QED BY <1>5, <2>1, <3>1 DEF IInv, Queue
  <2>4. QED BY <2>1, <2>2, <2>3
<1>8. ASSUME NEW d \in Calls, ~ InGroup(d)
      PROVE  (\E i \in DOMAIN writers' : writers'[i] = d) <=> (\E i \in DOMAIN writers : writers[i] = d)
  <2>1. ASSUME NEW i \in DOMAIN writers, writers[i] = d
        PROVE  \E j \in DOMAIN writers' : writers'[j] = d
    <3>1. i \in 1..Len(writers) /\ i \notin 1..k
      BY <1>4, <1>8, <2>1 DEF InGroup
    <3>2. i - k \in DOMAIN writers' /\ (i - k) + k = i
      BY <1>5, <3>1
    <3>3. QED BY <1>5, <2>1, <3>2
  <2>2. QED BY <1>5, <2>1
<1>9. InGroup(c)
  BY <1>3, GroupIsFirst
<1>10. ASSUME NEW d \in Calls
       PROVE  /\ call'[d] \in CallType
              /\ call'[d].sync = call[d].sync /\ call'[d].count = call[d].count
              /\ call'[d].seq = call[d].seq /\ call'[d].before = call[d].before
              /\ InGroup(d) => /\ call'[d].pc \in {"await", "done"} /\ call'[d].ok = call[c].ok
                               /\ (call'[d].pc = "await" => call[d].count = 0)
              /\ ~ InGroup(d) => call'[d].pc = call[d].pc /\ call'[d].ok = call[d].ok
              /\ (call[d].pc = "idle" => call'[d] = call[d])
  <2>1. call[d] \in CallType /\ call[c].ok \in BOOLEAN
    BY DEF CallType
  <2>2. CASE InGroup(d)
    <3>1. call'[d] = [call[d] EXCEPT !.ok = call[c].ok, !.awake = TRUE,
                        !.pc = IF Forced(d) /\ call[c].ok THEN "await" ELSE "done"]
      <4>1. call'[d] = Told(c, writers', d)
        BY <1>1, Zenon
      <4>2. d \in ToSet(group)
        BY <1>6, <2>2
      <4>3. QED BY <4>1, <4>2, Zenon DEF Told
    <3>2. /\ call'[d] \in CallType /\ call'[d].pc \in {"await", "done"} /\ call'[d].ok = call[c].ok
          /\ (call'[d].pc = "await" => Forced(d))
      BY <2>1, <3>1 DEF CallType, Places
    <3>3. /\ call'[d].sync = call[d].sync /\ call'[d].count = call[d].count
          /\ call'[d].seq = call[d].seq /\ call'[d].before = call[d].before
      BY <2>1, <3>1 DEF CallType
    <3>4. QED BY <1>7, <2>2, <3>2, <3>3 DEF Forced
  <2>3. CASE ~ InGroup(d)
    <3>1. call'[d] = IF writers' # << >> /\ d = Head(writers')
                     THEN [call[d] EXCEPT !.awake = TRUE] ELSE call[d]
      <4>1. call'[d] = Told(c, writers', d)
        BY <1>1, Zenon
      <4>2. d \notin ToSet(group)
        BY <1>6, <2>3
      <4>3. QED BY <4>1, <4>2, Zenon DEF Told
    <3>2. CASE call'[d] = call[d]
      BY <2>1, <2>3, <3>2
    <3>3. CASE writers' # << >> /\ d = Head(writers') /\ call'[d] = [call[d] EXCEPT !.awake = TRUE]
      <4>1. 1 \in DOMAIN writers' /\ writers'[1] = d
        BY <1>5, <3>3
      <4>2. call[d].pc # "idle"
        BY <1>8, <2>3, <4>1 DEF IInv, Queue, Leading, Writing
      <4>3. QED BY <2>1, <2>3, <3>3, <4>2 DEF CallType
    <3>4. QED BY <3>1, <3>2, <3>3
  <2>4. QED BY <2>2, <2>3
<1>11. call' \in [Calls -> CallType]
  <2>1. call' = [d \in Calls |-> call'[d]]
    BY <1>1
  <2>2. QED BY <1>10, <2>1
<1>12. Types'
  <2>1. mutex' \in Calls \cup {None} /\ group' \in Seq(Calls)
    BY <1>1
  <2>2. TypeOK'
    BY <1>1, <1>2, <1>5, <1>11, <2>1 DEF IInv, Types, TypeOK, CallType
  <2>3. \A d \in Calls : call'[d].pc = "idle" => call'[d] = NewCall
    BY <1>10 DEF IInv, Types
  <2>4. QED BY <1>2, <2>2, <2>3 DEF IInv, Types
<1>13. ASSUME NEW i \in DOMAIN writers'
       PROVE  writers'[i] \in Calls /\ ~ InGroup(writers'[i]) /\ call'[writers'[i]].pc = "queued"
  <2>1. writers'[i] \in Calls /\ ~ InGroup(writers'[i])
    BY <1>5, <1>7
  <2>2. i + k \in DOMAIN writers /\ i + k # 1 /\ writers'[i] = writers[i + k]
    BY <1>4, <1>5
  <2>3. call[writers'[i]].pc = "queued"
    BY <2>2 DEF IInv, Queue
  <2>4. QED BY <1>10, <2>1, <2>3
<1>14. Queue'
  <2>1. ASSUME NEW i \in DOMAIN writers', NEW j \in DOMAIN writers', i # j
        PROVE  writers'[i] # writers'[j]
    <3>1. i + k \in DOMAIN writers /\ j + k \in DOMAIN writers /\ i + k # j + k
      BY <1>4, <1>5, <2>1
    <3>2. QED BY <1>5, <3>1 DEF IInv, Queue
  <2>2. ASSUME NEW d \in Calls
        PROVE  (\E i \in DOMAIN writers' : writers'[i] = d) <=> call'[d].pc \in Leading \cup {"queued"}
    <3>1. CASE InGroup(d)
      BY <1>7, <1>10, <3>1 DEF Leading, Writing
    <3>2. CASE ~ InGroup(d)
      BY <1>8, <1>10, <3>2 DEF IInv, Queue
    <3>3. QED BY <3>1, <3>2
  <2>3. ASSUME NEW d \in Calls
        PROVE  mutex' = d <=> call'[d].pc \in {"room", "finish"}
    <3>1. mutex' # d
      BY <1>1, CallsAreFinite
    <3>2. CASE InGroup(d)
      BY <1>10, <3>1, <3>2
    <3>3. CASE ~ InGroup(d)
      <4>1. d # c
        BY <1>9, <3>3
      <4>2. QED BY <1>1, <1>10, <3>1, <3>3, <4>1 DEF IInv, Queue
    <3>4. QED BY <3>2, <3>3
  <2>4. QED BY <1>13, <2>1, <2>2, <2>3 DEF Queue
<1>15. Phase' \in {"none", "queued"}
  <2>1. CASE writers' = << >>
    BY <2>1 DEF Phase
  <2>2. CASE writers' # << >>
    <3>1. 1 \in DOMAIN writers'
      BY <1>5, <2>2
    <3>2. QED BY <1>13, <2>2, <3>1 DEF Phase
  <2>3. QED BY <2>1, <2>2
<1>16. \A d \in Calls : /\ ~ InGroup(d)' /\ ~ Pending(d)' /\ ~ Pending(d)
                        /\ Entries(d)' = Entries(d) /\ Beyond(d)' = Beyond(d)
  BY <1>1, <1>3, <1>10 DEF InGroup, Pending, Writing, Entries, Beyond
<1>17. Groups'
  <2>1. Len(group') = 0 /\ DOMAIN group' = {} /\ Len(group') <= Len(writers')
    BY <1>1, <1>5
  <2>2. QED BY <1>1, <1>15, <2>1 DEF Groups, Writing
<1>18. Numbers'
  <2>1. \A d \in Calls : call'[d].seq # 0 => call'[d].pc \in {"await", "done"}
    BY <1>10 DEF IInv, Numbers
  <2>2. \A d \in Calls : call'[d].seq # 0 => Beyond(d)' <= lastSequence' + 1
    BY <1>2, <1>10, <1>16 DEF IInv, Numbers
  <2>3. Phase' \notin Writing
    BY <1>15 DEF Writing
  <2>4. QED BY <1>16, <2>1, <2>2, <2>3 DEF Numbers
<1>19. Order'
  <2>1. \A d, e \in Calls : d # e /\ call'[d].seq # 0 /\ call'[e].seq # 0 =>
           Beyond(d)' <= call'[e].seq \/ Beyond(e)' <= call'[d].seq
    BY <1>10, <1>16 DEF IInv, Order
  <2>2. ASSUME NEW d \in Calls, NEW e \in call'[d].before
        PROVE  Succeeded(e)' /\ (call'[d].seq # 0 => Beyond(e)' <= call'[d].seq)
    <3>1. e \in Calls /\ Succeeded(e) /\ (call[d].seq # 0 => Beyond(e) <= call[d].seq)
      BY <1>10, <2>2 DEF IInv, Order, CallType
    <3>2. Succeeded(e)'
      BY <1>7, <1>10, <3>1 DEF Succeeded, Returned
    <3>3. QED BY <1>10, <1>16, <3>1, <3>2
  <2>3. QED BY <2>1, <2>2 DEF Order
<1>20. Stores'
  <2>1. \A e \in Stored' : e <= lastSequence'
    BY <1>2, <1>3 DEF IInv, Stores
  <2>2. \A d \in Calls : call'[d].seq # 0 =>
          Entries(d)' \subseteq Stored' \/ Entries(d)' \cap Stored' = {}
    BY <1>2, <1>10, <1>16 DEF IInv, Stores
  <2>3. QED BY <1>15, <2>1, <2>2 DEF Stores
<1>21. \A d \in Calls : Good(d)' => Good(d)
  <2>1. TAKE d \in Calls
  <2>2. SUFFICES ASSUME Good(d)' PROVE Good(d)
    OBVIOUS
  <2>3. call'[d].pc \in {"await", "done"} /\ call'[d].ok
    BY <1>16, <2>2 DEF Good
  <2>4. GoesWell <=> call[c].ok
    BY <1>3 DEF GoesWell
  <2>5. QED BY <1>3, <1>10, <2>3, <2>4 DEF Good
<1>22. Answers'
  <2>1. \A d \in Calls : Good(d)' => Entries(d)' \subseteq Stored' /\ (call'[d].seq = 0 => call'[d].count = 0)
    BY <1>2, <1>10, <1>16, <1>21 DEF IInv, Answers
  <2>2. \A d \in Calls : /\ call'[d].pc = "await" => call'[d].count = 0
                         /\ call'[d].pc = "queued" => call'[d].ok
    BY <1>10 DEF IInv, Answers
  <2>3. QED BY <1>15, <2>1, <2>2 DEF Answers
<1>23. Logs'
  <2>1. \A d \in Calls : Good(d)' /\ call'[d].sync => Entries(d)' \subseteq synced'
    BY <1>2, <1>10, <1>16, <1>21 DEF IInv, Logs
  <2>2. QED BY <1>15, <2>1 DEF Logs
<1>24. QED BY <1>12, <1>14, <1>17, <1>18, <1>19, <1>20, <1>22, <1>23 DEF IInv
-----------------------------------------------------------------------------
LEMMA StepNext ==
    ASSUME IInv, [Next]_vars
    PROVE  IInv'
<1>1. ASSUME NEW c \in Calls, Write(c)
      PROVE  IInv'
  BY <1>1, StepWakeUp, StepReturn, StepDelayOrStall, StepFailInRoom, StepStartGroup,
     StepSwitchMemTable, StepAddRecord, StepSync, StepInsert, StepRelock, StepFinish,
     StepAwaitFlush DEF Write
<1>2. ASSUME NEW c \in Calls, Enqueue(c)
      PROVE  IInv'
  BY <1>2, StepEnqueue
<1>3. QED BY <1>1, <1>2, StepBackground, StepClose DEF Next

LEMMA InitHolds ==
    ASSUME Init
    PROVE  IInv
<1>1. call \in [Calls -> CallType] /\ \A c \in Calls : call[c] = NewCall
  BY DEF Init, NewCall, CallType, Places
<1>2. Types
  <2>1. StopTrigger \in Nat \ {0} /\ MaxErrors \in Nat
    BY TriggersAreOrdered, LimitsAreNat
  <2>2. TypeOK
    <3>1. 0 \in 0..StopTrigger /\ 0 \in 0..MaxErrors /\ << >> \in Seq(Calls)
      BY <2>1
    <3>2. log = {} /\ synced = {} /\ mem = {} /\ tables = {} /\ imm = NoTable /\ lastSequence \in Nat
      BY DEF Init
    <3>3. call \in [Calls -> [pc : Places, sync : BOOLEAN, count : Nat, seq : Nat, ok : BOOLEAN,
                              awake : BOOLEAN, delayed : BOOLEAN, before : SUBSET Calls]]
      BY <1>1 DEF CallType
    <3>4. QED BY <3>1, <3>2, <3>3 DEF Init, TypeOK
  <2>3. QED BY <1>1, <2>2 DEF Init, Types
<1>3. /\ writers = << >> /\ group = << >> /\ mutex = None /\ lastSequence = 0
      /\ Len(writers) = 0 /\ Len(group) = 0 /\ DOMAIN writers = {} /\ DOMAIN group = {}
  BY DEF Init
<1>4. Phase = "none" /\ Stored = {}
  BY <1>3 DEF Phase, Stored, Init
<1>5. \A c \in Calls : /\ call[c].pc = "idle" /\ call[c].seq = 0 /\ call[c].before = {}
                       /\ ~ InGroup(c) /\ ~ Pending(c) /\ ~ Good(c)
  BY <1>1, <1>3 DEF NewCall, InGroup, Pending, Good
<1>6. Queue
  BY <1>3, <1>5, CallsAreFinite DEF Queue, Leading, Writing
<1>7. Groups
  BY <1>3, <1>4 DEF Groups, Writing
<1>8. Numbers /\ Order
  BY <1>4, <1>5 DEF Numbers, Order, Writing
<1>9. Stores /\ Answers /\ Logs
  BY <1>4, <1>5 DEF Stores, Answers, Logs
<1>10. QED BY <1>2, <1>6, <1>7, <1>8, <1>9 DEF IInv

(* Whatever the number of threads that call DBImpl::Write, and whatever    *)
(* fails: one call leads at a time, its group is the beginning of the      *)
(* queue, and numbers, log and memtable agree (db_impl.cc:1186-1282).      *)
THEOREM QueueOfWriters == Spec => []IInv
<1>1. Init => IInv
  BY InitHolds
<1>2. IInv /\ [Next]_vars => IInv'
  BY StepNext
<1>3. QED BY <1>1, <1>2, PTL DEF Spec

(* A call that asked for sync and was told OK is on stable storage, also   *)
(* when another call wrote it in its group (db_impl.cc:1281-1284).         *)
THEOREM SyncedWritesAreStable == Spec => []SyncedIfAsked
<1>1. IInv => SyncedIfAsked
  BY DEF IInv, Logs, SyncedIfAsked, Good, Succeeded, Returned
<1>2. QED BY <1>1, QueueOfWriters, PTL

(* Readers see whole batches, and every batch that was acknowledged        *)
(* (db_impl.cc:1236).                                                      *)
THEOREM ReadersSeeWholeBatches == Spec => []ReadersSeeBatches
<1>1. ASSUME IInv PROVE ReadersSeeBatches
  <2> USE <1>1, Typing
  <2> DEFINE visible == {e \in Stored : e <= lastSequence}
  <2>1. ASSUME NEW c \in Calls, call[c].seq # 0
        PROVE  Entries(c) \subseteq visible \/ Entries(c) \cap visible = {}
    <3>1. CASE Pending(c)
      <4>1. call[c].seq > lastSequence /\ call[c].seq \in Nat
        BY <3>1, PendingIsBeyond DEF Pending
      <4>2. QED BY <4>1, EntriesAre
    <3>2. CASE ~ Pending(c)
      <4>1. Beyond(c) <= lastSequence + 1 /\ Beyond(c) \in Nat
        BY <2>1, <3>2, EntriesAre DEF IInv, Numbers
      <4>2. \A e \in Entries(c) : e <= lastSequence
        BY <4>1, EntriesAre
      <4>3. Entries(c) \subseteq Stored \/ Entries(c) \cap Stored = {}
        BY <2>1, <3>2 DEF IInv, Stores
      <4>4. QED BY <4>2, <4>3
    <3>3. QED BY <3>1, <3>2
  <2>2. ASSUME NEW c \in Calls, Succeeded(c)
        PROVE  Entries(c) \subseteq visible
    <3>1. Good(c) /\ call[c].pc = "done"
      BY <2>2 DEF Good, Succeeded, Returned
    <3>2. Entries(c) \subseteq Stored /\ (call[c].seq = 0 => call[c].count = 0)
      BY <3>1 DEF IInv, Answers
    <3>3. CASE call[c].seq = 0
      <4>1. \A e : e \notin Entries(c)
        BY <3>2, <3>3, EntriesAre DEF Beyond
      <4>2. QED BY <4>1
    <3>4. CASE call[c].seq # 0
      <4>1. ~ Pending(c)
        <5>1. ASSUME Pending(c) PROVE FALSE
          <6>1. PICK i \in DOMAIN group : group[i] = c
            BY <5>1 DEF Pending, InGroup
          <6>2. i \in DOMAIN writers /\ writers[i] = c
            BY <6>1 DEF IInv, Groups
          <6>3. QED BY <3>1, <6>2 DEF IInv, Queue, Leading, Writing
        <5>2. QED BY <5>1
      <4>2. Beyond(c) <= lastSequence + 1 /\ Beyond(c) \in Nat
        BY <3>4, <4>1, EntriesAre DEF IInv, Numbers
      <4>3. \A e \in Entries(c) : e <= lastSequence
        BY <4>2, EntriesAre
      <4>4. QED BY <3>2, <4>3
    <3>5. QED BY <3>3, <3>4
  <2>3. QED BY <2>1, <2>2 DEF ReadersSeeBatches
<1>2. QED BY <1>1, QueueOfWriters, PTL

(* Batches get numbers of their own, and later ones than every call that   *)
(* had succeeded before theirs began (db_impl.cc:1204).                    *)
THEOREM WritesInOrder == Spec => []WritesAreOrdered
<1>1. ASSUME IInv PROVE WritesAreOrdered
  <2> USE <1>1, Typing
  <2>1. ASSUME NEW c \in Calls, NEW d \in Calls, c # d, call[c].seq # 0, call[d].seq # 0
        PROVE  Entries(c) \cap Entries(d) = {}
    <3>1. Beyond(c) <= call[d].seq \/ Beyond(d) <= call[c].seq
      BY <2>1 DEF IInv, Order
    <3>2. \A e : e \notin Entries(c) \/ e \notin Entries(d)
      BY <3>1, EntriesAre
    <3>3. QED BY <3>2
  <2>2. ASSUME NEW c \in Calls, NEW d \in Calls, c \in call[d].before,
               NEW e \in Entries(c), NEW f \in Entries(d), call[d].seq # 0
        PROVE  e < f
    <3>1. Beyond(c) <= call[d].seq
      BY <2>2 DEF IInv, Order
    <3>2. e < Beyond(c) /\ call[d].seq <= f /\ e \in Nat /\ f \in Nat
      BY EntriesAre
    <3>3. call[d].seq \in Nat /\ Beyond(c) \in Nat
      BY EntriesAre
    <3>4. QED BY <3>1, <3>2, <3>3
  <2>3. QED BY <2>1, <2>2 DEF WritesAreOrdered
<1>2. QED BY <1>1, QueueOfWriters, PTL
=============================================================================
