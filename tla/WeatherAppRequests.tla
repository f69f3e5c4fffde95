--------------------------- MODULE WeatherAppRequests ---------------------------
(***************************************************************************)
(* A Home waits for exactly the answers that are still to come             *)
(* (HomeAwaitsAnswers), an event nobody lists was revived                  *)
(* (OrphansWereRevived), the rows of a lone device are of events that are  *)
(* there (RowsAreStored), and the invariants that say why.                 *)
(*                                                                         *)
(* ReadInv: no two requests under way clash, two saves of one key or two   *)
(* reads of one screen for one key; without it one answer could meet two   *)
(* reads (Unique). An answer without success names no keys (Refusals). The *)
(* load of a screen waits for the list, or for the keys of the reads under *)
(* way for it, unless a lost connection made the SDK forget one (Awaits).  *)
(* OrphanInv and LoneInv have sections of their own.                       *)
(***************************************************************************)
EXTENDS WeatherAppShape

\* Both steps of a save.
IsSave(op) == op.kind \in {"saveIndex", "saveEvent"}

(* Requests that are never under way together: two saves of one key; two   *)
(* reads of one screen, unless they are of two of its keys.                *)
Clash(a, b) ==
    \/ IsSave(a) /\ IsSave(b) /\ a.id = b.id
    \/ /\ IsRead(a) /\ IsRead(b) /\ a.src = b.src
       /\ a.id = b.id \/ a.id = None \/ b.id = None

(* Of the requests of a device and the answers on its main queue no two    *)
(* clash, each being one of them once.                                     *)
Once(out, q) ==
    /\ \A i, j \in DOMAIN out : Clash(out[i], out[j]) => i = j
    /\ \A i, j \in DOMAIN q :
          q[i].do = "answer" /\ q[j].do = "answer" /\ Clash(q[i].op, q[j].op) => i = j
    /\ \A i \in DOMAIN out, j \in DOMAIN q : q[j].do = "answer" => ~ Clash(out[i], q[j].op)

(* Clashing goes both ways, and only by what the requests say.             *)
LEMMA ClashIsSymmetric ==
    ASSUME NEW a, NEW b
    PROVE  /\ Clash(a, b) <=> Clash(b, a)
           /\ \A p : Same(p, a) => (Clash(p, b) <=> Clash(a, b))
BY DEF Clash, IsSave, IsRead, Same

(* Requests at other places, each of them one of those before.             *)
LEMMA OnceMoved ==
    ASSUME NEW out, NEW q, Once(out, q), NEW next, NEW at \in [DOMAIN next -> DOMAIN out],
           \A i, j \in DOMAIN next : at[i] = at[j] => i = j,
           \A i \in DOMAIN next : Same(next[i], out[at[i]])
    PROVE  Once(next, q)
<1>1. ASSUME NEW i \in DOMAIN next, NEW j \in DOMAIN next, Clash(next[i], next[j]) PROVE i = j
  <2>1. Clash(out[at[i]], out[at[j]])
    BY <1>1, ClashIsSymmetric
  <2>2. QED BY <2>1 DEF Once
<1>2. ASSUME NEW i \in DOMAIN next, NEW j \in DOMAIN q, q[j].do = "answer"
      PROVE  ~ Clash(next[i], q[j].op)
  BY <1>2, ClashIsSymmetric DEF Once
<1>3. QED BY <1>1, <1>2 DEF Once

(* ... and the answer to one more of them at the end of the queue.         *)
LEMMA OnceHanded ==
    ASSUME NEW out, NEW q \in Seq(GoodTasks), Once(out, q),
           NEW next, NEW at \in [DOMAIN next -> DOMAIN out],
           \A i, j \in DOMAIN next : at[i] = at[j] => i = j,
           \A i \in DOMAIN next : next[i] = out[at[i]],
           NEW k \in DOMAIN out, \A i \in DOMAIN next : at[i] # k,
           NEW a \in GoodTasks, a.op = out[k]
    PROVE  Once(next, Append(q, a))
<1> DEFINE r == Append(q, a)
           n == Len(q)
<1>1. /\ Len(r) = n + 1 /\ DOMAIN r = 1 .. n + 1 /\ DOMAIN q = 1 .. n /\ n \in Nat
      /\ \A i \in 1 .. n : r[i] = q[i]
      /\ r[n + 1] = a
  BY AppendProperties, LenProperties
<1> HIDE DEF r, n
<1>2. Once(next, q)
  <2>1. \A x : Same(x, x)
    BY DEF Same
  <2>2. QED BY <2>1, OnceMoved
<1>3. \A i \in DOMAIN q : q[i].do = "answer" => ~ Clash(q[i].op, a.op) /\ ~ Clash(a.op, q[i].op)
  BY ClashIsSymmetric DEF Once
<1>4. \A i \in DOMAIN next : ~ Clash(next[i], a.op)
  BY DEF Once
<1>5. \A i \in DOMAIN r : (i \in DOMAIN q /\ r[i] = q[i]) \/ (i = n + 1 /\ r[i] = a)
  BY <1>1
<1>6. ASSUME NEW i \in DOMAIN r, NEW j \in DOMAIN r, r[i].do = "answer", r[j].do = "answer",
             Clash(r[i].op, r[j].op)
      PROVE  i = j
  BY <1>2, <1>3, <1>5, <1>6 DEF Once
<1>7. ASSUME NEW i \in DOMAIN next, NEW j \in DOMAIN r, r[j].do = "answer"
      PROVE  ~ Clash(next[i], r[j].op)
  BY <1>2, <1>4, <1>5, <1>7 DEF Once
<1>8. Once(next, r)
  BY <1>2, <1>6, <1>7 DEF Once
<1>9. QED BY <1>8 DEF r

(* A block is taken off the queue, and one that is no answer may be queued. *)
LEMMA OnceWithBlocks ==
    ASSUME NEW out, NEW q \in Seq(GoodTasks), Once(out, q),
           NEW r, r = q \/ (q # << >> /\ r = Tail(q)),
           NEW next, next = r \/ \E t : t.do # "answer" /\ next = Append(r, t)
    PROVE  Once(out, next)
<1>1. Once(out, r) /\ r \in Seq(GoodTasks)
  <2>1. CASE r = q
    BY <2>1
  <2>2. CASE q # << >> /\ r = Tail(q)
    <3>1. /\ Len(r) = Len(q) - 1 /\ DOMAIN r = 1 .. Len(r) /\ DOMAIN q = 1 .. Len(q)
          /\ Len(q) \in Nat \ {0} /\ \A i \in 1 .. Len(r) : r[i] = q[i + 1]
          /\ r \in Seq(GoodTasks)
      BY <2>2, HeadTailProperties, LenProperties, EmptySeq
    <3>2. \A i \in DOMAIN r : i + 1 \in DOMAIN q /\ r[i] = q[i + 1]
      BY <3>1
    <3>3. ASSUME NEW i \in DOMAIN r, NEW j \in DOMAIN r, r[i].do = "answer", r[j].do = "answer",
                 Clash(r[i].op, r[j].op)
          PROVE  i = j
      <4>1. i + 1 = j + 1
        BY <3>2, <3>3 DEF Once
      <4>2. QED BY <3>1, <4>1
    <3>4. QED BY <3>1, <3>2, <3>3 DEF Once
  <2>3. QED BY <2>1, <2>2
<1>2. CASE \E t : t.do # "answer" /\ next = Append(r, t)
  <2>1. PICK t : t.do # "answer" /\ next = Append(r, t)
    BY <1>2
  <2>2. /\ Len(next) = Len(r) + 1 /\ DOMAIN next = 1 .. Len(next) /\ DOMAIN r = 1 .. Len(r)
        /\ Len(r) \in Nat /\ \A i \in 1 .. Len(r) : next[i] = r[i]
        /\ next[Len(r) + 1] = t
    BY <1>1, <2>1, AppendProperties, LenProperties
  <2>3. \A i \in DOMAIN next : next[i].do = "answer" => i \in DOMAIN r /\ next[i] = r[i]
    <3>1. \A i \in DOMAIN next : i \in DOMAIN r \/ i = Len(r) + 1
      BY <2>2
    <3>2. QED BY <2>1, <2>2, <3>1
  <2>4. QED BY <1>1, <2>3 DEF Once
<1>3. QED BY <1>1, <1>2

(* One request more, which clashes with none.                              *)
LEMMA OnceSent ==
    ASSUME NEW out \in Seq(GoodRequests), NEW q, Once(out, q), NEW op \in GoodRequests,
           \A i \in DOMAIN out : ~ Clash(op, out[i]),
           \A j \in DOMAIN q : q[j].do = "answer" => ~ Clash(op, q[j].op)
    PROVE  Once(Append(out, op), q)
<1> DEFINE next == Append(out, op)
<1>1. /\ Len(next) = Len(out) + 1 /\ DOMAIN next = 1 .. Len(next) /\ DOMAIN out = 1 .. Len(out)
      /\ Len(out) \in Nat /\ \A i \in 1 .. Len(out) : next[i] = out[i]
      /\ next[Len(out) + 1] = op
  BY AppendProperties, LenProperties
<1> HIDE DEF next
<1>2. \A i \in DOMAIN next : (i \in DOMAIN out /\ next[i] = out[i]) \/ (i = Len(out) + 1 /\ next[i] = op)
  BY <1>1
<1>3. ASSUME NEW i \in DOMAIN next, NEW j \in DOMAIN next, Clash(next[i], next[j]) PROVE i = j
  BY <1>2, <1>3, ClashIsSymmetric DEF Once
<1>4. Once(next, q)
  BY <1>2, <1>3 DEF Once
<1>5. QED BY <1>4 DEF next

(* The answer at the head makes room for a request that only clashes with  *)
(* what its own request clashed with.                                      *)
LEMMA OnceContinued ==
    ASSUME NEW out \in Seq(GoodRequests), NEW q \in Seq(GoodTasks), Once(out, q), q # << >>,
           Head(q).do = "answer", NEW op \in GoodRequests,
           \A x : Clash(op, x) => Clash(Head(q).op, x)
    PROVE  Once(Append(out, op), Tail(q))
<1>1. /\ DOMAIN Tail(q) = 1 .. Len(q) - 1 /\ DOMAIN q = 1 .. Len(q) /\ Len(q) \in Nat \ {0}
      /\ \A i \in 1 .. Len(q) - 1 : Tail(q)[i] = q[i + 1]
      /\ Head(q) = q[1]
  BY HeadTailProperties, LenProperties, EmptySeq
<1>2. Once(out, Tail(q))
  BY OnceWithBlocks
<1>3. \A i \in DOMAIN out : ~ Clash(op, out[i])
  BY <1>1, ClashIsSymmetric DEF Once
<1>4. ASSUME NEW j \in DOMAIN Tail(q), Tail(q)[j].do = "answer" PROVE ~ Clash(op, Tail(q)[j].op)
  <2>1. j + 1 \in DOMAIN q /\ j + 1 # 1 /\ Tail(q)[j] = q[j + 1] /\ 1 \in DOMAIN q
    BY <1>1
  <2>2. ~ Clash(q[1].op, q[j + 1].op)
    BY <1>1, <1>4, <2>1 DEF Once
  <2>3. QED BY <1>1, <2>1, <2>2
<1>5. QED BY <1>2, <1>3, <1>4, OnceSent

(* The keys have been read: the reads of them clash with none but those of *)
(* the same screen, and there are none but the answer that is handled.     *)
LEMMA OnceReading ==
    ASSUME NEW out \in Seq(GoodRequests), NEW q \in Seq(GoodTasks), Once(out, q), q # << >>,
           Head(q) \in GoodAnswers, Head(q).op.kind = "readIndex", Head(q).op.id = None,
           NEW sent \in Seq(GoodRequests), NEW found \in Seq(GoodAnswers),
           \A i \in DOMAIN sent : Reading(sent[i], Head(q)),
           \A i \in DOMAIN found : Reading(found[i].op, Head(q)),
           \A i, j \in DOMAIN sent : sent[i].id = sent[j].id => i = j,
           \A i, j \in DOMAIN found : found[i].op.id = found[j].op.id => i = j,
           \A i \in DOMAIN sent, j \in DOMAIN found : sent[i].id # found[j].op.id
    PROVE  Once(out \o sent, Tail(q) \o found)
<1> DEFINE a == Head(q)
           r == Tail(q)
           next == out \o sent
           queue == r \o found
<1>1. /\ DOMAIN r = 1 .. Len(q) - 1 /\ DOMAIN q = 1 .. Len(q) /\ Len(q) \in Nat \ {0}
      /\ \A i \in 1 .. Len(q) - 1 : r[i] = q[i + 1]
      /\ a = q[1] /\ r \in Seq(GoodTasks) /\ a.do = "answer"
  BY HeadTailProperties, LenProperties, EmptySeq DEF GoodAnswers, Answers
<1>2. Once(out, r)
  BY OnceWithBlocks
<1>3. \A i \in DOMAIN next : \/ i \in DOMAIN out /\ next[i] = out[i]
                             \/ i - Len(out) \in DOMAIN sent /\ next[i] = sent[i - Len(out)]
  <2>1. /\ Len(next) = Len(out) + Len(sent)
        /\ \A i \in 1 .. Len(out) + Len(sent) :
              next[i] = IF i <= Len(out) THEN out[i] ELSE sent[i - Len(out)]
        /\ DOMAIN next = 1 .. Len(next) /\ DOMAIN out = 1 .. Len(out)
        /\ DOMAIN sent = 1 .. Len(sent) /\ Len(out) \in Nat /\ Len(sent) \in Nat
    BY ConcatProperties, LenProperties
  <2> HIDE DEF next
  <2>2. QED BY <2>1
<1>4. \A i \in DOMAIN queue : \/ i \in DOMAIN r /\ queue[i] = r[i]
                              \/ i - Len(r) \in DOMAIN found /\ queue[i] = found[i - Len(r)]
  <2>1. found \in Seq(GoodTasks) /\ r \in Seq(GoodTasks)
    BY <1>1 DEF GoodTasks
  <2> HIDE DEF r
  <2>2. /\ Len(queue) = Len(r) + Len(found)
        /\ \A i \in 1 .. Len(r) + Len(found) :
              queue[i] = IF i <= Len(r) THEN r[i] ELSE found[i - Len(r)]
        /\ DOMAIN queue = 1 .. Len(queue) /\ DOMAIN r = 1 .. Len(r)
        /\ DOMAIN found = 1 .. Len(found) /\ Len(r) \in Nat /\ Len(found) \in Nat
    BY <2>1, ConcatProperties, LenProperties
  <2> HIDE DEF queue
  <2>3. QED BY <2>2
<1>5. /\ \A i \in DOMAIN out : ~ Clash(a.op, out[i])
      /\ \A i \in DOMAIN r : r[i].do = "answer" => ~ Clash(a.op, r[i].op)
  <2>1. \A i \in DOMAIN out : ~ Clash(out[i], a.op)
    <3>1. 1 \in DOMAIN q /\ q[1].do = "answer"
      BY <1>1
    <3>2. QED BY <1>1, <3>1 DEF Once
  <2>2. ASSUME NEW i \in DOMAIN r, r[i].do = "answer" PROVE ~ Clash(a.op, r[i].op)
    <3>1. i + 1 \in DOMAIN q /\ i + 1 # 1 /\ r[i] = q[i + 1] /\ 1 \in DOMAIN q
      BY <1>1
    <3>2. QED BY <1>1, <2>2, <3>1 DEF Once
  <2>3. QED BY <2>1, <2>2, ClashIsSymmetric
<1>6. \A op, x : Reading(op, a) /\ Clash(op, x) => Clash(a.op, x)
  BY DEF Reading, Clash, IsSave, IsRead, Reads
<1>7. \A op, p : Reading(op, a) /\ Reading(p, a) /\ Clash(op, p) => op.id = p.id
  <2>1. a.keys \subseteq Ids
    BY DEF GoodAnswers, Answers
  <2>2. None \notin Ids
    BY NoneIsNothing
  <2>3. QED BY <2>1, <2>2 DEF Reading, Clash, IsSave
<1>8. /\ \A i \in DOMAIN sent : /\ \A j \in DOMAIN out : ~ Clash(sent[i], out[j])
                                /\ \A j \in DOMAIN r : r[j].do = "answer" => ~ Clash(sent[i], r[j].op)
      /\ \A i \in DOMAIN found : /\ \A j \in DOMAIN out : ~ Clash(found[i].op, out[j])
                                 /\ \A j \in DOMAIN r : r[j].do = "answer" => ~ Clash(found[i].op, r[j].op)
  BY <1>5, <1>6
<1> HIDE DEF next, queue, r, a
<1>9. ASSUME NEW i \in DOMAIN next, NEW j \in DOMAIN next, Clash(next[i], next[j]) PROVE i = j
  <2>1. CASE i \in DOMAIN out /\ next[i] = out[i] /\ j \in DOMAIN out /\ next[j] = out[j]
    BY <1>2, <1>9, <2>1 DEF Once
  <2>2. CASE i - Len(out) \in DOMAIN sent /\ next[i] = sent[i - Len(out)]
             /\ j \in DOMAIN out /\ next[j] = out[j]
    BY <1>8, <1>9, <2>2
  <2>3. CASE j - Len(out) \in DOMAIN sent /\ next[j] = sent[j - Len(out)]
             /\ i \in DOMAIN out /\ next[i] = out[i]
    BY <1>8, <1>9, <2>3, ClashIsSymmetric
  <2>4. CASE /\ i - Len(out) \in DOMAIN sent /\ next[i] = sent[i - Len(out)]
             /\ j - Len(out) \in DOMAIN sent /\ next[j] = sent[j - Len(out)]
    <3>1. i - Len(out) = j - Len(out)
      BY <1>7, <1>9, <2>4 DEF a
    <3>2. i \in Int /\ j \in Int /\ Len(out) \in Nat
      <4>1. next \in Seq(GoodRequests)
        BY ConcatProperties DEF next
      <4>2. QED BY <4>1, LenProperties
    <3>3. QED BY <3>1, <3>2
  <2>5. QED BY <1>3, <2>1, <2>2, <2>3, <2>4
<1>10. ASSUME NEW i \in DOMAIN queue, NEW j \in DOMAIN queue, queue[i].do = "answer",
              queue[j].do = "answer", Clash(queue[i].op, queue[j].op)
       PROVE  i = j
  <2>1. CASE i \in DOMAIN r /\ queue[i] = r[i] /\ j \in DOMAIN r /\ queue[j] = r[j]
    BY <1>2, <1>10, <2>1 DEF Once
  <2>2. CASE i - Len(r) \in DOMAIN found /\ queue[i] = found[i - Len(r)]
             /\ j \in DOMAIN r /\ queue[j] = r[j]
    BY <1>8, <1>10, <2>2
  <2>3. CASE j - Len(r) \in DOMAIN found /\ queue[j] = found[j - Len(r)]
             /\ i \in DOMAIN r /\ queue[i] = r[i]
    BY <1>8, <1>10, <2>3, ClashIsSymmetric
  <2>4. CASE /\ i - Len(r) \in DOMAIN found /\ queue[i] = found[i - Len(r)]
             /\ j - Len(r) \in DOMAIN found /\ queue[j] = found[j - Len(r)]
    <3>1. i - Len(r) = j - Len(r)
      BY <1>7, <1>10, <2>4 DEF a
    <3>2. i \in Int /\ j \in Int /\ Len(r) \in Nat
      <4>1. found \in Seq(GoodTasks)
        BY DEF GoodTasks
      <4>2. queue \in Seq(GoodTasks)
        BY <1>1, <4>1, ConcatProperties DEF queue
      <4>3. QED BY <1>1, <4>2, LenProperties
    <3>3. QED BY <3>1, <3>2
  <2>5. QED BY <1>4, <2>1, <2>2, <2>3, <2>4
<1>11. ASSUME NEW i \in DOMAIN next, NEW j \in DOMAIN queue, queue[j].do = "answer"
       PROVE  ~ Clash(next[i], queue[j].op)
  <2>1. CASE i \in DOMAIN out /\ next[i] = out[i] /\ j \in DOMAIN r /\ queue[j] = r[j]
    BY <1>2, <1>11, <2>1 DEF Once
  <2>2. CASE i - Len(out) \in DOMAIN sent /\ next[i] = sent[i - Len(out)]
             /\ j \in DOMAIN r /\ queue[j] = r[j]
    BY <1>8, <1>11, <2>2
  <2>3. CASE j - Len(r) \in DOMAIN found /\ queue[j] = found[j - Len(r)]
             /\ i \in DOMAIN out /\ next[i] = out[i]
    BY <1>8, <1>11, <2>3, ClashIsSymmetric
  <2>4. CASE /\ i - Len(out) \in DOMAIN sent /\ next[i] = sent[i - Len(out)]
             /\ j - Len(r) \in DOMAIN found /\ queue[j] = found[j - Len(r)]
    BY <1>7, <2>4 DEF a
  <2>5. QED BY <1>3, <1>4, <2>1, <2>2, <2>3, <2>4
<1>12. Once(next, queue)
  BY <1>9, <1>10, <1>11 DEF Once
<1>13. QED BY <1>12 DEF next, queue, r

(* What has a place in the outbox or the main queue is under way.          *)
LEMMA PlacesAreOutstanding ==
    ASSUME Shape, NEW d \in Devices
    PROVE  /\ \A i \in DOMAIN outbox[d] : outbox[d][i] \in Outstanding(d)
           /\ \A j \in DOMAIN mainQ[d] : mainQ[d][j].do = "answer" => mainQ[d][j].op \in Outstanding(d)
BY DEF Outstanding, ToSet

(* What the network does to the requests of a device: each of them was     *)
(* there before, at the place at says, the writes in the same order; the   *)
(* answer to one that is gone may be handed to the main queue.             *)
LEMMA NetworkMovesOutbox ==
    ASSUME Shape, NEW d \in Devices,
           \/ ServerGrants(d) \/ ServerRefuses(d)
           \/ Receive(d) \/ Disconnect(d) \/ Reconnect(d) \/ GetTimesOut(d)
    PROVE  \E at \in [DOMAIN outbox'[d] -> DOMAIN outbox[d]] :
              /\ \A i, j \in DOMAIN outbox'[d] : at[i] = at[j] => i = j
              /\ \A i \in DOMAIN outbox'[d] :
                    /\ Same(outbox'[d][i], outbox[d][at[i]])
                    /\ ~ outbox'[d][i].redo =>
                          /\ outbox'[d][i] = outbox[d][at[i]]
                          /\ i > Len(answers'[d]) => at[i] > Len(answers[d])
              /\ \A i, j \in DOMAIN outbox'[d] :
                    outbox'[d][i].kind \in Writes /\ outbox'[d][j].kind \in Writes /\ at[i] < at[j]
                        => i < j
              /\ \/ mainQ'[d] = mainQ[d]
                 \/ \E k \in DOMAIN outbox[d], a \in GoodTasks :
                       /\ mainQ'[d] = Append(mainQ[d], a) /\ a.do = "answer" /\ a.op = outbox[d][k]
                       /\ \A i \in DOMAIN outbox'[d] : at[i] # k /\ outbox'[d][i] = outbox[d][at[i]]
                       /\ IsRead(a.op) \/ (k = 1 /\ answers[d] # << >>)
<1> DEFINE out == outbox[d]
           q == mainQ[d]
           Mapped(next, m, at) ==
              /\ at \in [DOMAIN next -> DOMAIN out]
              /\ \A i, j \in DOMAIN next : at[i] = at[j] => i = j
              /\ \A i \in DOMAIN next :
                    /\ Same(next[i], out[at[i]])
                    /\ ~ next[i].redo => /\ next[i] = out[at[i]]
                                         /\ i > m => at[i] > Len(answers[d])
              /\ \A i, j \in DOMAIN next :
                    next[i].kind \in Writes /\ next[j].kind \in Writes /\ at[i] < at[j] => i < j
<1>1. out \in Seq(GoodRequests) /\ answers[d] \in Seq(GoodAnswers) /\ q \in Seq(GoodTasks)
      /\ Len(out) \in Nat /\ DOMAIN out = 1 .. Len(out) /\ Len(answers[d]) \in Nat
  BY OutstandingIs
<1>2. \A op : Same(op, op)
  BY DEF Same
<1>3. ASSUME NEW at, Mapped(outbox'[d], Len(answers'[d]), at), mainQ'[d] = q
      PROVE  \E f \in [DOMAIN outbox'[d] -> DOMAIN out] :
                Mapped(outbox'[d], Len(answers'[d]), f) /\ mainQ'[d] = q
  BY <1>3
<1>4. CASE ServerGrants(d) \/ ServerRefuses(d)
  <2> DEFINE at == [i \in DOMAIN out |-> i]
  <2>1. /\ outbox' = outbox /\ mainQ' = mainQ
        /\ \E a : answers' = [answers EXCEPT ![d] = Append(answers[d], a)]
    BY <1>4 DEF ServerGrants, ServerRefuses
  <2>2. PICK a : answers'[d] = Append(answers[d], a)
    BY <2>1 DEF Shape, Types
  <2>3. Len(answers'[d]) = Len(answers[d]) + 1
    <3>1. Len(Append(answers[d], a)) = Len(answers[d]) + 1
      BY <1>1
    <3>2. QED BY <2>2, <3>1
  <2>4. Mapped(outbox'[d], Len(answers'[d]), at)
    BY <1>1, <1>2, <2>1, <2>3
  <2> HIDE DEF at, Mapped
  <2>5. at \in [DOMAIN outbox'[d] -> DOMAIN outbox[d]]
    BY <2>4 DEF Mapped
  <2>6. QED BY <2>1, <2>4, <2>5 DEF Mapped
<1>5. CASE Receive(d)
  <2>1. /\ answers[d] # << >> /\ outbox'[d] = Tail(out) /\ mainQ'[d] = Append(q, Head(answers[d]))
        /\ answers'[d] = Tail(answers[d])
    BY <1>5 DEF Receive, Shape, Types
  <2>2. /\ Head(answers[d]) \in GoodAnswers /\ Head(answers[d]).op = out[1]
        /\ out # << >> /\ 1 \in DOMAIN out /\ Len(answers'[d]) = Len(answers[d]) - 1
    <3>1. /\ Len(answers[d]) \in Nat \ {0} /\ Head(answers[d]) = answers[d][1]
          /\ Len(Tail(answers[d])) = Len(answers[d]) - 1
      BY <1>1, <2>1, EmptySeq, HeadTailProperties
    <3>2. Len(answers[d]) <= Len(out) /\ answers[d][1].op = out[1]
      BY <3>1 DEF Shape, Answering
    <3>3. QED BY <1>1, <2>1, <3>1, <3>2, EmptySeq
  <2> DEFINE next == Tail(out)
             at == [i \in DOMAIN next |-> i + 1]
             a == Head(answers[d])
  <2>3. a \in GoodTasks /\ a.do = "answer" /\ a.op = out[1]
    BY <2>2 DEF GoodTasks, GoodAnswers, Answers
  <2>4. /\ DOMAIN next = 1 .. Len(out) - 1
        /\ \A i \in 1 .. Len(out) - 1 : next[i] = out[i + 1]
    BY <1>1, <2>2, HeadTailProperties, LenProperties
  <2>5. /\ at \in [DOMAIN next -> DOMAIN out]
        /\ \A i \in DOMAIN next : next[i] = out[at[i]] /\ at[i] # 1 /\ at[i] = i + 1 /\ i \in Nat
    BY <1>1, <2>4
  <2> HIDE DEF next, at, a
  <2>6. Mapped(next, Len(answers[d]) - 1, at)
    BY <1>1, <1>2, <2>5
  <2>7. outbox'[d] = next /\ mainQ'[d] = Append(q, a) /\ Len(answers'[d]) = Len(answers[d]) - 1
    BY <2>1, <2>2 DEF next, a
  <2>8. \A i \in DOMAIN next : at[i] # 1 /\ next[i] = out[at[i]]
    BY <2>5
  <2> HIDE DEF Mapped
  <2>9. \E k \in DOMAIN out, t \in GoodTasks :
           /\ mainQ'[d] = Append(q, t) /\ t.do = "answer" /\ t.op = out[k]
           /\ \A i \in DOMAIN next : at[i] # k /\ next[i] = out[at[i]]
           /\ IsRead(t.op) \/ (k = 1 /\ answers[d] # << >>)
    BY <2>1, <2>2, <2>3, <2>7, <2>8
  <2>10. Mapped(outbox'[d], Len(answers'[d]), at) /\ at \in [DOMAIN outbox'[d] -> DOMAIN outbox[d]]
    BY <2>5, <2>6, <2>7
  <2>11. \E k \in DOMAIN outbox[d], t \in GoodTasks :
           /\ mainQ'[d] = Append(mainQ[d], t) /\ t.do = "answer" /\ t.op = outbox[d][k]
           /\ \A i \in DOMAIN outbox'[d] : at[i] # k /\ outbox'[d][i] = outbox[d][at[i]]
           /\ IsRead(t.op) \/ (k = 1 /\ answers[d] # << >>)
    BY <2>7, <2>9
  <2>12. QED BY <2>10, <2>11 DEF Mapped
<1>6. CASE Disconnect(d)
  <2> DEFINE w == Only(out, Writes)
             r == [i \in DOMAIN w |-> [w[i] EXCEPT !.redo = TRUE]]
  <2>1. outbox'[d] = r /\ mainQ'[d] = q
    BY <1>6 DEF Disconnect, Shape, Types
  <2>2. w \in Seq(GoodRequests) /\ \E at : Chosen(out, Writes, Len(out), w, at)
    BY <1>1, OnlyChooses
  <2>3. PICK at : Chosen(out, Writes, Len(out), w, at)
    BY <2>2
  <2> HIDE DEF w
  <2>4. \A i \in DOMAIN w : w[i] \in GoodRequests
    BY <2>2
  <2>5. DOMAIN r = DOMAIN w /\ \A i \in DOMAIN w : Same(r[i], w[i]) /\ r[i].redo
    BY <2>4 DEF Same, GoodRequests, Requests
  <2>6. /\ at \in [DOMAIN r -> DOMAIN out]
        /\ \A i \in DOMAIN r : Same(r[i], out[at[i]]) /\ r[i].redo
    BY <1>1, <2>3, <2>5 DEF Chosen
  <2>7. \A i, j \in DOMAIN r : i < j => at[i] < at[j]
    BY <2>3, <2>5 DEF Chosen
  <2>8. \A i \in DOMAIN r : at[i] \in Nat /\ i \in Nat
    <3>1. DOMAIN w = 1 .. Len(w) /\ Len(w) \in Nat
      BY <2>2
    <3>2. QED BY <1>1, <2>5, <2>6, <3>1
  <2> HIDE DEF r
  <2>9. \A i, j \in DOMAIN r : (at[i] = at[j] => i = j) /\ (at[i] < at[j] => i < j)
    BY <2>7, <2>8
  <2>10. Mapped(outbox'[d], Len(answers'[d]), at)
    BY <2>1, <2>6, <2>9
  <2> HIDE DEF Mapped
  <2>11. at \in [DOMAIN outbox'[d] -> DOMAIN outbox[d]]
    BY <2>10 DEF Mapped
  <2>12. QED BY <2>1, <2>10, <2>11 DEF Mapped
<1>7. CASE Reconnect(d)
  <2> DEFINE w == Only(out, Writes)
             r == Only(out, Reads)
             next == w \o r
  <2>1. /\ outbox'[d] = next /\ mainQ'[d] = q /\ answers' = answers
        /\ Len(answers[d]) = 0
    BY <1>7 DEF Reconnect, Shape, Types, Answering
  <2>2. /\ w \in Seq(GoodRequests) /\ \E at : Chosen(out, Writes, Len(out), w, at)
        /\ r \in Seq(GoodRequests) /\ \E at : Chosen(out, Reads, Len(out), r, at)
    BY <1>1, OnlyChooses
  <2>3. PICK atW : Chosen(out, Writes, Len(out), w, atW)
    BY <2>2
  <2>4. PICK atR : Chosen(out, Reads, Len(out), r, atR)
    BY <2>2
  <2> HIDE DEF w, r
  <2> DEFINE at == [i \in DOMAIN next |-> IF i <= Len(w) THEN atW[i] ELSE atR[i - Len(w)]]
  <2>5. /\ DOMAIN w = 1 .. Len(w) /\ Len(w) \in Nat /\ DOMAIN r = 1 .. Len(r) /\ Len(r) \in Nat
        /\ DOMAIN next = 1 .. Len(w) + Len(r)
        /\ \A i \in 1 .. Len(w) + Len(r) : next[i] = IF i <= Len(w) THEN w[i] ELSE r[i - Len(w)]
    BY <2>2, ConcatProperties, LenProperties
  <2>6. /\ \A i \in DOMAIN w : /\ atW[i] \in DOMAIN out /\ w[i] = out[atW[i]] /\ w[i].kind \in Writes
                               /\ \A j \in DOMAIN w : i < j => atW[i] < atW[j]
        /\ \A i \in DOMAIN r : /\ atR[i] \in DOMAIN out /\ r[i] = out[atR[i]] /\ r[i].kind \in Reads
                               /\ \A j \in DOMAIN r : i < j => atR[i] < atR[j]
    BY <1>1, <2>3, <2>4 DEF Chosen
  <2> HIDE DEF next
  <2>7. \A i \in DOMAIN next : \/ i \in DOMAIN w /\ at[i] = atW[i] /\ next[i] = w[i]
                               \/ /\ i - Len(w) \in DOMAIN r /\ at[i] = atR[i - Len(w)]
                                  /\ next[i] = r[i - Len(w)]
    BY <2>5
  <2> HIDE DEF at
  <2>8. /\ \A i \in DOMAIN next : at[i] \in DOMAIN out /\ next[i] = out[at[i]] /\ at[i] > 0
        /\ at \in [DOMAIN next -> DOMAIN out]
    <3>1. \A i \in DOMAIN next : at[i] \in DOMAIN out /\ next[i] = out[at[i]]
      BY <2>6, <2>7
    <3>2. QED BY <1>1, <3>1 DEF at
  <2>9. /\ \A l \in DOMAIN r : r[l].kind \notin Writes
        /\ \A l \in DOMAIN w : w[l].kind \notin Reads
    BY <2>6 DEF Writes, Reads
  <2>10. /\ \A k \in DOMAIN w : atW[k] \in Nat
         /\ \A k \in DOMAIN r : atR[k] \in Nat
    BY <1>1, <2>6
  <2>11. \A k, l \in DOMAIN w : /\ atW[k] = atW[l] => k = l
                                /\ atW[k] < atW[l] => k < l
    <3>1. \A k \in DOMAIN w : k \in Nat
      BY <2>5
    <3>2. \A k, l \in DOMAIN w : k < l => atW[k] < atW[l]
      BY <2>6
    <3>3. QED BY <2>10, <3>1, <3>2
  <2>16. \A k, l \in DOMAIN r : atR[k] = atR[l] => k = l
    <3>1. \A k \in DOMAIN r : k \in Nat
      BY <2>5
    <3>2. \A k, l \in DOMAIN r : k < l => atR[k] < atR[l]
      BY <2>6
    <3>3. QED BY <2>10, <3>1, <3>2
  <2>12. ASSUME NEW i \in DOMAIN next, NEW j \in DOMAIN next, at[i] = at[j] PROVE i = j
    <3>1. next[i] = next[j]
      BY <2>8, <2>12
    <3>2. CASE i \in DOMAIN w /\ at[i] = atW[i] /\ next[i] = w[i]
      <4>1. next[j].kind \in Writes
        BY <2>6, <3>1, <3>2
      <4>2. j \in DOMAIN w /\ at[j] = atW[j] /\ next[j] = w[j]
        BY <2>7, <2>9, <4>1
      <4>3. QED BY <2>11, <2>12, <3>2, <4>2
    <3>3. CASE i - Len(w) \in DOMAIN r /\ at[i] = atR[i - Len(w)] /\ next[i] = r[i - Len(w)]
      <4>1. next[j].kind \in Reads
        BY <2>6, <3>1, <3>3
      <4>2. j - Len(w) \in DOMAIN r /\ at[j] = atR[j - Len(w)] /\ next[j] = r[j - Len(w)]
        BY <2>7, <2>9, <4>1
      <4>3. i - Len(w) = j - Len(w)
        BY <2>16, <2>12, <3>3, <4>2
      <4>4. QED BY <2>5, <4>3
    <3>4. QED BY <2>7, <3>2, <3>3
  <2>13. ASSUME NEW i \in DOMAIN next, NEW j \in DOMAIN next,
                next[i].kind \in Writes, next[j].kind \in Writes, at[i] < at[j]
         PROVE  i < j
    <3>1. i \in DOMAIN w /\ at[i] = atW[i] /\ j \in DOMAIN w /\ at[j] = atW[j]
      BY <2>7, <2>9, <2>13
    <3>2. QED BY <2>11, <2>13, <3>1
  <2>14. Mapped(next, Len(answers[d]), at)
    BY <1>2, <2>1, <2>8, <2>12, <2>13
  <2> HIDE DEF Mapped
  <2>15. QED BY <2>1, <2>8, <2>14 DEF Mapped
<1>8. CASE GetTimesOut(d)
  <2>1. PICK k \in DOMAIN out : /\ outbox'[d] = RemoveAt(out, k) /\ IsRead(out[k])
                                /\ mainQ'[d] = Append(q, Refused(out[k]))
    BY <1>8 DEF GetTimesOut, Shape, Types
  <2>2. answers' = answers /\ Len(answers[d]) = 0
    BY <1>8 DEF GetTimesOut, Shape, Answering
  <2> DEFINE next == RemoveAt(out, k)
             at == [i \in DOMAIN next |-> IF i < k THEN i ELSE i + 1]
             a == Refused(out[k])
  <2>3. a \in GoodTasks /\ a.do = "answer" /\ a.op = out[k]
    <3>1. out[k] \in GoodRequests
      BY <1>1
    <3>2. QED BY <3>1, AnswerIsGood DEF Refused, GoodTasks, Answer
  <2>4. /\ DOMAIN next = 1 .. Len(out) - 1
        /\ \A j \in 1 .. Len(out) - 1 : next[j] = IF j < k THEN out[j] ELSE out[j + 1]
    BY <1>1, Removed, LenProperties
  <2> HIDE DEF next
  <2>5. /\ at \in [DOMAIN next -> DOMAIN out]
        /\ \A i, j \in DOMAIN next : (at[i] = at[j] => i = j) /\ (at[i] < at[j] => i < j)
        /\ \A i \in DOMAIN next : next[i] = out[at[i]] /\ at[i] # k /\ at[i] > 0
    BY <1>1, <2>4
  <2> HIDE DEF at, a
  <2>6. Mapped(next, Len(answers[d]), at)
    BY <1>2, <2>2, <2>5
  <2>7. outbox'[d] = next /\ mainQ'[d] = Append(q, a)
    BY <2>1 DEF next, a
  <2>8. \A i \in DOMAIN next : at[i] # k /\ next[i] = out[at[i]]
    BY <2>5
  <2> HIDE DEF Mapped
  <2>9. \E l \in DOMAIN out, t \in GoodTasks :
           /\ mainQ'[d] = Append(q, t) /\ t.do = "answer" /\ t.op = out[l]
           /\ \A i \in DOMAIN next : at[i] # l /\ next[i] = out[at[i]]
           /\ IsRead(t.op) \/ (l = 1 /\ answers[d] # << >>)
    BY <2>1, <2>3, <2>7, <2>8
  <2>10. QED BY <2>2, <2>5, <2>6, <2>7, <2>9 DEF Mapped
<1>9. QED BY <1>4, <1>5, <1>6, <1>7, <1>8

(* So no two of the requests clash that did not.                           *)
LEMMA NetworkKeepsOnce ==
    ASSUME Shape, NEW d \in Devices, Once(outbox[d], mainQ[d]),
           \/ ServerGrants(d) \/ ServerRefuses(d)
           \/ Receive(d) \/ Disconnect(d) \/ Reconnect(d) \/ GetTimesOut(d)
    PROVE  Once(outbox'[d], mainQ'[d])
<1>1. PICK next : next = outbox'[d]
  OBVIOUS
<1>2. PICK at \in [DOMAIN next -> DOMAIN outbox[d]] :
         /\ \A i, j \in DOMAIN next : at[i] = at[j] => i = j
         /\ \A i \in DOMAIN next : Same(next[i], outbox[d][at[i]])
         /\ \/ mainQ'[d] = mainQ[d]
            \/ \E k \in DOMAIN outbox[d], a \in GoodTasks :
                  /\ mainQ'[d] = Append(mainQ[d], a) /\ a.op = outbox[d][k]
                  /\ \A i \in DOMAIN next : at[i] # k /\ next[i] = outbox[d][at[i]]
  BY <1>1, NetworkMovesOutbox
<1>3. mainQ[d] \in Seq(GoodTasks)
  BY OutstandingIs
<1>4. CASE mainQ'[d] = mainQ[d]
  BY <1>1, <1>2, <1>4, OnceMoved
<1>5. CASE \E k \in DOMAIN outbox[d], a \in GoodTasks :
              /\ mainQ'[d] = Append(mainQ[d], a) /\ a.op = outbox[d][k]
              /\ \A i \in DOMAIN next : at[i] # k /\ next[i] = outbox[d][at[i]]
  <2>1. PICK k \in DOMAIN outbox[d], a \in GoodTasks :
              /\ mainQ'[d] = Append(mainQ[d], a) /\ a.op = outbox[d][k]
              /\ \A i \in DOMAIN next : at[i] # k /\ next[i] = outbox[d][at[i]]
    BY <1>5
  <2>2. Once(next, Append(mainQ[d], a))
    <3> DEFINE out == outbox[d]
               q == mainQ[d]
    <3>1. /\ Once(out, q) /\ q \in Seq(GoodTasks) /\ at \in [DOMAIN next -> DOMAIN out]
          /\ \A i, j \in DOMAIN next : at[i] = at[j] => i = j
          /\ k \in DOMAIN out /\ a.op = out[k]
      BY <1>2, <1>3, <2>1
    <3>2. \A i \in DOMAIN next : next[i] = out[at[i]]
      BY <2>1
    <3>3. \A i \in DOMAIN next : at[i] # k
      BY <2>1
    <3> HIDE DEF out, q
    <3>4. Once(next, Append(q, a))
      BY <3>1, <3>2, <3>3, OnceHanded
    <3>5. QED BY <3>4 DEF q
  <2>3. QED BY <1>1, <2>1, <2>2
<1>6. QED BY <1>2, <1>4, <1>5

(* A read of a screen stays under way until a block handles its answer,    *)
(* unless a lost connection makes the SDK forget it.                       *)
LEMMA NetworkKeepsReads ==
    ASSUME Shape, NEW d \in Devices,
           \/ ServerGrants(d) \/ ServerRefuses(d)
           \/ Receive(d) \/ Disconnect(d) \/ Reconnect(d) \/ GetTimesOut(d)
    PROVE  /\ forgotten \subseteq forgotten'
           /\ \A x \in forgotten' : x \in forgotten \/ x[1] = d
           /\ \A op \in Outstanding(d) : IsRead(op) =>
                 op \in Outstanding(d)' \/ <<d, op.src>> \in forgotten'
<1> DEFINE out == outbox[d]
           q == mainQ[d]
<1>1. out \in Seq(GoodRequests) /\ answers[d] \in Seq(GoodAnswers) /\ q \in Seq(GoodTasks)
      /\ Len(out) \in Nat /\ DOMAIN out = 1 .. Len(out)
      /\ Outstanding(d) = ToSet(out) \cup {t.op : t \in Handed(q)}
  BY OutstandingIs
<1>2. Outstanding(d)' = ToSet(outbox'[d]) \cup {t.op : t \in Handed(mainQ'[d])}
  BY DEF Outstanding, Handed
<1>3. CASE ServerGrants(d) \/ ServerRefuses(d)
  <2>1. UNCHANGED <<outbox, mainQ, forgotten>>
    BY <1>3 DEF ServerGrants, ServerRefuses
  <2>2. QED BY <1>1, <1>2, <2>1
<1>4. CASE Receive(d)
  <2>1. answers[d] # << >> /\ outbox'[d] = Tail(out) /\ mainQ'[d] = Append(q, Head(answers[d]))
        /\ forgotten' = forgotten
    BY <1>4 DEF Receive, histVars, Shape, Types
  <2>2. /\ Head(answers[d]) \in GoodAnswers /\ Head(answers[d]).op = Head(out) /\ out # << >>
    <3>1. Len(answers[d]) \in Nat \ {0} /\ Head(answers[d]) = answers[d][1]
      BY <1>1, <2>1, EmptySeq
    <3>2. Len(answers[d]) <= Len(out) /\ answers[d][1].op = out[1]
      BY <3>1 DEF Shape, Answering
    <3>3. QED BY <1>1, <3>1, <3>2, EmptySeq
  <2>3. ToSet(out) = ToSet(Tail(out)) \cup {Head(out)}
    BY <1>1, <2>2, MembersOfSeq
  <2>4. Handed(mainQ'[d]) = Handed(q) \cup {Head(answers[d])}
    <3>1. Head(answers[d]) \in GoodTasks /\ Head(answers[d]).do = "answer"
      BY <2>2 DEF GoodTasks, GoodAnswers, Answers
    <3>2. QED BY <1>1, <2>1, <3>1, QueueGrows
  <2>5. QED BY <1>1, <1>2, <2>1, <2>2, <2>3, <2>4
<1>5. CASE Disconnect(d)
  <2>1. /\ forgotten' = forgotten \cup {<<d, op.src>> : op \in {o \in ToSet(out) : IsRead(o)}}
        /\ mainQ' = mainQ
    BY <1>5 DEF Disconnect
  <2>2. \A op \in Outstanding(d) : op \in ToSet(out) \/ op \in Outstanding(d)'
    BY <1>1, <1>2, <2>1
  <2>3. QED BY <2>1, <2>2
<1>6. CASE Reconnect(d)
  <2>1. outbox'[d] = Only(out, Writes) \o Only(out, Reads) /\ mainQ'[d] = q /\ forgotten' = forgotten
    BY <1>6 DEF Reconnect, histVars, Shape, Types
  <2>2. \A kinds : Only(out, kinds) \in Seq(GoodRequests)
                   /\ ToSet(Only(out, kinds)) = {op \in ToSet(out) : op.kind \in kinds}
    BY <1>1, OnlyMembers
  <2>3. ToSet(outbox'[d]) = ToSet(Only(out, Writes)) \cup ToSet(Only(out, Reads))
    BY <2>1, <2>2, MembersOfSeq
  <2>4. ToSet(out) \subseteq GoodRequests
    BY <1>1, MembersOfSeq
  <2>5. ToSet(outbox'[d]) = ToSet(out)
    BY <2>2, <2>3, <2>4 DEF GoodRequests, Requests
  <2>6. QED BY <1>1, <1>2, <2>1, <2>5
<1>7. CASE GetTimesOut(d)
  <2>1. PICK k \in DOMAIN out : /\ outbox'[d] = RemoveAt(out, k)
                                /\ mainQ'[d] = Append(q, Refused(out[k]))
    BY <1>7 DEF GetTimesOut, Shape, Types
  <2>2. forgotten' = forgotten
    BY <1>7 DEF GetTimesOut, histVars
  <2>3. ToSet(out) = ToSet(outbox'[d]) \cup {out[k]}
    BY <1>1, <2>1, MembersOfSeq
  <2>4. out[k] \in GoodRequests
    BY <1>1
  <2>5. Refused(out[k]) \in GoodAnswers /\ Refused(out[k]).op = out[k]
    BY <2>4, AnswerIsGood DEF Refused, Answer
  <2>6. Handed(mainQ'[d]) = Handed(q) \cup {Refused(out[k])}
    <3>1. Refused(out[k]) \in GoodTasks /\ Refused(out[k]).do = "answer"
      BY <2>5 DEF GoodTasks, GoodAnswers, Answers
    <3>2. QED BY <1>1, <2>1, <3>1, QueueGrows
  <2>7. QED BY <1>1, <1>2, <2>2, <2>3, <2>5, <2>6
<1>8. QED BY <1>3, <1>4, <1>5, <1>6, <1>7

(* No step makes two requests clash that were not one.                     *)
LEMMA OnceStep ==
    ASSUME Shape, Numbered, Owned, NEW d \in Devices, StepOf(d), Once(outbox[d], mainQ[d])
    PROVE  Once(outbox'[d], mainQ'[d])
<1> DEFINE out == outbox[d]
           q == mainQ[d]
<1>1. out \in Seq(GoodRequests) /\ q \in Seq(GoodTasks) /\ Once(out, q)
  BY OutstandingIs
<1>2. Once(<< >>, << >>)
  BY DEF Once
<1>3. ASSUME NEW why, Stop(d, why) PROVE Once(outbox'[d], mainQ'[d])
  BY <1>2, <1>3, StopEmpties
<1>4. ASSUME NEW op \in GoodRequests, outbox'[d] = Append(out, op), mainQ'[d] = q,
             \A x \in Outstanding(d) : ~ Clash(op, x)
      PROVE  Once(outbox'[d], mainQ'[d])
  <2>1. /\ \A i \in DOMAIN out : ~ Clash(op, out[i])
        /\ \A j \in DOMAIN q : q[j].do = "answer" => ~ Clash(op, q[j].op)
    BY <1>4, PlacesAreOutstanding
  <2> HIDE DEF out, q
  <2>2. QED BY <1>1, <1>4, <2>1, OnceSent
<1>5. CASE \/ DidTapLogOut(d) \/ DidCancelLogOut(d) \/ DidTapLogIn(d) \/ SignInAnswered(d)
           \/ DidTapBack(d) \/ Notify(d)
           \/ DidTapAddEvent(d) \/ DidTapEdit(d) \/ DidConfirmLogOut(d)
  <2>1. /\ outbox'[d] = out
        /\ mainQ'[d] = q \/ \E t : t.do # "answer" /\ mainQ'[d] = Append(q, t)
    BY <1>5, TapsOnlyQueue DEF netVars
  <2>2. QED BY <1>1, <2>1, OnceWithBlocks
<1>6. CASE OnAlert(d) \/ OnSignedIn(d) \/ OnSaved(d) \/ OnDeleteIndex(d) \/ OnReadEvent(d)
  <2>1. /\ outbox'[d] = out /\ q # << >>
        /\ \/ mainQ'[d] = Tail(q) \/ \E t : t.do # "answer" /\ mainQ'[d] = Append(Tail(q), t)
    BY <1>6, BlocksTakeTheirs DEF netVars
  <2>2. QED BY <1>1, <2>1, OnceWithBlocks
<1>7. CASE Kill(d) \/ (DidTapSaveEvent(d) /\ Top(d).user = None)
  <2>1. \E why : Stop(d, why)
    BY <1>7 DEF Kill, DidTapSaveEvent, Trap
  <2>2. QED BY <1>3, <2>1
<1>8. CASE DidTapDelete(d)
  <2>1. PICK event \in Top(d).rows :
           /\ Request("deleteEvent", user[d], event.id, None, Top(d).no) \in GoodRequests
           /\ outbox'[d] = Append(out, Request("deleteEvent", user[d], event.id, None, Top(d).no))
           /\ mainQ' = mainQ
    BY <1>8, DeleteTakesRow
  <2>2. \A x : ~ Clash(Request("deleteEvent", user[d], event.id, None, Top(d).no), x)
    BY DEF Clash, IsSave, IsRead, Reads, Request
  <2>3. QED BY <1>4, <2>1, <2>2
<1>9. CASE DidTapUpdate(d)
  <2>1. PICK text \in Texts :
           LET op == Request("updateEvent", None, Top(d).event.id, text, Top(d).no)
           IN  op \in GoodRequests /\ outbox'[d] = Append(out, op) /\ mainQ' = mainQ
    BY <1>9, SendingTaps
  <2>2. \A x : ~ Clash(Request("updateEvent", None, Top(d).event.id, text, Top(d).no), x)
    BY DEF Clash, IsSave, IsRead, Reads, Request
  <2>3. QED BY <1>4, <2>1, <2>2
<1>10. CASE DidTapSaveEvent(d) /\ Top(d).user # None
  <2>1. PICK text \in Texts, id \in Ids \ usedIds :
           LET op == Request("saveIndex", Top(d).user, id, text, Top(d).no)
           IN  op \in GoodRequests /\ outbox'[d] = Append(out, op) /\ mainQ' = mainQ
    BY <1>10, SendingTaps
  <2>2. ASSUME NEW x \in Outstanding(d), IsSave(x) PROVE x.id # id
    <3>1. PICK o : OwnedBy(o)
      BY DEF Owned
    <3>2. OpOwned(o, usedIds, torn, x)
      BY <3>1 DEF OwnedBy
    <3>3. QED BY <2>2, <3>2 DEF OpOwned, IsSave
  <2>3. \A x \in Outstanding(d) : ~ Clash(Request("saveIndex", Top(d).user, id, text, Top(d).no), x)
    BY <2>2 DEF Clash, IsSave, IsRead, Reads, Request
  <2>4. QED BY <1>4, <2>1, <2>3
<1>11. CASE Launch(d)
  <2>1. /\ mainQ'[d] = << >>
        /\ \/ outbox'[d] = << >>
           \/ \E op \in GoodRequests : outbox'[d] = Append(<< >>, op)
    <3>1. \A op : <<op>> = Append(<< >>, op)
      OBVIOUS
    <3>2. QED BY <1>11, <3>1, LaunchingStep
  <2>2. ASSUME NEW op \in GoodRequests PROVE Once(Append(<< >>, op), << >>)
    <3>1. << >> \in Seq(GoodRequests) /\ DOMAIN << >> = {}
      BY EmptySeq
    <3>2. QED BY <1>2, <3>1, OnceSent
  <2>3. QED BY <1>2, <2>1, <2>2
<1>12. CASE RunPush(d)
  <2> DEFINE op == ReadIndex(user[d], Head(q).screen.no)
  <2>1. /\ q # << >> /\ IsPush(Head(q)) /\ Head(q).screen \in NewScreens
        /\ \/ \E why : Stop(d, why)
           \/ /\ mainQ'[d] = Tail(q)
              /\ outbox'[d] = out \/ (op \in GoodRequests /\ outbox'[d] = Append(out, op))
    BY <1>12, PushingStep
  <2>2. Once(out, Tail(q)) /\ Tail(q) \in Seq(GoodTasks)
    <3> HIDE DEF out, q
    <3>1. Once(out, Tail(q))
      BY <1>1, <2>1, OnceWithBlocks
    <3>2. QED BY <1>1, <2>1, <3>1, QueueShrinks
  <2>3. CASE mainQ'[d] = Tail(q) /\ op \in GoodRequests /\ outbox'[d] = Append(out, op)
    <3>1. \A x \in Outstanding(d) : IsRead(x) => x.src # Head(q).screen.no
      <4>1. Nos(stack[d], q, built[d], Outstanding(d)) /\ Head(q).screen \in GoodScreens
            /\ stack[d] \in Seq(GoodScreens)
        BY <2>1, OutstandingIs DEF Numbered, NewScreens
      <4>2. QED BY <1>1, <2>1, <4>1, NosOfPush
    <3>2. \A x \in Outstanding(d) : ~ Clash(op, x)
      BY <3>1 DEF Clash, IsSave, IsRead, Reads, ReadIndex, Request
    <3>3. \A i \in DOMAIN out : ~ Clash(op, out[i])
      BY <3>2, PlacesAreOutstanding
    <3>4. \A j \in DOMAIN Tail(q) : Tail(q)[j].do = "answer" => ~ Clash(op, Tail(q)[j].op)
      <4>1. \A j \in DOMAIN Tail(q) : \E i \in DOMAIN q : Tail(q)[j] = q[i]
        <5>1. /\ DOMAIN Tail(q) = 1 .. Len(q) - 1 /\ DOMAIN q = 1 .. Len(q) /\ Len(q) \in Nat \ {0}
              /\ \A i \in 1 .. Len(q) - 1 : Tail(q)[i] = q[i + 1]
          BY <1>1, <2>1, HeadTailProperties, LenProperties, EmptySeq
        <5>2. QED BY <5>1
      <4>2. QED BY <3>2, <4>1, PlacesAreOutstanding
    <3> HIDE DEF out, q, op
    <3>5. QED BY <1>1, <2>2, <2>3, <3>3, <3>4, OnceSent
  <2> HIDE DEF op
  <2>4. QED BY <1>3, <2>1, <2>2, <2>3
<1>13. CASE OnSaveIndex(d) \/ OnDeleteEvent(d)
  <2> DEFINE a == Head(q)
             kind == IF a.op.kind = "saveIndex" THEN "saveEvent" ELSE "deleteIndex"
             op == [a.op EXCEPT !.kind = kind, !.redo = FALSE]
  <2>1. /\ a \in GoodAnswers /\ a.op \in GoodRequests /\ q # << >>
        /\ a.op.kind \in {"saveIndex", "deleteEvent"}
        /\ \/ \E why : Stop(d, why)
           \/ /\ mainQ'[d] = Tail(q)
              /\ IF a.ok THEN op \in GoodRequests /\ outbox'[d] = Append(out, op)
                         ELSE outbox'[d] = out
    BY <1>13, ContinuingSteps
  <2>2. \A x : Clash(op, x) => Clash(a.op, x)
    <3>1. op.kind = kind /\ op.id = a.op.id
      BY <2>1 DEF GoodRequests, Requests
    <3> HIDE DEF op
    <3>2. QED BY <2>1, <3>1 DEF Clash, IsSave, IsRead, Reads
  <2>3. a.do = "answer"
    BY <2>1 DEF GoodAnswers, Answers
  <2> HIDE DEF op, out, q
  <2>4. CASE mainQ'[d] = Tail(q) /\ outbox'[d] = out
    BY <1>1, <2>1, <2>4, OnceWithBlocks
  <2>5. CASE mainQ'[d] = Tail(q) /\ op \in GoodRequests /\ outbox'[d] = Append(out, op)
    BY <1>1, <2>1, <2>2, <2>3, <2>5, OnceContinued
  <2>6. QED BY <1>3, <2>1, <2>4, <2>5
<1>14. CASE OnReadIndex(d)
  <2>1. /\ q # << >> /\ Head(q) \in GoodAnswers /\ Head(q).op.kind = "readIndex" /\ Head(q).op.id = None
    BY <1>14, KeysAnswered
  <2>2. PICK sent \in Seq(GoodRequests), found \in Seq(GoodAnswers) :
           /\ outbox'[d] = out \o sent /\ mainQ'[d] = Tail(q) \o found
           /\ OneReadPerKey(d, Head(q), sent, found)
    BY <1>14, KeysAnswered
  <2>3. /\ \A i \in DOMAIN sent : Reading(sent[i], Head(q))
        /\ \A i \in DOMAIN found : Reading(found[i].op, Head(q))
        /\ \A i, j \in DOMAIN sent : sent[i].id = sent[j].id => i = j
        /\ \A i, j \in DOMAIN found : found[i].op.id = found[j].op.id => i = j
        /\ \A i \in DOMAIN sent, j \in DOMAIN found : sent[i].id # found[j].op.id
    BY <2>2 DEF OneReadPerKey
  <2> HIDE DEF out, q
  <2>4. QED BY <1>1, <2>1, <2>2, <2>3, OnceReading
<1>15. CASE \/ (ServerGrants(d) /\ UNCHANGED appVars) \/ (ServerRefuses(d) /\ UNCHANGED appVars)
            \/ (Receive(d) /\ UNCHANGED appVars) \/ (Disconnect(d) /\ UNCHANGED appVars)
            \/ (Reconnect(d) /\ UNCHANGED appVars) \/ (GetTimesOut(d) /\ UNCHANGED appVars)
  BY <1>15, NetworkKeepsOnce
<1>16. QED
  BY <1>5, <1>6, <1>7, <1>8, <1>9, <1>10, <1>11, <1>12, <1>13, <1>14, <1>15 DEF StepOf

(* The replies that the keys of a list bring: to reads under a pending     *)
(* write, from that write.                                                 *)
LEMMA KeysMakeReplies ==
    ASSUME Shape, NEW d \in Devices, OnReadIndex(d)
    PROVE  \A a \in Replies(d)' :
              \/ a \in Replies(d)
              \/ /\ Reading(a.op, Head(mainQ[d])) /\ a = LocalAnswer(d, a.op)
                 /\ PendingWrites(d, a.op.id) # {}
<1> DEFINE q == mainQ[d]
<1>1. /\ q \in Seq(GoodTasks) /\ q # << >> /\ answers' = answers
      /\ Replies(d)' = ToSet(answers'[d]) \cup Handed(mainQ'[d])
  BY OutstandingIs, KeysAnswered DEF Replies
<1>2. PICK sent \in Seq(GoodRequests), found \in Seq(GoodAnswers) :
         mainQ'[d] = Tail(q) \o found /\ OneReadPerKey(d, Head(q), sent, found)
  BY KeysAnswered
<1>3. Handed(mainQ'[d]) = Handed(Tail(q)) \cup ToSet(found) /\ Handed(Tail(q)) \subseteq Handed(q)
  BY <1>1, <1>2, QueueShrinks, QueueGrowsByAnswers
<1>4. ASSUME NEW a \in ToSet(found)
      PROVE  /\ Reading(a.op, Head(q)) /\ a = LocalAnswer(d, a.op)
             /\ PendingWrites(d, a.op.id) # {}
  <2>1. PICK i \in DOMAIN found : a = found[i]
    BY DEF ToSet
  <2>2. QED BY <1>2, <2>1 DEF OneReadPerKey
<1>5. QED BY <1>1, <1>3, <1>4 DEF Replies

(* A block of the app makes no reply, except that reads under a pending    *)
(* write of their path are answered on the spot.                           *)
LEMMA AppMakesNoReply ==
    ASSUME Shape, NEW d \in Devices, StepOf(d),
           ~ (ServerGrants(d) \/ ServerRefuses(d) \/ Receive(d) \/ Disconnect(d)
              \/ Reconnect(d) \/ GetTimesOut(d))
    PROVE  \A a \in Replies(d)' :
              \/ a \in Replies(d)
              \/ /\ OnReadIndex(d) /\ Reading(a.op, Head(mainQ[d])) /\ a = LocalAnswer(d, a.op)
                 /\ PendingWrites(d, a.op.id) # {} /\ Head(mainQ[d]).op.kind = "readIndex"
<1> DEFINE q == mainQ[d]
<1>1. q \in Seq(GoodTasks) /\ Replies(d)' = ToSet(answers'[d]) \cup Handed(mainQ'[d])
  BY OutstandingIs DEF Replies
<1>2. ASSUME answers'[d] = answers[d], NEW r, r = q \/ (q # << >> /\ r = Tail(q)),
             mainQ'[d] = r \/ \E t : t.do # "answer" /\ mainQ'[d] = Append(r, t)
      PROVE  Replies(d)' \subseteq Replies(d)
  <2>1. r \in Seq(GoodTasks) /\ Handed(r) \subseteq Handed(q)
    BY <1>1, <1>2, QueueShrinks
  <2>2. Handed(mainQ'[d]) \subseteq Handed(r)
    <3>1. CASE \E t : t.do # "answer" /\ mainQ'[d] = Append(r, t)
      <4>1. PICK t : t.do # "answer" /\ mainQ'[d] = Append(r, t)
        BY <3>1
      <4> DEFINE next == Append(r, t)
      <4>2. /\ Len(next) = Len(r) + 1 /\ DOMAIN next = 1 .. Len(next) /\ DOMAIN r = 1 .. Len(r)
            /\ Len(r) \in Nat /\ \A i \in 1 .. Len(r) : next[i] = r[i]
            /\ next[Len(r) + 1] = t
        BY <2>1, AppendProperties, LenProperties
      <4> HIDE DEF next
      <4>3. \A i \in DOMAIN next : (i \in DOMAIN r /\ next[i] = r[i]) \/ next[i] = t
        BY <4>2
      <4>4. Handed(next) \subseteq Handed(r)
        BY <4>1, <4>3 DEF Handed, ToSet
      <4>5. QED BY <4>1, <4>4 DEF next
    <3>2. QED BY <1>2, <3>1
  <2>3. QED BY <1>1, <1>2, <2>1, <2>2 DEF Replies
<1>3. ASSUME NEW why, Stop(d, why) PROVE Replies(d)' = {}
  BY <1>1, <1>3, StopEmpties, EmptySeq DEF ToSet
<1>4. CASE \/ DidTapLogOut(d) \/ DidCancelLogOut(d) \/ DidTapLogIn(d) \/ SignInAnswered(d)
           \/ DidTapBack(d) \/ Notify(d)
           \/ DidTapAddEvent(d) \/ DidTapEdit(d) \/ DidConfirmLogOut(d)
  <2>1. /\ answers'[d] = answers[d]
        /\ mainQ'[d] = q \/ \E t : t.do # "answer" /\ mainQ'[d] = Append(q, t)
    BY <1>4, TapsOnlyQueue DEF netVars
  <2> HIDE DEF q
  <2>2. QED BY <1>2, <2>1
<1>5. CASE OnAlert(d) \/ OnSignedIn(d) \/ OnSaved(d) \/ OnDeleteIndex(d) \/ OnReadEvent(d)
  <2>1. /\ answers'[d] = answers[d] /\ q # << >>
        /\ \/ mainQ'[d] = Tail(q) \/ \E t : t.do # "answer" /\ mainQ'[d] = Append(Tail(q), t)
    BY <1>5, BlocksTakeTheirs DEF netVars
  <2> HIDE DEF q
  <2>2. QED BY <1>2, <2>1
<1>6. CASE Kill(d) \/ (DidTapSaveEvent(d) /\ Top(d).user = None)
  <2>1. \E why : Stop(d, why)
    BY <1>6 DEF Kill, DidTapSaveEvent, Trap
  <2>2. QED BY <1>3, <2>1
<1>7. CASE DidTapDelete(d) \/ DidTapUpdate(d) \/ (DidTapSaveEvent(d) /\ Top(d).user # None)
  <2>1. answers' = answers /\ mainQ' = mainQ
    BY <1>7, DeleteTakesRow, SendingTaps
  <2>2. QED BY <2>1 DEF Replies
<1>8. CASE Launch(d)
  <2>1. answers' = answers /\ mainQ'[d] = q
    BY <1>8, LaunchingStep
  <2> HIDE DEF q
  <2>2. QED BY <1>2, <2>1
<1>9. CASE RunPush(d) \/ OnSaveIndex(d) \/ OnDeleteEvent(d)
  <2>1. \/ \E why : Stop(d, why)
        \/ q # << >> /\ mainQ'[d] = Tail(q) /\ answers' = answers
    BY <1>9, PushingStep, ContinuingSteps
  <2> HIDE DEF q
  <2>2. CASE q # << >> /\ mainQ'[d] = Tail(q) /\ answers' = answers
    BY <1>2, <2>2
  <2>3. QED BY <1>3, <2>1, <2>2
<1>10. CASE OnReadIndex(d)
  <2>1. Head(q).op.kind = "readIndex"
    BY <1>10, KeysAnswered
  <2>2. QED BY <1>10, <2>1, KeysMakeReplies
<1>11. QED
  BY <1>4, <1>5, <1>6, <1>7, <1>8, <1>9, <1>10 DEF StepOf

(* A request that is granted is the first without an answer, and its reply *)
(* is one more.                                                            *)
LEMMA GrantReplies ==
    ASSUME Shape, NEW d \in Devices, ServerGrants(d)
    PROVE  \E op \in GoodRequests, a \in GoodAnswers :
               /\ Unprocessed(d) /\ op = NextRequest(d) /\ op \in Outstanding(d)
               /\ a = Granted(op) /\ a.ok /\ a.op = op
               /\ index' = IndexAfter(op) /\ events' = EventsAfter(op)
               /\ revived' = revived \cup (IF Revives(op) THEN {op.id} ELSE {})
               /\ UNCHANGED <<online, outbox, mainQ, forgotten, torn>>
               /\ answers'[d] = Append(answers[d], a)
               /\ Replies(d)' = Replies(d) \cup {a}
               /\ Live(d) = Live(d)' \cup {op}
<1>1. PICK op \in GoodRequests : op = NextRequest(d)
  BY UnprocessedIs DEF ServerGrants
<1>2. PICK a : a = Granted(op)
  OBVIOUS
<1>3. /\ index' = IndexAfter(op) /\ events' = EventsAfter(op)
      /\ revived' = revived \cup (IF Revives(op) THEN {op.id} ELSE {})
      /\ UNCHANGED <<online, outbox, mainQ, forgotten, torn>>
      /\ answers'[d] = Append(answers[d], a)
  BY <1>1, <1>2 DEF ServerGrants, Shape, Types
<1>4. index \in [Users -> SUBSET Ids] /\ events \in [Ids -> Texts \cup {None}]
  BY DEF Shape, Types
<1>5. a \in GoodAnswers
  <2>1. op.kind = "readIndex" => index[op.user] \in SUBSET Ids
    BY <1>1, <1>4 DEF GoodRequests
  <2>2. op.kind = "readEvent" => events[op.id] \in Texts \cup {None}
    BY <1>1, <1>4 DEF GoodRequests
  <2>3. QED BY <1>2, <2>1, <2>2, AnswerIsGood DEF Granted
<1>6. Live(d) = Live(d)' \cup {op} /\ Replies(d)' = Replies(d) \cup {a}
  BY <1>1, <1>3, <1>5, LiveAnswered DEF ServerGrants
<1>7. a.ok /\ a.op = op
  BY <1>2 DEF Granted, Answer
<1>8. Unprocessed(d)
  BY DEF ServerGrants
<1>9. op \in Outstanding(d)
  <2>1. PICK i \in 1 .. Len(outbox[d]) : op = outbox[d][i]
    BY <1>1, <1>8, UnprocessedIs
  <2>2. i \in DOMAIN outbox[d]
    BY <1>8, UnprocessedIs
  <2>3. QED BY <2>1, <2>2, PlacesAreOutstanding
<1>10. QED BY <1>1, <1>2, <1>3, <1>5, <1>6, <1>7, <1>8, <1>9

(* A refused read brings no keys.                                          *)
Refusals == \A d \in Devices : \A a \in Replies(d) : ~ a.ok => a.keys = {}

(* An answer without success carries no keys.                              *)
LEMMA RefusalsStep ==
    ASSUME Shape, Refusals, NEW d \in Devices, StepOf(d)
    PROVE  Refusals'
<1>1. \A a \in Replies(d)' : a \in Replies(d) \/ a.ok \/ a.keys = {}
  <2>1. CASE ServerRefuses(d) \/ Receive(d) \/ Disconnect(d) \/ Reconnect(d) \/ GetTimesOut(d)
    BY <2>1, NetworkMovesReplies
  <2>2. CASE ServerGrants(d)
    BY <2>2, GrantReplies
  <2>3. CASE ~ (ServerGrants(d) \/ ServerRefuses(d) \/ Receive(d) \/ Disconnect(d)
                \/ Reconnect(d) \/ GetTimesOut(d))
    <3>1. \A op : LocalAnswer(d, op).keys = {}
      BY DEF LocalAnswer, Answer
    <3>2. QED BY <2>3, <3>1, AppMakesNoReply
  <2>4. QED BY <2>1, <2>2, <2>3
<1>2. \A e \in Devices \ {d} : Replies(e)' = Replies(e)
  BY StepIsApart DEF Apart, Replies
<1>3. QED BY <1>1, <1>2 DEF Refusals

(* The request of the answer being handled clashes with nothing else.      *)
LEMMA HeadIsAlone ==
    ASSUME NEW out, NEW q \in Seq(GoodTasks), Once(out, q), q # << >>, Head(q).do = "answer"
    PROVE  \A op \in Ops(out, Tail(q)) : ~ Clash(Head(q).op, op)
<1>1. /\ DOMAIN Tail(q) = 1 .. Len(q) - 1 /\ DOMAIN q = 1 .. Len(q) /\ Len(q) \in Nat \ {0}
      /\ \A i \in 1 .. Len(q) - 1 : Tail(q)[i] = q[i + 1]
      /\ Head(q) = q[1]
  BY HeadTailProperties, LenProperties, EmptySeq
<1>2. \A i \in DOMAIN out : ~ Clash(Head(q).op, out[i])
  <2>1. 1 \in DOMAIN q
    BY <1>1
  <2>2. QED BY <1>1, <2>1, ClashIsSymmetric DEF Once
<1>3. ASSUME NEW j \in DOMAIN Tail(q), Tail(q)[j].do = "answer" PROVE ~ Clash(Head(q).op, Tail(q)[j].op)
  <2>1. j + 1 \in DOMAIN q /\ j + 1 # 1 /\ Tail(q)[j] = q[j + 1] /\ 1 \in DOMAIN q
    BY <1>1
  <2>2. QED BY <1>1, <1>3, <2>1 DEF Once
<1>4. QED BY <1>2, <1>3 DEF Ops, Handed, ToSet
-----------------------------------------------------------------------------
(* Of which keys the screen with this number has a read among ops; None    *)
(* stands for the read of the account's index.                             *)
ReadsOf(ops, no) == {op.id : op \in {p \in ops : IsRead(p) /\ p.src = no}}

(* A screen waits for exactly the reads of it that are under way.          *)
AwaitsFor(s, reads) ==
    IF s.load.phase = "index" THEN s.load.pending = {} /\ reads = {None}
                              ELSE s.load.pending = reads

Awaits ==
    \A d \in Devices : \A i \in DOMAIN stack[d] :
        <<d, stack[d][i].no>> \notin forgotten
            => AwaitsFor(stack[d][i], ReadsOf(Outstanding(d), stack[d][i].no))

(* The same reads await the same keys.                                     *)
LEMMA SameReads ==
    ASSUME NEW A, NEW B, NEW no,
           \A op : IsRead(op) /\ op.src = no => (op \in A <=> op \in B)
    PROVE  ReadsOf(A, no) = ReadsOf(B, no)
BY DEF ReadsOf

(* It is enough to look at the device that takes the step.                 *)
LEMMA AwaitsStays ==
    ASSUME Awaits, NEW d \in Devices, Apart(d),
           \A x \in forgotten : x[1] # d => x \in forgotten',
           \A i \in DOMAIN stack'[d] : <<d, stack'[d][i].no>> \notin forgotten'
               => AwaitsFor(stack'[d][i], ReadsOf(Outstanding(d)', stack'[d][i].no))
    PROVE  Awaits'
<1>1. ASSUME NEW e \in Devices, e # d, NEW i \in DOMAIN stack'[e], <<e, stack'[e][i].no>> \notin forgotten'
      PROVE  AwaitsFor(stack'[e][i], ReadsOf(Outstanding(e)', stack'[e][i].no))
  <2>1. Outstanding(e)' = Outstanding(e) /\ stack'[e] = stack[e]
    BY <1>1 DEF Apart, Outstanding
  <2>2. <<e, stack[e][i].no>> \notin forgotten
    BY <1>1, <2>1
  <2>3. QED BY <1>1, <2>1, <2>2 DEF Awaits
<1>2. QED BY <1>1 DEF Awaits

(* The screens are as they were and so are the reads under way for them.   *)
LEMMA AwaitsTheSame ==
    ASSUME Awaits, NEW d \in Devices, Apart(d), forgotten \subseteq forgotten',
           DOMAIN stack'[d] \subseteq DOMAIN stack[d],
           \A i \in DOMAIN stack'[d] :
              /\ stack'[d][i].no = stack[d][i].no
              /\ stack'[d][i].load = stack[d][i].load,
           \A op : IsRead(op) => (op \in Outstanding(d) <=> op \in Outstanding(d)')
    PROVE  Awaits'
<1>1. \A no : ReadsOf(Outstanding(d)', no) = ReadsOf(Outstanding(d), no)
  BY SameReads
<1>2. ASSUME NEW i \in DOMAIN stack'[d], <<d, stack'[d][i].no>> \notin forgotten'
      PROVE  AwaitsFor(stack'[d][i], ReadsOf(Outstanding(d)', stack'[d][i].no))
  <2>1. i \in DOMAIN stack[d] /\ stack'[d][i].no = stack[d][i].no /\ stack'[d][i].load = stack[d][i].load
    OBVIOUS
  <2>2. AwaitsFor(stack[d][i], ReadsOf(Outstanding(d), stack[d][i].no))
    BY <1>2, <2>1 DEF Awaits
  <2>3. QED BY <1>1, <2>1, <2>2 DEF AwaitsFor
<1>3. QED BY <1>2, AwaitsStays

(* The reads under way after a block of the app that sends none.           *)
LEMMA ReadsWithBlocks ==
    ASSUME Shape, NEW d \in Devices,
           \/ outbox'[d] = outbox[d]
           \/ \E op \in GoodRequests : ~ IsRead(op) /\ outbox'[d] = Append(outbox[d], op),
           NEW r, \/ r = mainQ[d]
                  \/ /\ mainQ[d] # << >> /\ r = Tail(mainQ[d])
                     /\ Head(mainQ[d]).do = "answer" => ~ IsRead(Head(mainQ[d]).op),
           mainQ'[d] = r \/ \E t : t.do # "answer" /\ mainQ'[d] = Append(r, t)
    PROVE  \A op : IsRead(op) => (op \in Outstanding(d) <=> op \in Outstanding(d)')
<1> DEFINE q == mainQ[d]
<1>1. /\ Outstanding(d) = ToSet(outbox[d]) \cup {t.op : t \in Handed(q)}
      /\ outbox[d] \in Seq(GoodRequests) /\ q \in Seq(GoodTasks)
      /\ Outstanding(d)' = ToSet(outbox'[d]) \cup {t.op : t \in Handed(mainQ'[d])}
  BY OutstandingIs DEF Outstanding, Handed
<1>2. \A op : IsRead(op) => (op \in ToSet(outbox'[d]) <=> op \in ToSet(outbox[d]))
  <2>1. CASE \E op \in GoodRequests : ~ IsRead(op) /\ outbox'[d] = Append(outbox[d], op)
    BY <1>1, <2>1, MembersOfSeq
  <2>2. QED BY <2>1
<1>3. /\ r \in Seq(GoodTasks)
      /\ \A op : IsRead(op) => ((\E t \in Handed(r) : t.op = op) <=> (\E t \in Handed(q) : t.op = op))
  BY <1>1, QueueShrinks
<1>4. Handed(mainQ'[d]) = Handed(r)
  <2>1. CASE \E t : t.do # "answer" /\ mainQ'[d] = Append(r, t)
    <3>1. PICK t : t.do # "answer" /\ mainQ'[d] = Append(r, t)
      BY <2>1
    <3> DEFINE next == Append(r, t)
    <3>2. /\ Len(next) = Len(r) + 1 /\ DOMAIN next = 1 .. Len(next) /\ DOMAIN r = 1 .. Len(r)
          /\ Len(r) \in Nat /\ \A i \in 1 .. Len(r) : next[i] = r[i]
          /\ next[Len(r) + 1] = t
      BY <1>3, AppendProperties, LenProperties
    <3> HIDE DEF next
    <3>3. /\ \A i \in DOMAIN next : (i \in DOMAIN r /\ next[i] = r[i]) \/ next[i] = t
          /\ \A i \in DOMAIN r : i \in DOMAIN next /\ next[i] = r[i]
      BY <3>2
    <3>4. Handed(next) = Handed(r)
      BY <3>1, <3>3 DEF Handed, ToSet
    <3>5. QED BY <3>1, <3>4 DEF next
  <2>2. QED BY <2>1
<1>5. QED BY <1>1, <1>2, <1>3, <1>4

(* A screen that is pushed: no read of its number is under way, but the    *)
(* one that a Home sends as it appears.                                    *)
LEMMA AwaitsWithPush ==
    ASSUME Shape, Awaits, NEW d \in Devices, Apart(d), forgotten' = forgotten,
           NEW s \in GoodScreens, stack'[d] = Append(stack[d], s),
           \A i \in DOMAIN stack[d] : stack[d][i].no # s.no,
           \A op \in Outstanding(d) : IsRead(op) => op.src # s.no,
           \/ /\ s.load = NewLoad
              /\ \A op : IsRead(op) => (op \in Outstanding(d) <=> op \in Outstanding(d)')
           \/ /\ s.load = AskIndex(NewLoad)
              /\ \E new : /\ IsRead(new) /\ new.src = s.no /\ new.id = None
                          /\ \A op : IsRead(op) =>
                                (op \in Outstanding(d) \cup {new} <=> op \in Outstanding(d)')
    PROVE  Awaits'
<1> DEFINE st == stack[d]
           next == Append(st, s)
           n == Len(st)
<1>1. /\ Len(next) = n + 1 /\ DOMAIN next = 1 .. n + 1 /\ DOMAIN st = 1 .. n /\ n \in Nat
      /\ \A i \in 1 .. n : next[i] = st[i]
      /\ next[n + 1] = s
  BY OutstandingIs, AppendProperties, LenProperties
<1> HIDE DEF next, n
<1>2. \A no : no # s.no => ReadsOf(Outstanding(d)', no) = ReadsOf(Outstanding(d), no)
  BY SameReads
<1>3. AwaitsFor(s, ReadsOf(Outstanding(d)', s.no))
  <2>1. CASE /\ s.load = NewLoad
             /\ \A op : IsRead(op) => (op \in Outstanding(d) <=> op \in Outstanding(d)')
    <3>1. ReadsOf(Outstanding(d)', s.no) = {}
      BY <2>1 DEF ReadsOf
    <3>2. QED BY <2>1, <3>1 DEF AwaitsFor, NewLoad
  <2>2. CASE /\ s.load = AskIndex(NewLoad)
             /\ \E new : /\ IsRead(new) /\ new.src = s.no /\ new.id = None
                         /\ \A op : IsRead(op) =>
                               (op \in Outstanding(d) \cup {new} <=> op \in Outstanding(d)')
    <3>1. ReadsOf(Outstanding(d)', s.no) = {None}
      BY <2>2 DEF ReadsOf
    <3>2. QED BY <2>2, <3>1 DEF AwaitsFor, AskIndex, NewLoad
  <2>3. QED BY <2>1, <2>2
<1>4. ASSUME NEW i \in DOMAIN next, <<d, next[i].no>> \notin forgotten
      PROVE  AwaitsFor(next[i], ReadsOf(Outstanding(d)', next[i].no))
  <2>1. CASE i = n + 1
    BY <1>1, <1>3, <2>1
  <2>2. CASE i \in 1 .. n
    <3>1. i \in DOMAIN stack[d] /\ next[i] = stack[d][i] /\ next[i].no # s.no
      BY <1>1, <2>2
    <3>2. AwaitsFor(stack[d][i], ReadsOf(Outstanding(d), stack[d][i].no))
      BY <1>4, <3>1 DEF Awaits
    <3>3. QED BY <1>2, <3>1, <3>2
  <2>3. QED BY <1>1, <2>1, <2>2
<1>5. stack'[d] = next
  BY DEF next
<1>6. QED BY <1>4, <1>5, AwaitsStays

(* The keys are there: what has been asked for since is a read of each.    *)
LEMMA ReadsOfKeys ==
    ASSUME Shape, NEW d \in Devices, Once(outbox[d], mainQ[d]), OnReadIndex(d)
    PROVE  LET a == Head(mainQ[d])
           IN  /\ ReadsOf(Outstanding(d)', a.op.src) = a.keys
               /\ None \in ReadsOf(Outstanding(d), a.op.src)
               /\ \A no : no # a.op.src =>
                     ReadsOf(Outstanding(d)', no) = ReadsOf(Outstanding(d), no)
<1> DEFINE q == mainQ[d]
           a == Head(q)
           n == a.op.src
<1>1. /\ a \in GoodAnswers /\ a.op.kind = "readIndex" /\ a.op.id = None /\ a.keys \in SUBSET Ids
      /\ q # << >> /\ a.do = "answer" /\ forgotten' = forgotten /\ q \in Seq(GoodTasks)
      /\ outbox[d] \in Seq(GoodRequests)
  BY KeysAnswered, OutstandingIs DEF histVars
<1>2. PICK sent \in Seq(GoodRequests), found \in Seq(GoodAnswers) :
         /\ outbox'[d] = outbox[d] \o sent /\ mainQ'[d] = Tail(q) \o found
         /\ OneReadPerKey(d, a, sent, found)
  BY KeysAnswered
<1> DEFINE rest == Ops(outbox[d], Tail(q))
           new == ToSet(sent) \cup {t.op : t \in ToSet(found)}
<1>3. Outstanding(d) = rest \cup {a.op} /\ Outstanding(d)' = rest \cup new
  <2>1. Outstanding(d) = ToSet(outbox[d]) \cup {t.op : t \in Handed(q)}
    BY OutstandingIs
  <2>2. Handed(q) = Handed(Tail(q)) \cup {a} /\ Tail(q) \in Seq(GoodTasks)
    BY <1>1, QueueShrinks
  <2>3. Outstanding(d)' = ToSet(outbox'[d]) \cup {t.op : t \in Handed(mainQ'[d])}
    BY DEF Outstanding, Handed
  <2>4. ToSet(outbox'[d]) = ToSet(outbox[d]) \cup ToSet(sent)
    BY <1>1, <1>2, MembersOfSeq
  <2>5. Handed(mainQ'[d]) = Handed(Tail(q)) \cup ToSet(found)
    BY <1>2, <2>2, QueueGrowsByAnswers
  <2> HIDE DEF q, a
  <2>6. QED BY <2>1, <2>2, <2>3, <2>4, <2>5 DEF Ops
<1>4. \A op \in rest : IsRead(op) => op.src # n
  <2>1. \A op \in rest : ~ Clash(a.op, op)
    BY <1>1, HeadIsAlone
  <2>2. QED BY <1>1, <2>1 DEF Clash, IsRead, Reads
<1>5. /\ \A op \in new : IsRead(op) /\ op.src = n /\ op.id \in a.keys
      /\ \A id \in a.keys : \E op \in new : op.id = id
  <2>1. ASSUME NEW op \in new PROVE Reading(op, a)
    <3>1. CASE op \in ToSet(sent)
      <4>1. PICK i \in DOMAIN sent : op = sent[i]
        BY <3>1 DEF ToSet
      <4>2. QED BY <1>2, <4>1 DEF OneReadPerKey
    <3>2. CASE op \in {t.op : t \in ToSet(found)}
      <4>1. PICK i \in DOMAIN found : op = found[i].op
        BY <3>2 DEF ToSet
      <4>2. QED BY <1>2, <4>1 DEF OneReadPerKey
    <3>3. QED BY <3>1, <3>2
  <2>2. ASSUME NEW id \in a.keys PROVE \E op \in new : op.id = id
    <3>1. CASE \E i \in DOMAIN sent : sent[i].id = id
      BY <3>1 DEF ToSet
    <3>2. CASE \E i \in DOMAIN found : found[i].op.id = id
      BY <3>2 DEF ToSet
    <3>3. QED BY <1>2, <3>1, <3>2 DEF OneReadPerKey
  <2>3. QED BY <2>1, <2>2 DEF Reading, IsRead, Reads
<1> HIDE DEF rest, new, a, q
<1>6. ReadsOf(Outstanding(d)', n) = a.keys
  BY <1>3, <1>4, <1>5 DEF ReadsOf
<1>7. None \in ReadsOf(Outstanding(d), n)
  <2>1. IsRead(a.op)
    BY <1>1 DEF IsRead, Reads
  <2>2. QED BY <1>1, <1>3, <2>1 DEF ReadsOf
<1>8. \A no : no # n => ReadsOf(Outstanding(d)', no) = ReadsOf(Outstanding(d), no)
  BY <1>3, <1>5, SameReads
<1>9. QED BY <1>6, <1>7, <1>8 DEF a, q

(* The keys are there: a read of each is under way, or none.               *)
LEMMA OnReadIndexAwaits ==
    ASSUME Shape, Numbered, Refusals, Awaits, NEW d \in Devices, Apart(d),
           Once(outbox[d], mainQ[d]), OnReadIndex(d)
    PROVE  Awaits'
<1> DEFINE q == mainQ[d]
           a == Head(q)
           n == a.op.src
<1>1. /\ a \in GoodAnswers /\ a.op.kind = "readIndex" /\ a.op.id = None /\ a.keys \in SUBSET Ids
      /\ q # << >> /\ a.do = "answer" /\ forgotten' = forgotten /\ q \in Seq(GoodTasks)
      /\ outbox[d] \in Seq(GoodRequests)
  BY KeysAnswered, OutstandingIs DEF histVars
<1>2. /\ DOMAIN stack'[d] = DOMAIN stack[d]
      /\ \A i \in DOMAIN stack[d] :
            /\ stack'[d][i].no = stack[d][i].no
            /\ stack'[d][i].load =
                  IF i # Position(d, n) THEN stack[d][i].load
                  ELSE IF ~ a.ok THEN IndexFailed(stack[d][i].load)
                  ELSE IF a.keys = {} THEN IndexIsNull(stack[d][i].load)
                  ELSE IndexFound(stack[d][i].load, a.keys)
  BY KeysAreLoaded DEF SameScreens
<1>3. ~ a.ok => a.keys = {}
  <2>1. a \in Handed(q)
    BY <1>1, QueueShrinks
  <2>2. QED BY <2>1 DEF Refusals, Replies
<1>4. /\ ReadsOf(Outstanding(d)', n) = a.keys /\ None \in ReadsOf(Outstanding(d), n)
      /\ \A no : no # n => ReadsOf(Outstanding(d)', no) = ReadsOf(Outstanding(d), no)
  BY ReadsOfKeys
<1> HIDE DEF a, q
<1>5. ASSUME NEW i \in DOMAIN stack[d], <<d, stack[d][i].no>> \notin forgotten
       PROVE  AwaitsFor(stack'[d][i], ReadsOf(Outstanding(d)', stack[d][i].no))
  <2>1. AwaitsFor(stack[d][i], ReadsOf(Outstanding(d), stack[d][i].no)) /\ stack[d][i].load \in AnyLoads
    BY <1>5, ShownScreen DEF Awaits
  <2>2. CASE stack[d][i].no # n
    <3>1. i # Position(d, n)
      BY <2>2, PositionIs
    <3>2. stack'[d][i].load = stack[d][i].load
      BY <1>2, <3>1
    <3>3. QED BY <1>4, <2>1, <2>2, <3>2 DEF AwaitsFor
  <2>3. CASE stack[d][i].no = n
    <3>1. i = Position(d, n)
      BY <2>3, PositionIs DEF Numbered, Nos
    <3>2. stack[d][i].load.phase = "index" /\ stack[d][i].load.pending = {}
      <4>1. stack[d][i].load.pending \subseteq Ids
        BY <2>1 DEF AnyLoads
      <4>2. QED BY <1>4, <2>1, <2>3, <4>1, NoneIsNothing DEF AwaitsFor
    <3> DEFINE l == stack[d][i].load
    <3>3. stack'[d][i].load = IF ~ a.ok THEN IndexFailed(l)
                              ELSE IF a.keys = {} THEN IndexIsNull(l) ELSE IndexFound(l, a.keys)
      BY <1>2, <3>1
    <3>4. l \in AnyLoads /\ l.pending = {}
      BY <2>1, <3>2
    <3> HIDE DEF l
    <3>5. stack'[d][i].load.pending = a.keys /\ stack'[d][i].load.phase # "index"
      <4>1. /\ IndexFailed(l).pending = {} /\ IndexFailed(l).phase # "index"
            /\ IndexIsNull(l).pending = {} /\ IndexIsNull(l).phase # "index"
            /\ IndexFound(l, a.keys).pending = a.keys /\ IndexFound(l, a.keys).phase # "index"
        BY <3>4 DEF IndexFailed, IndexIsNull, IndexFound, AnyLoads
      <4>2. QED BY <1>3, <3>3, <4>1
    <3>6. QED BY <1>4, <2>3, <3>5 DEF AwaitsFor
  <2>4. QED BY <2>2, <2>3
<1>6. QED BY <1>1, <1>2, <1>5, AwaitsStays

(* An event has been read, or could not be: its read is no longer under    *)
(* way, and was the only one of its key.                                   *)
LEMMA ReadsOfEvent ==
    ASSUME Shape, NEW d \in Devices, Once(outbox[d], mainQ[d]), OnReadEvent(d)
    PROVE  LET a == Head(mainQ[d])
               reads == ReadsOf(Outstanding(d), a.op.src)
           IN  /\ ReadsOf(Outstanding(d)', a.op.src) = reads \ {a.op.id} /\ a.op.id \in reads
               /\ \A no : no # a.op.src =>
                     ReadsOf(Outstanding(d)', no) = ReadsOf(Outstanding(d), no)
<1> DEFINE q == mainQ[d]
           a == Head(q)
           n == a.op.src
<1>1. /\ a \in GoodAnswers /\ a.op.kind = "readEvent" /\ a.op.id \in Ids
      /\ q # << >> /\ a.do = "answer" /\ forgotten' = forgotten /\ q \in Seq(GoodTasks)
      /\ mainQ'[d] = Tail(q) /\ outbox' = outbox
  BY EventAnswered, OutstandingIs DEF histVars, netVars
<1> DEFINE rest == Ops(outbox[d], Tail(q))
<1>2. Outstanding(d) = rest \cup {a.op} /\ Outstanding(d)' = rest
  <2>1. Outstanding(d) = ToSet(outbox[d]) \cup {t.op : t \in Handed(q)}
    BY OutstandingIs
  <2>2. Handed(q) = Handed(Tail(q)) \cup {a}
    BY <1>1, QueueShrinks
  <2>3. Outstanding(d)' = ToSet(outbox'[d]) \cup {t.op : t \in Handed(mainQ'[d])}
    BY DEF Outstanding, Handed
  <2> HIDE DEF q, a
  <2>4. QED BY <1>1, <2>1, <2>2, <2>3 DEF Ops
<1>3. IsRead(a.op) /\ \A op \in rest : IsRead(op) /\ op.src = n => op.id # a.op.id
  <2>1. \A op \in rest : ~ Clash(a.op, op)
    BY <1>1, HeadIsAlone
  <2>2. QED BY <1>1, <2>1 DEF Clash, IsRead, Reads
<1> HIDE DEF rest, a, q
<1>4. /\ ReadsOf(Outstanding(d)', n) = ReadsOf(Outstanding(d), n) \ {a.op.id}
      /\ a.op.id \in ReadsOf(Outstanding(d), n)
  BY <1>2, <1>3 DEF ReadsOf
<1>5. \A no : no # n => ReadsOf(Outstanding(d)', no) = ReadsOf(Outstanding(d), no)
  BY <1>2, SameReads
<1>6. QED BY <1>4, <1>5 DEF a, q

(* So its key is waited for no more.                                       *)
LEMMA OnReadEventAwaits ==
    ASSUME Shape, Numbered, Awaits, NEW d \in Devices, Apart(d),
           Once(outbox[d], mainQ[d]), OnReadEvent(d)
    PROVE  Awaits'
<1> DEFINE q == mainQ[d]
           a == Head(q)
           n == a.op.src
           event == [id |-> a.op.id, text |-> a.text]
<1>1. /\ a \in GoodAnswers /\ a.op.kind = "readEvent" /\ a.op.id \in Ids
      /\ q # << >> /\ a.do = "answer" /\ forgotten' = forgotten /\ q \in Seq(GoodTasks)
      /\ mainQ'[d] = Tail(q) /\ outbox' = outbox
  BY EventAnswered, OutstandingIs DEF histVars, netVars
<1>2. /\ DOMAIN stack'[d] = DOMAIN stack[d]
      /\ \A i \in DOMAIN stack[d] :
            /\ stack'[d][i].no = stack[d][i].no
            /\ stack'[d][i].load =
                  IF i # Position(d, n) THEN stack[d][i].load
                  ELSE IF a.ok /\ a.text # None THEN EventFound(stack[d][i].load, event)
                  ELSE EventFailed(stack[d][i].load, a.op.id)
  BY EventAnswered DEF SameScreens
<1>3. /\ ReadsOf(Outstanding(d)', n) = ReadsOf(Outstanding(d), n) \ {a.op.id}
      /\ a.op.id \in ReadsOf(Outstanding(d), n)
      /\ \A no : no # n => ReadsOf(Outstanding(d)', no) = ReadsOf(Outstanding(d), no)
  BY ReadsOfEvent
<1> HIDE DEF a, q
<1>4. ASSUME NEW i \in DOMAIN stack[d], <<d, stack[d][i].no>> \notin forgotten
      PROVE  AwaitsFor(stack'[d][i], ReadsOf(Outstanding(d)', stack[d][i].no))
  <2>1. AwaitsFor(stack[d][i], ReadsOf(Outstanding(d), stack[d][i].no)) /\ stack[d][i].load \in AnyLoads
    BY <1>4, ShownScreen DEF Awaits
  <2>2. CASE stack[d][i].no # n
    <3>1. i # Position(d, n)
      BY <2>2, PositionIs
    <3>2. stack'[d][i].load = stack[d][i].load
      BY <1>2, <3>1
    <3>3. QED BY <1>3, <2>1, <2>2, <3>2 DEF AwaitsFor
  <2>3. CASE stack[d][i].no = n
    <3> DEFINE l == stack[d][i].load
    <3>1. i = Position(d, n)
      BY <2>3, PositionIs DEF Numbered, Nos
    <3>2. l.phase # "index" /\ l.pending = ReadsOf(Outstanding(d), n)
      BY <1>1, <1>3, <2>1, <2>3, NoneIsNothing DEF AwaitsFor
    <3>3. stack'[d][i].load = IF a.ok /\ a.text # None THEN EventFound(l, event)
                                                       ELSE EventFailed(l, a.op.id)
      BY <1>2, <3>1
    <3>4. l \in AnyLoads
      BY <2>1
    <3> HIDE DEF l
    <3>5. stack'[d][i].load.pending = l.pending \ {a.op.id} /\ stack'[d][i].load.phase # "index"
      BY <3>2, <3>3, <3>4 DEF EventFound, EventFailed, AnyLoads
    <3>6. QED BY <1>3, <2>3, <3>2, <3>5 DEF AwaitsFor
  <2>4. QED BY <2>2, <2>3
<1>5. QED BY <1>1, <1>2, <1>4, AwaitsStays

(* Reads on their way stay on their way, unless a connection is lost.      *)
LEMMA NetworkAwaits ==
    ASSUME Shape, Awaits, NEW d \in Devices, Apart(d), UNCHANGED appVars,
           \/ ServerGrants(d) \/ ServerRefuses(d)
           \/ Receive(d) \/ Disconnect(d) \/ Reconnect(d) \/ GetTimesOut(d)
    PROVE  Awaits'
<1>1. stack' = stack
  BY DEF appVars, screenVars
<1>2. /\ \A op \in Outstanding(d)' : \E p \in Outstanding(d) : Same(op, p)
      /\ forgotten \subseteq forgotten'
      /\ \A op \in Outstanding(d) : IsRead(op) => op \in Outstanding(d)' \/ <<d, op.src>> \in forgotten'
  BY NetworkMovesRequests, NetworkKeepsReads
<1>3. ASSUME NEW no, <<d, no>> \notin forgotten'
      PROVE  ReadsOf(Outstanding(d)', no) = ReadsOf(Outstanding(d), no)
  <2>1. ASSUME NEW id \in ReadsOf(Outstanding(d)', no) PROVE id \in ReadsOf(Outstanding(d), no)
    <3>1. PICK op \in Outstanding(d)' : IsRead(op) /\ op.src = no /\ op.id = id
      BY DEF ReadsOf
    <3>2. PICK p \in Outstanding(d) : Same(op, p)
      BY <1>2
    <3>3. QED BY <3>1, <3>2 DEF ReadsOf, Same, IsRead
  <2>2. ASSUME NEW id \in ReadsOf(Outstanding(d), no) PROVE id \in ReadsOf(Outstanding(d)', no)
    <3>1. PICK op \in Outstanding(d) : IsRead(op) /\ op.src = no /\ op.id = id
      BY DEF ReadsOf
    <3>2. QED BY <1>2, <1>3, <3>1 DEF ReadsOf
  <2>3. QED BY <2>1, <2>2
<1>4. ASSUME NEW i \in DOMAIN stack[d], <<d, stack[d][i].no>> \notin forgotten'
      PROVE  AwaitsFor(stack[d][i], ReadsOf(Outstanding(d)', stack[d][i].no))
  BY <1>2, <1>3, <1>4 DEF Awaits
<1>5. QED BY <1>1, <1>2, <1>4, AwaitsStays

(* Every step keeps each Home with exactly the answers it waits for.       *)
LEMMA AwaitsStep ==
    ASSUME Shape, Shape', Numbered, Refusals, Awaits, NEW d \in Devices, StepOf(d),
           Once(outbox[d], mainQ[d])
    PROVE  Awaits'
<1> DEFINE q == mainQ[d]
           Kept == \A op : IsRead(op) => (op \in Outstanding(d) <=> op \in Outstanding(d)')
<1>1. Apart(d) /\ stack[d] \in Seq(GoodScreens) /\ q \in Seq(GoodTasks)
  BY StepIsApart, OutstandingIs
<1>2. ASSUME NEW why, Stop(d, why) PROVE Awaits'
  <2>1. /\ DOMAIN stack'[d] = {} /\ \A x \in forgotten : x[1] # d => x \in forgotten'
    <3>1. stack'[d] = << >>
      BY <1>2, StopEmpties
    <3>2. \A x \in forgotten : x[1] # d => x \in forgotten'
      BY <1>2 DEF Stop
    <3>3. QED BY <3>1, <3>2
  <2>2. QED BY <1>1, <2>1, AwaitsStays
<1>3. CASE \/ DidTapLogOut(d) \/ DidCancelLogOut(d) \/ DidTapLogIn(d) \/ SignInAnswered(d)
           \/ DidTapBack(d) \/ Notify(d)
           \/ DidTapAddEvent(d) \/ DidTapEdit(d) \/ DidConfirmLogOut(d)
  <2>1. /\ outbox'[d] = outbox[d] /\ forgotten' = forgotten
        /\ mainQ'[d] = q \/ \E t : t.do # "answer" /\ mainQ'[d] = Append(q, t)
    BY <1>3, TapsOnlyQueue DEF netVars, histVars
  <2>2. Kept
    <3> HIDE DEF Kept
    <3>1. QED BY <2>1, ReadsWithBlocks DEF Kept
  <2>3. CASE ~ DidTapBack(d) /\ ~ Notify(d)
    <3>1. stack'[d] = stack[d]
      BY <1>3, <2>3, QuietSteps, NavigatingSteps DEF Navigates
    <3>2. QED BY <1>1, <2>1, <2>2, <3>1, AwaitsTheSame
  <2>4. CASE DidTapBack(d)
    BY <1>1, <2>1, <2>2, <2>4, BackPops, AwaitsTheSame
  <2>5. CASE Notify(d)
    <3>1. ASSUME NEW i \in DOMAIN stack[d]
          PROVE  /\ stack'[d][i].no = stack[d][i].no
                 /\ \/ stack'[d][i].load = stack[d][i].load
                    \/ /\ stack[d][i].load.phase # "index" /\ stack'[d][i].load.phase # "index"
                       /\ stack'[d][i].load.pending = stack[d][i].load.pending
      <4>1. /\ stack'[d][i].no = stack[d][i].no
            /\ \/ stack'[d][i] = stack[d][i]
               \/ /\ stack[d][i].load.phase = "notify"
                  /\ stack'[d][i].load = GroupNotify(stack[d][i].load)
        BY <2>5, NotifyShowsEvents DEF SameScreens
      <4>2. stack[d][i].load \in AnyLoads
        BY ShownScreen
      <4>3. \A l \in AnyLoads : GroupNotify(l).phase = "done" /\ GroupNotify(l).pending = l.pending
        BY DEF AnyLoads, GroupNotify
      <4>4. QED BY <4>1, <4>2, <4>3
    <3>2. DOMAIN stack'[d] = DOMAIN stack[d]
      BY <2>5, NotifyShowsEvents DEF SameScreens
    <3>3. \A no : ReadsOf(Outstanding(d)', no) = ReadsOf(Outstanding(d), no)
      BY <2>2, SameReads
    <3>4. ASSUME NEW i \in DOMAIN stack'[d], <<d, stack'[d][i].no>> \notin forgotten'
          PROVE  AwaitsFor(stack'[d][i], ReadsOf(Outstanding(d)', stack'[d][i].no))
      <4>1. AwaitsFor(stack[d][i], ReadsOf(Outstanding(d), stack[d][i].no))
        BY <2>1, <3>1, <3>2, <3>4 DEF Awaits
      <4>2. QED BY <3>1, <3>2, <3>3, <4>1 DEF AwaitsFor
    <3>5. QED BY <1>1, <2>1, <3>4, AwaitsStays
  <2>6. QED BY <2>3, <2>4, <2>5
<1>4. CASE OnAlert(d) \/ OnSignedIn(d) \/ OnSaved(d) \/ OnDeleteIndex(d)
  <2>1. /\ outbox'[d] = outbox[d] /\ forgotten' = forgotten /\ q # << >>
        /\ \/ mainQ'[d] = Tail(q) \/ \E t : t.do # "answer" /\ mainQ'[d] = Append(Tail(q), t)
    BY <1>4, BlocksTakeTheirs DEF netVars, histVars
  <2>2. Head(q).do = "answer" => ~ IsRead(Head(q).op)
    BY <1>4 DEF OnAlert, OnSignedIn, OnSaved, OnDeleteIndex, Answered, Handling, IsRead, Reads
  <2>3. Kept
    <3> HIDE DEF Kept
    <3>1. QED BY <2>1, <2>2, ReadsWithBlocks DEF Kept
  <2>4. stack'[d] = stack[d]
    BY <1>4 DEF OnAlert, OnSignedIn, OnSaved, OnDeleteIndex, appVars, screenVars
  <2>5. QED BY <1>1, <2>1, <2>3, <2>4, AwaitsTheSame
<1>5. CASE Kill(d) \/ (DidTapSaveEvent(d) /\ Top(d).user = None)
  <2>1. \E why : Stop(d, why)
    BY <1>5 DEF Kill, DidTapSaveEvent, Trap
  <2>2. QED BY <1>2, <2>1
<1>6. CASE DidTapDelete(d) \/ DidTapUpdate(d) \/ (DidTapSaveEvent(d) /\ Top(d).user # None)
  <2>1. /\ mainQ' = mainQ /\ forgotten' = forgotten
        /\ \E op \in GoodRequests : ~ IsRead(op) /\ outbox'[d] = Append(outbox[d], op)
    <3>1. CASE DidTapDelete(d)
      BY <3>1, DeleteTakesRow DEF IsRead, Reads, Request
    <3>2. CASE DidTapUpdate(d)
      BY <3>2, SendingTaps DEF IsRead, Reads, Request, histVars
    <3>3. CASE DidTapSaveEvent(d) /\ Top(d).user # None
      BY <3>3, SendingTaps DEF IsRead, Reads, Request, histVars
    <3>4. QED BY <1>6, <3>1, <3>2, <3>3
  <2>2. Kept
    <3> HIDE DEF Kept
    <3>1. QED BY <2>1, ReadsWithBlocks DEF Kept
  <2>3. /\ DOMAIN stack'[d] \subseteq DOMAIN stack[d]
        /\ \A i \in DOMAIN stack'[d] : /\ stack'[d][i].no = stack[d][i].no
                                       /\ stack'[d][i].load = stack[d][i].load
    <3>1. CASE DidTapDelete(d)
      BY <3>1, DeleteTakesRow DEF SameScreens
    <3>2. CASE DidTapUpdate(d) \/ (DidTapSaveEvent(d) /\ Top(d).user # None)
      BY <3>2, SendingTaps
    <3>3. QED BY <1>6, <3>1, <3>2
  <2>4. QED BY <1>1, <2>1, <2>2, <2>3, AwaitsTheSame
<1>7. CASE Launch(d)
  <2> DEFINE screen == Screen(1, IF user[d] = None THEN "auth" ELSE "home", None, NoEvent)
             op == ReadIndex(user[d], 1)
             home == Loading(screen, user[d])
  <2>1. /\ screen \in NewScreens /\ screen.no = 1
        /\ outbox[d] = << >> /\ mainQ[d] = << >> /\ mainQ'[d] = << >> /\ forgotten' = forgotten
        /\ \/ outbox'[d] = << >> /\ stack'[d] = <<screen>>
           \/ /\ user[d] \in Users /\ op \in GoodRequests
              /\ outbox'[d] = <<op>> /\ stack'[d] = <<home>>
    BY <1>7, LaunchingStep DEF histVars
  <2>2. stack[d] = << >>
    BY <1>7 DEF Launch, Shape, Answering
  <2>3. Outstanding(d) = {} /\ Outstanding(d)' = ToSet(outbox'[d])
    BY <2>1, EmptySeq DEF Outstanding, ToSet
  <2>4. \A s : <<s>> = Append(<< >>, s) /\ ToSet(<<s>>) = {s}
    BY DEF ToSet
  <2>5. /\ op.src = 1 /\ op.id = None /\ IsRead(op)
    BY DEF ReadIndex, Request, IsRead, Reads
  <2>6. screen \in GoodScreens /\ screen.load = NewLoad
    BY <2>1 DEF NewScreens
  <2>7. user[d] \in Users => home \in GoodScreens /\ home.no = 1 /\ home.load = AskIndex(NewLoad)
    BY <2>1, <2>6, LoadingIs
  <2> HIDE DEF screen, op, home
  <2>8. CASE outbox'[d] = << >> /\ stack'[d] = <<screen>>
    <3>1. Outstanding(d)' = {} /\ stack'[d] = Append(stack[d], screen)
      BY <2>2, <2>3, <2>4, <2>8, EmptySeq DEF ToSet
    <3>2. /\ \A i \in DOMAIN stack[d] : stack[d][i].no # screen.no
          /\ \A p \in Outstanding(d) : IsRead(p) => p.src # screen.no
          /\ \A p : IsRead(p) => (p \in Outstanding(d) <=> p \in Outstanding(d)')
      BY <2>2, <2>3, <3>1
    <3>3. QED BY <1>1, <2>1, <2>6, <3>1, <3>2, AwaitsWithPush
  <2>9. CASE user[d] \in Users /\ outbox'[d] = <<op>> /\ stack'[d] = <<home>>
    <3>1. Outstanding(d)' = {op} /\ stack'[d] = Append(stack[d], home)
      BY <2>2, <2>3, <2>4, <2>9
    <3>2. /\ \A i \in DOMAIN stack[d] : stack[d][i].no # home.no
          /\ \A p \in Outstanding(d) : IsRead(p) => p.src # home.no
          /\ \A p : IsRead(p) => (p \in Outstanding(d) \cup {op} <=> p \in Outstanding(d)')
      BY <2>2, <2>3, <3>1
    <3>3. home \in GoodScreens /\ home.load = AskIndex(NewLoad) /\ IsRead(op) /\ op.src = home.no /\ op.id = None
      BY <2>5, <2>7, <2>9
    <3>4. QED BY <1>1, <2>1, <3>1, <3>2, <3>3, AwaitsWithPush
  <2>10. QED BY <2>1, <2>8, <2>9
<1>8. CASE RunPush(d)
  <2> DEFINE task == Head(q)
             op == ReadIndex(user[d], task.screen.no)
             home == Loading(task.screen, user[d])
  <2>1. /\ q # << >> /\ IsPush(task) /\ task.screen \in NewScreens
        /\ \/ \E why : Stop(d, why)
           \/ /\ mainQ'[d] = Tail(q) /\ forgotten' = forgotten
              /\ \/ outbox'[d] = outbox[d] /\ stack'[d] = stack[d]
                 \/ outbox'[d] = outbox[d] /\ stack'[d] = Append(stack[d], task.screen)
                 \/ /\ user[d] \in Users /\ op \in GoodRequests
                    /\ outbox'[d] = Append(outbox[d], op) /\ stack'[d] = Append(stack[d], home)
    BY <1>8, PushingStep DEF histVars
  <2>2. task.screen \in GoodScreens /\ task.screen.load = NewLoad
    BY <2>1 DEF NewScreens
  <2>3. \A p \in Outstanding(d) : IsRead(p) => p.src # task.screen.no
    <3>1. Nos(stack[d], q, built[d], Outstanding(d))
      BY DEF Numbered
    <3>2. QED BY <1>1, <2>1, <2>2, <3>1, NosOfPush
  <2>4. \A i \in DOMAIN stack[d] : stack[d][i].no # task.screen.no
    <3>1. 1 \in DOMAIN q /\ q[1] = task
      BY <1>1, <2>1
    <3>2. QED BY <2>1, <3>1 DEF Numbered, Nos
  <2>5. Head(q).do # "answer"
    BY <2>1 DEF IsPush
  <2>6. user[d] \in Users => /\ home \in GoodScreens /\ home.no = task.screen.no
                             /\ home.load = AskIndex(NewLoad)
    BY <2>2, LoadingIs
  <2>7. op.src = task.screen.no /\ op.id = None /\ IsRead(op)
    BY DEF ReadIndex, Request, IsRead, Reads
  <2>8. ASSUME mainQ'[d] = Tail(q), outbox'[d] = outbox[d] PROVE Kept
    <3> HIDE DEF Kept
    <3>1. QED BY <2>1, <2>5, <2>8, ReadsWithBlocks DEF Kept
  <2>9. ASSUME mainQ'[d] = Tail(q), op \in GoodRequests, outbox'[d] = Append(outbox[d], op)
        PROVE  Outstanding(d)' = Outstanding(d) \cup {op}
    <3>1. /\ Outstanding(d) = ToSet(outbox[d]) \cup {t.op : t \in Handed(q)}
          /\ outbox[d] \in Seq(GoodRequests)
          /\ Outstanding(d)' = ToSet(outbox'[d]) \cup {t.op : t \in Handed(mainQ'[d])}
      BY OutstandingIs DEF Outstanding, Handed
    <3>2. Handed(q) = Handed(Tail(q))
      BY <1>1, <2>1, <2>5, QueueShrinks
    <3>3. ToSet(outbox'[d]) = ToSet(outbox[d]) \cup {op}
      BY <2>9, <3>1, MembersOfSeq
    <3> HIDE DEF op, q
    <3>4. QED BY <2>9, <3>1, <3>2, <3>3
  <2> HIDE DEF task, op, home
  <2>10. CASE /\ mainQ'[d] = Tail(q) /\ forgotten' = forgotten
              /\ outbox'[d] = outbox[d] /\ stack'[d] = stack[d]
    BY <1>1, <2>8, <2>10, AwaitsTheSame
  <2>11. CASE /\ mainQ'[d] = Tail(q) /\ forgotten' = forgotten
              /\ outbox'[d] = outbox[d] /\ stack'[d] = Append(stack[d], task.screen)
    BY <1>1, <2>2, <2>3, <2>4, <2>8, <2>11, AwaitsWithPush
  <2>12. CASE /\ mainQ'[d] = Tail(q) /\ forgotten' = forgotten
              /\ user[d] \in Users /\ op \in GoodRequests
              /\ outbox'[d] = Append(outbox[d], op) /\ stack'[d] = Append(stack[d], home)
    BY <1>1, <2>3, <2>4, <2>6, <2>7, <2>9, <2>12, AwaitsWithPush
  <2>13. QED BY <1>2, <2>1, <2>10, <2>11, <2>12
<1>9. CASE OnSaveIndex(d) \/ OnDeleteEvent(d)
  <2> DEFINE a == Head(q)
             kind == IF a.op.kind = "saveIndex" THEN "saveEvent" ELSE "deleteIndex"
             op == [a.op EXCEPT !.kind = kind, !.redo = FALSE]
  <2>1. /\ a.op \in GoodRequests /\ q # << >> /\ a.op.kind \in {"saveIndex", "deleteEvent"}
        /\ \/ \E why : Stop(d, why)
           \/ /\ mainQ'[d] = Tail(q) /\ UNCHANGED <<histVars, stack>>
              /\ IF a.ok THEN op \in GoodRequests /\ outbox'[d] = Append(outbox[d], op)
                         ELSE outbox'[d] = outbox[d]
    BY <1>9, ContinuingSteps
  <2>2. ~ IsRead(op) /\ ~ IsRead(a.op)
    BY <2>1 DEF IsRead, Reads, GoodRequests, Requests
  <2> HIDE DEF op
  <2>3. CASE /\ mainQ'[d] = Tail(q) /\ UNCHANGED <<histVars, stack>>
             /\ \/ op \in GoodRequests /\ outbox'[d] = Append(outbox[d], op)
                \/ outbox'[d] = outbox[d]
    <3>1. Kept
      <4> HIDE DEF Kept
      <4>1. QED BY <2>1, <2>2, <2>3, ReadsWithBlocks DEF Kept
    <3>2. forgotten' = forgotten
      BY <2>3 DEF histVars
    <3>3. QED BY <1>1, <2>3, <3>1, <3>2, AwaitsTheSame
  <2>4. QED BY <1>2, <2>1, <2>3
<1>10. CASE OnReadIndex(d) \/ OnReadEvent(d)
  BY <1>1, <1>10, OnReadIndexAwaits, OnReadEventAwaits
<1>11. CASE \/ (ServerGrants(d) /\ UNCHANGED appVars) \/ (ServerRefuses(d) /\ UNCHANGED appVars)
            \/ (Receive(d) /\ UNCHANGED appVars) \/ (Disconnect(d) /\ UNCHANGED appVars)
            \/ (Reconnect(d) /\ UNCHANGED appVars) \/ (GetTimesOut(d) /\ UNCHANGED appVars)
  BY <1>1, <1>11, NetworkAwaits
<1>12. QED
  BY <1>3, <1>4, <1>5, <1>6, <1>7, <1>8, <1>9, <1>10, <1>11 DEF StepOf
-----------------------------------------------------------------------------
Unique == \A d \in Devices : Once(outbox[d], mainQ[d])

(* Every step keeps the requests under way from clashing.                  *)
LEMMA UniqueStep ==
    ASSUME Shape, Numbered, Owned, Unique, NEW d \in Devices, StepOf(d)
    PROVE  Unique'
<1>1. Once(outbox'[d], mainQ'[d])
  BY OnceStep DEF Unique
<1>2. \A e \in Devices \ {d} : outbox'[e] = outbox[e] /\ mainQ'[e] = mainQ[e]
  BY StepIsApart DEF Apart
<1>3. QED BY <1>1, <1>2 DEF Unique

ReadInv == Unique /\ Refusals /\ Awaits

(* The requests of a device never clash, refusals bring nothing, and every *)
(* screen waits for the reads that are under way for it.                   *)
THEOREM ReadInvariant == Spec => []ReadInv
<1>1. Init => ReadInv
  <2> SUFFICES ASSUME Init PROVE ReadInv
    OBVIOUS
  <2>1. ASSUME NEW d \in Devices
        PROVE  outbox[d] = << >> /\ answers[d] = << >> /\ mainQ[d] = << >> /\ stack[d] = << >>
    BY DEF Init, ClientInit
  <2>2. QED BY <2>1 DEF ReadInv, Unique, Once, Refusals, Replies, Handed, ToSet, Awaits
<1>2. AppInv /\ ReadInv /\ [Next]_vars => ReadInv'
  <2> SUFFICES ASSUME AppInv, ReadInv, [Next]_vars PROVE ReadInv'
    OBVIOUS
  <2>1. CASE Next
    <3>1. PICK d \in Devices : StepOf(d)
      BY <2>1, StepCases
    <3>2. Shape'
      BY ShapeStep DEF AppInv
    <3>3. Unique' /\ Refusals'
      BY <3>1, UniqueStep, RefusalsStep DEF AppInv, ReadInv
    <3>4. Once(outbox[d], mainQ[d])
      BY DEF ReadInv, Unique
    <3>5. Awaits'
      BY <3>1, <3>2, <3>4, AwaitsStep DEF AppInv, ReadInv
    <3>6. QED BY <3>3, <3>5 DEF ReadInv
  <2>2. CASE UNCHANGED vars
    <3>1. /\ outbox' = outbox /\ answers' = answers /\ mainQ' = mainQ /\ stack' = stack
          /\ forgotten' = forgotten
      BY <2>2 DEF vars, netVars, histVars, appVars, screenVars
    <3>2. QED BY <3>1 DEF ReadInv, Unique, Refusals, Replies, Awaits, Outstanding
  <2>3. QED BY <2>1, <2>2
<1>3. QED BY <1>1, <1>2, AppInvariant, PTL DEF Spec

(* A Home without a list and without a failure is waiting for answers that *)
(* are still to come, one for each key it waits for, unless the SDK forgot *)
(* a read of it with a lost connection (HomeService.getData has no timeout *)
(* of its own).                                                            *)
THEOREM HomesAwaitAnswers == Spec => []HomeAwaitsAnswers
<1>1. AppInv /\ ReadInv => HomeAwaitsAnswers
  <2> SUFFICES ASSUME AppInv, ReadInv, NEW d \in Devices, NEW i \in DOMAIN stack[d],
                      <<d, stack[d][i].no>> \notin forgotten
               PROVE  LET s == stack[d][i]
                      IN  /\ s.load.phase = "index" <=> None \in ReadsFor(d, s.no)
                          /\ s.load.phase # "index" => s.load.pending = ReadsFor(d, s.no)
    BY DEF HomeAwaitsAnswers
  <2>1. AwaitsFor(stack[d][i], ReadsFor(d, stack[d][i].no))
    BY DEF ReadInv, Awaits, ReadsFor, ReadsOf
  <2>2. stack[d][i].load.pending \subseteq Ids
    BY ShownScreen DEF AppInv, AnyLoads
  <2>3. QED BY <2>1, <2>2, NoneIsNothing DEF AwaitsFor
<1>2. QED BY <1>1, AppInvariant, ReadInvariant, PTL
-----------------------------------------------------------------------------
(***************************************************************************)
(* An event that no account lists is one that a write brought back after   *)
(* it was deleted (OrphansWereRevived), and the invariant that says why.   *)
(*                                                                         *)
(* A save writes the list entry and then the event.  Until the event is    *)
(* there nobody can know its key but the device that saves it, and that    *)
(* device only from its own pending write: so whatever changes or removes  *)
(* the event comes behind the save, in the same queue (Entries, Saves).    *)
(* A delete drops the list entry once the event is gone; the event can     *)
(* only be there again if it was revived (Deletes).                        *)
(***************************************************************************)

\* A screen shows, has loaded or edits the event with a key.
HasKey(s, id) ==
    \/ \E event \in s.rows \cup EventsIn(s.load.eventArray) \cup EventsIn(s.load.eventS) :
          event.id = id
    \/ s.kind = "edit" /\ s.event.id = id

\* A reply that brings the event with a key.
Tells(a, id) == a.op.kind = "readEvent" /\ a.op.id = id /\ a.text # None

OnScreen(d, id) ==
    \/ \E i \in DOMAIN stack[d] : HasKey(stack[d][i], id)
    \/ \E s \in Pushed(mainQ[d]) : HasKey(s, id)

Sees(d, id) == OnScreen(d, id) \/ \E a \in Replies(d) : Tells(a, id)

\* A request that only who sees an event can make, or that follows from one.
Changes(op, id) == op.kind \in {"updateEvent", "deleteEvent", "deleteIndex"} /\ op.id = id

\* A device knows a key: it sees the event, or has a write of it under way.
Knows(d, id) ==
    Sees(d, id) \/ \E op \in Outstanding(d) : op.kind \in Writes /\ op.id = id

KnownOnlyTo(d, id) == \A e \in Devices \ {d} : ~ Knows(e, id)
-----------------------------------------------------------------------------
(* A reply answers a request: of the outbox while it is on its way, and    *)
(* then of the block that handles it.                                      *)
LEMMA RepliesAnswer ==
    ASSUME Shape, NEW d \in Devices, NEW a \in Replies(d)
    PROVE  /\ a.op \in Outstanding(d) /\ a.op \in GoodRequests
           /\ \/ a \in Handed(mainQ[d])
              \/ \E i \in DOMAIN outbox[d] : i <= Len(answers[d]) /\ a.op = outbox[d][i]
<1>1. /\ answers[d] \in Seq(GoodAnswers) /\ outbox[d] \in Seq(GoodRequests)
      /\ Outstanding(d) \in SUBSET GoodRequests
      /\ Outstanding(d) = ToSet(outbox[d]) \cup {t.op : t \in Handed(mainQ[d])}
  BY OutstandingIs
<1>2. CASE a \in Handed(mainQ[d])
  BY <1>1, <1>2
<1>3. CASE a \in ToSet(answers[d])
  <2>1. PICK i \in DOMAIN answers[d] : a = answers[d][i]
    BY <1>3 DEF ToSet
  <2>2. /\ DOMAIN answers[d] = 1 .. Len(answers[d]) /\ Len(answers[d]) \in Nat
        /\ DOMAIN outbox[d] = 1 .. Len(outbox[d]) /\ Len(outbox[d]) \in Nat
    BY <1>1
  <2>3. Len(answers[d]) <= Len(outbox[d]) /\ answers[d][i].op = outbox[d][i]
    BY <2>1, <2>2 DEF Shape, Answering
  <2>4. i \in DOMAIN outbox[d] /\ i <= Len(answers[d]) /\ a.op = outbox[d][i]
    BY <2>1, <2>2, <2>3
  <2>5. QED BY <1>1, <2>4, PlacesAreOutstanding
<1>4. QED BY <1>2, <1>3 DEF Replies

(* A key that some device knows has been made.                             *)
LEMMA KnownIsUsed ==
    ASSUME Shape, Owned, NEW d \in Devices, NEW id, Knows(d, id)
    PROVE  id \in usedIds
<1>1. PICK o : OwnedBy(o)
  BY DEF Owned
<1>2. ASSUME NEW s, ScreenOwned(o, usedIds, s), HasKey(s, id) PROVE id \in usedIds
  BY <1>2 DEF ScreenOwned, EventsOwned, HasKey
<1>3. ASSUME NEW op \in Outstanding(d), op.kind # "readIndex", op.id = id PROVE id \in usedIds
  BY <1>1, <1>3 DEF OwnedBy, OpOwned
<1>4. CASE \E op \in Outstanding(d) : op.kind \in Writes /\ op.id = id
  BY <1>3, <1>4 DEF Writes
<1>5. CASE OnScreen(d, id)
  BY <1>1, <1>2, <1>5 DEF OwnedBy, OnScreen
<1>6. CASE \E a \in Replies(d) : Tells(a, id)
  <2>1. \A a \in Replies(d) : a.op \in Outstanding(d)
    BY RepliesAnswer
  <2>2. QED BY <1>3, <1>6, <2>1 DEF Tells
<1>7. QED BY <1>4, <1>5, <1>6 DEF Knows, Sees

(* The steps that queue no screen and show no other event.                 *)
LEMMA ScreensStay ==
    ASSUME NEW d \in Devices, NEW id,
           \A i \in DOMAIN stack'[d] :
              HasKey(stack'[d][i], id) => i \in DOMAIN stack[d] /\ HasKey(stack[d][i], id),
           Pushed(mainQ'[d]) \subseteq Pushed(mainQ[d]),
           OnScreen(d, id)'
    PROVE  OnScreen(d, id)
BY DEF OnScreen

(* A new screen shows nothing; an Edit screen has the event of a row.      *)
LEMMA NewScreenHasKey ==
    ASSUME NEW s \in NewScreens, NEW id, HasKey(s, id)
    PROVE  s.kind = "edit" /\ s.event.id = id
<1>1. s.rows = {} /\ s.load.eventArray = << >> /\ s.load.eventS = << >>
  BY DEF NewScreens, NewLoad
<1>2. EventsIn(<< >>) = {}
  BY DEF EventsIn
<1>3. QED BY <1>1, <1>2 DEF HasKey

(* What a screen has stays the same while its load goes on.                *)
LEMMA SameKeys ==
    ASSUME NEW s, NEW t, NEW id,
           t.kind = s.kind, t.event = s.event,
           t.rows \subseteq s.rows \cup EventsIn(s.load.eventS),
           t.load.eventArray = s.load.eventArray, t.load.eventS = s.load.eventS,
           HasKey(t, id)
    PROVE  HasKey(s, id)
BY DEF HasKey

(* A screen that starts to load shows no more than it did.                 *)
LEMMA LoadingShowsNothing ==
    ASSUME NEW s \in NewScreens, NEW u \in Users, NEW id, HasKey(Loading(s, u), id)
    PROVE  HasKey(s, id)
<1>1. s \in GoodScreens /\ s.rows = {}
  BY DEF NewScreens
<1>2. LET t == Loading(s, u)
      IN  t.kind = s.kind /\ t.event = s.event /\ t.rows = s.rows /\ t.load = AskIndex(NewLoad)
  BY <1>1, LoadingIs
<1>3. AskIndex(NewLoad).eventArray = << >> /\ AskIndex(NewLoad).eventS = << >>
  BY DEF AskIndex, NewLoad
<1>4. EventsIn(<< >>) = {}
  BY DEF EventsIn
<1>5. QED BY <1>1, <1>2, <1>3, <1>4 DEF HasKey

(* A sequence with one more element.                                       *)
LEMMA AppendedIs ==
    ASSUME NEW S, NEW s \in Seq(S), NEW x
    PROVE  /\ \A i \in DOMAIN Append(s, x) : \/ (i \in DOMAIN s /\ Append(s, x)[i] = s[i])
                                             \/ (i > Len(s) /\ Append(s, x)[i] = x)
           /\ DOMAIN s = 1 .. Len(s) /\ Len(s) \in Nat
<1> DEFINE T == S \cup {x}
           r == Append(s, x)
<1>1. s \in Seq(T) /\ x \in T
  OBVIOUS
<1>2. /\ Len(r) = Len(s) + 1 /\ DOMAIN r = 1 .. Len(r) /\ DOMAIN s = 1 .. Len(s)
      /\ Len(s) \in Nat /\ \A i \in 1 .. Len(s) : r[i] = s[i]
      /\ r[Len(s) + 1] = x
  BY <1>1, AppendProperties, LenProperties
<1> HIDE DEF r
<1>3. \A i \in DOMAIN r : (i \in DOMAIN s /\ r[i] = s[i]) \/ (i > Len(s) /\ r[i] = x)
  BY <1>2
<1>4. QED BY <1>2, <1>3 DEF r

(* The callbacks of a load collect the event they are told, if any.        *)
LEMMA LoadingShows ==
    ASSUME Shape, NEW d \in Devices, OnReadIndex(d) \/ OnReadEvent(d),
           NEW id, OnScreen(d, id)'
    PROVE  OnScreen(d, id) \/ \E a \in Replies(d) : Tells(a, id)
<1> DEFINE a == Head(mainQ[d])
           event == [id |-> a.op.id, text |-> a.text]
<1>1. /\ SameScreens(d) /\ mainQ[d] # << >> /\ a.do = "answer" /\ a \in GoodAnswers
      /\ \A i \in DOMAIN stack[d] : stack'[d][i].rows = stack[d][i].rows
  BY KeysAnswered, KeysAreLoaded, EventAnswered
<1>2. a \in Handed(mainQ[d]) /\ Pushed(Tail(mainQ[d])) = Pushed(mainQ[d])
      /\ Tail(mainQ[d]) \in Seq(GoodTasks)
  BY <1>1, OutstandingIs, QueueShrinks
<1>3. Pushed(mainQ'[d]) = Pushed(mainQ[d])
  <2>1. OnReadEvent(d) => mainQ'[d] = Tail(mainQ[d])
    BY EventAnswered
  <2>2. OnReadIndex(d) => \E found \in Seq(GoodAnswers) : mainQ'[d] = Tail(mainQ[d]) \o found
    BY KeysAnswered
  <2>3. QED BY <1>2, <2>1, <2>2, QueueGrowsByAnswers
<1>4. ASSUME NEW i \in DOMAIN stack'[d], HasKey(stack'[d][i], id)
      PROVE  (i \in DOMAIN stack[d] /\ HasKey(stack[d][i], id)) \/ (a \in Replies(d) /\ Tells(a, id))
  <2> DEFINE s == stack[d][i]
             t == stack'[d][i]
  <2>1. i \in DOMAIN stack[d] /\ t.kind = s.kind /\ t.event = s.event /\ t.rows = s.rows
    BY <1>1 DEF SameScreens
  <2>2. s.load \in AnyLoads
    BY <2>1, ShownScreen
  <2>3. CASE t.load = EventFound(s.load, event) /\ OnReadEvent(d) /\ a.text # None
    <3>1. a.op.kind = "readEvent" /\ event \in EventModel
      BY <2>3, EventAnswered
    <3>2. /\ EventsIn(t.load.eventArray) = EventsIn(s.load.eventArray) \cup {event}
          /\ EventsIn(t.load.eventS) = EventsIn(s.load.eventArray) \cup {event}
      BY <2>2, <2>3, <3>1, EventIsCollected
    <3>3. CASE event.id = id
      BY <1>2, <2>3, <3>1, <3>3 DEF Tells, Replies
    <3>4. CASE event.id # id
      <4> HIDE DEF event
      <4>1. HasKey(s, id)
        BY <1>4, <2>1, <3>2, <3>4 DEF HasKey
      <4>2. QED BY <2>1, <4>1
    <3>5. QED BY <3>3, <3>4
  <2>4. CASE t.load.eventArray = s.load.eventArray /\ t.load.eventS = s.load.eventS
    BY <1>4, <2>1, <2>4, SameKeys
  <2>5. CASE OnReadEvent(d)
    <3>1. \/ t.load = s.load \/ t.load = EventFailed(s.load, a.op.id)
          \/ (t.load = EventFound(s.load, event) /\ a.text # None)
      BY <2>1, <2>5, EventAnswered
    <3>2. CASE t.load = EventFailed(s.load, a.op.id)
      BY <2>2, <2>4, <3>2, LoadsCollect
    <3>3. QED BY <2>3, <2>4, <2>5, <3>1, <3>2
  <2>6. CASE OnReadIndex(d)
    <3>1. \/ t.load = s.load \/ t.load = IndexFailed(s.load) \/ t.load = IndexIsNull(s.load)
          \/ t.load = IndexFound(s.load, a.keys)
      BY <2>1, <2>6, KeysAreLoaded
    <3>2. CASE t.load # s.load
      BY <2>2, <2>4, <3>1, <3>2, LoadsCollect
    <3>3. QED BY <2>4, <3>2
  <2>7. QED BY <2>5, <2>6
<1>5. QED BY <1>3, <1>4 DEF OnScreen

(* What a device comes to show it showed before, or an answer it handles   *)
(* told it.                                                                *)
LEMMA OnScreenStep ==
    ASSUME Shape, Shape', NEW d \in Devices, StepOf(d), NEW id, OnScreen(d, id)'
    PROVE  OnScreen(d, id) \/ \E a \in Replies(d) : Tells(a, id)
<1> DEFINE q == mainQ[d]
<1>1. q \in Seq(GoodTasks) /\ stack[d] \in Seq(GoodScreens)
  BY OutstandingIs
<1>2. ASSUME stack'[d] = stack[d], Pushed(mainQ'[d]) \subseteq Pushed(q) PROVE OnScreen(d, id)
  BY <1>2, ScreensStay
<1>3. ASSUME NEW why, Stop(d, why) PROVE FALSE
  <2>1. stack'[d] = << >> /\ Pushed(mainQ'[d]) = {}
    BY <1>3, StopEmpties
  <2>2. QED BY <2>1, EmptySeq DEF OnScreen
<1>4. CASE \/ DidTapLogOut(d) \/ DidCancelLogOut(d) \/ DidTapLogIn(d) \/ SignInAnswered(d)
           \/ DidTapBack(d)
           \/ OnAlert(d) \/ OnDeleteIndex(d) \/ (OnSaved(d) /\ ~ Head(mainQ[d]).ok)
  <2>1. \A i \in DOMAIN stack'[d] : i \in DOMAIN stack[d] /\ stack'[d][i] = stack[d][i]
    BY <1>4, QuietSteps, BackPops, OnlyHandledSteps
  <2>2. Pushed(mainQ'[d]) \subseteq Pushed(q)
    <3>1. CASE mainQ'[d] = q
      BY <3>1
    <3>2. CASE q # << >> /\ mainQ'[d] = Tail(q)
      BY <1>1, <3>2, QueueShrinks
    <3>3. CASE \E t \in GoodTasks : t.do \in {"signedIn", "alert"} /\ mainQ'[d] = Append(q, t)
      BY <1>1, <3>3, QueueGrows
    <3>4. QED BY <1>4, <3>1, <3>2, <3>3, QuietSteps, BackPops, OnlyHandledSteps
  <2>3. QED BY <2>1, <2>2, ScreensStay
<1>5. CASE \/ DidTapAddEvent(d) \/ DidTapEdit(d) \/ DidConfirmLogOut(d) \/ OnSignedIn(d)
           \/ (OnSaved(d) /\ Head(mainQ[d]).ok)
  <2>1. PICK screen : /\ Navigates(d, screen)
                      /\ screen.kind = "edit" => DidTapEdit(d) /\ screen.event \in Top(d).rows
    BY <1>5, NavigatingSteps
  <2>2. PICK r \in {q, Tail(q)}, from \in Nat :
           (r # q => q # << >>) /\ mainQ'[d] = Append(r, Push(from, screen))
    BY <2>1 DEF Navigates
  <2>3. Push(from, screen) \in GoodTasks /\ Push(from, screen).do = "push"
        /\ Push(from, screen).screen = screen
    BY <2>1, <2>2 DEF Navigates, Push, GoodTasks
  <2>4. r \in Seq(GoodTasks) /\ Pushed(r) \subseteq Pushed(q)
    BY <1>1, <2>2, QueueShrinks
  <2>5. Pushed(mainQ'[d]) = Pushed(r) \cup {screen}
    BY <2>2, <2>3, <2>4, QueueGrows
  <2>6. CASE HasKey(screen, id)
    <3>1. screen.kind = "edit" /\ screen.event.id = id
      BY <2>1, <2>6, NewScreenHasKey DEF Navigates
    <3>2. Top(d) = stack[d][Len(stack[d])] /\ Len(stack[d]) \in DOMAIN stack[d]
          /\ screen.event \in Top(d).rows
      BY <2>1, <3>1, TopIsScreen DEF DidTapEdit
    <3>3. HasKey(stack[d][Len(stack[d])], id)
      BY <3>1, <3>2 DEF HasKey
    <3>4. QED BY <3>2, <3>3 DEF OnScreen
  <2>7. CASE ~ HasKey(screen, id)
    <3>1. stack'[d] = stack[d]
      BY <2>1 DEF Navigates
    <3>2. QED BY <2>4, <2>5, <2>7, <3>1 DEF OnScreen
  <2>8. QED BY <2>6, <2>7
<1>6. CASE Launch(d)
  <2>1. PICK screen \in NewScreens :
           /\ screen.kind # "edit" /\ mainQ'[d] = << >>
           /\ stack'[d] = <<screen>> \/ (user[d] \in Users /\ stack'[d] = <<Loading(screen, user[d])>>)
    BY <1>6, LaunchingStep
  <2>2. ~ HasKey(screen, id)
    BY <2>1, NewScreenHasKey
  <2>3. user[d] \in Users => ~ HasKey(Loading(screen, user[d]), id)
    BY <2>1, <2>2, LoadingShowsNothing
  <2>4. \A i \in DOMAIN stack'[d] : ~ HasKey(stack'[d][i], id)
    BY <2>1, <2>2, <2>3
  <2>5. Pushed(mainQ'[d]) = {}
    BY <2>1, EmptySeq DEF Pushed, ToSet
  <2>6. QED BY <2>4, <2>5 DEF OnScreen
<1>7. CASE RunPush(d)
  <2> DEFINE task == Head(q)
  <2>1. /\ q # << >> /\ IsPush(task) /\ task.screen \in NewScreens
        /\ \/ \E why : Stop(d, why)
           \/ /\ mainQ'[d] = Tail(q)
              /\ \/ stack'[d] = stack[d]
                 \/ stack'[d] = Append(stack[d], task.screen)
                 \/ /\ user[d] \in Users
                    /\ stack'[d] = Append(stack[d], Loading(task.screen, user[d]))
    BY <1>7, PushingStep
  <2>2. Pushed(Tail(q)) \subseteq Pushed(q) /\ task.screen \in Pushed(q)
    BY <1>1, <2>1, QueueShrinks DEF IsPush
  <2> DEFINE pushed == task.screen
             home == Loading(pushed, user[d])
  <2>3. user[d] \in Users /\ HasKey(home, id) => HasKey(pushed, id)
    BY <2>1, LoadingShowsNothing
  <2> HIDE DEF home, pushed
  <2>4. ASSUME NEW s, HasKey(s, id) => HasKey(pushed, id),
               stack'[d] = Append(stack[d], s), mainQ'[d] = Tail(q)
        PROVE  OnScreen(d, id)
    <3>1. \A i \in DOMAIN stack'[d] : \/ i \in DOMAIN stack[d] /\ stack'[d][i] = stack[d][i]
                                      \/ stack'[d][i] = s
      BY <1>1, <2>4, AppendedIs
    <3>2. Pushed(mainQ'[d]) \subseteq Pushed(q) /\ pushed \in Pushed(q)
      BY <2>2, <2>4 DEF pushed
    <3>3. QED BY <2>4, <3>1, <3>2 DEF OnScreen
  <2>5. CASE stack'[d] = stack[d] /\ mainQ'[d] = Tail(q)
    BY <1>2, <2>2, <2>5
  <2>6. \/ \E why : Stop(d, why)
        \/ /\ mainQ'[d] = Tail(q)
           /\ \/ stack'[d] = stack[d]
              \/ stack'[d] = Append(stack[d], pushed)
              \/ user[d] \in Users /\ stack'[d] = Append(stack[d], home)
    BY <2>1 DEF home, pushed
  <2>7. QED BY <1>3, <2>3, <2>4, <2>5, <2>6
<1>8. CASE Notify(d) \/ DidTapDelete(d)
  <2>1. mainQ' = mainQ /\ SameScreens(d)
    BY <1>8, NotifyShowsEvents, DeleteTakesRow
  <2>2. ASSUME NEW i \in DOMAIN stack'[d], HasKey(stack'[d][i], id)
        PROVE  i \in DOMAIN stack[d] /\ HasKey(stack[d][i], id)
    <3> DEFINE s == stack[d][i]
               t == stack'[d][i]
    <3>1. i \in DOMAIN stack[d] /\ t.kind = s.kind /\ t.event = s.event
      BY <2>1 DEF SameScreens
    <3>2. s \in GoodScreens /\ s.load \in AnyLoads
      BY <3>1, ShownScreen
    <3>3. CASE t.load = s.load /\ t.rows \subseteq s.rows
      BY <2>2, <3>1, <3>3, SameKeys
    <3>4. CASE t.load = GroupNotify(s.load) /\ t.rows = EventsIn(s.load.eventS)
      <4>1. t.load.eventArray = s.load.eventArray /\ t.load.eventS = s.load.eventS
        BY <3>2, <3>4, LoadsCollect
      <4>2. QED BY <2>2, <3>1, <3>4, <4>1, SameKeys
    <3>5. QED BY <1>8, <3>1, <3>3, <3>4, NotifyShowsEvents, DeleteTakesRow
  <2>3. QED BY <2>1, <2>2, ScreensStay
<1>9. CASE OnReadIndex(d) \/ OnReadEvent(d)
  BY <1>9, LoadingShows
<1>10. CASE Kill(d) \/ (DidTapSaveEvent(d) /\ Top(d).user = None)
  <2>1. \E why : Stop(d, why)
    BY <1>10 DEF Kill, DidTapSaveEvent, Trap
  <2>2. QED BY <1>3, <2>1
<1>11. CASE DidTapUpdate(d) \/ (DidTapSaveEvent(d) /\ Top(d).user # None)
  <2>1. mainQ' = mainQ /\ stack' = stack
    BY <1>11, SendingTaps
  <2>2. QED BY <1>2, <2>1
<1>12. CASE OnSaveIndex(d) \/ OnDeleteEvent(d)
  <2>1. \/ \E why : Stop(d, why)
        \/ q # << >> /\ mainQ'[d] = Tail(q) /\ stack' = stack
    BY <1>12, ContinuingSteps
  <2>2. CASE q # << >> /\ mainQ'[d] = Tail(q) /\ stack' = stack
    <3>1. Pushed(mainQ'[d]) \subseteq Pushed(q)
      BY <1>1, <2>2, QueueShrinks
    <3>2. QED BY <1>2, <2>2, <3>1
  <2>3. QED BY <1>3, <2>1, <2>2
<1>13. CASE \/ (ServerGrants(d) /\ UNCHANGED appVars) \/ (ServerRefuses(d) /\ UNCHANGED appVars)
            \/ (Receive(d) /\ UNCHANGED appVars) \/ (Disconnect(d) /\ UNCHANGED appVars)
            \/ (Reconnect(d) /\ UNCHANGED appVars) \/ (GetTimesOut(d) /\ UNCHANGED appVars)
  <2>1. stack' = stack
    BY <1>13 DEF appVars, screenVars
  <2>2. mainQ'[d] = q \/ \E a \in GoodAnswers : mainQ'[d] = Append(q, a)
    BY <1>13, NetworkMovesRequests
  <2>3. Pushed(mainQ'[d]) \subseteq Pushed(q)
    <3>1. ASSUME NEW a \in GoodAnswers PROVE Pushed(Append(q, a)) = Pushed(q)
      <4>1. a \in GoodTasks /\ a.do = "answer"
        BY DEF GoodTasks, GoodAnswers, Answers
      <4>2. QED BY <1>1, <4>1, QueueGrows
    <3>2. QED BY <2>2, <3>1
  <2>4. QED BY <1>2, <2>1, <2>3
<1>14. QED
  BY <1>4, <1>5, <1>6, <1>7, <1>8, <1>9, <1>10, <1>11, <1>12, <1>13 DEF StepOf

(* A block that runs, and one that is queued, hand over no answer.         *)
LEMMA HandedByBlocks ==
    ASSUME NEW q \in Seq(GoodTasks), NEW r, r = q \/ (q # << >> /\ r = Tail(q)),
           NEW next, next = r \/ \E t : t.do # "answer" /\ next = Append(r, t)
    PROVE  Handed(next) \subseteq Handed(q)
<1>1. r \in Seq(GoodTasks) /\ Handed(r) \subseteq Handed(q)
  BY QueueShrinks
<1>2. CASE \E t : t.do # "answer" /\ next = Append(r, t)
  <2>1. PICK t : t.do # "answer" /\ next = Append(r, t)
    BY <1>2
  <2>2. \A i \in DOMAIN next : (i \in DOMAIN r /\ next[i] = r[i]) \/ next[i] = t
    BY <1>1, <2>1, AppendedIs
  <2>3. QED BY <1>1, <2>1, <2>2 DEF Handed, ToSet
<1>3. QED BY <1>1, <1>2

(* A device comes to see an event that the server has, or that it writes.  *)
LEMMA SeesStep ==
    ASSUME Shape, Shape', NEW d \in Devices, StepOf(d), NEW id, Sees(d, id)'
    PROVE  \/ Sees(d, id)
           \/ \E op \in Outstanding(d) : op.kind = "saveEvent" /\ op.id = id
           \/ \E op \in Outstanding(d) : Changes(op, id)
           \/ events[id] # None
<1>1. CASE OnScreen(d, id)'
  BY <1>1, OnScreenStep DEF Sees
<1>2. CASE \E a \in Replies(d)' : Tells(a, id)
  <2>1. PICK a \in Replies(d)' : Tells(a, id)
    BY <1>2
  <2>2. CASE ServerGrants(d)
    <3>1. PICK op \in GoodRequests, b \in GoodAnswers :
             b = Granted(op) /\ b.op = op /\ Replies(d)' = Replies(d) \cup {b}
      BY <2>2, GrantReplies
    <3>2. CASE a = b
      <4>1. a.text = events[id]
        BY <2>1, <3>1, <3>2 DEF Tells, Granted, Answer
      <4>2. QED BY <2>1, <4>1 DEF Tells
    <3>3. QED BY <2>1, <3>1, <3>2 DEF Sees
  <2>3. CASE ServerRefuses(d) \/ Receive(d) \/ Disconnect(d) \/ Reconnect(d) \/ GetTimesOut(d)
    <3>1. a \in Replies(d) \/ a.text = None
      BY <2>1, <2>3, NetworkMovesReplies
    <3>2. QED BY <2>1, <3>1 DEF Sees, Tells
  <2>4. CASE ~ (ServerGrants(d) \/ ServerRefuses(d) \/ Receive(d) \/ Disconnect(d)
                \/ Reconnect(d) \/ GetTimesOut(d))
    <3>1. a \in Replies(d) \/ PendingWrites(d, a.op.id) # {}
      BY <2>1, <2>4, AppMakesNoReply
    <3>2. CASE PendingWrites(d, a.op.id) # {}
      <4>1. PICK i \in DOMAIN outbox[d] :
               /\ outbox[d][i].kind \in {"saveEvent", "updateEvent", "deleteEvent"}
               /\ outbox[d][i].id = id
        BY <2>1, <3>2 DEF PendingWrites, Tells
      <4>2. outbox[d][i] \in Outstanding(d)
        BY PlacesAreOutstanding
      <4>3. QED BY <4>1, <4>2 DEF Changes
    <3>3. QED BY <2>1, <3>1, <3>2 DEF Sees
  <2>5. QED BY <2>2, <2>3, <2>4
<1>3. QED BY <1>1, <1>2 DEF Sees

(* What a step of the app may send: reads, changes of an event that the    *)
(* device sees, the entry of a new key, and what follows from an answer.   *)
Sent(d, op) ==
    \/ IsRead(op)
    \/ op.kind \in {"updateEvent", "deleteEvent"} /\ Sees(d, op.id)
    \/ op.kind = "saveIndex" /\ op.id \notin usedIds
    \/ \E a \in Handed(mainQ[d]) :
          /\ a.ok /\ a.op.id = op.id
          /\ \/ op.kind = "saveEvent" /\ a.op.kind = "saveIndex"
             \/ op.kind = "deleteIndex" /\ a.op.kind = "deleteEvent"

\* The queues of a device after a step of the app: what was there, with what
\* it sent behind; or nothing.
Sends(d) ==
    \/ outbox'[d] = << >> /\ Handed(mainQ'[d]) = {}
    \/ /\ answers'[d] = answers[d]
       /\ \A i \in DOMAIN outbox'[d] :
             \/ i \in DOMAIN outbox[d] /\ outbox'[d][i] = outbox[d][i]
             \/ i > Len(outbox[d]) /\ Sent(d, outbox'[d][i])
       /\ \A t \in Handed(mainQ'[d]) : t \in Handed(mainQ[d]) \/ IsRead(t.op)

\* The step of the network or the server.
OnNetwork(d) ==
    \/ ServerGrants(d) \/ ServerRefuses(d)
    \/ Receive(d) \/ Disconnect(d) \/ Reconnect(d) \/ GetTimesOut(d)

(* Only that changes the database; the app sends in order.                 *)
LEMMA AppSends ==
    ASSUME Shape, NEW d \in Devices, StepOf(d), ~ OnNetwork(d)
    PROVE  UNCHANGED dbVars /\ revived' = revived /\ Sends(d)
<1> DEFINE out == outbox[d]
           q == mainQ[d]
<1>1. out \in Seq(GoodRequests) /\ q \in Seq(GoodTasks)
  BY OutstandingIs
<1>2. ASSUME answers'[d] = answers[d], Handed(mainQ'[d]) \subseteq Handed(q),
             \/ outbox'[d] = out
             \/ \E op \in GoodRequests : outbox'[d] = Append(out, op) /\ Sent(d, op)
      PROVE  Sends(d)
  <2>1. CASE outbox'[d] = out
    BY <1>2, <2>1 DEF Sends
  <2>2. CASE \E op \in GoodRequests : outbox'[d] = Append(out, op) /\ Sent(d, op)
    <3>1. PICK op \in GoodRequests : outbox'[d] = Append(out, op) /\ Sent(d, op)
      BY <2>2
    <3>2. \A i \in DOMAIN outbox'[d] : \/ i \in DOMAIN out /\ outbox'[d][i] = out[i]
                                       \/ i > Len(out) /\ outbox'[d][i] = op
      <4> HIDE DEF out
      <4>1. QED BY <1>1, <3>1, AppendedIs
    <3>3. QED BY <1>2, <3>1, <3>2 DEF Sends
  <2>3. QED BY <1>2, <2>1, <2>2
<1>3. ASSUME NEW why, Stop(d, why)
      PROVE  UNCHANGED dbVars /\ revived' = revived /\ Sends(d)
  BY <1>3, StopEmpties DEF Sends
<1>4. ASSUME NEW r, r = q \/ (q # << >> /\ r = Tail(q)),
             mainQ'[d] = r \/ \E t : t.do # "answer" /\ mainQ'[d] = Append(r, t)
      PROVE  Handed(mainQ'[d]) \subseteq Handed(q)
  BY <1>1, <1>4, HandedByBlocks
<1>5. CASE \/ DidTapLogOut(d) \/ DidCancelLogOut(d) \/ DidTapLogIn(d) \/ SignInAnswered(d)
           \/ DidTapBack(d) \/ Notify(d)
           \/ DidTapAddEvent(d) \/ DidTapEdit(d) \/ DidConfirmLogOut(d)
  <2>1. /\ UNCHANGED <<dbVars, revived>> /\ outbox'[d] = out /\ answers'[d] = answers[d]
        /\ mainQ'[d] = q \/ \E t : t.do # "answer" /\ mainQ'[d] = Append(q, t)
    BY <1>5, TapsOnlyQueue DEF netVars, histVars
  <2> HIDE DEF q, out
  <2>2. QED BY <1>2, <1>4, <2>1
<1>6. CASE OnAlert(d) \/ OnSignedIn(d) \/ OnSaved(d) \/ OnDeleteIndex(d) \/ OnReadEvent(d)
  <2>1. /\ UNCHANGED <<dbVars, revived>> /\ outbox'[d] = out /\ answers'[d] = answers[d] /\ q # << >>
        /\ \/ mainQ'[d] = Tail(q) \/ \E t : t.do # "answer" /\ mainQ'[d] = Append(Tail(q), t)
    BY <1>6, BlocksTakeTheirs DEF netVars, histVars
  <2> HIDE DEF q, out
  <2>2. QED BY <1>2, <1>4, <2>1
<1>7. CASE Kill(d) \/ (DidTapSaveEvent(d) /\ Top(d).user = None)
  <2>1. \E why : Stop(d, why)
    BY <1>7 DEF Kill, DidTapSaveEvent, Trap
  <2>2. QED BY <1>3, <2>1
<1>8. CASE DidTapDelete(d)
  <2>1. PICK event \in Top(d).rows :
           /\ Request("deleteEvent", user[d], event.id, None, Top(d).no) \in GoodRequests
           /\ outbox'[d] = Append(out, Request("deleteEvent", user[d], event.id, None, Top(d).no))
           /\ UNCHANGED <<dbVars, revived>> /\ mainQ' = mainQ /\ answers' = answers
    BY <1>8, DeleteTakesRow DEF dbVars
  <2>2. Top(d) = stack[d][Len(stack[d])] /\ Len(stack[d]) \in DOMAIN stack[d]
    BY <1>8, TopIsScreen DEF DidTapDelete
  <2>3. Sees(d, event.id)
    BY <2>1, <2>2 DEF Sees, OnScreen, HasKey
  <2>4. Sent(d, Request("deleteEvent", user[d], event.id, None, Top(d).no))
    BY <2>3 DEF Sent, Request
  <2>5. QED BY <1>2, <2>1, <2>4
<1>9. CASE DidTapUpdate(d)
  <2>1. PICK text \in Texts :
           LET op == Request("updateEvent", None, Top(d).event.id, text, Top(d).no)
           IN  /\ op \in GoodRequests /\ outbox'[d] = Append(out, op) /\ Top(d).kind = "edit"
               /\ UNCHANGED <<dbVars, revived>> /\ mainQ' = mainQ /\ answers' = answers
    BY <1>9, SendingTaps DEF dbVars, histVars
  <2>2. Top(d) = stack[d][Len(stack[d])] /\ Len(stack[d]) \in DOMAIN stack[d]
    BY <1>9, TopIsScreen DEF DidTapUpdate
  <2>3. Sees(d, Top(d).event.id)
    BY <2>1, <2>2 DEF Sees, OnScreen, HasKey
  <2>4. Sent(d, Request("updateEvent", None, Top(d).event.id, text, Top(d).no))
    BY <2>3 DEF Sent, Request
  <2>5. QED BY <1>2, <2>1, <2>4
<1>10. CASE DidTapSaveEvent(d) /\ Top(d).user # None
  <2>1. PICK text \in Texts, id \in Ids \ usedIds :
           LET op == Request("saveIndex", Top(d).user, id, text, Top(d).no)
           IN  /\ op \in GoodRequests /\ outbox'[d] = Append(out, op)
               /\ UNCHANGED <<dbVars, revived>> /\ mainQ' = mainQ /\ answers' = answers
    BY <1>10, SendingTaps DEF dbVars, histVars
  <2>2. Sent(d, Request("saveIndex", Top(d).user, id, text, Top(d).no))
    BY DEF Sent, Request
  <2>3. QED BY <1>2, <2>1, <2>2
<1>11. CASE Launch(d)
  <2> DEFINE op == ReadIndex(user[d], 1)
  <2>1. /\ out = << >> /\ mainQ'[d] = q /\ answers' = answers /\ UNCHANGED <<dbVars, revived>>
        /\ \/ outbox'[d] = << >>
           \/ op \in GoodRequests /\ outbox'[d] = <<op>>
    BY <1>11, LaunchingStep DEF dbVars, histVars
  <2>2. IsRead(op)
    BY DEF IsRead, Reads, ReadIndex, Request
  <2> HIDE DEF op
  <2>3. <<op>> = Append(<< >>, op)
    OBVIOUS
  <2>4. Sent(d, op)
    BY <2>2 DEF Sent
  <2>5. QED BY <1>2, <2>1, <2>3, <2>4
<1>12. CASE RunPush(d)
  <2> DEFINE op == ReadIndex(user[d], Head(q).screen.no)
  <2>1. /\ q # << >>
        /\ \/ \E why : Stop(d, why)
           \/ /\ mainQ'[d] = Tail(q) /\ answers' = answers /\ UNCHANGED <<dbVars, revived>>
              /\ outbox'[d] = out \/ (op \in GoodRequests /\ outbox'[d] = Append(out, op))
    BY <1>12, PushingStep DEF dbVars, histVars
  <2>2. IsRead(op)
    BY DEF IsRead, Reads, ReadIndex, Request
  <2> HIDE DEF op, q, out
  <2>3. Sent(d, op)
    BY <2>2 DEF Sent
  <2>4. QED BY <1>2, <1>3, <1>4, <2>1, <2>3
<1>13. CASE OnSaveIndex(d) \/ OnDeleteEvent(d)
  <2> DEFINE a == Head(q)
             kind == IF a.op.kind = "saveIndex" THEN "saveEvent" ELSE "deleteIndex"
             op == [a.op EXCEPT !.kind = kind, !.redo = FALSE]
  <2>1. /\ a \in GoodAnswers /\ a.op \in GoodRequests /\ q # << >>
        /\ a.op.kind \in {"saveIndex", "deleteEvent"}
        /\ \/ \E why : Stop(d, why)
           \/ /\ mainQ'[d] = Tail(q) /\ answers' = answers /\ UNCHANGED <<dbVars, revived>>
              /\ IF a.ok THEN op \in GoodRequests /\ outbox'[d] = Append(out, op)
                         ELSE outbox'[d] = out
    BY <1>13, ContinuingSteps DEF dbVars, histVars
  <2>2. op.kind = kind /\ op.id = a.op.id
    BY <2>1 DEF GoodRequests, Requests
  <2>3. a \in Handed(q)
    BY <2>1, <1>1, QueueShrinks DEF GoodAnswers, Answers
  <2>4. a.ok => Sent(d, op)
    <3> HIDE DEF op
    <3>1. QED BY <2>1, <2>2, <2>3 DEF Sent
  <2> HIDE DEF op, q, out
  <2>5. QED BY <1>2, <1>3, <1>4, <2>1, <2>4
<1>14. CASE OnReadIndex(d)
  <2>1. /\ q # << >> /\ answers' = answers /\ UNCHANGED <<dbVars, revived>>
    BY <1>14, KeysAnswered DEF histVars
  <2>2. PICK sent \in Seq(GoodRequests), found \in Seq(GoodAnswers) :
           /\ outbox'[d] = out \o sent /\ mainQ'[d] = Tail(q) \o found
           /\ OneReadPerKey(d, Head(q), sent, found)
    BY <1>14, KeysAnswered
  <2>3. /\ \A i \in DOMAIN sent : IsRead(sent[i])
        /\ \A i \in DOMAIN found : IsRead(found[i].op)
    BY <2>2 DEF OneReadPerKey, Reading, IsRead, Reads
  <2>4. Handed(mainQ'[d]) = Handed(Tail(q)) \cup ToSet(found) /\ Handed(Tail(q)) \subseteq Handed(q)
    BY <1>1, <2>1, <2>2, QueueShrinks, QueueGrowsByAnswers
  <2>5. \A t \in Handed(mainQ'[d]) : t \in Handed(q) \/ IsRead(t.op)
    BY <2>3, <2>4 DEF ToSet
  <2>6. \A i \in DOMAIN outbox'[d] : \/ i \in DOMAIN out /\ outbox'[d][i] = out[i]
                                     \/ i > Len(out) /\ IsRead(outbox'[d][i])
    <3> DEFINE next == out \o sent
    <3> HIDE DEF out
    <3>1. /\ DOMAIN next = 1 .. Len(out) + Len(sent) /\ DOMAIN out = 1 .. Len(out)
          /\ DOMAIN sent = 1 .. Len(sent) /\ Len(out) \in Nat /\ Len(sent) \in Nat
          /\ \A i \in 1 .. Len(out) + Len(sent) :
                next[i] = IF i <= Len(out) THEN out[i] ELSE sent[i - Len(out)]
      BY <1>1, ConcatProperties, LenProperties
    <3> HIDE DEF next
    <3>2. \A i \in DOMAIN next : \/ i \in DOMAIN out /\ next[i] = out[i]
                                 \/ /\ i > Len(out) /\ i - Len(out) \in DOMAIN sent
                                    /\ next[i] = sent[i - Len(out)]
      BY <3>1
    <3>3. \A i \in DOMAIN next : \/ i \in DOMAIN out /\ next[i] = out[i]
                                 \/ i > Len(out) /\ IsRead(next[i])
      BY <2>3, <3>2
    <3>4. QED BY <2>2, <3>3 DEF next
  <2>7. QED BY <2>1, <2>5, <2>6 DEF Sends, Sent
<1>15. QED
  BY <1>5, <1>6, <1>7, <1>8, <1>9, <1>10, <1>11, <1>12, <1>13, <1>14 DEF StepOf, OnNetwork

(* A granted request is the first without an answer, and changes what it   *)
(* is about: an event, or the account that lists the key.                  *)
LEMMA GrantChanges ==
    ASSUME Shape, NEW d \in Devices, ServerGrants(d)
    PROVE  \E n \in DOMAIN outbox[d], a \in GoodAnswers :
               /\ n = Len(answers[d]) + 1 /\ n \in Nat
               /\ outbox[d][n] \in GoodRequests /\ outbox[d][n] \in Outstanding(d)
               /\ a.ok /\ a.op = outbox[d][n] /\ Replies(d)' = Replies(d) \cup {a}
               /\ Len(answers'[d]) = n /\ outbox' = outbox /\ mainQ' = mainQ
               /\ \A id \in Ids :
                     events'[id] = IF outbox[d][n].id # id THEN events[id]
                                   ELSE CASE outbox[d][n].kind \in {"saveEvent", "updateEvent"}
                                                -> outbox[d][n].text
                                          [] outbox[d][n].kind = "deleteEvent" -> None
                                          [] OTHER -> events[id]
               /\ \A id \in Ids : Listed(id) =>
                     Listed(id)' \/ (outbox[d][n].kind = "deleteIndex" /\ outbox[d][n].id = id)
               /\ \A id : outbox[d][n].kind = "saveIndex" /\ outbox[d][n].id = id => Listed(id)'
               /\ revived \subseteq revived'
               /\ Revives(outbox[d][n]) => outbox[d][n].id \in revived'
<1>1. PICK op \in GoodRequests, a \in GoodAnswers :
         /\ Unprocessed(d) /\ op = NextRequest(d) /\ op \in Outstanding(d)
         /\ a.ok /\ a.op = op
         /\ index' = IndexAfter(op) /\ events' = EventsAfter(op)
         /\ revived' = revived \cup (IF Revives(op) THEN {op.id} ELSE {})
         /\ outbox' = outbox /\ mainQ' = mainQ
         /\ answers'[d] = Append(answers[d], a)
         /\ Replies(d)' = Replies(d) \cup {a}
  BY GrantReplies
<1> DEFINE n == Len(answers[d]) + 1
<1>2. n \in 1 .. Len(outbox[d]) /\ n \in DOMAIN outbox[d] /\ n \in Nat /\ op = outbox[d][n]
      /\ answers[d] \in Seq(GoodAnswers)
  <2>1. /\ outbox[d] \in Seq(GoodRequests) /\ answers[d] \in Seq(GoodAnswers)
        /\ n \in 1 .. Len(outbox[d]) /\ NextRequest(d) = outbox[d][n]
        /\ Len(outbox[d]) \in Nat
    BY <1>1, UnprocessedIs
  <2> HIDE DEF n
  <2>2. DOMAIN outbox[d] = 1 .. Len(outbox[d])
    BY <2>1
  <2>3. n \in Nat
    BY <2>1
  <2>4. QED BY <1>1, <2>1, <2>2, <2>3
<1>3. Len(answers'[d]) = n
  BY <1>1, <1>2, AppendProperties
<1>4. index \in [Users -> SUBSET Ids] /\ events \in [Ids -> Texts \cup {None}]
  BY DEF Shape, Types
<1>5. ASSUME NEW id \in Ids
      PROVE  events'[id] = IF op.id # id THEN events[id]
                           ELSE CASE op.kind \in {"saveEvent", "updateEvent"} -> op.text
                                  [] op.kind = "deleteEvent" -> None
                                  [] OTHER -> events[id]
  BY <1>1, <1>4 DEF EventsAfter
<1>6. ASSUME NEW id \in Ids, Listed(id)
      PROVE  Listed(id)' \/ (op.kind = "deleteIndex" /\ op.id = id)
  <2>1. PICK u \in Users : id \in index[u]
    BY <1>6 DEF Listed
  <2>2. id \in index'[u] \/ (op.kind = "deleteIndex" /\ op.id = id)
    BY <1>1, <1>4, <2>1 DEF IndexAfter
  <2>3. QED BY <2>2 DEF Listed
<1>7. op.kind = "saveIndex" => Listed(op.id)'
  <2>1. op.kind = "saveIndex" => op.user \in Users /\ op.id \in index'[op.user]
    BY <1>1, <1>4 DEF IndexAfter, GoodRequests
  <2>2. QED BY <2>1 DEF Listed
<1>8. revived \subseteq revived' /\ (Revives(op) => op.id \in revived')
  BY <1>1
<1> HIDE DEF n
<1>9. QED
  <2>1. n = Len(answers[d]) + 1
    BY DEF n
  <2>2. QED BY <1>1, <1>2, <1>3, <1>5, <1>6, <1>7, <1>8, <2>1

(* Two saves of one key that a device has under way are one.               *)
LEMMA SavesAgree ==
    ASSUME Shape, NEW d \in Devices, Once(outbox[d], mainQ[d]),
           NEW op \in Outstanding(d), NEW p \in Outstanding(d),
           IsSave(op), IsSave(p), op.id = p.id
    PROVE  op = p
<1>1. Clash(op, p) /\ Clash(p, op)
  BY DEF Clash
<1>2. ASSUME NEW x \in Outstanding(d)
      PROVE  \/ \E i \in DOMAIN outbox[d] : x = outbox[d][i]
             \/ \E i \in DOMAIN mainQ[d] : mainQ[d][i].do = "answer" /\ x = mainQ[d][i].op
  BY DEF Outstanding, ToSet
<1>3. QED BY <1>1, <1>2 DEF Once

(* What is under way after a step was under way before it, or is sent.     *)
LEMMA MovesOrSends ==
    ASSUME Shape, NEW d \in Devices, StepOf(d), NEW op \in Outstanding(d)'
    PROVE  \/ \E p \in Outstanding(d) : Same(op, p)
           \/ ~ OnNetwork(d) /\ Sent(d, op)
<1>1. CASE OnNetwork(d)
  BY <1>1, NetworkMovesRequests DEF OnNetwork
<1>2. CASE ~ OnNetwork(d)
  <2>1. Sends(d)
    BY <1>2, AppSends
  <2>2. \/ \E i \in DOMAIN outbox'[d] : op = outbox'[d][i]
        \/ \E t \in Handed(mainQ'[d]) : op = t.op
    BY DEF Outstanding, ToSet, Handed
  <2>3. \A x : Same(x, x)
    BY DEF Same
  <2>4. CASE \E i \in DOMAIN outbox'[d] : op = outbox'[d][i]
    <3>1. PICK i \in DOMAIN outbox'[d] : op = outbox'[d][i]
      BY <2>4
    <3>2. i \in DOMAIN outbox[d] /\ op = outbox[d][i] => op \in Outstanding(d)
      BY PlacesAreOutstanding
    <3>3. DOMAIN << >> = {}
      BY EmptySeq
    <3>4. QED BY <1>2, <2>1, <2>3, <3>1, <3>2, <3>3 DEF Sends
  <2>5. CASE \E t \in Handed(mainQ'[d]) : op = t.op
    <3>1. PICK t \in Handed(mainQ'[d]) : op = t.op
      BY <2>5
    <3>2. t \in Handed(mainQ[d]) => op \in Outstanding(d)
      BY <3>1, OutstandingIs
    <3>3. QED BY <1>2, <2>1, <2>3, <3>1, <3>2 DEF Sends, Sent
  <2>6. QED BY <2>2, <2>4, <2>5
<1>3. QED BY <1>1, <1>2

(* What the writes of a device are about it knows.                         *)
LEMMA WritesAreKnown ==
    ASSUME Shape, NEW d \in Devices, NEW id
    PROVE  /\ \A op \in Outstanding(d) :
                 op.id = id /\ op.kind \in Writes => Knows(d, id)
           /\ \A op \in Outstanding(d) : Changes(op, id) => Knows(d, id)
           /\ \A a \in Handed(mainQ[d]) : a.op \in Outstanding(d) /\ a \in Replies(d)
           /\ Sees(d, id) => Knows(d, id)
BY OutstandingIs DEF Knows, Changes, Writes, Replies

(* A device comes to know a key that it makes, or an event that is there.  *)
LEMMA KnowsStep ==
    ASSUME Shape, Shape', NEW d \in Devices, StepOf(d), NEW id, Knows(d, id)'
    PROVE  Knows(d, id) \/ id \notin usedIds \/ events[id] # None
<1>1. CASE Sees(d, id)'
  <2>1. \A op \in Outstanding(d) : op.kind = "saveEvent" /\ op.id = id => Knows(d, id)
    BY WritesAreKnown DEF Writes
  <2>2. QED BY <1>1, <2>1, SeesStep, WritesAreKnown
<1>2. CASE \E op \in Outstanding(d)' : op.kind \in Writes /\ op.id = id
  <2>1. PICK op \in Outstanding(d)' : op.kind \in Writes /\ op.id = id
    BY <1>2
  <2>2. CASE \E p \in Outstanding(d) : Same(op, p)
    BY <2>1, <2>2, WritesAreKnown DEF Same
  <2>3. CASE Sent(d, op)
    <3>1. ~ IsRead(op)
      BY <2>1 DEF IsRead, Reads, Writes
    <3>2. CASE \E a \in Handed(mainQ[d]) : a.op.id = id /\ a.op.kind \in {"saveIndex", "deleteEvent"}
      BY <3>2, WritesAreKnown DEF Writes
    <3>3. QED BY <2>1, <2>3, <3>1, <3>2, WritesAreKnown DEF Sent
  <2>4. QED BY <2>1, <2>2, <2>3, MovesOrSends
<1>3. QED BY <1>1, <1>2 DEF Knows

(* A step of one device leaves what the others know.                       *)
LEMMA KnowsApart ==
    ASSUME NEW d \in Devices, Apart(d), NEW e \in Devices \ {d}, NEW id
    PROVE  /\ Knows(e, id)' <=> Knows(e, id)
           /\ Sees(e, id)' <=> Sees(e, id)
           /\ Outstanding(e)' = Outstanding(e) /\ Replies(e)' = Replies(e)
<1>1. /\ outbox'[e] = outbox[e] /\ answers'[e] = answers[e] /\ mainQ'[e] = mainQ[e]
      /\ stack'[e] = stack[e]
  BY DEF Apart
<1>2. Outstanding(e)' = Outstanding(e) /\ Replies(e)' = Replies(e)
  BY <1>1 DEF Outstanding, Replies
<1>3. OnScreen(e, id)' <=> OnScreen(e, id)
  BY <1>1 DEF OnScreen
<1>4. Sees(e, id)' <=> Sees(e, id)
  BY <1>2, <1>3 DEF Sees
<1>5. QED BY <1>2, <1>4 DEF Knows

(* Only a step of the network by a server's grant changes the database.    *)
LEMMA DbStep ==
    ASSUME Shape, NEW d \in Devices, StepOf(d)
    PROVE  ServerGrants(d) \/ (UNCHANGED dbVars /\ revived' = revived)
<1>1. ASSUME ServerRefuses(d) \/ Receive(d) \/ Disconnect(d) \/ Reconnect(d) \/ GetTimesOut(d)
      PROVE  UNCHANGED dbVars /\ revived' = revived
  BY <1>1 DEF ServerRefuses, Receive, Disconnect, Reconnect, GetTimesOut, histVars
<1>2. QED BY <1>1, AppSends DEF OnNetwork
-----------------------------------------------------------------------------
(* An event on its way: its entry is being written, and nobody sees it or  *)
(* has asked for a change of it.                                           *)
Coming(d, id) ==
    /\ events[id] = None /\ KnownOnlyTo(d, id) /\ ~ Sees(d, id)
    /\ \A p \in Outstanding(d) : ~ Changes(p, id)

Entries ==
    \A d \in Devices :
        /\ \A op \in Outstanding(d) : op.kind = "saveIndex" => Coming(d, op.id)
        /\ \A a \in Replies(d) : a.op.kind = "saveIndex" /\ a.ok => Listed(a.op.id)

\* The n-th request of a device is a first save of an event, not yet answered.
Unsaved(d, n) ==
    /\ n \in DOMAIN outbox[d] /\ n > Len(answers[d])
    /\ outbox[d][n].kind = "saveEvent" /\ ~ outbox[d][n].redo

\* All that changes the event comes later, and its entry is not dropped.
Behind(d, n, id) ==
    /\ \A i \in DOMAIN outbox[d] :
          Changes(outbox[d][i], id) => i > n /\ outbox[d][i].kind # "deleteIndex"
    /\ \A t \in Handed(mainQ[d]) : ~ Changes(t.op, id)

Saving(d, n, id) ==
    events[id] = None /\ Listed(id) /\ KnownOnlyTo(d, id) /\ Behind(d, n, id)

Saves ==
    \A d \in Devices : \A n \in DOMAIN outbox[d] :
        Unsaved(d, n) => Saving(d, n, outbox[d][n].id)

Gone(id) == events[id] = None \/ id \in revived

Deletes ==
    \A d \in Devices :
        /\ \A op \in Outstanding(d) : op.kind = "deleteIndex" => Gone(op.id)
        /\ \A a \in Replies(d) : a.op.kind = "deleteEvent" /\ a.ok => Gone(a.op.id)

(* A key that one device knows, of an event that is not there, stays known *)
(* to that device alone, and the others leave the event and its entry.     *)
LEMMA OnlyOneKnows ==
    ASSUME Shape, Shape', NEW d \in Devices, NEW e \in Devices, StepOf(e),
           NEW id \in Ids, id \in usedIds, events[id] = None, KnownOnlyTo(d, id)
    PROVE  /\ KnownOnlyTo(d, id)'
           /\ e # d => events'[id] = None /\ (Listed(id) => Listed(id)')
<1>1. Apart(e)
  BY StepIsApart
<1>2. ASSUME NEW x \in Devices \ {d} PROVE ~ Knows(x, id)'
  <2>1. ~ Knows(x, id)
    BY <1>2 DEF KnownOnlyTo
  <2>2. CASE x = e
    BY <2>1, <2>2, KnowsStep
  <2>3. CASE x # e
    BY <1>1, <2>1, <2>3, KnowsApart
  <2>4. QED BY <2>2, <2>3
<1>3. ASSUME e # d PROVE events'[id] = None /\ (Listed(id) => Listed(id)')
  <2>1. ~ Knows(e, id)
    BY <1>3 DEF KnownOnlyTo
  <2>2. \A op \in Outstanding(e) : op.id = id => op.kind \notin Writes
    BY <2>1, WritesAreKnown
  <2>3. CASE ServerGrants(e)
    <3>1. PICK n \in DOMAIN outbox[e] :
             /\ outbox[e][n] \in Outstanding(e)
             /\ events'[id] = IF outbox[e][n].id # id THEN events[id]
                              ELSE CASE outbox[e][n].kind \in {"saveEvent", "updateEvent"}
                                           -> outbox[e][n].text
                                     [] outbox[e][n].kind = "deleteEvent" -> None
                                     [] OTHER -> events[id]
             /\ Listed(id) =>
                  Listed(id)' \/ (outbox[e][n].kind = "deleteIndex" /\ outbox[e][n].id = id)
      BY <2>3, GrantChanges
    <3>2. outbox[e][n].id = id => outbox[e][n].kind \notin Writes
      BY <2>2, <3>1
    <3>3. QED BY <3>1, <3>2 DEF Writes
  <2>4. CASE UNCHANGED dbVars
    BY <2>4 DEF dbVars, Listed
  <2>5. QED BY <2>3, <2>4, DbStep
<1>4. QED BY <1>2, <1>3 DEF KnownOnlyTo

(* Who neither sees nor changes an event that is not there does not begin. *)
LEMMA NothingBegins ==
    ASSUME Shape, Shape', NEW d \in Devices, StepOf(d), NEW id, events[id] = None,
           ~ Sees(d, id), \A p \in Outstanding(d) : ~ Changes(p, id),
           \A p \in Outstanding(d) : ~ (p.kind = "saveEvent" /\ p.id = id)
    PROVE  ~ Sees(d, id)' /\ \A p \in Outstanding(d)' : ~ Changes(p, id)
<1>1. ~ Sees(d, id)'
  BY SeesStep
<1>2. ASSUME NEW p \in Outstanding(d)', Changes(p, id) PROVE FALSE
  <2>1. CASE \E q \in Outstanding(d) : Same(p, q)
    BY <1>2, <2>1 DEF Same, Changes
  <2>2. CASE Sent(d, p)
    <3>1. ~ IsRead(p) /\ p.kind # "saveIndex" /\ p.kind # "saveEvent" /\ p.id = id
      BY <1>2 DEF Changes, IsRead, Reads
    <3>2. CASE \E a \in Handed(mainQ[d]) : a.op.id = id /\ a.op.kind = "deleteEvent"
      BY <3>2, WritesAreKnown DEF Changes
    <3>3. QED BY <2>2, <3>1, <3>2 DEF Sent
  <2>3. QED BY <2>1, <2>2, <1>2, MovesOrSends
<1>3. QED BY <1>1, <1>2

(* An event on its way stays so for as long as its entry is being written. *)
LEMMA ComingStep ==
    ASSUME Shape, Shape', Unique, NEW d \in Devices, NEW e \in Devices, StepOf(e),
           NEW op \in Outstanding(d), op.kind = "saveIndex", Coming(d, op.id),
           NEW id \in Ids, id = op.id, id \in usedIds
    PROVE  Coming(d, id)'
<1>1. /\ events[id] = None /\ KnownOnlyTo(d, id) /\ ~ Sees(d, id)
      /\ \A p \in Outstanding(d) : ~ Changes(p, id)
  BY DEF Coming
<1>2. KnownOnlyTo(d, id)' /\ (e # d => events'[id] = None)
  BY <1>1, OnlyOneKnows
<1>3. CASE e # d
  <2>1. (Sees(d, id)' <=> Sees(d, id)) /\ Outstanding(d)' = Outstanding(d)
    BY <1>3, StepIsApart, KnowsApart
  <2>2. QED BY <1>1, <1>2, <1>3, <2>1 DEF Coming
<1>4. CASE e = d
  <2>1. \A p \in Outstanding(d) : ~ (p.kind = "saveEvent" /\ p.id = id)
    BY SavesAgree DEF Unique, IsSave
  <2>2. ~ Sees(d, id)' /\ \A p \in Outstanding(d)' : ~ Changes(p, id)
    BY <1>1, <1>4, <2>1, NothingBegins
  <2>3. CASE ServerGrants(d)
    <3>1. PICK n \in DOMAIN outbox[d] :
             /\ outbox[d][n] \in Outstanding(d)
             /\ events'[id] = IF outbox[d][n].id # id THEN events[id]
                              ELSE CASE outbox[d][n].kind \in {"saveEvent", "updateEvent"}
                                           -> outbox[d][n].text
                                     [] outbox[d][n].kind = "deleteEvent" -> None
                                     [] OTHER -> events[id]
      BY <2>3, GrantChanges
    <3>2. outbox[d][n].id = id => outbox[d][n].kind \notin {"saveEvent", "updateEvent", "deleteEvent"}
      BY <1>1, <2>1, <3>1 DEF Changes
    <3>3. events'[id] = None
      BY <1>1, <3>1, <3>2
    <3>4. QED BY <1>2, <2>2, <3>3 DEF Coming
  <2>4. CASE UNCHANGED dbVars
    BY <1>1, <1>2, <2>2, <2>4 DEF dbVars, Coming
  <2>5. QED BY <1>4, <2>3, <2>4, DbStep
<1>5. QED BY <1>3, <1>4

(* What a request is about, unless it reads a list, is a key once made.    *)
LEMMA OutstandingIdsAreUsed ==
    ASSUME Shape, Owned, NEW d \in Devices, NEW op \in Outstanding(d), op.kind # "readIndex"
    PROVE  op.id \in Ids /\ op.id \in usedIds
<1>1. op.id \in usedIds
  BY DEF Owned, OwnedBy, OpOwned
<1>2. QED BY <1>1 DEF Shape, Types

(* A granted reply that is new, to a write, is the server's.               *)
LEMMA NewReplyIsGranted ==
    ASSUME Shape, NEW d \in Devices, StepOf(d), NEW a \in Replies(d)', a.ok,
           ~ IsRead(a.op), a \notin Replies(d)
    PROVE  ServerGrants(d)
<1>1. CASE ServerRefuses(d) \/ Receive(d) \/ Disconnect(d) \/ Reconnect(d) \/ GetTimesOut(d)
  BY <1>1, NetworkMovesReplies
<1>2. CASE ~ OnNetwork(d)
  <2>1. ~ Reading(a.op, Head(mainQ[d]))
    BY DEF Reading, IsRead, Reads
  <2>2. QED BY <1>2, <2>1, AppMakesNoReply DEF OnNetwork
<1>3. QED BY <1>1, <1>2 DEF OnNetwork

(* What is under way after a step is well-formed.                          *)
LEMMA OutstandingIsGoodAfter ==
    ASSUME Shape', NEW d \in Devices, NEW op \in Outstanding(d)'
    PROVE  op \in GoodRequests
<1>1. outbox'[d] \in Seq(GoodRequests) /\ mainQ'[d] \in Seq(GoodTasks)
  BY DEF Shape, Types
<1>2. \/ \E i \in DOMAIN outbox'[d] : op = outbox'[d][i]
      \/ \E i \in DOMAIN mainQ'[d] : mainQ'[d][i].do = "answer" /\ op = mainQ'[d][i].op
  BY DEF Outstanding, ToSet
<1>3. CASE \E i \in DOMAIN outbox'[d] : op = outbox'[d][i]
  BY <1>1, <1>3
<1>4. CASE \E i \in DOMAIN mainQ'[d] : mainQ'[d][i].do = "answer" /\ op = mainQ'[d][i].op
  <2>1. PICK i \in DOMAIN mainQ'[d] : mainQ'[d][i].do = "answer" /\ op = mainQ'[d][i].op
    BY <1>4
  <2>2. mainQ'[d][i] \in GoodTasks
    BY <1>1, <2>1
  <2>3. QED BY <2>1, <2>2, TaskKinds DEF GoodAnswers
<1>5. QED BY <1>2, <1>3, <1>4

(* Entries is kept: a new key is one that nobody knows yet, and while an   *)
(* entry is being written no other write is under way that could drop it.  *)
LEMMA EntriesStep ==
    ASSUME Shape, Shape', Owned, Unique, Entries, NEW e \in Devices, StepOf(e)
    PROVE  Entries'
<1>1. ASSUME NEW d \in Devices, NEW op \in Outstanding(d), op.kind = "saveIndex"
      PROVE  Coming(d, op.id)' /\ op.id \in Ids /\ op.id \in usedIds
  <2>1. Coming(d, op.id) /\ op.id \in Ids /\ op.id \in usedIds
    BY <1>1, OutstandingIdsAreUsed DEF Entries
  <2>2. PICK id \in Ids : id = op.id
    BY <2>1
  <2>3. Coming(d, id)'
    BY <1>1, <2>1, <2>2, ComingStep
  <2>4. QED BY <2>1, <2>2, <2>3
<1>2. ASSUME NEW d \in Devices, NEW op \in Outstanding(d)', op.kind = "saveIndex"
      PROVE  Coming(d, op.id)'
  <2>1. CASE \E p \in Outstanding(d) : Same(op, p)
    <3>1. PICK p \in Outstanding(d) : p.kind = "saveIndex" /\ op.id = p.id
      BY <1>2, <2>1 DEF Same
    <3>2. PICK id \in Ids : id = p.id
      BY <3>1, <1>1
    <3>3. Coming(d, id)'
      BY <1>1, <3>1, <3>2
    <3>4. QED BY <3>1, <3>2, <3>3
  <2>2. CASE e # d
    <3>1. Outstanding(d)' = Outstanding(d)
      BY <2>2, StepIsApart, KnowsApart
    <3>2. QED BY <2>1, <3>1 DEF Same
  <2>3. CASE e = d /\ ~ OnNetwork(d) /\ Sent(d, op)
    <3>1. PICK id : id = op.id
      OBVIOUS
    <3>2. id \notin usedIds /\ id \in Ids
      <4>1. id \notin usedIds
        BY <1>2, <2>3, <3>1 DEF Sent, IsRead, Reads
      <4>2. op \in GoodRequests
        BY OutstandingIsGoodAfter
      <4>3. QED BY <1>2, <3>1, <4>1, <4>2 DEF GoodRequests
    <3>3. \A x \in Devices : ~ Knows(x, id)
      BY <3>2, KnownIsUsed
    <3>4. events[id] = None /\ UNCHANGED dbVars
      BY <2>3, <3>2, AppSends DEF Owned, OwnedBy
    <3>5. KnownOnlyTo(d, id)'
      <4>1. ASSUME NEW x \in Devices \ {d} PROVE ~ Knows(x, id)'
        BY <2>3, <3>3, StepIsApart, KnowsApart
      <4>2. QED BY <4>1 DEF KnownOnlyTo
    <3>6. ~ Sees(d, id)' /\ \A p \in Outstanding(d)' : ~ Changes(p, id)
      <4>1. ~ Sees(d, id) /\ \A p \in Outstanding(d) : ~ Changes(p, id)
        BY <3>3, WritesAreKnown
      <4>2. \A p \in Outstanding(d) : ~ (p.kind = "saveEvent" /\ p.id = id)
        BY <3>3, WritesAreKnown DEF Writes
      <4>3. QED BY <2>3, <3>4, <4>1, <4>2, NothingBegins
    <3>7. events'[id] = None
      BY <3>4 DEF dbVars
    <3>8. Coming(d, id)'
      BY <3>5, <3>6, <3>7 DEF Coming
    <3>9. QED BY <3>1, <3>8
  <2>4. QED BY <2>1, <2>2, <2>3, MovesOrSends
<1>3. ASSUME NEW d \in Devices, NEW a \in Replies(d)', a.op.kind = "saveIndex", a.ok
      PROVE  Listed(a.op.id)'
  <2>1. CASE a \in Replies(d)
    <3>1. a.op \in Outstanding(d) /\ Listed(a.op.id)
      BY <1>3, <2>1, RepliesAnswer DEF Entries
    <3>2. PICK id \in Ids : id = a.op.id
      BY <1>1, <1>3, <3>1
    <3>3. Coming(d, id) /\ Listed(id)
      BY <1>3, <3>1, <3>2 DEF Entries
    <3>4. Listed(id)'
      <4>1. CASE UNCHANGED dbVars
        BY <3>3, <4>1 DEF dbVars, Listed
      <4>2. CASE ServerGrants(e)
        <5>1. PICK n \in DOMAIN outbox[e] :
                 /\ outbox[e][n] \in Outstanding(e)
                 /\ Listed(id)' \/ (outbox[e][n].kind = "deleteIndex" /\ outbox[e][n].id = id)
          BY <3>3, <4>2, GrantChanges
        <5>2. ~ (outbox[e][n].kind = "deleteIndex" /\ outbox[e][n].id = id)
          BY <3>3, <5>1, WritesAreKnown DEF Coming, KnownOnlyTo, Changes
        <5>3. QED BY <5>1, <5>2
      <4>3. QED BY <4>1, <4>2, DbStep
    <3>5. QED BY <3>2, <3>4
  <2>2. CASE a \notin Replies(d)
    <3>1. e = d
      BY <2>2, StepIsApart, KnowsApart
    <3>2. ~ IsRead(a.op)
      BY <1>3 DEF IsRead, Reads
    <3>3. ServerGrants(d)
      BY <1>3, <2>2, <3>1, <3>2, NewReplyIsGranted
    <3>4. PICK n \in DOMAIN outbox[d], b \in GoodAnswers :
             /\ b.op = outbox[d][n] /\ Replies(d)' = Replies(d) \cup {b}
             /\ \A id : outbox[d][n].kind = "saveIndex" /\ outbox[d][n].id = id => Listed(id)'
      BY <3>3, GrantChanges
    <3>5. a = b
      BY <2>2, <3>4
    <3>6. PICK id : id = outbox[d][n].id
      OBVIOUS
    <3>7. Listed(id)'
      BY <1>3, <3>4, <3>5, <3>6
    <3>8. QED BY <3>4, <3>5, <3>6, <3>7
  <2>3. QED BY <2>1, <2>2
<1>4. QED BY <1>2, <1>3 DEF Entries
-----------------------------------------------------------------------------
(* A save that is not yet granted is known to its device alone.            *)
LEMMA UnsavedIs ==
    ASSUME Shape, Owned, Saves, NEW d \in Devices, NEW n, Unsaved(d, n)
    PROVE  /\ n \in Nat \ {0} /\ outbox[d][n] \in Outstanding(d)
           /\ \E id \in Ids : /\ id = outbox[d][n].id /\ id \in usedIds
                              /\ Saving(d, n, id)
<1>1. n \in DOMAIN outbox[d] /\ outbox[d][n].kind # "readIndex"
  BY DEF Unsaved
<1>2. outbox[d][n] \in Outstanding(d)
  BY <1>1, PlacesAreOutstanding
<1>3. outbox[d] \in Seq(GoodRequests)
  BY OutstandingIs
<1>4. n \in Nat \ {0}
  BY <1>1, <1>3
<1>5. QED BY <1>1, <1>2, <1>4, OutstandingIdsAreUsed DEF Saves

(* The steps of the other devices leave it alone.                          *)
LEMMA OthersLeaveSaves ==
    ASSUME Shape, Shape', Owned, Saves, NEW d \in Devices, NEW e \in Devices \ {d}, StepOf(e),
           NEW n, Unsaved(d, n)', NEW id, id = outbox'[d][n].id
    PROVE  Saving(d, n, id)'
<1>1. outbox'[d] = outbox[d] /\ answers'[d] = answers[d] /\ mainQ'[d] = mainQ[d]
  BY StepIsApart DEF Apart
<1>2. Unsaved(d, n)
  BY <1>1 DEF Unsaved
<1>3. id \in Ids /\ id \in usedIds /\ Saving(d, n, id)
  BY <1>1, <1>2, UnsavedIs
<1>4. KnownOnlyTo(d, id)' /\ events'[id] = None /\ Listed(id)'
  BY <1>3, OnlyOneKnows DEF Saving
<1>5. Behind(d, n, id)'
  BY <1>1, <1>3 DEF Saving, Behind
<1>6. QED BY <1>4, <1>5 DEF Saving

(* Nor does a grant to its own device of a request before it.              *)
LEMMA GrantLeavesSaves ==
    ASSUME Shape, Shape', Owned, Unique, Saves, NEW d \in Devices, StepOf(d), ServerGrants(d),
           NEW n, Unsaved(d, n)', NEW id, id = outbox'[d][n].id
    PROVE  Saving(d, n, id)'
<1>1. PICK k \in DOMAIN outbox[d] :
         /\ k = Len(answers[d]) + 1 /\ k \in Nat
         /\ Len(answers'[d]) = k /\ outbox' = outbox /\ mainQ' = mainQ
         /\ \A x \in Ids :
               events'[x] = IF outbox[d][k].id # x THEN events[x]
                            ELSE CASE outbox[d][k].kind \in {"saveEvent", "updateEvent"}
                                         -> outbox[d][k].text
                                   [] outbox[d][k].kind = "deleteEvent" -> None
                                   [] OTHER -> events[x]
         /\ \A x \in Ids : Listed(x) =>
               Listed(x)' \/ (outbox[d][k].kind = "deleteIndex" /\ outbox[d][k].id = x)
  BY GrantChanges
<1>2. /\ n \in DOMAIN outbox[d] /\ n > k /\ outbox[d][n].kind = "saveEvent"
      /\ ~ outbox[d][n].redo /\ id = outbox[d][n].id
  BY <1>1 DEF Unsaved
<1>3. n \in Nat /\ Len(answers[d]) \in Nat
  <2>1. outbox[d] \in Seq(GoodRequests) /\ answers[d] \in Seq(GoodAnswers)
    BY OutstandingIs
  <2>2. QED BY <1>2, <2>1
<1>4. Unsaved(d, n)
  BY <1>1, <1>2, <1>3 DEF Unsaved
<1>5. id \in Ids /\ id \in usedIds /\ Saving(d, n, id)
  BY <1>2, <1>4, UnsavedIs
<1>6. KnownOnlyTo(d, id)'
  BY <1>5, OnlyOneKnows DEF Saving
<1>7. ~ Changes(outbox[d][k], id)
  BY <1>1, <1>2, <1>3, <1>5 DEF Saving, Behind
<1>8. outbox[d][k].id = id => outbox[d][k].kind # "saveEvent"
  <2>1. SUFFICES ASSUME outbox[d][k].id = id, outbox[d][k].kind = "saveEvent" PROVE FALSE
    OBVIOUS
  <2>2. Clash(outbox[d][k], outbox[d][n])
    BY <1>2, <2>1 DEF Clash, IsSave
  <2>3. k = n
    BY <1>1, <1>2, <2>2 DEF Unique, Once
  <2>4. QED BY <1>1, <1>2, <2>3
<1>9. events'[id] = None /\ Listed(id)'
  BY <1>1, <1>5, <1>7, <1>8 DEF Saving, Changes
<1>10. Behind(d, n, id)'
  BY <1>1, <1>5 DEF Saving, Behind
<1>11. QED BY <1>6, <1>9, <1>10 DEF Saving

(* The rest of the network keeps a save, unless it is a redo, before the   *)
(* writes that were made after it.                                         *)
LEMMA NetworkLeavesSaves ==
    ASSUME Shape, Shape', Owned, Saves, NEW d \in Devices, StepOf(d), OnNetwork(d), UNCHANGED dbVars,
           NEW n, Unsaved(d, n)', NEW id, id = outbox'[d][n].id
    PROVE  Saving(d, n, id)'
<1>1. PICK at \in [DOMAIN outbox'[d] -> DOMAIN outbox[d]] :
         /\ \A i \in DOMAIN outbox'[d] :
               /\ Same(outbox'[d][i], outbox[d][at[i]])
               /\ ~ outbox'[d][i].redo =>
                     /\ outbox'[d][i] = outbox[d][at[i]]
                     /\ i > Len(answers'[d]) => at[i] > Len(answers[d])
         /\ \A i, j \in DOMAIN outbox'[d] :
               outbox'[d][i].kind \in Writes /\ outbox'[d][j].kind \in Writes /\ at[i] < at[j]
                   => i < j
         /\ \/ mainQ'[d] = mainQ[d]
            \/ \E k \in DOMAIN outbox[d], a \in GoodTasks :
                  /\ mainQ'[d] = Append(mainQ[d], a) /\ a.do = "answer" /\ a.op = outbox[d][k]
                  /\ IsRead(a.op) \/ k = 1
  BY NetworkMovesOutbox DEF OnNetwork
<1>2. /\ n \in DOMAIN outbox'[d] /\ at[n] \in DOMAIN outbox[d]
      /\ outbox'[d][n].kind = "saveEvent" /\ outbox[d][at[n]].id = id /\ Unsaved(d, at[n])
  BY <1>1 DEF Unsaved
<1>3. PICK m : m = at[n]
  OBVIOUS
<1>4. /\ m \in Nat \ {0} /\ id \in Ids /\ id \in usedIds /\ Saving(d, m, id)
  BY <1>2, <1>3, UnsavedIs
<1>5. KnownOnlyTo(d, id)'
  BY <1>4, OnlyOneKnows DEF Saving
<1>6. events'[id] = None /\ Listed(id)'
  BY <1>4 DEF Saving, dbVars, Listed
<1>7. ASSUME NEW i \in DOMAIN outbox'[d], Changes(outbox'[d][i], id)
      PROVE  i > n /\ outbox'[d][i].kind # "deleteIndex"
  <2>1. Changes(outbox[d][at[i]], id) /\ outbox'[d][i].kind = outbox[d][at[i]].kind
    BY <1>1, <1>7 DEF Same, Changes
  <2>2. at[i] > m /\ outbox'[d][i].kind # "deleteIndex"
    BY <1>1, <1>4, <2>1 DEF Saving, Behind
  <2>3. outbox'[d][i].kind \in Writes /\ outbox'[d][n].kind \in Writes
    BY <1>2, <1>7 DEF Changes, Writes
  <2>4. at[i] \in Nat /\ i \in Nat /\ n \in Nat
    <3>1. outbox[d] \in Seq(GoodRequests) /\ outbox'[d] \in Seq(GoodRequests)
      BY OutstandingIs DEF Shape, Types
    <3>2. at[i] \in DOMAIN outbox[d]
      BY <1>1
    <3>3. QED BY <1>2, <3>1, <3>2
  <2>5. n < i
    BY <1>1, <1>2, <1>3, <1>4, <2>2, <2>3, <2>4
  <2>6. QED BY <2>2, <2>4, <2>5
<1>8. ASSUME NEW t \in Handed(mainQ'[d]) PROVE ~ Changes(t.op, id)
  <2>1. CASE t \in Handed(mainQ[d])
    BY <1>4, <2>1 DEF Saving, Behind
  <2>2. CASE t \notin Handed(mainQ[d])
    <3>1. PICK k \in DOMAIN outbox[d], a \in GoodTasks :
             /\ mainQ'[d] = Append(mainQ[d], a) /\ a.do = "answer" /\ a.op = outbox[d][k]
             /\ IsRead(a.op) \/ k = 1
      BY <1>1, <1>8, <2>2
    <3>2. t = a
      <4>1. mainQ[d] \in Seq(GoodTasks)
        BY OutstandingIs
      <4>2. ToSet(mainQ'[d]) = ToSet(mainQ[d]) \cup {a}
        BY <3>1, <4>1, MembersOfSeq
      <4>3. QED BY <1>8, <2>2, <4>2 DEF Handed
    <3>3. CASE IsRead(a.op)
      BY <3>2, <3>3 DEF IsRead, Reads, Changes
    <3>4. CASE k = 1
      <4>1. ~ Changes(outbox[d][1], id)
        BY <1>4, <3>1, <3>4 DEF Saving, Behind
      <4>2. QED BY <3>1, <3>2, <3>4, <4>1
    <3>5. QED BY <3>1, <3>3, <3>4
  <2>3. QED BY <2>1, <2>2
<1>9. Behind(d, n, id)'
  BY <1>7, <1>8 DEF Behind
<1>10. QED BY <1>5, <1>6, <1>9 DEF Saving

(* The app's own steps put a save behind the answer to its entry, and what *)
(* changes the event behind the save.                                      *)
LEMMA AppLeavesSaves ==
    ASSUME Shape, Shape', Owned, Unique, Entries, Saves,
           NEW d \in Devices, StepOf(d), ~ OnNetwork(d),
           NEW n, Unsaved(d, n)', NEW id, id = outbox'[d][n].id
    PROVE  Saving(d, n, id)'
<1>1. UNCHANGED dbVars /\ Sends(d)
  BY AppSends
<1>2. n \in DOMAIN outbox'[d] /\ outbox'[d][n].kind = "saveEvent"
  BY DEF Unsaved
<1>3. /\ answers'[d] = answers[d]
      /\ \A i \in DOMAIN outbox'[d] :
            \/ i \in DOMAIN outbox[d] /\ outbox'[d][i] = outbox[d][i]
            \/ i > Len(outbox[d]) /\ Sent(d, outbox'[d][i])
      /\ \A t \in Handed(mainQ'[d]) : t \in Handed(mainQ[d]) \/ IsRead(t.op)
  BY <1>1, <1>2, EmptySeq DEF Sends
<1>4. /\ outbox[d] \in Seq(GoodRequests) /\ outbox'[d] \in Seq(GoodRequests)
      /\ Len(outbox[d]) \in Nat /\ DOMAIN outbox[d] = 1 .. Len(outbox[d])
      /\ \A i \in DOMAIN outbox'[d] : i \in Nat
  <2>1. outbox[d] \in Seq(GoodRequests) /\ outbox'[d] \in Seq(GoodRequests)
    BY OutstandingIs DEF Shape, Types
  <2>2. QED BY <2>1
<1>5. \A t : IsRead(t.op) => ~ Changes(t.op, id)
  BY DEF IsRead, Reads, Changes
<1>6. CASE n \in DOMAIN outbox[d] /\ outbox'[d][n] = outbox[d][n]
  <2>1. Unsaved(d, n)
    BY <1>3, <1>6 DEF Unsaved
  <2>2. id \in Ids /\ id \in usedIds /\ Saving(d, n, id)
    BY <1>6, <2>1, UnsavedIs
  <2>3. KnownOnlyTo(d, id)'
    BY <2>2, OnlyOneKnows DEF Saving
  <2>4. events'[id] = None /\ Listed(id)'
    BY <1>1, <2>2 DEF Saving, dbVars, Listed
  <2>5. ASSUME NEW i \in DOMAIN outbox'[d], Changes(outbox'[d][i], id)
        PROVE  i > n /\ outbox'[d][i].kind # "deleteIndex"
    <3>1. CASE i \in DOMAIN outbox[d] /\ outbox'[d][i] = outbox[d][i]
      BY <2>2, <2>5, <3>1 DEF Saving, Behind
    <3>2. CASE i > Len(outbox[d]) /\ Sent(d, outbox'[d][i])
      <4>1. i > n
        BY <1>4, <1>6, <3>2
      <4>2. \A a \in Handed(mainQ[d]) : ~ (a.op.id = id /\ a.op.kind = "deleteEvent")
        BY <2>2 DEF Saving, Behind, Changes
      <4>3. outbox'[d][i].kind # "deleteIndex"
        BY <2>5, <3>2, <4>2 DEF Sent, Changes, IsRead, Reads
      <4>4. QED BY <4>1, <4>3
    <3>3. QED BY <1>3, <3>1, <3>2
  <2>6. \A t \in Handed(mainQ'[d]) : ~ Changes(t.op, id)
    BY <1>3, <1>5, <2>2 DEF Saving, Behind
  <2>7. Behind(d, n, id)'
    BY <2>5, <2>6 DEF Behind
  <2>8. QED BY <2>3, <2>4, <2>7 DEF Saving
<1>7. CASE Sent(d, outbox'[d][n])
  <2>1. PICK a \in Handed(mainQ[d]) : a.ok /\ a.op.id = id /\ a.op.kind = "saveIndex"
    BY <1>2, <1>7 DEF Sent, IsRead, Reads
  <2>2. a.op \in Outstanding(d) /\ a \in Replies(d)
    BY WritesAreKnown
  <2>3. Listed(id) /\ Coming(d, id) /\ id \in Ids /\ id \in usedIds
    BY <2>1, <2>2, OutstandingIdsAreUsed DEF Entries
  <2>4. Coming(d, id)'
    BY <2>1, <2>2, <2>3, ComingStep
  <2>5. Listed(id)'
    BY <1>1, <2>3 DEF dbVars, Listed
  <2>6. Behind(d, n, id)'
    BY <2>4 DEF Coming, Behind, Outstanding, ToSet, Handed
  <2>7. QED BY <2>4, <2>5, <2>6 DEF Saving, Coming
<1>8. QED BY <1>2, <1>3, <1>6, <1>7

(* Saves is kept.                                                          *)
LEMMA SavesStep ==
    ASSUME Shape, Shape', Owned, Unique, Entries, Saves, NEW e \in Devices, StepOf(e)
    PROVE  Saves'
<1>1. ASSUME NEW d \in Devices, NEW n, Unsaved(d, n)', NEW id, id = outbox'[d][n].id
      PROVE  Saving(d, n, id)'
  <2>1. CASE d # e
    BY <1>1, <2>1, OthersLeaveSaves
  <2>2. CASE d = e /\ ServerGrants(d)
    BY <1>1, <2>2, GrantLeavesSaves
  <2>3. CASE d = e /\ OnNetwork(d) /\ UNCHANGED dbVars
    BY <1>1, <2>3, NetworkLeavesSaves
  <2>4. CASE d = e /\ ~ OnNetwork(d)
    BY <1>1, <2>4, AppLeavesSaves
  <2>5. QED BY <2>1, <2>2, <2>3, <2>4, DbStep
<1>2. ASSUME NEW d \in Devices, NEW n \in DOMAIN outbox'[d], Unsaved(d, n)'
      PROVE  Saving(d, n, outbox[d][n].id)'
  <2>1. PICK id : id = outbox'[d][n].id
    OBVIOUS
  <2>2. Saving(d, n, id)'
    BY <1>1, <1>2, <2>1
  <2>3. QED BY <2>1, <2>2 DEF Saving
<1>3. QED BY <1>2 DEF Saves
-----------------------------------------------------------------------------
(* A write that puts an event where there is none revives it, unless it is *)
(* the first save of the event.                                            *)
LEMMA AppearsBySaving ==
    ASSUME Shape, Saves, NEW e \in Devices, StepOf(e), NEW id \in Ids,
           events[id] = None, events'[id] # None, id \notin revived'
    PROVE  \E n : /\ Unsaved(e, n) /\ n = Len(answers[e]) + 1 /\ outbox[e][n].id = id
                  /\ ServerGrants(e) /\ Saving(e, n, id)
<1>1. ServerGrants(e)
  BY DbStep DEF dbVars
<1>2. PICK n \in DOMAIN outbox[e] :
         /\ n = Len(answers[e]) + 1 /\ n \in Nat /\ outbox[e][n] \in GoodRequests
         /\ events'[id] = IF outbox[e][n].id # id THEN events[id]
                          ELSE CASE outbox[e][n].kind \in {"saveEvent", "updateEvent"}
                                       -> outbox[e][n].text
                                 [] outbox[e][n].kind = "deleteEvent" -> None
                                 [] OTHER -> events[id]
         /\ Revives(outbox[e][n]) => outbox[e][n].id \in revived'
  BY <1>1, GrantChanges
<1>3. outbox[e][n].id = id /\ outbox[e][n].kind \in {"saveEvent", "updateEvent"}
  BY <1>2
<1>4. ~ Revives(outbox[e][n])
  BY <1>2, <1>3
<1>5. outbox[e][n].kind = "saveEvent" /\ ~ outbox[e][n].redo
  BY <1>3, <1>4 DEF Revives
<1>6. Len(answers[e]) \in Nat
  BY OutstandingIs
<1>7. Unsaved(e, n)
  BY <1>2, <1>5, <1>6 DEF Unsaved
<1>8. Saving(e, n, id)
  BY <1>2, <1>3, <1>7 DEF Saves
<1>9. QED BY <1>1, <1>2, <1>3, <1>7, <1>8

(* What was revived is remembered.                                         *)
LEMMA RevivedGrows ==
    ASSUME Shape, NEW e \in Devices, StepOf(e)
    PROVE  revived \subseteq revived'
BY DbStep, GrantChanges

(* An event that a delete has removed stays gone until it is revived.      *)
LEMMA StaysGone ==
    ASSUME Shape, Saves, NEW d \in Devices, NEW e \in Devices, StepOf(e), NEW id \in Ids, Gone(id),
           \/ \E op \in Outstanding(d) : op.kind = "deleteIndex" /\ op.id = id
           \/ \E a \in Replies(d) : a.op.kind = "deleteEvent" /\ a.op.id = id
    PROVE  Gone(id)'
<1>1. SUFFICES ASSUME events[id] = None, events'[id] # None, id \notin revived'
               PROVE  FALSE
  BY RevivedGrows DEF Gone
<1>2. PICK n : /\ Unsaved(e, n) /\ n = Len(answers[e]) + 1 /\ Saving(e, n, id)
  BY <1>1, AppearsBySaving
<1>3. d = e
  <2>1. Knows(d, id)
    BY RepliesAnswer, WritesAreKnown DEF Writes
  <2>2. QED BY <1>2, <2>1 DEF Saving, KnownOnlyTo
<1>4. CASE \E op \in Outstanding(d) : op.kind = "deleteIndex" /\ op.id = id
  <2>1. PICK op \in Outstanding(d) : op.kind = "deleteIndex" /\ op.id = id
    BY <1>4
  <2>2. Changes(op, id)
    BY <2>1 DEF Changes
  <2>3. op \in ToSet(outbox[d]) \/ \E t \in Handed(mainQ[d]) : op = t.op
    BY OutstandingIs
  <2>4. QED BY <1>2, <1>3, <2>1, <2>2, <2>3 DEF Saving, Behind, ToSet
<1>5. CASE \E a \in Replies(d) : a.op.kind = "deleteEvent" /\ a.op.id = id
  <2>1. PICK a \in Replies(d) : a.op.kind = "deleteEvent" /\ a.op.id = id
    BY <1>5
  <2>2. Changes(a.op, id)
    BY <2>1 DEF Changes
  <2>3. CASE a \in Handed(mainQ[d])
    BY <1>2, <1>3, <2>2, <2>3 DEF Saving, Behind
  <2>4. CASE \E i \in DOMAIN outbox[d] : i <= Len(answers[d]) /\ a.op = outbox[d][i]
    <3>1. PICK i \in DOMAIN outbox[d] : i <= Len(answers[d]) /\ a.op = outbox[d][i]
      BY <2>4
    <3>2. i > n
      BY <1>2, <1>3, <2>2, <3>1 DEF Saving, Behind
    <3>3. i \in Nat /\ Len(answers[d]) \in Nat
      <4>1. outbox[d] \in Seq(GoodRequests) /\ answers[d] \in Seq(GoodAnswers)
        BY OutstandingIs
      <4>2. QED BY <3>1, <4>1
    <3>4. QED BY <1>2, <1>3, <3>1, <3>2, <3>3
  <2>5. QED BY <2>3, <2>4, RepliesAnswer
<1>6. QED BY <1>4, <1>5

(* Deletes is kept: the entry is dropped only once the event is gone.      *)
LEMMA DeletesStep ==
    ASSUME Shape, Shape', Owned, Saves, Deletes, NEW e \in Devices, StepOf(e)
    PROVE  Deletes'
<1>1. ASSUME NEW d \in Devices, NEW id \in Ids,
             \/ \E op \in Outstanding(d) : op.kind = "deleteIndex" /\ op.id = id
             \/ \E a \in Replies(d) : a.op.kind = "deleteEvent" /\ a.ok /\ a.op.id = id
      PROVE  Gone(id)'
  <2>1. Gone(id)
    BY <1>1 DEF Deletes
  <2>2. QED BY <1>1, <2>1, StaysGone
<1>2. ASSUME NEW d \in Devices, NEW op \in Outstanding(d)', op.kind = "deleteIndex"
      PROVE  Gone(op.id)'
  <2>1. PICK id : id = op.id
    OBVIOUS
  <2>2. op \in GoodRequests
    BY OutstandingIsGoodAfter
  <2>3. id \in Ids
    BY <1>2, <2>1, <2>2 DEF GoodRequests
  <2>4. CASE \E p \in Outstanding(d) : Same(op, p)
    BY <1>1, <1>2, <2>1, <2>3, <2>4 DEF Same
  <2>5. CASE e # d
    <3>1. Outstanding(d)' = Outstanding(d)
      BY <2>5, StepIsApart, KnowsApart
    <3>2. QED BY <2>4, <3>1 DEF Same
  <2>6. CASE Sent(d, op)
    <3>1. PICK a \in Handed(mainQ[d]) : a.ok /\ a.op.id = id /\ a.op.kind = "deleteEvent"
      BY <1>2, <2>1, <2>6 DEF Sent, IsRead, Reads
    <3>2. a \in Replies(d)
      BY WritesAreKnown
    <3>3. Gone(id)'
      BY <1>1, <2>3, <3>1, <3>2
    <3>4. QED BY <2>1, <3>3 DEF Gone
  <2>7. Gone(id)' => Gone(op.id)'
    BY <2>1 DEF Gone
  <2>8. QED BY <2>4, <2>5, <2>6, <2>7, MovesOrSends
<1>3. ASSUME NEW d \in Devices, NEW a \in Replies(d)', a.op.kind = "deleteEvent", a.ok
      PROVE  Gone(a.op.id)'
  <2>1. PICK id : id = a.op.id
    OBVIOUS
  <2>2. CASE a \in Replies(d)
    <3>1. a.op \in GoodRequests
      BY <2>2, RepliesAnswer
    <3>2. id \in Ids
      BY <1>3, <2>1, <3>1 DEF GoodRequests
    <3>3. Gone(id)'
      BY <1>1, <1>3, <2>1, <2>2, <3>2
    <3>4. QED BY <2>1, <3>3 DEF Gone
  <2>3. CASE a \notin Replies(d)
    <3>1. e = d
      BY <2>3, StepIsApart, KnowsApart
    <3>2. ServerGrants(d)
      BY <1>3, <2>3, <3>1, NewReplyIsGranted DEF IsRead, Reads
    <3>3. PICK n \in DOMAIN outbox[d], b \in GoodAnswers :
             /\ outbox[d][n] \in GoodRequests
             /\ b.op = outbox[d][n] /\ Replies(d)' = Replies(d) \cup {b}
             /\ \A x \in Ids :
                   events'[x] = IF outbox[d][n].id # x THEN events[x]
                                ELSE CASE outbox[d][n].kind \in {"saveEvent", "updateEvent"}
                                             -> outbox[d][n].text
                                       [] outbox[d][n].kind = "deleteEvent" -> None
                                       [] OTHER -> events[x]
      BY <3>2, GrantChanges
    <3>4. a = b
      BY <2>3, <3>3
    <3>5. id \in Ids /\ events'[id] = None
      BY <1>3, <2>1, <3>3, <3>4 DEF GoodRequests
    <3>6. QED BY <2>1, <3>5 DEF Gone
  <2>4. QED BY <2>2, <2>3
<1>4. QED BY <1>2, <1>3 DEF Deletes

(* An event without an entry was revived, after every step.                *)
LEMMA OrphanStep ==
    ASSUME Shape, Saves, Deletes, OrphansWereRevived, NEW e \in Devices, StepOf(e)
    PROVE  OrphansWereRevived'
<1>1. SUFFICES ASSUME NEW id \in Ids, events'[id] # None, ~ Listed(id)', id \notin revived'
               PROVE  FALSE
  BY DEF OrphansWereRevived
<1>2. id \notin revived
  BY <1>1, RevivedGrows
<1>3. CASE events[id] = None
  <2>1. PICK n : /\ Unsaved(e, n) /\ n = Len(answers[e]) + 1 /\ outbox[e][n].id = id
                 /\ ServerGrants(e) /\ Saving(e, n, id)
    BY <1>1, <1>3, AppearsBySaving
  <2>2. Listed(id) /\ outbox[e][n].kind = "saveEvent"
    BY <2>1 DEF Saving, Unsaved
  <2>3. PICK k \in DOMAIN outbox[e] :
           /\ k = Len(answers[e]) + 1
           /\ Listed(id)' \/ (outbox[e][k].kind = "deleteIndex" /\ outbox[e][k].id = id)
    BY <2>1, <2>2, GrantChanges
  <2>4. QED BY <1>1, <2>1, <2>2, <2>3
<1>4. CASE events[id] # None
  <2>1. Listed(id)
    BY <1>2, <1>4 DEF OrphansWereRevived
  <2>2. ServerGrants(e)
    BY <1>1, <2>1, DbStep DEF dbVars, Listed
  <2>3. PICK k \in DOMAIN outbox[e] :
           /\ outbox[e][k] \in Outstanding(e)
           /\ Listed(id)' \/ (outbox[e][k].kind = "deleteIndex" /\ outbox[e][k].id = id)
    BY <2>1, <2>2, GrantChanges
  <2>4. Gone(id)
    BY <1>1, <2>3 DEF Deletes
  <2>5. QED BY <1>2, <1>4, <2>4 DEF Gone
<1>5. QED BY <1>3, <1>4
-----------------------------------------------------------------------------
OrphanInv == Entries /\ Saves /\ Deletes /\ OrphansWereRevived

(* The writes of a save and of a delete come in an order in which no event *)
(* is ever without its entry, but for those revived.                       *)
THEOREM OrphanInvariant == Spec => []OrphanInv
<1>1. Init => OrphanInv
  <2> SUFFICES ASSUME Init PROVE OrphanInv
    OBVIOUS
  <2>1. ASSUME NEW d \in Devices
        PROVE  outbox[d] = << >> /\ answers[d] = << >> /\ mainQ[d] = << >>
    BY DEF Init, ClientInit
  <2>2. ASSUME NEW d \in Devices PROVE Outstanding(d) = {} /\ Replies(d) = {}
    BY <2>1, EmptySeq DEF Outstanding, Replies, Handed, ToSet
  <2>3. Entries /\ Deletes
    BY <2>2 DEF Entries, Deletes
  <2>4. Saves
    BY <2>1, EmptySeq DEF Saves
  <2>5. OrphansWereRevived
    BY DEF OrphansWereRevived, Listed, Init
  <2>6. QED BY <2>3, <2>4, <2>5 DEF OrphanInv
<1>2. AppInv /\ AppInv' /\ ReadInv /\ OrphanInv /\ [Next]_vars => OrphanInv'
  <2> SUFFICES ASSUME AppInv, AppInv', ReadInv, OrphanInv, [Next]_vars PROVE OrphanInv'
    OBVIOUS
  <2>1. Shape /\ Shape' /\ Owned /\ Unique /\ Entries /\ Saves /\ Deletes /\ OrphansWereRevived
    BY DEF AppInv, ReadInv, OrphanInv
  <2>2. CASE Next
    <3>1. PICK e \in Devices : StepOf(e)
      BY <2>2, StepCases
    <3>2. QED BY <2>1, <3>1, EntriesStep, SavesStep, DeletesStep, OrphanStep DEF OrphanInv
  <2>3. CASE UNCHANGED vars
    <3>1. /\ dbVars' = dbVars /\ outbox' = outbox /\ answers' = answers /\ mainQ' = mainQ
          /\ stack' = stack /\ revived' = revived
      BY <2>3 DEF vars, netVars, histVars, appVars, screenVars
    <3>2. index' = index /\ events' = events
      BY <3>1 DEF dbVars
    <3>3. \A d \in Devices : \A id : Sees(d, id)' <=> Sees(d, id)
      BY <3>1 DEF Sees, OnScreen, Replies
    <3>4. \A d \in Devices : Outstanding(d)' = Outstanding(d) /\ Replies(d)' = Replies(d)
      BY <3>1 DEF Outstanding, Replies
    <3>5. \A d \in Devices : \A id : KnownOnlyTo(d, id)' <=> KnownOnlyTo(d, id)
      BY <3>3, <3>4 DEF KnownOnlyTo, Knows
    <3>6. Entries'
      BY <2>1, <3>2, <3>3, <3>4, <3>5 DEF Entries, Coming, Listed
    <3>7. Saves'
      BY <2>1, <3>1, <3>2, <3>5 DEF Saves, Saving, Unsaved, Behind, Listed
    <3>8. Deletes' /\ OrphansWereRevived'
      BY <2>1, <3>1, <3>2, <3>4 DEF Deletes, Gone, OrphansWereRevived, Listed
    <3>9. QED BY <3>6, <3>7, <3>8 DEF OrphanInv
  <2>4. QED BY <2>2, <2>3
<1>3. QED BY <1>1, <1>2, AppInvariant, ReadInvariant, PTL DEF Spec

(* An event that nobody lists, which no screen can ever show or delete     *)
(* again, is one that an update, or a save sent again, wrote over a        *)
(* deleted event (EventService.saveEvent, HomeService.deleteEvent).        *)
THEOREM OrphansAreRevived == Spec => []OrphansWereRevived
<1>1. OrphanInv => OrphansWereRevived
  BY DEF OrphanInv
<1>2. QED BY <1>1, OrphanInvariant, PTL
-----------------------------------------------------------------------------
(***************************************************************************)
(* While one device has run the app, without faults, the Home on show      *)
(* lists no event that is gone, unless a write of it is under way          *)
(* (RowsAreStored), and the invariant that says why.                       *)
(*                                                                         *)
(* Loads: a load has collected each event once, and when it is done no     *)
(* read of it is under way. Only the last Home of a stack can come on top  *)
(* again. Whatever it mentions - its rows, the events its load collected,  *)
(* the answers on their way to it - the server has, or will have once the  *)
(* writes under way have arrived (Kept): a delete is tapped when all reads *)
(* of that Home are answered, so no read goes before it (ReadsFollow) and  *)
(* no answer that was given before it is still to come.                    *)
(***************************************************************************)

(* What the screen s is still to be told and what it has collected, if     *)
(* reads are the keys of the reads under way for it.                       *)
LoadFor(s, reads) ==
    LET l == s.load
    IN  /\ reads \subseteq IF l.phase = "index" THEN {None} ELSE l.pending
        /\ l.pending \subseteq IF l.phase = "events" THEN l.wanted \ IdsIn(l.eventArray) ELSE {}
        /\ l.phase = "events" => l.group = Cardinality(l.wanted \ IdsIn(l.eventArray))
        /\ l.phase = "index" => l.eventArray = << >>
        /\ l.eventS = l.eventArray
        /\ \A i, j \in 1 .. Len(l.eventArray) :
              l.eventArray[i].id = l.eventArray[j].id => i = j
        /\ s.rows \subseteq IF l.phase = "done" THEN EventsIn(l.eventArray) ELSE {}
        /\ s.kind # "home" => l = NewLoad

LoadsOf(d) ==
    \A i \in DOMAIN stack[d] : LoadFor(stack[d][i], ReadsOf(Outstanding(d), stack[d][i].no))

LoadsAdd == \A d \in Devices : LoadsOf(d)

\* A request that writes the event with a key.
Writing(op, id) == op.kind \in {"saveEvent", "updateEvent", "deleteEvent"} /\ op.id = id

(* The event with this key is there once the requests of out have arrived. *)
Kept(out, ev, id) ==
    /\ (\A i \in DOMAIN out : ~ Writing(out[i], id)) => ev[id] # None
    /\ \A i \in DOMAIN out : Writing(out[i], id) /\ out[i].text = None
          => \E j \in DOMAIN out : j > i /\ Writing(out[j], id)

(* The last of the first n writes of an event is what the server has.      *)
Applied(out, n, ev) ==
    \A id \in Ids, i \in DOMAIN out :
        i <= n /\ Writing(out[i], id)
               /\ (\A j \in DOMAIN out : i < j /\ j <= n => ~ Writing(out[j], id))
            => ev[id] = out[i].text

Erases(out) == \A i \in DOMAIN out : out[i].kind = "deleteEvent" => out[i].text = None

IsLastHome(st, i) == st[i].kind = "home" /\ \A j \in DOMAIN st : j > i => st[j].kind # "home"

(* No event is deleted behind a read of the screen no.                     *)
ReadsFollow(out, no) ==
    \A i, j \in DOMAIN out :
        i < j /\ IsRead(out[i]) /\ out[i].src = no => out[j].kind # "deleteEvent"

(* What the screen s shows, or will show when its load is done.            *)
Mentions(s, replies, id) ==
    \/ \E row \in s.rows : row.id = id
    \/ s.load.phase \in {"events", "notify"} /\ id \in IdsIn(s.load.eventArray)
    \/ \E a \in replies : a.op.src = s.no /\ Tells(a, id)

\* The last Home mentions only what is kept.
KeptFor(d, s) ==
    /\ ReadsFollow(outbox[d], s.no)
    /\ \A id \in Ids : Mentions(s, Replies(d), id) => Kept(outbox[d], events, id)

RowsKept(d) ==
    /\ Applied(outbox[d], Len(answers[d]), events) /\ Erases(outbox[d])
    /\ \A i \in DOMAIN stack[d] : IsLastHome(stack[d], i) => KeptFor(d, stack[d][i])

Lone(d) == stack[d] # << >> /\ faults = 0 /\ \A e \in Devices \ {d} : status[e] = "down"
-----------------------------------------------------------------------------
\* What a step of the app does to the screens, if it starts or ends no load.
KeepsScreens(d) ==
    /\ \A i \in DOMAIN stack'[d] :
          \/ i \in DOMAIN stack[d] /\ stack'[d][i] = stack[d][i]
          \/ /\ i > Len(stack[d]) /\ stack'[d][i] \in NewScreens /\ stack'[d][i].kind # "home"
             /\ \A op \in Outstanding(d) : IsRead(op) => op.src # stack'[d][i].no
    /\ \A i \in DOMAIN stack[d] : i \notin DOMAIN stack'[d] => stack[d][i].kind # "home"

\* ... and to the requests, if it sends no read and deletes no event.
Proceeds(d) ==
    /\ answers'[d] = answers[d] /\ Handed(mainQ'[d]) \subseteq Handed(mainQ[d])
    /\ \/ outbox'[d] = outbox[d]
       \/ \E op \in GoodRequests : /\ ~ IsRead(op) /\ op.kind # "deleteEvent"
                                   /\ outbox'[d] = Append(outbox[d], op)

\* A Home appears and asks for the list of its account.
ShowsHome(d) ==
    \E s \in GoodScreens, op \in GoodRequests :
        /\ s.kind = "home" /\ s.load = AskIndex(NewLoad) /\ s.rows = {}
        /\ op.kind = "readIndex" /\ op.id = None /\ op.src = s.no
        /\ stack'[d] = Append(stack[d], s) /\ outbox'[d] = Append(outbox[d], op)
        /\ answers'[d] = answers[d] /\ Handed(mainQ'[d]) \subseteq Handed(mainQ[d])
        /\ \A p \in Outstanding(d) : IsRead(p) => p.src # s.no
        /\ \A i \in DOMAIN stack[d] : stack[d][i].no # s.no

\* The network moves, and the app does not.
Carries(d) == OnNetwork(d) /\ UNCHANGED appVars

(* What a step of the app is, for the events that are shown.               *)
LEMMA AppStepIs ==
    ASSUME Shape, Numbered, NEW d \in Devices, StepOf(d), ~ Carries(d)
    PROVE  \/ \E why : Stop(d, why)
           \/ KeepsScreens(d) /\ Proceeds(d)
           \/ ShowsHome(d)
           \/ DidTapDelete(d) \/ OnReadIndex(d) \/ OnReadEvent(d) \/ Notify(d)
<1> DEFINE q == mainQ[d]
<1>1. q \in Seq(GoodTasks) /\ stack[d] \in Seq(GoodScreens) /\ outbox[d] \in Seq(GoodRequests)
  BY OutstandingIs
<1>2. stack'[d] = stack[d] => KeepsScreens(d)
  BY DEF KeepsScreens
<1>3. CASE \/ DidTapLogOut(d) \/ DidCancelLogOut(d) \/ DidTapLogIn(d) \/ SignInAnswered(d)
           \/ DidTapAddEvent(d) \/ DidTapEdit(d) \/ DidConfirmLogOut(d)
  <2>1. /\ UNCHANGED netVars
        /\ mainQ'[d] = q \/ \E t : t.do # "answer" /\ mainQ'[d] = Append(q, t)
    BY <1>3, TapsOnlyQueue
  <2>2. Proceeds(d)
    BY <1>1, <2>1, HandedByBlocks DEF Proceeds, netVars
  <2>3. stack'[d] = stack[d]
    BY <1>3, QuietSteps, NavigatingSteps DEF Navigates
  <2>4. QED BY <1>2, <2>2, <2>3
<1>4. CASE DidTapBack(d)
  <2>1. /\ UNCHANGED <<netVars, mainQ>>
        /\ \A i \in DOMAIN stack'[d] : i \in DOMAIN stack[d] /\ stack'[d][i] = stack[d][i]
    BY <1>4, BackPops
  <2>2. Proceeds(d)
    BY <2>1 DEF Proceeds, netVars
  <2>3. \A i \in DOMAIN stack[d] : i \notin DOMAIN stack'[d] => stack[d][i].kind # "home"
    <3>1. PICK kind \in {"event", "edit", "auth"} : OnTop(d, kind)
      BY <1>4 DEF DidTapBack
    <3>2. stack'[d] = Front(stack[d]) /\ Len(stack[d]) > 1
      BY <1>4 DEF DidTapBack, Shape, Types
    <3>3. stack[d][Len(stack[d])].kind # "home"
      BY <3>1, TopIsScreen
    <3>4. QED BY <1>1, <3>2, <3>3 DEF Front
  <2>4. KeepsScreens(d)
    BY <2>1, <2>3 DEF KeepsScreens
  <2>5. QED BY <2>2, <2>4
<1>5. CASE OnAlert(d) \/ OnSignedIn(d) \/ OnSaved(d) \/ OnDeleteIndex(d)
  <2>1. /\ UNCHANGED netVars /\ q # << >>
        /\ \/ mainQ'[d] = Tail(q) \/ \E t : t.do # "answer" /\ mainQ'[d] = Append(Tail(q), t)
    BY <1>5, BlocksTakeTheirs
  <2>2. Proceeds(d)
    BY <1>1, <2>1, HandedByBlocks DEF Proceeds, netVars
  <2>3. stack'[d] = stack[d]
    BY <1>5 DEF OnAlert, OnSignedIn, OnSaved, OnDeleteIndex, appVars, screenVars
  <2>4. QED BY <1>2, <2>2, <2>3
<1>6. CASE Kill(d) \/ (DidTapSaveEvent(d) /\ Top(d).user = None)
  BY <1>6 DEF Kill, DidTapSaveEvent, Trap
<1>7. CASE DidTapUpdate(d) \/ (DidTapSaveEvent(d) /\ Top(d).user # None)
  <2>1. \E op \in GoodRequests : /\ op.kind \in {"updateEvent", "saveIndex"}
                                 /\ outbox'[d] = Append(outbox[d], op)
    BY <1>7, SendingTaps DEF Request
  <2>2. UNCHANGED <<answers, mainQ, stack>>
    BY <1>7, SendingTaps
  <2>3. Proceeds(d)
    BY <2>1, <2>2 DEF Proceeds, IsRead, Reads
  <2>4. QED BY <1>2, <2>2, <2>3
<1>8. CASE OnSaveIndex(d) \/ OnDeleteEvent(d)
  <2> DEFINE a == Head(q)
             kind == IF a.op.kind = "saveIndex" THEN "saveEvent" ELSE "deleteIndex"
             op == [a.op EXCEPT !.kind = kind, !.redo = FALSE]
  <2>1. /\ a.op \in GoodRequests /\ q # << >>
        /\ \/ \E why : Stop(d, why)
           \/ /\ mainQ'[d] = Tail(q) /\ UNCHANGED <<answers, stack>>
              /\ IF a.ok THEN op \in GoodRequests /\ outbox'[d] = Append(outbox[d], op)
                         ELSE outbox'[d] = outbox[d]
    BY <1>8, ContinuingSteps
  <2>2. ~ IsRead(op) /\ op.kind # "deleteEvent"
    BY <2>1 DEF IsRead, Reads, GoodRequests, Requests
  <2>3. Handed(Tail(q)) \subseteq Handed(q)
    BY <1>1, <2>1, QueueShrinks
  <2> HIDE DEF op, q
  <2>4. CASE ~ \E why : Stop(d, why)
    BY <1>2, <2>1, <2>2, <2>3, <2>4 DEF Proceeds, q
  <2>5. QED BY <2>4
<1>9. CASE Launch(d)
  <2> DEFINE screen == Screen(1, IF user[d] = None THEN "auth" ELSE "home", None, NoEvent)
             op == ReadIndex(user[d], 1)
             home == Loading(screen, user[d])
  <2>1. /\ screen \in NewScreens /\ screen.no = 1
        /\ outbox[d] = << >> /\ mainQ[d] = << >> /\ mainQ'[d] = << >> /\ answers' = answers
        /\ \/ outbox'[d] = << >> /\ stack'[d] = <<screen>>
           \/ /\ user[d] \in Users /\ op \in GoodRequests
              /\ outbox'[d] = <<op>> /\ stack'[d] = <<home>>
    BY <1>9, LaunchingStep
  <2>2. stack[d] = << >> /\ Outstanding(d) = {} /\ DOMAIN << >> = {} /\ DOMAIN stack[d] = {}
    BY <1>9, <2>1 DEF Launch, Shape, Answering, Outstanding, ToSet
  <2>3. \A s : <<s>> = Append(<< >>, s)
    OBVIOUS
  <2>4. op.src = 1 /\ op.id = None /\ op.kind = "readIndex"
    BY DEF ReadIndex, Request
  <2>5. screen \in GoodScreens /\ screen.rows = {} /\ screen.kind = IF user[d] = None THEN "auth" ELSE "home"
    BY <2>1 DEF NewScreens, Screen
  <2>6. user[d] \in Users => /\ home \in GoodScreens /\ home.no = 1 /\ home.load = AskIndex(NewLoad)
                             /\ home.rows = {} /\ home.kind = screen.kind /\ user[d] # None
    BY <2>1, <2>5, LoadingIs, NoneIsNothing
  <2> HIDE DEF screen, op, home
  <2>7. CASE user[d] \in Users /\ outbox'[d] = <<op>> /\ stack'[d] = <<home>> /\ op \in GoodRequests
    BY <2>1, <2>2, <2>3, <2>4, <2>5, <2>6, <2>7 DEF ShowsHome
  <2>8. CASE outbox'[d] = << >> /\ stack'[d] = <<screen>>
    <3>1. screen.kind # "home"
      BY <1>9, <2>8 DEF Launch, Send, Shape, Types, screen, Screen
    <3>2. Proceeds(d)
      BY <2>1, <2>8 DEF Proceeds
    <3>3. DOMAIN stack'[d] = {1} /\ stack'[d][1] = screen /\ Len(stack[d]) = 0
      BY <2>2, <2>8
    <3>4. KeepsScreens(d)
      BY <2>1, <2>2, <3>1, <3>3 DEF KeepsScreens
    <3>5. QED BY <3>2, <3>4
  <2>9. QED BY <2>1, <2>7, <2>8
<1>10. CASE RunPush(d)
  <2> DEFINE task == Head(q)
             op == ReadIndex(user[d], task.screen.no)
             home == Loading(task.screen, user[d])
  <2>1. /\ q # << >> /\ IsPush(task) /\ task.screen \in NewScreens
        /\ \/ \E why : Stop(d, why)
           \/ /\ mainQ'[d] = Tail(q) /\ answers' = answers
              /\ \/ outbox'[d] = outbox[d] /\ stack'[d] = stack[d]
                 \/ /\ outbox'[d] = outbox[d] /\ task.screen.kind # "home"
                    /\ stack'[d] = Append(stack[d], task.screen)
                 \/ /\ user[d] \in Users /\ op \in GoodRequests /\ task.screen.kind = "home"
                    /\ outbox'[d] = Append(outbox[d], op) /\ stack'[d] = Append(stack[d], home)
    BY <1>10, PushingStep
  <2>2. task.screen \in GoodScreens /\ task.screen.rows = {}
    BY <2>1 DEF NewScreens
  <2>3. /\ \A p \in Outstanding(d) : IsRead(p) => p.src # task.screen.no
        /\ \A i \in DOMAIN stack[d] : stack[d][i].no # task.screen.no
    <3>1. Nos(stack[d], q, built[d], Outstanding(d))
      BY DEF Numbered
    <3>2. 1 \in DOMAIN q /\ q[1] = Head(q)
      BY <1>1, <2>1
    <3>3. \A i \in DOMAIN stack[d] : stack[d][i].no # task.screen.no
      BY <2>1, <3>1, <3>2 DEF Nos
    <3>4. \A p \in Outstanding(d) : IsRead(p) => p.src # task.screen.no
      BY <1>1, <2>1, <2>2, <3>1, NosOfPush
    <3>5. QED BY <3>3, <3>4
  <2>4. user[d] \in Users => /\ home \in GoodScreens /\ home.no = task.screen.no /\ home.rows = {}
                             /\ home.load = AskIndex(NewLoad) /\ home.kind = task.screen.kind
    BY <2>2, LoadingIs
  <2>5. op.src = task.screen.no /\ op.id = None /\ op.kind = "readIndex"
    BY DEF ReadIndex, Request
  <2>6. mainQ'[d] = Tail(q) => Handed(mainQ'[d]) \subseteq Handed(q)
    BY <1>1, <2>1, QueueShrinks
  <2> DEFINE pushed == task.screen
  <2> HIDE DEF op, home, pushed
  <2>7. CASE /\ mainQ'[d] = Tail(q) /\ answers' = answers
             /\ outbox'[d] = outbox[d] /\ stack'[d] = stack[d]
    BY <1>2, <2>6, <2>7 DEF Proceeds
  <2>8. CASE /\ mainQ'[d] = Tail(q) /\ answers' = answers /\ pushed.kind # "home"
             /\ outbox'[d] = outbox[d] /\ stack'[d] = Append(stack[d], pushed)
    <3>1. \A i \in DOMAIN stack'[d] : \/ i \in DOMAIN stack[d] /\ stack'[d][i] = stack[d][i]
                                      \/ i > Len(stack[d]) /\ stack'[d][i] = pushed
      BY <1>1, <2>8, AppendedIs
    <3>2. \A i \in DOMAIN stack[d] : i \in DOMAIN stack'[d]
      BY <1>1, <2>8, AppendProperties, LenProperties
    <3>3. pushed \in NewScreens /\ \A p \in Outstanding(d) : IsRead(p) => p.src # pushed.no
      BY <2>1, <2>3 DEF pushed
    <3>4. KeepsScreens(d)
      BY <2>8, <3>1, <3>2, <3>3 DEF KeepsScreens
    <3>5. QED BY <2>6, <2>8, <3>4 DEF Proceeds
  <2>9. CASE /\ mainQ'[d] = Tail(q) /\ answers' = answers
             /\ user[d] \in Users /\ op \in GoodRequests /\ pushed.kind = "home"
             /\ outbox'[d] = Append(outbox[d], op) /\ stack'[d] = Append(stack[d], home)
    BY <2>3, <2>4, <2>5, <2>6, <2>9 DEF ShowsHome, pushed
  <2>10. QED BY <2>1, <2>7, <2>8, <2>9 DEF pushed
<1>11. QED
  BY <1>3, <1>4, <1>5, <1>6, <1>7, <1>8, <1>9, <1>10 DEF StepOf, OnNetwork, Carries
-----------------------------------------------------------------------------
(* A load waits for no more reads than it did.                             *)
LEMMA LoadForFewer ==
    ASSUME NEW s, NEW reads, LoadFor(s, reads), NEW fewer \in SUBSET reads,
           NEW t, t.load = s.load, t.kind = s.kind, t.rows \subseteq s.rows
    PROVE  LoadFor(t, fewer)
BY DEF LoadFor

(* A screen that has not asked for anything, or only for its list.         *)
LEMMA LoadForNew ==
    ASSUME NEW s, s.rows = {}
    PROVE  /\ s.load = NewLoad => LoadFor(s, {})
           /\ s.load = AskIndex(NewLoad) /\ s.kind = "home" => LoadFor(s, {None})
<1>1. /\ Len(<< >>) = 0 /\ IdsIn(<< >>) = {} /\ EventsIn(<< >>) = {}
  BY DEF IdsIn, EventsIn
<1>2. /\ NewLoad.phase = "idle" /\ NewLoad.pending = {} /\ NewLoad.eventArray = << >>
      /\ NewLoad.eventS = << >>
  BY DEF NewLoad
<1>3. /\ AskIndex(NewLoad).phase = "index" /\ AskIndex(NewLoad).pending = {}
      /\ AskIndex(NewLoad).eventArray = << >> /\ AskIndex(NewLoad).eventS = << >>
  BY DEF AskIndex, NewLoad
<1>4. QED BY <1>1, <1>2, <1>3 DEF LoadFor

(* The list of the account came, or did not.                               *)
LEMMA LoadForKeys ==
    ASSUME NEW s, s.load \in AnyLoads, NEW reads, LoadFor(s, reads), None \in reads,
           NEW keys \in SUBSET Ids, NEW t, t.kind = s.kind, t.rows = s.rows,
           \/ keys = {} /\ t.load \in {IndexFailed(s.load), IndexIsNull(s.load)}
           \/ t.load = IndexFound(s.load, keys)
    PROVE  LoadFor(t, keys) /\ s.load.phase = "index" /\ s.load.eventArray = << >>
<1> DEFINE l == s.load
<1>1. l \in AnyLoads /\ l.phase = "index" /\ l.eventArray = << >> /\ l.eventS = << >> /\ l.pending = {}
      /\ s.rows = {} /\ s.kind = "home"
  <2>1. l.pending \subseteq Ids
    BY DEF AnyLoads
  <2>2. l.phase = "index"
    BY <2>1, NoneIsNothing DEF LoadFor
  <2>3. NewLoad.phase = "idle"
    BY DEF NewLoad
  <2>4. QED BY <2>2, <2>3 DEF LoadFor
<1>2. \A a : a = << >> => 1 .. Len(a) = {} /\ IdsIn(a) = {} /\ EventsIn(a) = {}
  BY DEF IdsIn, EventsIn
<1> HIDE DEF l
<1>3. t.load \in {IndexFailed(l), IndexIsNull(l)} =>
         /\ t.load.phase \in {"failed", "silent"} /\ t.load.pending = {}
         /\ t.load.eventArray = << >> /\ t.load.eventS = << >>
  BY <1>1 DEF IndexFailed, IndexIsNull, AnyLoads
<1>4. t.load = IndexFound(l, keys) =>
         /\ t.load.phase = "events" /\ t.load.pending = keys /\ t.load.wanted = keys
         /\ t.load.group = Cardinality(keys)
         /\ t.load.eventArray = << >> /\ t.load.eventS = << >>
  BY <1>1 DEF IndexFound, AnyLoads
<1>5. CASE keys = {} /\ t.load \in {IndexFailed(l), IndexIsNull(l)}
  <2>1. /\ t.load.phase \in {"failed", "silent"} /\ t.load.pending = {} /\ t.rows = {} /\ t.kind = "home"
        /\ t.load.eventArray = << >> /\ t.load.eventS = << >> /\ 1 .. Len(t.load.eventArray) = {}
    BY <1>1, <1>2, <1>3, <1>5
  <2>2. QED BY <1>1, <1>5, <2>1 DEF LoadFor, l
<1>6. CASE t.load = IndexFound(l, keys)
  <2>1. /\ t.load.phase = "events" /\ t.load.pending = keys /\ t.rows = {} /\ t.kind = "home"
        /\ t.load.group = Cardinality(t.load.wanted \ IdsIn(t.load.eventArray))
        /\ t.load.wanted \ IdsIn(t.load.eventArray) = keys
        /\ t.load.eventS = t.load.eventArray /\ 1 .. Len(t.load.eventArray) = {}
    BY <1>1, <1>2, <1>4, <1>6
  <2>2. QED BY <1>1, <2>1 DEF LoadFor, l
<1>7. QED BY <1>1, <1>5, <1>6 DEF l

(* An event came, or did not.                                              *)
LEMMA LoadForEvent ==
    ASSUME NEW s, s.load \in AnyLoads, NEW reads, LoadFor(s, reads),
           NEW event, event.id \in reads, event.id \in Ids,
           NEW t, t.kind = s.kind, t.rows = s.rows,
           \/ t.load = EventFailed(s.load, event.id)
           \/ event \in EventModel /\ t.load = EventFound(s.load, event)
    PROVE  LoadFor(t, reads \ {event.id}) /\ s.load.phase = "events"
<1> DEFINE l == s.load
           missing == l.wanted \ IdsIn(l.eventArray)
<1>1. /\ l \in AnyLoads /\ l.phase = "events" /\ event.id \in l.pending /\ reads \subseteq l.pending
      /\ l.pending \subseteq missing /\ l.group = Cardinality(missing) /\ l.eventS = l.eventArray
      /\ \A i, j \in 1 .. Len(l.eventArray) : l.eventArray[i].id = l.eventArray[j].id => i = j
      /\ s.rows = {} /\ s.kind = "home"
  <2>1. l.phase = "events"
    BY NoneIsNothing DEF LoadFor
  <2>2. NewLoad.phase = "idle"
    BY DEF NewLoad
  <2>3. QED BY <2>1, <2>2 DEF LoadFor
<1> HIDE DEF l
<1>2. CASE t.load = EventFailed(l, event.id)
  <2>1. /\ t.load.phase = "events" /\ t.load.pending = l.pending \ {event.id}
        /\ t.load.wanted = l.wanted /\ t.load.group = l.group
        /\ t.load.eventArray = l.eventArray /\ t.load.eventS = l.eventS
    BY <1>1, <1>2 DEF EventFailed, AnyLoads
  <2>2. t.load.wanted \ IdsIn(t.load.eventArray) = missing /\ t.rows = {} /\ t.kind = "home"
    BY <1>1, <2>1
  <2>3. reads \ {event.id} \subseteq t.load.pending /\ t.load.pending \subseteq missing
    BY <1>1, <2>1
  <2>4. \A i, j \in 1 .. Len(t.load.eventArray) :
           t.load.eventArray[i].id = t.load.eventArray[j].id => i = j
    BY <1>1, <2>1
  <2>5. t.load.phase = "events" /\ t.load.group = Cardinality(missing) /\ t.load.eventS = t.load.eventArray
    BY <1>1, <2>1
  <2> HIDE DEF missing
  <2>6. QED BY <1>1, <2>2, <2>3, <2>4, <2>5 DEF LoadFor, l
<1>3. CASE event \in EventModel /\ t.load = EventFound(l, event)
  <2> DEFINE array == Append(l.eventArray, event)
             n == Len(l.eventArray)
  <2>1. /\ t.load.phase = IF l.group = 1 THEN "notify" ELSE "events"
        /\ t.load.pending = l.pending \ {event.id}
        /\ t.load.wanted = l.wanted /\ t.load.group = l.group - 1
        /\ t.load.eventArray = array /\ t.load.eventS = array
    BY <1>1, <1>3 DEF EventFound, AnyLoads
  <2>2. /\ l.eventArray \in Seq(EventModel) /\ n \in Nat /\ Len(array) = n + 1
        /\ array[n + 1] = event /\ \A i \in 1 .. n : array[i] = l.eventArray[i]
    BY <1>1, <1>3, AppendProperties DEF AnyLoads
  <2> HIDE DEF array, n
  <2>3. IdsIn(array) = IdsIn(l.eventArray) \cup {event.id}
    <3>1. 1 .. n + 1 = (1 .. n) \cup {n + 1}
      BY <2>2
    <3>2. IdsIn(l.eventArray) = {l.eventArray[i].id : i \in 1 .. n}
      BY DEF IdsIn, n
    <3>3. IdsIn(array) = {array[i].id : i \in 1 .. n + 1}
      BY <2>2 DEF IdsIn
    <3>4. \A i \in 1 .. n : array[i].id \in IdsIn(l.eventArray) /\ l.eventArray[i].id \in IdsIn(array)
      BY <2>2, <3>1, <3>2, <3>3
    <3>5. event.id \in IdsIn(array)
      BY <2>2, <3>1, <3>3
    <3>6. \A x \in IdsIn(array) : x \in IdsIn(l.eventArray) \/ x = event.id
      BY <2>2, <3>1, <3>3, <3>4
    <3>7. \A x \in IdsIn(l.eventArray) : x \in IdsIn(array)
      BY <3>2, <3>4
    <3>8. QED BY <3>5, <3>6, <3>7
  <2>4. event.id \in missing /\ event.id \notin IdsIn(l.eventArray)
    BY <1>1
  <2>5. ASSUME NEW i \in 1 .. Len(array), NEW j \in 1 .. Len(array), array[i].id = array[j].id
        PROVE  i = j
    <3>1. \A k \in 1 .. n : array[k].id # event.id
      BY <2>2, <2>4 DEF IdsIn, n
    <3>2. CASE i = n + 1 \/ j = n + 1
      BY <2>2, <2>5, <3>1, <3>2
    <3>3. CASE i \in 1 .. n /\ j \in 1 .. n
      BY <1>1, <2>2, <2>5, <3>3 DEF n
    <3>4. QED BY <2>2, <3>2, <3>3
  <2>6. IsFiniteSet(missing) /\ Cardinality(missing \ {event.id}) = Cardinality(missing) - 1
        /\ Cardinality(missing) \in Nat
    <3>1. missing \subseteq Ids
      BY <1>1 DEF AnyLoads
    <3>2. IsFiniteSet(missing)
      BY <3>1, IdsAreFinite, FS_Subset
    <3>3. QED BY <2>4, <3>2, FS_RemoveElement, FS_CardinalityType
  <2>7. missing \ {event.id} = l.wanted \ IdsIn(array)
    BY <2>3
  <2>8. l.group = 1 => missing = {event.id}
    <3>1. ASSUME l.group = 1 PROVE missing \ {event.id} = {}
      <4>1. Cardinality(missing \ {event.id}) = 0
        BY <1>1, <2>6, <3>1
      <4> HIDE DEF missing
      <4>2. IsFiniteSet(missing \ {event.id})
        BY <2>6, FS_Subset
      <4>3. QED BY <4>1, <4>2, FS_EmptySet
    <3>2. QED BY <2>4, <3>1
  <2> HIDE DEF missing
  <2>9. l.pending \ {event.id} \subseteq IF l.group = 1 THEN {} ELSE missing \ {event.id}
    BY <1>1, <2>8
  <2>10. l.group - 1 = Cardinality(missing \ {event.id})
    BY <1>1, <2>6
  <2>11. t.load.wanted \ IdsIn(t.load.eventArray) = missing \ {event.id} /\ t.rows = {} /\ t.kind = "home"
    BY <1>1, <2>1, <2>7
  <2>12. reads \ {event.id} \subseteq t.load.pending
    BY <1>1, <2>1
  <2>13. \A i, j \in 1 .. Len(t.load.eventArray) :
            t.load.eventArray[i].id = t.load.eventArray[j].id => i = j
    BY <2>1, <2>5
  <2>14. QED BY <1>1, <2>1, <2>9, <2>10, <2>11, <2>12, <2>13 DEF LoadFor, l
<1>4. QED BY <1>1, <1>2, <1>3 DEF l

(* The screens are as they were, but for rows that go, and none waits for  *)
(* another read.                                                           *)
LEMMA LoadsOfFewer ==
    ASSUME NEW d \in Devices, LoadsOf(d),
           \A i \in DOMAIN stack'[d] :
              \/ /\ i \in DOMAIN stack[d] /\ stack'[d][i].no = stack[d][i].no
                 /\ stack'[d][i].kind = stack[d][i].kind /\ stack'[d][i].load = stack[d][i].load
                 /\ stack'[d][i].rows \subseteq stack[d][i].rows
              \/ LoadFor(stack'[d][i], ReadsOf(Outstanding(d)', stack'[d][i].no)),
           \A i \in DOMAIN stack[d] :
              ReadsOf(Outstanding(d)', stack[d][i].no) \subseteq ReadsOf(Outstanding(d), stack[d][i].no)
    PROVE  LoadsOf(d)'
<1>1. ASSUME NEW i \in DOMAIN stack'[d]
      PROVE  LoadFor(stack'[d][i], ReadsOf(Outstanding(d)', stack'[d][i].no))
  <2> DEFINE s == stack[d][i]
             t == stack'[d][i]
  <2>1. CASE i \in DOMAIN stack[d] /\ t.no = s.no /\ t.kind = s.kind /\ t.load = s.load
             /\ t.rows \subseteq s.rows
    <3>1. LoadFor(s, ReadsOf(Outstanding(d), s.no))
      BY <2>1 DEF LoadsOf
    <3>2. ReadsOf(Outstanding(d)', t.no) \in SUBSET ReadsOf(Outstanding(d), s.no)
      BY <2>1
    <3> HIDE DEF s, t
    <3>3. QED BY <2>1, <3>1, <3>2, LoadForFewer DEF t
  <2>2. QED BY <2>1
<1>2. QED BY <1>1 DEF LoadsOf

(* Requests that are all among others ask for no more.                     *)
LEMMA ReadsAmong ==
    ASSUME NEW A, NEW B, NEW no,
           \A op \in B : IsRead(op) /\ op.src = no => \E p \in A : Same(op, p)
    PROVE  ReadsOf(B, no) \subseteq ReadsOf(A, no)
BY DEF ReadsOf, Same, IsRead

(* A load goes on as its reads are answered.                               *)
LEMMA LoadsOfAnswered ==
    ASSUME Shape, Numbered, Refusals, NEW d \in Devices, LoadsOf(d),
           Once(outbox[d], mainQ[d]), OnReadIndex(d) \/ OnReadEvent(d)
    PROVE  /\ LoadsOf(d)'
           /\ LET a == Head(mainQ[d])
                  i == Position(d, a.op.src)
              IN  i # 0 => /\ OnReadIndex(d) => stack[d][i].load.eventArray = << >>
                           /\ OnReadEvent(d) => stack[d][i].load.phase = "events"
<1> DEFINE a == Head(mainQ[d])
           n == a.op.src
           event == [id |-> a.op.id, text |-> a.text]
<1>1. /\ SameScreens(d) /\ mainQ[d] # << >> /\ a.do = "answer" /\ a \in GoodAnswers
      /\ \A i \in DOMAIN stack[d] : stack'[d][i].rows = stack[d][i].rows
  BY KeysAnswered, KeysAreLoaded, EventAnswered
<1>2. ~ a.ok => a.keys = {}
  <2>1. a \in Handed(mainQ[d])
    BY <1>1, OutstandingIs, QueueShrinks
  <2>2. QED BY <2>1 DEF Refusals, Replies
<1>3. \A no : no # n => ReadsOf(Outstanding(d)', no) = ReadsOf(Outstanding(d), no)
  BY ReadsOfKeys, ReadsOfEvent
<1>4. ASSUME NEW i \in DOMAIN stack[d], stack[d][i].no = n
      PROVE  /\ LoadFor(stack'[d][i], ReadsOf(Outstanding(d)', n))
             /\ OnReadIndex(d) => stack[d][i].load.eventArray = << >>
             /\ OnReadEvent(d) => stack[d][i].load.phase = "events"
  <2> DEFINE s == stack[d][i]
             t == stack'[d][i]
             reads == ReadsOf(Outstanding(d), n)
  <2>1. s.load \in AnyLoads /\ LoadFor(s, reads) /\ t.kind = s.kind /\ t.rows = s.rows
        /\ i = Position(d, n)
    BY <1>1, <1>4, ShownScreen, PositionIs DEF LoadsOf, SameScreens, Numbered, Nos
  <2>2. ASSUME OnReadIndex(d)
        PROVE  /\ LoadFor(t, ReadsOf(Outstanding(d)', n)) /\ s.load.phase = "index"
               /\ s.load.eventArray = << >>
    <3>1. /\ ReadsOf(Outstanding(d)', n) = a.keys /\ None \in reads /\ a.keys \in SUBSET Ids
          /\ t.load = IF ~ a.ok THEN IndexFailed(s.load)
                      ELSE IF a.keys = {} THEN IndexIsNull(s.load) ELSE IndexFound(s.load, a.keys)
      BY <2>1, <2>2, ReadsOfKeys, KeysAnswered, KeysAreLoaded
    <3> HIDE DEF s, t, reads, a
    <3>2. \/ a.keys = {} /\ t.load \in {IndexFailed(s.load), IndexIsNull(s.load)}
          \/ t.load = IndexFound(s.load, a.keys)
      BY <1>2, <3>1
    <3>3. QED BY <2>1, <3>1, <3>2, LoadForKeys
  <2>3. ASSUME OnReadEvent(d)
        PROVE  LoadFor(t, ReadsOf(Outstanding(d)', n)) /\ s.load.phase = "events"
    <3>1. /\ ReadsOf(Outstanding(d)', n) = reads \ {a.op.id} /\ a.op.id \in reads /\ a.op.id \in Ids
          /\ a.text # None => event \in EventModel
          /\ t.load = IF a.ok /\ a.text # None THEN EventFound(s.load, event)
                      ELSE EventFailed(s.load, a.op.id)
      BY <2>1, <2>3, ReadsOfEvent, EventAnswered
    <3>2. event.id = a.op.id
      OBVIOUS
    <3> HIDE DEF s, t, reads, a, event
    <3>3. QED BY <2>1, <3>1, <3>2, LoadForEvent
  <2>4. QED BY <2>2, <2>3
<1>5. \A i \in DOMAIN stack[d] : stack[d][i].no # n => stack'[d][i].load = stack[d][i].load
  <2>1. \A i \in DOMAIN stack[d] : stack[d][i].no # n => i # Position(d, n)
    BY PositionIs
  <2>2. CASE OnReadIndex(d)
    BY <2>1, <2>2, KeysAreLoaded
  <2>3. CASE OnReadEvent(d)
    BY <2>1, <2>3, EventAnswered
  <2>4. QED BY <2>2, <2>3
<1> HIDE DEF a, n
<1>6. LoadsOf(d)'
  <2>1. ASSUME NEW i \in DOMAIN stack'[d]
        PROVE  LoadFor(stack'[d][i], ReadsOf(Outstanding(d)', stack'[d][i].no))
    <3> DEFINE s == stack[d][i]
               t == stack'[d][i]
    <3>1. /\ i \in DOMAIN stack[d] /\ t.no = s.no /\ t.kind = s.kind /\ t.rows = s.rows
          /\ LoadFor(s, ReadsOf(Outstanding(d), s.no))
      BY <1>1 DEF SameScreens, LoadsOf
    <3>2. CASE s.no = n
      BY <1>4, <3>1, <3>2
    <3>3. CASE s.no # n
      <4>1. t.load = s.load /\ ReadsOf(Outstanding(d)', t.no) = ReadsOf(Outstanding(d), s.no)
        BY <1>3, <1>5, <3>1, <3>3
      <4> HIDE DEF s, t
      <4>2. QED BY <3>1, <4>1, LoadForFewer DEF t
    <3>4. QED BY <3>2, <3>3
  <2>2. QED BY <2>1 DEF LoadsOf
<1>7. Position(d, n) # 0 => /\ Position(d, n) \in DOMAIN stack[d]
                            /\ stack[d][Position(d, n)].no = n
  BY PositionIs
<1>8. QED BY <1>4, <1>6, <1>7 DEF a, n

(* Every step keeps the loads consistent with the reads under way.         *)
LEMMA LoadsStep ==
    ASSUME Shape, Numbered, Refusals, NEW d \in Devices, LoadsOf(d),
           Once(outbox[d], mainQ[d]), StepOf(d)
    PROVE  LoadsOf(d)'
<1>1. \A op : Same(op, op)
  BY DEF Same
<1>2. stack[d] \in Seq(GoodScreens) /\ Outstanding(d) \in SUBSET GoodRequests
  BY OutstandingIs
<1>3. CASE Carries(d)
  <2>1. stack' = stack
    BY <1>3 DEF Carries, appVars, screenVars
  <2>2. \A op \in Outstanding(d)' : \E p \in Outstanding(d) : Same(op, p)
    BY <1>3, NetworkMovesRequests DEF Carries, OnNetwork
  <2>3. QED BY <2>1, <2>2, ReadsAmong, LoadsOfFewer
<1>4. CASE \E why : Stop(d, why)
  BY <1>4, StopEmpties DEF LoadsOf
<1>5. CASE KeepsScreens(d) /\ Proceeds(d)
  <2>1. \A op \in Outstanding(d)' : IsRead(op) => op \in Outstanding(d)
    BY <1>5, OutstandingAfter DEF Proceeds
  <2>2. \A no : ReadsOf(Outstanding(d)', no) \subseteq ReadsOf(Outstanding(d), no)
    BY <1>1, <2>1, ReadsAmong
  <2>3. ASSUME NEW i \in DOMAIN stack'[d], i > Len(stack[d]), stack'[d][i] \in NewScreens,
               \A op \in Outstanding(d) : IsRead(op) => op.src # stack'[d][i].no
        PROVE  LoadFor(stack'[d][i], ReadsOf(Outstanding(d)', stack'[d][i].no))
    <3>1. ReadsOf(Outstanding(d)', stack'[d][i].no) = {}
      BY <2>1, <2>3 DEF ReadsOf
    <3>2. QED BY <2>3, <3>1, LoadForNew DEF NewScreens
  <2>4. \A i \in DOMAIN stack'[d] :
           \/ i \in DOMAIN stack[d] /\ stack'[d][i] = stack[d][i]
           \/ LoadFor(stack'[d][i], ReadsOf(Outstanding(d)', stack'[d][i].no))
    BY <1>5, <2>3 DEF KeepsScreens
  <2>5. QED BY <2>2, <2>4, LoadsOfFewer
<1>6. CASE ShowsHome(d)
  <2>1. PICK s \in GoodScreens, op \in GoodRequests :
           /\ s.kind = "home" /\ s.load = AskIndex(NewLoad) /\ s.rows = {}
           /\ op.kind = "readIndex" /\ op.id = None /\ op.src = s.no
           /\ stack'[d] = Append(stack[d], s) /\ outbox'[d] = Append(outbox[d], op)
           /\ Handed(mainQ'[d]) \subseteq Handed(mainQ[d])
           /\ \A p \in Outstanding(d) : IsRead(p) => p.src # s.no
           /\ \A i \in DOMAIN stack[d] : stack[d][i].no # s.no
    BY <1>6 DEF ShowsHome
  <2>2. Outstanding(d)' \subseteq Outstanding(d) \cup {op}
    BY <2>1, OutstandingAfter
  <2>3. ReadsOf(Outstanding(d)', s.no) \in SUBSET {None}
    BY <2>1, <2>2 DEF ReadsOf
  <2>4. LoadFor(s, ReadsOf(Outstanding(d)', s.no))
    <3>1. LoadFor(s, {None})
      BY <2>1, LoadForNew
    <3>2. QED BY <2>3, <3>1, LoadForFewer
  <2>5. \A no : no # s.no => ReadsOf(Outstanding(d)', no) \subseteq ReadsOf(Outstanding(d), no)
    BY <1>1, <2>1, <2>2, ReadsAmong
  <2>6. ASSUME NEW i \in DOMAIN stack'[d]
        PROVE  LoadFor(stack'[d][i], ReadsOf(Outstanding(d)', stack'[d][i].no))
    <3>1. CASE stack'[d][i] = s
      BY <2>4, <3>1
    <3>2. CASE i \in DOMAIN stack[d] /\ stack'[d][i] = stack[d][i] /\ stack[d][i] # s
      <4>1. LoadFor(stack[d][i], ReadsOf(Outstanding(d), stack[d][i].no))
        BY <3>2 DEF LoadsOf
      <4>2. ReadsOf(Outstanding(d)', stack[d][i].no) \in SUBSET ReadsOf(Outstanding(d), stack[d][i].no)
        BY <2>1, <2>5, <3>2
      <4>3. QED BY <3>2, <4>1, <4>2, LoadForFewer
    <3>3. QED BY <1>2, <2>1, <3>1, <3>2, AppendedIs
  <2>7. QED BY <2>6 DEF LoadsOf
<1>7. CASE DidTapDelete(d)
  <2>1. PICK event \in Top(d).rows :
           LET op == Request("deleteEvent", user[d], event.id, None, Top(d).no)
           IN  /\ op \in GoodRequests /\ outbox'[d] = Append(outbox[d], op) /\ mainQ' = mainQ
               /\ SameScreens(d)
               /\ \A i \in DOMAIN stack[d] : /\ stack'[d][i].load = stack[d][i].load
                                             /\ stack'[d][i].rows \subseteq stack[d][i].rows
    BY <1>7, DeleteTakesRow
  <2>2. \A op \in Outstanding(d)' : IsRead(op) => op \in Outstanding(d)
    BY <2>1, OutstandingAfter DEF IsRead, Reads, Request
  <2>3. \A no : ReadsOf(Outstanding(d)', no) \subseteq ReadsOf(Outstanding(d), no)
    BY <1>1, <2>2, ReadsAmong
  <2>4. QED BY <2>1, <2>3, LoadsOfFewer DEF SameScreens
<1>8. CASE OnReadIndex(d) \/ OnReadEvent(d)
  BY <1>8, LoadsOfAnswered
<1>9. CASE Notify(d)
  <2>1. /\ UNCHANGED <<netVars, mainQ>> /\ SameScreens(d)
        /\ \A i \in DOMAIN stack[d] :
              \/ stack'[d][i] = stack[d][i]
              \/ /\ stack[d][i].load.phase = "notify"
                 /\ stack'[d][i].load = GroupNotify(stack[d][i].load)
                 /\ stack'[d][i].rows = EventsIn(stack[d][i].load.eventS)
    BY <1>9, NotifyShowsEvents
  <2>2. Outstanding(d)' = Outstanding(d)
    BY <2>1 DEF netVars, Outstanding
  <2>3. ASSUME NEW i \in DOMAIN stack[d], stack[d][i].load.phase = "notify",
               stack'[d][i].load = GroupNotify(stack[d][i].load),
               stack'[d][i].rows = EventsIn(stack[d][i].load.eventS)
        PROVE  LoadFor(stack'[d][i], ReadsOf(Outstanding(d)', stack'[d][i].no))
    <3> DEFINE l == stack[d][i].load
               m == stack'[d][i].load
    <3>1. /\ l \in AnyLoads /\ LoadFor(stack[d][i], ReadsOf(Outstanding(d), stack[d][i].no))
          /\ stack'[d][i].no = stack[d][i].no /\ stack'[d][i].kind = stack[d][i].kind
      BY <2>1, ShownScreen DEF LoadsOf, SameScreens
    <3>2. /\ m.phase = "done" /\ m.pending = l.pending /\ m.eventArray = l.eventArray
          /\ m.eventS = l.eventS
      BY <2>3, <3>1 DEF GroupNotify, AnyLoads
    <3>3. stack[d][i].kind = "home"
      BY <2>3, <3>1 DEF LoadFor, NewLoad
    <3>4. QED BY <2>2, <2>3, <3>1, <3>2, <3>3 DEF LoadFor
  <2>4. QED BY <2>1, <2>2, <2>3, LoadsOfFewer DEF SameScreens
<1>10. QED BY <1>3, <1>4, <1>5, <1>6, <1>7, <1>8, <1>9, AppStepIs
-----------------------------------------------------------------------------
\* ext is out with more requests behind it.
Longer(out, ext) ==
    /\ DOMAIN out \subseteq DOMAIN ext /\ \A i \in DOMAIN out : ext[i] = out[i]
    /\ \A i \in DOMAIN ext \ DOMAIN out : \A j \in DOMAIN out : i > j

(* A request, or several, are sent behind those that wait.                 *)
LEMMA SentBehind ==
    ASSUME NEW out \in Seq(GoodRequests)
    PROVE  /\ \A op \in GoodRequests :
                 /\ Append(out, op) \in Seq(GoodRequests) /\ Longer(out, Append(out, op))
                 /\ \A i \in DOMAIN Append(out, op) \ DOMAIN out : Append(out, op)[i] = op
           /\ \A sent \in Seq(GoodRequests) :
                 /\ out \o sent \in Seq(GoodRequests) /\ Longer(out, out \o sent)
                 /\ \A i \in DOMAIN (out \o sent) \ DOMAIN out :
                       \E j \in DOMAIN sent : (out \o sent)[i] = sent[j]
<1>1. Len(out) \in Nat /\ DOMAIN out = 1 .. Len(out)
  OBVIOUS
<1>2. ASSUME NEW op \in GoodRequests
      PROVE  /\ Append(out, op) \in Seq(GoodRequests) /\ Longer(out, Append(out, op))
             /\ \A i \in DOMAIN Append(out, op) \ DOMAIN out : Append(out, op)[i] = op
  <2>1. /\ Append(out, op) \in Seq(GoodRequests) /\ DOMAIN Append(out, op) = 1 .. Len(out) + 1
        /\ \A i \in 1 .. Len(out) : Append(out, op)[i] = out[i]
        /\ Append(out, op)[Len(out) + 1] = op
    BY <1>1, AppendProperties, LenProperties
  <2> DEFINE ext == Append(out, op)
  <2> HIDE DEF ext
  <2>2. QED BY <1>1, <2>1 DEF Longer, ext
<1>3. ASSUME NEW sent \in Seq(GoodRequests)
      PROVE  /\ out \o sent \in Seq(GoodRequests) /\ Longer(out, out \o sent)
             /\ \A i \in DOMAIN (out \o sent) \ DOMAIN out :
                   \E j \in DOMAIN sent : (out \o sent)[i] = sent[j]
  <2> DEFINE ext == out \o sent
  <2>1. Len(sent) \in Nat /\ DOMAIN sent = 1 .. Len(sent)
    OBVIOUS
  <2>2. /\ ext \in Seq(GoodRequests) /\ Len(ext) = Len(out) + Len(sent)
        /\ \A i \in 1 .. Len(ext) : ext[i] = IF i <= Len(out) THEN out[i] ELSE sent[i - Len(out)]
    BY ConcatProperties
  <2>3. DOMAIN ext = 1 .. Len(out) + Len(sent)
    BY <2>2
  <2> HIDE DEF ext
  <2>4. Longer(out, ext)
    BY <1>1, <2>1, <2>2, <2>3 DEF Longer
  <2>5. ASSUME NEW i \in DOMAIN ext \ DOMAIN out
        PROVE  \E j \in DOMAIN sent : ext[i] = sent[j]
    <3>1. i - Len(out) \in DOMAIN sent /\ ext[i] = sent[i - Len(out)]
      BY <1>1, <2>1, <2>2, <2>3
    <3>2. QED BY <3>1
  <2>6. QED BY <2>2, <2>4, <2>5 DEF ext
<1>4. QED BY <1>2, <1>3

(* What is sent behind takes nothing back, unless it deletes.              *)
LEMMA SendingKeeps ==
    ASSUME NEW out \in Seq(GoodRequests), NEW ext \in Seq(GoodRequests), Longer(out, ext)
    PROVE  /\ \A ev, id :
                 /\ Kept(out, ev, id)
                 /\ \A i \in DOMAIN ext \ DOMAIN out : Writing(ext[i], id) => ext[i].text # None
                 => Kept(ext, ev, id)
           /\ \A no :
                 /\ ReadsFollow(out, no)
                 /\ \A i \in DOMAIN ext \ DOMAIN out : ext[i].kind = "deleteEvent"
                       => \A j \in DOMAIN ext : ~ (IsRead(ext[j]) /\ ext[j].src = no)
                 => ReadsFollow(ext, no)
           /\ \A n \in 0 .. Len(out) : \A ev : Applied(out, n, ev) => Applied(ext, n, ev)
           /\ /\ Erases(out)
              /\ \A i \in DOMAIN ext \ DOMAIN out : ext[i].kind = "deleteEvent" => ext[i].text = None
              => Erases(ext)
<1>1. /\ Len(out) \in Nat /\ DOMAIN out = 1 .. Len(out)
      /\ Len(ext) \in Nat /\ DOMAIN ext = 1 .. Len(ext)
  OBVIOUS
<1>2. \A i \in DOMAIN ext : i \in DOMAIN out \/ \A j \in DOMAIN out : i > j
  BY DEF Longer
<1>3. ASSUME NEW ev, NEW id, Kept(out, ev, id),
             \A i \in DOMAIN ext \ DOMAIN out : Writing(ext[i], id) => ext[i].text # None
      PROVE  Kept(ext, ev, id)
  <2>1. ASSUME \A i \in DOMAIN ext : ~ Writing(ext[i], id) PROVE ev[id] # None
    <3>1. \A i \in DOMAIN out : ~ Writing(out[i], id)
      BY <2>1 DEF Longer
    <3>2. QED BY <1>3, <3>1 DEF Kept
  <2>2. ASSUME NEW i \in DOMAIN ext, Writing(ext[i], id), ext[i].text = None
        PROVE  \E j \in DOMAIN ext : j > i /\ Writing(ext[j], id)
    <3>1. i \in DOMAIN out /\ ext[i] = out[i]
      BY <1>3, <2>2 DEF Longer
    <3>2. PICK j \in DOMAIN out : j > i /\ Writing(out[j], id)
      BY <1>3, <2>2, <3>1 DEF Kept
    <3>3. j \in DOMAIN ext /\ ext[j] = out[j]
      BY DEF Longer
    <3>4. QED BY <3>2, <3>3
  <2>3. QED BY <2>1, <2>2 DEF Kept
<1>4. ASSUME NEW no, ReadsFollow(out, no),
             \A i \in DOMAIN ext \ DOMAIN out : ext[i].kind = "deleteEvent"
                => \A j \in DOMAIN ext : ~ (IsRead(ext[j]) /\ ext[j].src = no),
             NEW i \in DOMAIN ext, NEW j \in DOMAIN ext, i < j, IsRead(ext[i]), ext[i].src = no
      PROVE  ext[j].kind # "deleteEvent"
  <2>1. CASE j \in DOMAIN out
    <3>1. i \in DOMAIN out
      BY <1>1, <1>4, <2>1
    <3>2. ext[i] = out[i] /\ ext[j] = out[j]
      BY <2>1, <3>1 DEF Longer
    <3>3. QED BY <1>4, <2>1, <3>1, <3>2 DEF ReadsFollow
  <2>2. QED BY <1>4, <2>1
<1>5. ASSUME NEW n \in 0 .. Len(out), NEW ev, Applied(out, n, ev),
             NEW id \in Ids, NEW i \in DOMAIN ext, i <= n, Writing(ext[i], id),
             \A j \in DOMAIN ext : i < j /\ j <= n => ~ Writing(ext[j], id)
      PROVE  ev[id] = ext[i].text
  <2>1. i \in DOMAIN out /\ ext[i] = out[i]
    BY <1>1, <1>5 DEF Longer
  <2>2. \A j \in DOMAIN out : i < j /\ j <= n => ~ Writing(out[j], id)
    BY <1>5 DEF Longer
  <2>3. QED BY <1>5, <2>1, <2>2 DEF Applied
<1>6. ASSUME Erases(out), NEW i \in DOMAIN ext, ext[i].kind = "deleteEvent",
             \A k \in DOMAIN ext \ DOMAIN out : ext[k].kind = "deleteEvent" => ext[k].text = None
      PROVE  ext[i].text = None
  BY <1>6 DEF Longer, Erases
<1>7. \A no :
         /\ ReadsFollow(out, no)
         /\ \A i \in DOMAIN ext \ DOMAIN out : ext[i].kind = "deleteEvent"
               => \A j \in DOMAIN ext : ~ (IsRead(ext[j]) /\ ext[j].src = no)
         => ReadsFollow(ext, no)
  BY <1>4 DEF ReadsFollow
<1>8. \A n \in 0 .. Len(out) : \A ev : Applied(out, n, ev) => Applied(ext, n, ev)
  <2>1. TAKE n \in 0 .. Len(out)
  <2>2. TAKE ev
  <2>3. HAVE Applied(out, n, ev)
  <2>4. QED BY <1>5, <2>3 DEF Applied
<1>9. QED BY <1>3, <1>6, <1>7, <1>8 DEF Erases

(* The requests of next are some of those of out, and no write overtook    *)
(* one that stands before it there.                                        *)
Reordered(out, next, at) ==
    /\ at \in [DOMAIN next -> DOMAIN out]
    /\ \A i \in DOMAIN next : Same(next[i], out[at[i]])
    /\ \A i, j \in DOMAIN next : i < j /\ next[j].kind \in Writes => at[i] < at[j]

(* A request that the connection took up again, in that order, takes       *)
(* nothing back: a write that is gone was the first, and is applied.       *)
LEMMA MovingKeeps ==
    ASSUME NEW out \in Seq(GoodRequests), NEW next \in Seq(GoodRequests), NEW at,
           Reordered(out, next, at)
    PROVE  /\ \A no : ReadsFollow(out, no) => ReadsFollow(next, no)
           /\ Erases(out) => Erases(next)
           /\ \A ev, id :
                 /\ Kept(out, ev, id)
                 /\ \A k \in DOMAIN out : Writing(out[k], id) =>
                       \/ \E i \in DOMAIN next : at[i] = k
                       \/ /\ \A j \in DOMAIN out : k <= j
                          /\ (\A j \in DOMAIN out : j # k => ~ Writing(out[j], id))
                                => ev[id] = out[k].text
                 => Kept(next, ev, id)
<1>1. /\ Len(out) \in Nat /\ DOMAIN out = 1 .. Len(out)
      /\ Len(next) \in Nat /\ DOMAIN next = 1 .. Len(next)
  OBVIOUS
<1>2. ASSUME NEW i \in DOMAIN next
      PROVE  /\ at[i] \in DOMAIN out /\ next[i].kind = out[at[i]].kind /\ next[i].src = out[at[i]].src
             /\ next[i].text = out[at[i]].text
             /\ \A id : Writing(next[i], id) <=> Writing(out[at[i]], id)
             /\ IsRead(next[i]) <=> IsRead(out[at[i]])
  BY DEF Reordered, Same, Writing, IsRead
<1>3. \A i, j \in DOMAIN next : i < j /\ next[j].kind \in Writes => at[i] < at[j]
  BY DEF Reordered
<1>4. ASSUME NEW no, ReadsFollow(out, no) PROVE ReadsFollow(next, no)
  <2>1. ASSUME NEW i \in DOMAIN next, NEW j \in DOMAIN next, i < j, IsRead(next[i]), next[i].src = no,
               next[j].kind = "deleteEvent"
        PROVE  FALSE
    <3>1. at[i] < at[j]
      BY <1>3, <2>1 DEF Writes
    <3>2. QED BY <1>2, <1>4, <2>1, <3>1 DEF ReadsFollow
  <2>2. QED BY <2>1 DEF ReadsFollow
<1>5. Erases(out) => Erases(next)
  BY <1>2 DEF Erases
<1>6. ASSUME NEW ev, NEW id, Kept(out, ev, id),
             \A k \in DOMAIN out : Writing(out[k], id) =>
                \/ \E i \in DOMAIN next : at[i] = k
                \/ /\ \A j \in DOMAIN out : k <= j
                   /\ (\A j \in DOMAIN out : j # k => ~ Writing(out[j], id)) => ev[id] = out[k].text
      PROVE  Kept(next, ev, id)
  <2>1. ASSUME \A i \in DOMAIN next : ~ Writing(next[i], id) PROVE ev[id] # None
    <3>1. CASE \A k \in DOMAIN out : ~ Writing(out[k], id)
      BY <1>6, <3>1 DEF Kept
    <3>2. ASSUME NEW k \in DOMAIN out, Writing(out[k], id) PROVE ev[id] # None
      <4>1. \A j \in DOMAIN out : Writing(out[j], id) => \A i \in DOMAIN out : j <= i
        BY <1>2, <1>6, <2>1
      <4>2. \A j \in DOMAIN out : j # k => ~ Writing(out[j], id)
        BY <1>1, <3>2, <4>1
      <4>3. ev[id] = out[k].text
        BY <1>2, <1>6, <2>1, <3>2, <4>2
      <4>4. out[k].text # None
        <5>1. ASSUME NEW j \in DOMAIN out, j > k PROVE ~ Writing(out[j], id)
          BY <1>1, <4>2, <5>1
        <5>2. QED BY <1>6, <3>2, <5>1 DEF Kept
      <4>5. QED BY <4>3, <4>4
    <3>3. QED BY <3>1, <3>2
  <2>2. ASSUME NEW i \in DOMAIN next, Writing(next[i], id), next[i].text = None
        PROVE  \E j \in DOMAIN next : j > i /\ Writing(next[j], id)
    <3>1. PICK k \in DOMAIN out : k > at[i] /\ Writing(out[k], id)
      BY <1>2, <1>6, <2>2 DEF Kept
    <3>2. PICK j \in DOMAIN next : at[j] = k
      <4>1. ~ \A m \in DOMAIN out : k <= m
        BY <1>1, <1>2, <3>1
      <4>2. QED BY <1>6, <3>1, <4>1
    <3>3. j > i
      <4>1. next[i].kind \in Writes
        BY <2>2 DEF Writing, Writes
      <4>2. at[i] \in Nat /\ at[j] \in Nat /\ at[i] < at[j]
        BY <1>1, <1>2, <3>1, <3>2
      <4>3. ~ j < i
        BY <1>3, <4>1, <4>2
      <4>4. j # i
        BY <4>2
      <4>5. QED BY <1>1, <4>3, <4>4
    <3>4. Writing(next[j], id)
      BY <1>2, <3>1, <3>2
    <3>5. QED BY <3>3, <3>4
  <2>3. QED BY <2>1, <2>2 DEF Kept
<1>7. QED BY <1>4, <1>5, <1>6

(* The connection takes the requests up in their order, writes before the  *)
(* reads it had not sent; only the first, if it is answered, is gone.      *)
LEMMA ConnectionMoves ==
    ASSUME Shape, NEW d \in Devices,
           Receive(d) \/ Disconnect(d) \/ Reconnect(d) \/ GetTimesOut(d)
    PROVE  /\ \E at :
                 /\ Reordered(outbox[d], outbox'[d], at)
                 /\ \A k \in DOMAIN outbox[d] : outbox[d][k].kind \in Writes =>
                       \/ \E i \in DOMAIN outbox'[d] : at[i] = k
                       \/ k = 1 /\ answers[d] # << >>
           /\ \/ answers'[d] = << >>
              \/ /\ outbox'[d] = Tail(outbox[d]) /\ answers'[d] = Tail(answers[d])
                 /\ answers[d] # << >>
           /\ outbox'[d] \in Seq(GoodRequests) /\ events' = events
<1> DEFINE out == outbox[d]
<1>1. /\ out \in Seq(GoodRequests) /\ answers[d] \in Seq(GoodAnswers)
      /\ Len(out) \in Nat /\ DOMAIN out = 1 .. Len(out) /\ Len(answers[d]) \in Nat
  BY OutstandingIs
<1>2. (\A op : Same(op, op)) /\ events' = events
  BY DEF Same, Receive, Disconnect, Reconnect, GetTimesOut, dbVars
<1> DEFINE Keeps(next, at, n) ==
              /\ Reordered(out, next, at)
              /\ \A k \in DOMAIN out : out[k].kind \in Writes =>
                    (\E i \in DOMAIN next : at[i] = k) \/ (k = 1 /\ n # << >>)
<1>3. CASE Receive(d)
  <2> DEFINE next == Tail(out)
             at == [i \in DOMAIN next |-> i + 1]
  <2>1. answers[d] # << >> /\ outbox'[d] = next /\ answers'[d] = Tail(answers[d])
    BY <1>3 DEF Receive, Shape, Types
  <2>2. Len(out) # 0
    <3>1. Len(answers[d]) # 0 /\ Len(answers[d]) <= Len(out)
      BY <1>1, <2>1, EmptySeq DEF Shape, Answering
    <3>2. QED BY <1>1, <3>1
  <2>3. /\ next \in Seq(GoodRequests) /\ DOMAIN next = 1 .. Len(out) - 1
        /\ \A i \in 1 .. Len(out) - 1 : next[i] = out[i + 1]
    BY <1>1, <2>2, HeadTailProperties, LenProperties
  <2>4. /\ at \in [DOMAIN next -> DOMAIN out]
        /\ \A i \in DOMAIN next : next[i] = out[at[i]] /\ at[i] = i + 1 /\ i \in Nat
    BY <1>1, <2>3
  <2> HIDE DEF next, at
  <2>5. Reordered(out, next, at)
    BY <1>2, <2>4 DEF Reordered
  <2>6. \A k \in DOMAIN out : k = 1 \/ \E i \in DOMAIN next : at[i] = k
    <3>1. TAKE k \in DOMAIN out
    <3>2. ASSUME k # 1 PROVE k - 1 \in DOMAIN next /\ at[k - 1] = k
      BY <1>1, <2>3, <2>4, <3>2
    <3>3. QED BY <3>2
  <2>7. Keeps(next, at, answers[d])
    BY <2>1, <2>5, <2>6
  <2>8. QED BY <1>2, <2>1, <2>3, <2>7 DEF next
<1>4. CASE Disconnect(d)
  <2> DEFINE w == Only(out, Writes)
             r == [i \in DOMAIN w |-> [w[i] EXCEPT !.redo = TRUE]]
  <2>1. outbox'[d] = r /\ answers'[d] = << >>
    BY <1>4 DEF Disconnect, Shape, Types
  <2>2. w \in Seq(GoodRequests) /\ \E at : Chosen(out, Writes, Len(out), w, at)
    BY <1>1, OnlyChooses
  <2>3. PICK at : Chosen(out, Writes, Len(out), w, at)
    BY <2>2
  <2> HIDE DEF w
  <2>4. \A i \in DOMAIN w : w[i] \in GoodRequests
    BY <2>2
  <2>5. /\ DOMAIN r = DOMAIN w /\ \A i \in DOMAIN w : Same(r[i], w[i])
        /\ \A i \in DOMAIN w : r[i] \in GoodRequests
    BY <2>4 DEF Same, GoodRequests, Requests
  <2>6. r \in Seq(GoodRequests)
    <3>1. r \in [1 .. Len(w) -> GoodRequests] /\ Len(w) \in Nat
      BY <2>2, <2>5
    <3> HIDE DEF r
    <3>2. QED BY <3>1, FunctionIsSeq
  <2> HIDE DEF r
  <2>7. Reordered(out, r, at)
    BY <1>1, <2>3, <2>5 DEF Reordered, Chosen
  <2>8. \A k \in DOMAIN out : out[k].kind \in Writes => \E i \in DOMAIN r : at[i] = k
    BY <1>1, <2>3, <2>5 DEF Chosen
  <2>9. Keeps(r, at, answers[d])
    BY <2>7, <2>8
  <2>10. QED BY <1>2, <2>1, <2>6, <2>9
<1>5. CASE Reconnect(d)
  <2> DEFINE w == Only(out, Writes)
             r == Only(out, Reads)
             next == w \o r
  <2>1. outbox'[d] = next /\ answers' = answers /\ answers[d] = << >>
    BY <1>5 DEF Reconnect, Shape, Types, Answering
  <2>2. /\ w \in Seq(GoodRequests) /\ \E at : Chosen(out, Writes, Len(out), w, at)
        /\ r \in Seq(GoodRequests) /\ \E at : Chosen(out, Reads, Len(out), r, at)
    BY <1>1, OnlyChooses
  <2>3. PICK atW : Chosen(out, Writes, Len(out), w, atW)
    BY <2>2
  <2>4. PICK atR : Chosen(out, Reads, Len(out), r, atR)
    BY <2>2
  <2> HIDE DEF w, r
  <2> DEFINE at == [i \in DOMAIN next |-> IF i <= Len(w) THEN atW[i] ELSE atR[i - Len(w)]]
  <2>5. /\ DOMAIN w = 1 .. Len(w) /\ Len(w) \in Nat /\ DOMAIN r = 1 .. Len(r) /\ Len(r) \in Nat
        /\ DOMAIN next = 1 .. Len(w) + Len(r) /\ next \in Seq(GoodRequests)
        /\ \A i \in 1 .. Len(w) + Len(r) : next[i] = IF i <= Len(w) THEN w[i] ELSE r[i - Len(w)]
    BY <2>2, ConcatProperties, LenProperties
  <2>6. /\ \A i \in DOMAIN w : /\ atW[i] \in DOMAIN out /\ w[i] = out[atW[i]]
                               /\ \A j \in DOMAIN w : i < j => atW[i] < atW[j]
        /\ \A i \in DOMAIN r : /\ atR[i] \in DOMAIN out /\ r[i] = out[atR[i]] /\ r[i].kind \notin Writes
        /\ \A k \in DOMAIN out : out[k].kind \in Writes => \E i \in DOMAIN w : atW[i] = k
    BY <1>1, <2>3, <2>4 DEF Chosen, Reads, Writes
  <2> HIDE DEF next
  <2>7. \A i \in DOMAIN next : \/ i \in DOMAIN w /\ at[i] = atW[i] /\ next[i] = w[i]
                               \/ /\ i > Len(w) /\ i - Len(w) \in DOMAIN r
                                  /\ at[i] = atR[i - Len(w)] /\ next[i] = r[i - Len(w)]
    BY <2>5
  <2>8. \A i \in DOMAIN w : i \in DOMAIN next /\ at[i] = atW[i]
    BY <2>5
  <2>9. at \in [DOMAIN next -> DOMAIN out] /\ \A i \in DOMAIN next : next[i] = out[at[i]]
    <3>1. \A i \in DOMAIN next : at[i] \in DOMAIN out /\ next[i] = out[at[i]]
      BY <2>6, <2>7
    <3>2. QED BY <3>1
  <2> HIDE DEF at
  <2>10. ASSUME NEW i \in DOMAIN next, NEW j \in DOMAIN next, i < j, next[j].kind \in Writes
         PROVE  at[i] < at[j]
    <3>1. j \in DOMAIN w
      BY <2>6, <2>7, <2>10
    <3>2. i \in DOMAIN w
      BY <2>5, <2>10, <3>1
    <3>3. QED BY <2>6, <2>8, <2>10, <3>1, <3>2
  <2>11. Reordered(out, next, at)
    BY <1>2, <2>9, <2>10 DEF Reordered
  <2>12. Keeps(next, at, answers[d])
    BY <2>6, <2>8, <2>11
  <2>13. QED BY <1>2, <2>1, <2>5, <2>12
<1>6. CASE GetTimesOut(d)
  <2>1. PICK k \in DOMAIN out : outbox'[d] = RemoveAt(out, k) /\ IsRead(out[k])
    BY <1>6 DEF GetTimesOut, Shape, Types
  <2>2. answers'[d] = << >>
    BY <1>6 DEF GetTimesOut, Shape, Answering
  <2> DEFINE next == RemoveAt(out, k)
             at == [i \in DOMAIN next |-> IF i < k THEN i ELSE i + 1]
  <2>3. /\ DOMAIN next = 1 .. Len(out) - 1 /\ next \in Seq(GoodRequests)
        /\ \A j \in 1 .. Len(out) - 1 : next[j] = IF j < k THEN out[j] ELSE out[j + 1]
    BY <1>1, Removed, LenProperties
  <2> HIDE DEF next
  <2>4. /\ at \in [DOMAIN next -> DOMAIN out]
        /\ \A i, j \in DOMAIN next : i < j => at[i] < at[j]
        /\ \A i \in DOMAIN next : next[i] = out[at[i]]
    <3>1. \A i \in DOMAIN next : /\ at[i] = IF i < k THEN i ELSE i + 1
                                /\ at[i] \in DOMAIN out /\ i \in Nat
      BY <1>1, <2>3
    <3>2. at \in [DOMAIN next -> DOMAIN out]
      BY <3>1
    <3>3. \A i \in DOMAIN next : next[i] = out[at[i]]
      BY <1>1, <2>3, <3>1
    <3> HIDE DEF at
    <3>4. \A i, j \in DOMAIN next : i < j => at[i] < at[j]
      BY <1>1, <3>1
    <3>5. QED BY <3>2, <3>3, <3>4
  <2>5. ASSUME NEW j \in DOMAIN out, j # k PROVE \E i \in DOMAIN next : at[i] = j
    <3>1. CASE j < k
      <4>1. j \in DOMAIN next /\ at[j] = j
        BY <1>1, <2>3, <3>1
      <4>2. QED BY <4>1
    <3>2. CASE j > k
      <4>1. j - 1 \in DOMAIN next /\ at[j - 1] = j
        BY <1>1, <2>3, <3>2
      <4>2. QED BY <4>1
    <3>3. QED BY <1>1, <2>5, <3>1, <3>2
  <2> HIDE DEF at
  <2>6. Reordered(out, next, at)
    BY <1>2, <2>4 DEF Reordered
  <2>7. Keeps(next, at, answers[d])
    BY <2>1, <2>5, <2>6 DEF IsRead, Reads, Writes
  <2>8. QED BY <1>2, <2>1, <2>2, <2>3, <2>7 DEF next
<1>7. QED BY <1>3, <1>4, <1>5, <1>6

(* What a connection that is lost, or comes back, does to the events shown *)
(* on a device: nothing.                                                   *)
LEMMA RowsOverConnection ==
    ASSUME Shape, NEW d \in Devices, RowsKept(d), UNCHANGED appVars,
           Receive(d) \/ Disconnect(d) \/ Reconnect(d) \/ GetTimesOut(d)
    PROVE  RowsKept(d)'
<1> DEFINE out == outbox[d]
           next == outbox'[d]
           n == Len(answers[d])
<1>1. /\ out \in Seq(GoodRequests) /\ answers[d] \in Seq(GoodAnswers)
      /\ Len(out) \in Nat /\ DOMAIN out = 1 .. Len(out) /\ n \in Nat
  BY OutstandingIs
<1>2. /\ events' = events /\ stack' = stack /\ next \in Seq(GoodRequests)
      /\ \/ answers'[d] = << >>
         \/ next = Tail(out) /\ answers'[d] = Tail(answers[d]) /\ answers[d] # << >>
  BY ConnectionMoves DEF appVars, screenVars
<1>3. PICK at : /\ Reordered(out, next, at)
                /\ \A k \in DOMAIN out : out[k].kind \in Writes =>
                      (\E i \in DOMAIN next : at[i] = k) \/ (k = 1 /\ answers[d] # << >>)
  BY ConnectionMoves
<1>4. Applied(out, n, events) /\ Erases(out)
  BY DEF RowsKept
<1>5. Applied(next, Len(answers'[d]), events)
  <2>1. CASE answers'[d] = << >>
    <3>1. Len(answers'[d]) = 0 /\ \A i \in DOMAIN next : ~ i <= 0
      BY <1>2, <2>1
    <3>2. QED BY <3>1 DEF Applied
  <2>2. CASE next = Tail(out) /\ answers'[d] = Tail(answers[d]) /\ answers[d] # << >>
    <3>1. Len(answers'[d]) = n - 1 /\ n # 0 /\ n <= Len(out)
      BY <1>1, <2>2, EmptySeq, HeadTailProperties DEF Shape, Answering
    <3>2. /\ DOMAIN next = 1 .. Len(out) - 1
          /\ \A i \in 1 .. Len(out) - 1 : next[i] = out[i + 1]
      BY <1>1, <2>2, <3>1, HeadTailProperties, LenProperties
    <3>3. ASSUME NEW id \in Ids, NEW i \in DOMAIN next, i <= n - 1, Writing(next[i], id),
                 \A j \in DOMAIN next : i < j /\ j <= n - 1 => ~ Writing(next[j], id)
          PROVE  events[id] = next[i].text
      <4>1. i + 1 \in DOMAIN out /\ i + 1 <= n /\ Writing(out[i + 1], id)
        BY <1>1, <3>1, <3>2, <3>3
      <4>2. ASSUME NEW j \in DOMAIN out, i + 1 < j, j <= n PROVE ~ Writing(out[j], id)
        <5>1. j - 1 \in DOMAIN next /\ next[j - 1] = out[j] /\ i < j - 1 /\ j - 1 <= n - 1
          BY <1>1, <3>1, <3>2, <4>2
        <5>2. QED BY <3>3, <5>1
      <4>3. events[id] = out[i + 1].text
        BY <1>4, <4>1, <4>2 DEF Applied
      <4>4. QED BY <3>2, <4>3
    <3>4. QED BY <3>1, <3>3 DEF Applied
  <2>3. QED BY <1>2, <2>1, <2>2
<1>6. Erases(next)
  BY <1>1, <1>2, <1>3, <1>4, MovingKeeps
<1>7. ASSUME NEW id \in Ids, Kept(out, events, id) PROVE Kept(next, events, id)
  <2>1. ASSUME NEW k \in DOMAIN out, Writing(out[k], id)
        PROVE  \/ \E i \in DOMAIN next : at[i] = k
               \/ /\ \A j \in DOMAIN out : k <= j
                  /\ (\A j \in DOMAIN out : j # k => ~ Writing(out[j], id)) => events[id] = out[k].text
    <3>1. out[k].kind \in Writes
      BY <2>1 DEF Writing, Writes
    <3>2. CASE k = 1 /\ answers[d] # << >>
      <4>1. 1 <= n
        BY <1>1, <3>2, EmptySeq
      <4>2. ASSUME \A j \in DOMAIN out : j # k => ~ Writing(out[j], id)
            PROVE  events[id] = out[k].text
        BY <1>1, <1>4, <2>1, <3>2, <4>1, <4>2 DEF Applied
      <4>3. \A j \in DOMAIN out : k <= j
        BY <1>1, <3>2
      <4>4. QED BY <4>2, <4>3
    <3>3. QED BY <1>3, <3>1, <3>2
  <2>2. QED BY <1>1, <1>2, <1>3, <1>7, <2>1, MovingKeeps
<1>8. ASSUME NEW i \in DOMAIN stack[d], IsLastHome(stack[d], i)
      PROVE  KeptFor(d, stack[d][i])'
  <2> DEFINE s == stack[d][i]
  <2>1. ReadsFollow(out, s.no) /\ \A id \in Ids : Mentions(s, Replies(d), id) => Kept(out, events, id)
    BY <1>8 DEF RowsKept, KeptFor
  <2>2. ReadsFollow(next, s.no)
    BY <1>1, <1>2, <1>3, <2>1, MovingKeeps
  <2>3. \A a \in Replies(d)' : a \in Replies(d) \/ a.text = None
    BY NetworkMovesReplies
  <2>4. \A id : Mentions(s, Replies(d)', id) => Mentions(s, Replies(d), id)
    BY <2>3 DEF Mentions, Tells
  <2>5. \A id \in Ids : Mentions(s, Replies(d)', id) => Kept(next, events', id)
    BY <1>2, <1>7, <2>1, <2>4
  <2>6. QED BY <1>2, <2>2, <2>5 DEF KeptFor
<1>9. QED
  <2>1. \A i \in DOMAIN stack'[d] : IsLastHome(stack'[d], i) => KeptFor(d, stack[d][i])'
    BY <1>2, <1>8
  <2>2. QED BY <1>2, <1>5, <1>6, <2>1 DEF RowsKept

(* A write under way that leaves nothing behind is a delete.               *)
LEMMA ErasingIsDeleting ==
    ASSUME NEW op \in GoodRequests, NEW id, Writing(op, id), op.text = None
    PROVE  op.kind = "deleteEvent"
<1>1. op.kind \in {"saveEvent", "updateEvent"} => op.text \in Texts
  BY DEF GoodRequests
<1>2. QED BY <1>1, NoneIsNothing DEF Writing

(* What a read is granted is kept: no delete goes before the read, and     *)
(* none that went before it was the last write.                            *)
LEMMA GrantedIsKept ==
    ASSUME NEW out \in Seq(GoodRequests), NEW n \in DOMAIN out, NEW ev,
           Applied(out, n - 1, ev), ReadsFollow(out, out[n].src),
           out[n].kind = "readEvent", NEW id \in Ids, ev[id] # None
    PROVE  Kept(out, ev, id)
<1>1. Len(out) \in Nat /\ DOMAIN out = 1 .. Len(out)
  OBVIOUS
<1>2. ASSUME NEW i \in DOMAIN out, Writing(out[i], id), out[i].text = None
      PROVE  \E j \in DOMAIN out : j > i /\ Writing(out[j], id)
  <2>1. out[i].kind = "deleteEvent"
    BY <1>2, ErasingIsDeleting
  <2>2. ~ n < i /\ i # n
    BY <2>1 DEF ReadsFollow, IsRead, Reads
  <2>3. i <= n - 1
    BY <1>1, <2>2
  <2>4. PICK j \in DOMAIN out : i < j /\ j <= n - 1 /\ Writing(out[j], id)
    BY <1>2, <2>3 DEF Applied
  <2>5. QED BY <1>1, <2>4
<1>3. QED BY <1>2 DEF Kept

(* The server takes the next write, or tells a read what it has.           *)
LEMMA RowsAfterGrant ==
    ASSUME Shape, NEW d \in Devices, RowsKept(d), UNCHANGED appVars, ServerGrants(d)
    PROVE  RowsKept(d)'
<1> DEFINE out == outbox[d]
<1>1. /\ out \in Seq(GoodRequests) /\ answers[d] \in Seq(GoodAnswers)
      /\ Len(out) \in Nat /\ DOMAIN out = 1 .. Len(out) /\ Len(answers[d]) \in Nat
  BY OutstandingIs
<1>2. PICK n \in DOMAIN out :
         /\ n = Len(answers[d]) + 1 /\ Len(answers'[d]) = n /\ outbox' = outbox
         /\ \A id \in Ids :
               events'[id] = IF out[n].id # id THEN events[id]
                             ELSE CASE out[n].kind \in {"saveEvent", "updateEvent"} -> out[n].text
                                    [] out[n].kind = "deleteEvent" -> None
                                    [] OTHER -> events[id]
  BY GrantChanges
<1>3. stack' = stack /\ Applied(out, n - 1, events) /\ Erases(out)
  <2>1. n - 1 = Len(answers[d])
    BY <1>1, <1>2
  <2>2. QED BY <2>1 DEF RowsKept, appVars, screenVars
<1>4. \A id \in Ids : /\ ~ Writing(out[n], id) => events'[id] = events[id]
                      /\ Writing(out[n], id) => events'[id] = out[n].text
  BY <1>2, <1>3 DEF Writing, Erases
<1>5. Applied(out, n, events')
  <2>1. ASSUME NEW id \in Ids, NEW i \in DOMAIN out, i <= n, Writing(out[i], id),
               \A j \in DOMAIN out : i < j /\ j <= n => ~ Writing(out[j], id)
        PROVE  events'[id] = out[i].text
    <3>1. CASE i = n
      BY <1>4, <2>1, <3>1
    <3>2. CASE i # n
      <4>1. i <= n - 1 /\ ~ Writing(out[n], id)
        BY <1>1, <2>1, <3>2
      <4>2. \A j \in DOMAIN out : i < j /\ j <= n - 1 => ~ Writing(out[j], id)
        BY <1>1, <2>1
      <4>3. events[id] = out[i].text
        BY <1>3, <2>1, <4>1, <4>2 DEF Applied
      <4>4. QED BY <1>4, <4>1, <4>3
    <3>3. QED BY <3>1, <3>2
  <2>2. QED BY <2>1 DEF Applied
<1>6. \A id \in Ids : Kept(out, events, id) => Kept(out, events', id)
  BY <1>4 DEF Kept
<1>7. PICK a : /\ Replies(d)' = Replies(d) \cup {a} /\ a.op = out[n]
               /\ a.text = IF out[n].kind = "readEvent" THEN events[out[n].id] ELSE None
  <2>1. PICK a \in GoodAnswers :
           a = Granted(NextRequest(d)) /\ Replies(d)' = Replies(d) \cup {a} /\ a.op = NextRequest(d)
    BY GrantReplies
  <2>2. NextRequest(d) = out[n]
    BY <1>2 DEF NextRequest
  <2>3. a.text = IF out[n].kind = "readEvent" THEN events[out[n].id] ELSE None
    BY <2>1, <2>2 DEF Granted, Answer
  <2>4. QED BY <2>1, <2>2, <2>3
<1>8. ASSUME NEW i \in DOMAIN stack[d], IsLastHome(stack[d], i)
      PROVE  KeptFor(d, stack[d][i])'
  <2> DEFINE s == stack[d][i]
  <2>1. ReadsFollow(out, s.no) /\ \A id \in Ids : Mentions(s, Replies(d), id) => Kept(out, events, id)
    BY <1>8 DEF RowsKept, KeptFor
  <2>2. ASSUME NEW id \in Ids, Mentions(s, Replies(d)', id), ~ Mentions(s, Replies(d), id)
        PROVE  Kept(out, events, id)
    <3>1. a.op.src = s.no /\ Tells(a, id)
      BY <1>7, <2>2 DEF Mentions
    <3>2. out[n].kind = "readEvent" /\ out[n].src = s.no /\ events[id] # None
      BY <1>7, <3>1 DEF Tells
    <3> HIDE DEF out, s
    <3>3. QED BY <1>1, <1>2, <1>3, <2>1, <3>2, GrantedIsKept
  <2>3. \A id \in Ids : Mentions(s, Replies(d)', id) => Kept(out, events', id)
    BY <1>6, <2>1, <2>2
  <2>4. QED BY <1>2, <1>3, <2>1, <2>3 DEF KeptFor
<1>9. QED
  <2>1. \A i \in DOMAIN stack'[d] : IsLastHome(stack'[d], i) => KeptFor(d, stack[d][i])'
    BY <1>3, <1>8
  <2>2. QED BY <1>2, <1>3, <1>5, <2>1 DEF RowsKept
-----------------------------------------------------------------------------
(* The app itself writes nothing to the database.                          *)
LEMMA AppLeavesDb ==
    ASSUME NEW d \in Devices, StepOf(d), ~ Carries(d)
    PROVE  events' = events
<1>1. CASE Launch(d) \/ Kill(d) \/ DidTapAddEvent(d) \/ DidTapEdit(d) \/ DidTapLogOut(d)
           \/ DidConfirmLogOut(d) \/ DidCancelLogOut(d)
  BY <1>1 DEF Launch, Kill, Stop, DidTapAddEvent, DidTapEdit, DidTapLogOut, DidConfirmLogOut,
              DidCancelLogOut, Navigate, dbVars
<1>2. CASE DidTapDelete(d) \/ DidTapSaveEvent(d) \/ DidTapUpdate(d) \/ DidTapBack(d)
           \/ DidTapLogIn(d) \/ SignInAnswered(d)
  BY <1>2 DEF DidTapDelete, DidTapSaveEvent, Trap, Stop, DidTapUpdate, DidTapBack, DidTapLogIn,
              SignInAnswered, dbVars
<1>3. CASE RunPush(d) \/ OnAlert(d) \/ OnSignedIn(d) \/ OnSaveIndex(d) \/ OnSaved(d)
           \/ OnDeleteEvent(d)
  BY <1>3 DEF RunPush, OnAlert, OnSignedIn, OnSaveIndex, OnSaved, OnDeleteEvent, Trap, Stop, dbVars
<1>4. CASE OnDeleteIndex(d) \/ OnReadIndex(d) \/ OnReadEvent(d) \/ Notify(d)
  BY <1>4 DEF OnDeleteIndex, OnReadIndex, OnReadEvent, Notify, dbVars
<1>5. QED BY <1>1, <1>2, <1>3, <1>4 DEF StepOf, Carries, OnNetwork

(* Only the last Home matters: what it mentions is kept if it mentioned it *)
(* before, or if it is told of it now.                                     *)
LEMMA RowsOfOneHome ==
    ASSUME NEW d \in Devices, RowsKept(d), events' = events, answers'[d] = answers[d],
           outbox[d] \in Seq(GoodRequests), outbox'[d] \in Seq(GoodRequests),
           Len(answers[d]) \in 0 .. Len(outbox[d]),
           Longer(outbox[d], outbox'[d]),
           \A i \in DOMAIN outbox'[d] \ DOMAIN outbox[d] :
              outbox'[d][i].kind = "deleteEvent" => outbox'[d][i].text = None,
           \A i \in DOMAIN stack'[d] : IsLastHome(stack'[d], i) => KeptFor(d, stack[d][i])'
    PROVE  RowsKept(d)'
<1>1. Applied(outbox'[d], Len(answers[d]), events) /\ Erases(outbox'[d])
  BY SendingKeeps DEF RowsKept
<1>2. QED BY <1>1 DEF RowsKept

(* A screen goes, or one that is no Home comes; a request may be sent that *)
(* deletes nothing.                                                        *)
LEMMA RowsAsScreensMove ==
    ASSUME Shape, NEW d \in Devices, RowsKept(d), events' = events,
           KeepsScreens(d), Proceeds(d)
    PROVE  RowsKept(d)'
<1> DEFINE out == outbox[d]
           next == outbox'[d]
<1>1. /\ out \in Seq(GoodRequests) /\ Len(out) \in Nat /\ DOMAIN out = 1 .. Len(out)
      /\ Len(answers[d]) \in 0 .. Len(out)
      /\ stack[d] \in Seq(GoodScreens) /\ Len(stack[d]) \in Nat /\ DOMAIN stack[d] = 1 .. Len(stack[d])
  <2>1. answers[d] \in Seq(GoodAnswers) /\ Len(answers[d]) <= Len(out)
    BY OutstandingIs DEF Shape, Answering
  <2>2. QED BY <2>1, OutstandingIs
<1>2. /\ answers'[d] = answers[d] /\ next \in Seq(GoodRequests) /\ Longer(out, next)
      /\ \A i \in DOMAIN next \ DOMAIN out :
            /\ next[i].kind # "deleteEvent"
            /\ \A id : Writing(next[i], id) => next[i].text # None
  <2>1. CASE next = out
    BY <1>1, <2>1 DEF Proceeds, Longer
  <2>2. CASE \E op \in GoodRequests : /\ ~ IsRead(op) /\ op.kind # "deleteEvent"
                                      /\ next = Append(out, op)
    <3>1. PICK op \in GoodRequests : op.kind # "deleteEvent" /\ next = Append(out, op)
      BY <2>2
    <3>2. \A id : Writing(op, id) => op.text # None
      BY <3>1, ErasingIsDeleting
    <3> HIDE DEF out, next
    <3>3. /\ next \in Seq(GoodRequests) /\ Longer(out, next)
          /\ \A i \in DOMAIN next \ DOMAIN out : next[i] = op
      BY <1>1, <3>1, SentBehind
    <3>4. answers'[d] = answers[d]
      BY DEF Proceeds
    <3>5. QED BY <3>1, <3>2, <3>3, <3>4
  <2>3. QED BY <2>1, <2>2 DEF Proceeds
<1>3. Replies(d)' \subseteq Replies(d)
  BY <1>2 DEF Proceeds, Replies
<1>4. ASSUME NEW i \in DOMAIN stack'[d], IsLastHome(stack'[d], i)
      PROVE  i \in DOMAIN stack[d] /\ stack'[d][i] = stack[d][i] /\ IsLastHome(stack[d], i)
  <2>1. i \in DOMAIN stack[d] /\ stack'[d][i] = stack[d][i] /\ stack[d][i].kind = "home"
    BY <1>4 DEF KeepsScreens, IsLastHome
  <2>2. ASSUME NEW j \in DOMAIN stack[d], j > i, stack[d][j].kind = "home" PROVE FALSE
    <3>1. j \in DOMAIN stack'[d] /\ ~ j > Len(stack[d])
      BY <1>1, <2>2 DEF KeepsScreens
    <3>2. stack'[d][j].kind = "home"
      BY <2>2, <3>1 DEF KeepsScreens
    <3>3. QED BY <1>4, <2>2, <3>1, <3>2 DEF IsLastHome
  <2>3. QED BY <2>1, <2>2 DEF IsLastHome
<1>5. ASSUME NEW i \in DOMAIN stack'[d], IsLastHome(stack'[d], i)
      PROVE  KeptFor(d, stack[d][i])'
  <2> DEFINE s == stack[d][i]
  <2>1. /\ ReadsFollow(out, s.no) /\ stack'[d][i] = s
        /\ \A id \in Ids : Mentions(s, Replies(d), id) => Kept(out, events, id)
    BY <1>4, <1>5 DEF RowsKept, KeptFor
  <2>2. ReadsFollow(next, s.no)
    BY <1>1, <1>2, <2>1, SendingKeeps
  <2>3. \A id : Mentions(s, Replies(d)', id) => Mentions(s, Replies(d), id)
    BY <1>3 DEF Mentions
  <2>4. \A id : Kept(out, events, id) => Kept(next, events, id)
    BY <1>1, <1>2, SendingKeeps
  <2>5. QED BY <2>1, <2>2, <2>3, <2>4 DEF KeptFor
<1>6. QED BY <1>1, <1>2, <1>5, RowsOfOneHome

(* A Home that just appeared mentions nothing, and its read comes last.    *)
LEMMA RowsAsHomeShows ==
    ASSUME Shape, NEW d \in Devices, RowsKept(d), events' = events, ShowsHome(d)
    PROVE  RowsKept(d)'
<1> DEFINE out == outbox[d]
           next == outbox'[d]
<1>1. /\ out \in Seq(GoodRequests) /\ Len(out) \in Nat /\ DOMAIN out = 1 .. Len(out)
      /\ Len(answers[d]) \in 0 .. Len(out)
      /\ stack[d] \in Seq(GoodScreens) /\ Len(stack[d]) \in Nat /\ DOMAIN stack[d] = 1 .. Len(stack[d])
  <2>1. answers[d] \in Seq(GoodAnswers) /\ Len(answers[d]) <= Len(out)
    BY OutstandingIs DEF Shape, Answering
  <2>2. QED BY <2>1, OutstandingIs
<1>2. PICK s \in GoodScreens, op \in GoodRequests :
         /\ s.kind = "home" /\ s.load = AskIndex(NewLoad) /\ s.rows = {}
         /\ op.kind = "readIndex" /\ op.src = s.no
         /\ stack'[d] = Append(stack[d], s) /\ next = Append(out, op)
         /\ answers'[d] = answers[d] /\ Handed(mainQ'[d]) \subseteq Handed(mainQ[d])
         /\ \A p \in Outstanding(d) : IsRead(p) => p.src # s.no
  BY DEF ShowsHome
<1>3. /\ next \in Seq(GoodRequests) /\ Longer(out, next)
      /\ \A i \in DOMAIN next \ DOMAIN out : next[i] = op
  <2> HIDE DEF out, next
  <2>1. QED BY <1>1, <1>2, SentBehind
<1>4. ReadsFollow(next, s.no)
  <2>1. ReadsFollow(out, s.no)
    BY <1>2, PlacesAreOutstanding DEF ReadsFollow
  <2>2. \A i \in DOMAIN next \ DOMAIN out : next[i].kind # "deleteEvent"
    BY <1>2, <1>3
  <2> HIDE DEF out, next
  <2>3. QED BY <1>1, <1>3, <2>1, <2>2, SendingKeeps
<1>5. \A id : ~ Mentions(s, Replies(d)', id)
  <2>1. Replies(d)' \subseteq Replies(d)
    BY <1>2 DEF Replies
  <2>2. \A a \in Replies(d) : \A id : a.op.src = s.no => ~ Tells(a, id)
    <3>1. \A a \in Replies(d) : a.op \in Outstanding(d)
      BY RepliesAnswer
    <3>2. QED BY <1>2, <3>1 DEF Tells, IsRead, Reads
  <2>3. s.load.phase = "index"
    BY <1>2 DEF AskIndex, NewLoad
  <2>4. QED BY <1>2, <2>1, <2>2, <2>3 DEF Mentions
<1>6. ASSUME NEW i \in DOMAIN stack'[d], IsLastHome(stack'[d], i)
      PROVE  stack'[d][i] = s
  <2>1. /\ Len(stack[d]) + 1 \in DOMAIN stack'[d] /\ stack'[d][Len(stack[d]) + 1] = s
        /\ DOMAIN stack'[d] = 1 .. Len(stack[d]) + 1
    BY <1>1, <1>2, AppendProperties, LenProperties
  <2>2. ~ Len(stack[d]) + 1 > i
    BY <1>2, <1>6, <2>1 DEF IsLastHome
  <2>3. i = Len(stack[d]) + 1
    BY <1>1, <1>6, <2>1, <2>2
  <2>4. QED BY <2>1, <2>3
<1>7. \A i \in DOMAIN stack'[d] : IsLastHome(stack'[d], i) => KeptFor(d, stack[d][i])'
  BY <1>4, <1>5, <1>6 DEF KeptFor
<1>8. \A i \in DOMAIN next \ DOMAIN out : next[i].kind # "deleteEvent"
  BY <1>2, <1>3
<1>9. QED BY <1>1, <1>2, <1>3, <1>7, <1>8, RowsOfOneHome

(* The same screens, of the same kinds: the last Home is the same one.     *)
LEMMA SameLastHome ==
    ASSUME NEW d \in Devices, SameScreens(d), NEW i \in DOMAIN stack'[d]
    PROVE  IsLastHome(stack'[d], i) <=> IsLastHome(stack[d], i)
BY DEF SameScreens, IsLastHome

(* The row goes with the tap on Delete: by then all reads of that Home are *)
(* answered, so none goes before the delete, and no other row is of the    *)
(* same event.                                                             *)
LEMMA RowsAfterDelete ==
    ASSUME Shape, NEW d \in Devices, RowsKept(d), LoadsOf(d), events' = events, DidTapDelete(d)
    PROVE  RowsKept(d)'
<1> DEFINE out == outbox[d]
           next == outbox'[d]
           top == Len(stack[d])
           s == stack[d][top]
           t == stack'[d][top]
<1>1. /\ out \in Seq(GoodRequests) /\ Len(out) \in Nat /\ DOMAIN out = 1 .. Len(out)
      /\ Len(answers[d]) \in 0 .. Len(out)
      /\ stack[d] \in Seq(GoodScreens) /\ top \in Nat /\ DOMAIN stack[d] = 1 .. top
      /\ top \in DOMAIN stack[d] /\ s.kind = "home"
  <2>1. answers[d] \in Seq(GoodAnswers) /\ Len(answers[d]) <= Len(out)
    BY OutstandingIs DEF Shape, Answering
  <2>2. OnTop(d, "home")
    BY DEF DidTapDelete
  <2>3. QED BY <2>1, <2>2, OutstandingIs, TopIsScreen
<1>2. PICK event \in Top(d).rows :
         LET op == Request("deleteEvent", user[d], event.id, None, Top(d).no)
         IN  /\ Top(d) = s /\ op \in GoodRequests /\ next = Append(out, op)
             /\ answers' = answers /\ mainQ' = mainQ /\ SameScreens(d)
             /\ t.load = s.load /\ t.rows = s.rows \ {event}
  <2>1. QED BY <1>1, DeleteTakesRow
<1> DEFINE op == Request("deleteEvent", user[d], event.id, None, Top(d).no)
<1>3. op.kind = "deleteEvent" /\ op.id = event.id /\ op.text = None
  BY DEF Request
<1>4. /\ s.load.phase = "done" /\ event \in EventsIn(s.load.eventArray)
      /\ s.rows \subseteq EventsIn(s.load.eventArray)
      /\ ReadsOf(Outstanding(d), s.no) = {}
      /\ \A x, y \in EventsIn(s.load.eventArray) : x.id = y.id => x = y
  <2>1. LoadFor(s, ReadsOf(Outstanding(d), s.no)) /\ event \in s.rows
    BY <1>1, <1>2 DEF LoadsOf
  <2>2. s.load.phase = "done" /\ s.rows \subseteq EventsIn(s.load.eventArray)
    BY <2>1 DEF LoadFor
  <2>3. ReadsOf(Outstanding(d), s.no) = {}
    BY <2>1, <2>2 DEF LoadFor
  <2>4. \A x, y \in EventsIn(s.load.eventArray) : x.id = y.id => x = y
    BY <2>1 DEF LoadFor, EventsIn
  <2>5. QED BY <2>1, <2>2, <2>3, <2>4
<1>5. \A p \in Outstanding(d) : IsRead(p) => p.src # s.no
  BY <1>4 DEF ReadsOf
<1>6. /\ next \in Seq(GoodRequests) /\ Longer(out, next)
      /\ \A i \in DOMAIN next \ DOMAIN out : next[i] = op
  <2>1. op \in GoodRequests /\ next = Append(out, op)
    BY <1>2
  <2> HIDE DEF out, next, op
  <2>2. QED BY <1>1, <2>1, SentBehind
<1> HIDE DEF op, next
<1>7. /\ ReadsFollow(out, s.no)
      /\ \A id \in Ids : Mentions(s, Replies(d), id) => Kept(out, events, id)
  <2>1. IsLastHome(stack[d], top)
    BY <1>1 DEF IsLastHome
  <2>2. QED BY <1>1, <2>1 DEF RowsKept, KeptFor
<1>8. ReadsFollow(next, s.no)
  <2>1. \A j \in DOMAIN out : IsRead(out[j]) => out[j].src # s.no
    BY <1>5, PlacesAreOutstanding
  <2>2. \A j \in DOMAIN next : ~ (IsRead(next[j]) /\ next[j].src = s.no)
    BY <1>3, <1>6, <2>1 DEF Longer, IsRead, Reads
  <2>3. QED BY <2>2 DEF ReadsFollow
<1>9. ASSUME NEW id \in Ids, Mentions(t, Replies(d)', id)
      PROVE  Kept(next, events, id)
  <2>1. Replies(d)' = Replies(d)
    BY <1>2 DEF Replies
  <2>2. \A a \in Replies(d) : a.op.src = s.no => ~ Tells(a, id)
    <3>1. \A a \in Replies(d) : a.op \in Outstanding(d)
      BY RepliesAnswer
    <3>2. QED BY <1>5, <3>1 DEF Tells, IsRead, Reads
  <2>3. t.no = s.no
    BY <1>1, <1>2 DEF SameScreens
  <2>4. PICK row \in s.rows \ {event} : row.id = id
    BY <1>2, <1>4, <1>9, <2>1, <2>2, <2>3 DEF Mentions
  <2>5. id # event.id
    BY <1>4, <2>4
  <2>6. \A i \in DOMAIN next \ DOMAIN out : ~ Writing(next[i], id)
    BY <1>3, <1>6, <2>5 DEF Writing
  <2>7. Kept(out, events, id)
    BY <1>7, <2>4 DEF Mentions
  <2> HIDE DEF out
  <2>8. QED BY <1>1, <1>6, <2>6, <2>7, SendingKeeps
<1>10. ASSUME NEW i \in DOMAIN stack'[d], IsLastHome(stack'[d], i)
       PROVE  KeptFor(d, stack[d][i])'
  <2>1. i \in DOMAIN stack[d] /\ IsLastHome(stack[d], i)
    BY <1>2, <1>10, SameLastHome DEF SameScreens
  <2>2. ~ top > i
    BY <1>1, <2>1 DEF IsLastHome
  <2>3. i = top
    BY <1>1, <2>1, <2>2
  <2>4. t.no = s.no
    BY <1>1, <1>2 DEF SameScreens
  <2>5. ReadsFollow(next, t.no)
    BY <1>8, <2>4
  <2>6. QED BY <1>9, <2>3, <2>5 DEF KeptFor, next
<1>11. /\ answers'[d] = answers[d]
       /\ \A i \in DOMAIN next \ DOMAIN out : next[i].kind = "deleteEvent" => next[i].text = None
  BY <1>2, <1>3, <1>6
<1>12. QED BY <1>1, <1>6, <1>10, <1>11, RowsOfOneHome DEF next

(* The keys of a list come: more reads are sent, or answered on the spot   *)
(* from the last write under way.                                          *)
LEMMA RowsAfterKeys ==
    ASSUME Shape, Numbered, Refusals, NEW d \in Devices, RowsKept(d), LoadsOf(d),
           Once(outbox[d], mainQ[d]), events' = events, OnReadIndex(d)
    PROVE  RowsKept(d)'
<1> DEFINE out == outbox[d]
           next == outbox'[d]
           a == Head(mainQ[d])
           n == a.op.src
<1>1. /\ out \in Seq(GoodRequests) /\ Len(out) \in Nat /\ DOMAIN out = 1 .. Len(out)
      /\ Len(answers[d]) \in 0 .. Len(out)
  <2>1. answers[d] \in Seq(GoodAnswers) /\ Len(answers[d]) <= Len(out)
    BY OutstandingIs DEF Shape, Answering
  <2>2. QED BY <2>1, OutstandingIs
<1>2. PICK sent \in Seq(GoodRequests) :
         next = out \o sent /\ answers'[d] = answers[d]
         /\ \A i \in DOMAIN sent : sent[i].kind = "readEvent"
  <2>1. answers' = answers
    BY KeysAnswered
  <2>2. PICK sent \in Seq(GoodRequests), found \in Seq(GoodAnswers) :
           next = out \o sent /\ OneReadPerKey(d, a, sent, found)
    BY KeysAnswered
  <2>3. \A i \in DOMAIN sent : sent[i].kind = "readEvent"
    BY <2>2 DEF OneReadPerKey, Reading
  <2>4. QED BY <2>1, <2>2, <2>3
<1>3. /\ next \in Seq(GoodRequests) /\ Longer(out, next)
      /\ \A i \in DOMAIN next \ DOMAIN out : next[i].kind = "readEvent"
  <2> HIDE DEF out, next
  <2>1. /\ next \in Seq(GoodRequests) /\ Longer(out, next)
        /\ \A i \in DOMAIN next \ DOMAIN out : \E j \in DOMAIN sent : next[i] = sent[j]
    BY <1>1, <1>2, SentBehind
  <2>2. QED BY <1>2, <2>1
<1>4. \A id : Kept(out, events, id) => Kept(next, events, id)
  BY <1>1, <1>3, SendingKeeps DEF Writing
<1>5. ASSUME NEW b \in Replies(d)', b \notin Replies(d), NEW id \in Ids, Tells(b, id)
      PROVE  Kept(out, events, id)
  <2> DEFINE last == Max(PendingWrites(d, id))
  <2>1. b = LocalAnswer(d, b.op) /\ PendingWrites(d, id) # {} /\ b.op.id = id /\ b.text # None
    BY <1>5, KeysMakeReplies DEF Tells
  <2>2. last \in PendingWrites(d, id) /\ \A i \in PendingWrites(d, id) : i <= last
    BY <2>1, LastPendingWrite
  <2>3. b.text = out[last].text
    BY <2>1 DEF LocalAnswer, Answer
  <2> HIDE DEF last
  <2>4. \A i \in DOMAIN out : Writing(out[i], id) <=> i \in PendingWrites(d, id)
    BY DEF Writing, PendingWrites
  <2>5. last \in DOMAIN out
    BY <2>2 DEF PendingWrites
  <2>6. \A i \in DOMAIN out : Writing(out[i], id) /\ out[i].text = None => last > i
    BY <1>1, <2>1, <2>2, <2>3, <2>4, <2>5
  <2>7. Writing(out[last], id)
    BY <2>2, <2>4, <2>5
  <2>8. QED BY <2>5, <2>6, <2>7 DEF Kept
<1>6. ASSUME NEW i \in DOMAIN stack[d]
      PROVE  /\ stack'[d][i].no = stack[d][i].no /\ stack'[d][i].rows = stack[d][i].rows
             /\ \/ stack'[d][i].load = stack[d][i].load
                \/ IdsIn(stack'[d][i].load.eventArray) = {}
  <2>1. SameScreens(d) /\ stack'[d][i].rows = stack[d][i].rows
    BY KeysAreLoaded
  <2>2. CASE i # Position(d, n)
    BY <2>1, <2>2, KeysAreLoaded DEF SameScreens
  <2>3. CASE i = Position(d, n)
    <3> DEFINE l == stack[d][i].load
               m == stack'[d][i].load
    <3>1. i # 0
      BY PositionIs
    <3>2. l \in AnyLoads /\ l.eventArray = << >>
      BY <2>3, <3>1, LoadsOfAnswered, ShownScreen
    <3>3. m \in {IndexFailed(l), IndexIsNull(l), IndexFound(l, a.keys)}
      BY <2>3, KeysAreLoaded
    <3> HIDE DEF l, m, a
    <3>4. m.eventArray = l.eventArray
      BY <3>2, <3>3, LoadsCollect
    <3>5. \A list : list = << >> => IdsIn(list) = {}
      BY DEF IdsIn
    <3>6. IdsIn(m.eventArray) = {}
      BY <3>2, <3>4, <3>5
    <3>7. QED BY <2>1, <3>6 DEF SameScreens, m
  <2>4. QED BY <2>2, <2>3
<1>7. ASSUME NEW i \in DOMAIN stack'[d], IsLastHome(stack'[d], i)
      PROVE  KeptFor(d, stack[d][i])'
  <2> DEFINE s == stack[d][i]
             t == stack'[d][i]
  <2>1. i \in DOMAIN stack[d] /\ IsLastHome(stack[d], i)
    BY <1>7, KeysAreLoaded, SameLastHome DEF SameScreens
  <2>2. /\ ReadsFollow(out, s.no) /\ t.no = s.no /\ t.rows = s.rows
        /\ t.load = s.load \/ IdsIn(t.load.eventArray) = {}
        /\ \A id \in Ids : Mentions(s, Replies(d), id) => Kept(out, events, id)
    BY <1>6, <2>1 DEF RowsKept, KeptFor
  <2> HIDE DEF out, next, s, t
  <2>3. ReadsFollow(next, t.no)
    BY <1>1, <1>3, <2>2, SendingKeeps
  <2>4. ASSUME NEW id \in Ids, Mentions(t, Replies(d)', id) PROVE Kept(out, events, id)
    <3>1. CASE \E b \in Replies(d)' : b \notin Replies(d) /\ Tells(b, id)
      BY <1>5, <3>1
    <3>2. CASE ~ \E b \in Replies(d)' : b \notin Replies(d) /\ Tells(b, id)
      <4>1. Mentions(s, Replies(d), id)
        BY <2>2, <2>4, <3>2 DEF Mentions
      <4>2. QED BY <2>2, <4>1
    <3>3. QED BY <3>1, <3>2
  <2>5. QED BY <1>4, <2>3, <2>4 DEF KeptFor, next, t
<1>8. QED BY <1>1, <1>2, <1>3, <1>7, RowsOfOneHome

(* An event comes: the Home was told of it before.                         *)
LEMMA RowsAfterEvent ==
    ASSUME Shape, Numbered, Refusals, NEW d \in Devices, RowsKept(d), LoadsOf(d),
           Once(outbox[d], mainQ[d]), events' = events, OnReadEvent(d)
    PROVE  RowsKept(d)'
<1> DEFINE out == outbox[d]
           a == Head(mainQ[d])
           n == a.op.src
           event == [id |-> a.op.id, text |-> a.text]
<1>1. /\ outbox'[d] = out /\ answers'[d] = answers[d] /\ mainQ'[d] = Tail(mainQ[d])
      /\ mainQ[d] # << >> /\ a.do = "answer" /\ a.op.kind = "readEvent" /\ SameScreens(d)
  BY EventAnswered DEF netVars
<1>2. a \in Replies(d) /\ Replies(d)' \subseteq Replies(d)
  <2>1. Handed(mainQ[d]) = Handed(Tail(mainQ[d])) \cup {a}
    BY <1>1, OutstandingIs, QueueShrinks
  <2>2. QED BY <1>1, <2>1 DEF Replies
<1>3. ASSUME NEW i \in DOMAIN stack[d], NEW id, Mentions(stack'[d][i], Replies(d)', id)
      PROVE  Mentions(stack[d][i], Replies(d), id)
  <2> DEFINE s == stack[d][i]
             t == stack'[d][i]
             l == s.load
             m == t.load
  <2>1. t.no = s.no /\ t.rows = s.rows /\ l \in AnyLoads
    BY <1>1, EventAnswered, ShownScreen DEF SameScreens
  <2>2. CASE i # Position(d, n)
    <3>1. m = l
      BY <2>2, EventAnswered
    <3> HIDE DEF s, t
    <3>2. QED BY <1>2, <1>3, <2>1, <3>1 DEF Mentions, s, t
  <2>3. CASE i = Position(d, n)
    <3>1. i # 0 /\ s.no = n
      BY <2>3, PositionIs
    <3>2. l.phase = "events"
      BY <2>3, <3>1, LoadsOfAnswered
    <3>3. /\ a.text # None => event \in EventModel
          /\ m = IF a.ok /\ a.text # None THEN EventFound(l, event) ELSE EventFailed(l, a.op.id)
      BY <2>3, EventAnswered
    <3>4. id \in IdsIn(m.eventArray) => id \in IdsIn(l.eventArray) \/ Tells(a, id)
      <4>1. \A list : IdsIn(list) = {e.id : e \in EventsIn(list)}
        BY DEF IdsIn, EventsIn
      <4>2. CASE a.ok /\ a.text # None
        <5> HIDE DEF l, m, event, a
        <5>1. EventsIn(m.eventArray) = EventsIn(l.eventArray) \cup {event}
          BY <2>1, <3>3, <4>2, EventIsCollected
        <5>2. id \in IdsIn(m.eventArray) => id \in IdsIn(l.eventArray) \/ id = event.id
          BY <4>1, <5>1
        <5>3. event.id = a.op.id
          BY DEF event
        <5>4. QED BY <1>1, <4>2, <5>2, <5>3 DEF Tells, a
      <4>3. CASE ~ (a.ok /\ a.text # None)
        <5>1. m.eventArray = l.eventArray
          BY <2>1, <3>3, <4>3, LoadsCollect
        <5>2. QED BY <5>1
      <4>4. QED BY <4>2, <4>3
    <3> HIDE DEF s, t, a
    <3>5. QED BY <1>2, <1>3, <2>1, <3>1, <3>2, <3>4 DEF Mentions, s, t
  <2>4. QED BY <2>2, <2>3
<1>4. ASSUME NEW i \in DOMAIN stack'[d], IsLastHome(stack'[d], i)
      PROVE  KeptFor(d, stack[d][i])'
  <2>1. i \in DOMAIN stack[d] /\ IsLastHome(stack[d], i) /\ stack'[d][i].no = stack[d][i].no
    BY <1>1, <1>4, SameLastHome DEF SameScreens
  <2>2. KeptFor(d, stack[d][i])
    BY <2>1 DEF RowsKept
  <2>3. QED BY <1>1, <1>3, <2>1, <2>2 DEF KeptFor
<1>5. QED BY <1>1, <1>4 DEF RowsKept

(* The rows are set: the load had collected their events.                  *)
LEMMA RowsAfterNotify ==
    ASSUME Shape, NEW d \in Devices, RowsKept(d), LoadsOf(d), events' = events, Notify(d)
    PROVE  RowsKept(d)'
<1>1. /\ UNCHANGED <<netVars, mainQ>> /\ SameScreens(d)
      /\ \A i \in DOMAIN stack[d] :
            \/ stack'[d][i] = stack[d][i]
            \/ /\ stack[d][i].load.phase = "notify"
               /\ stack'[d][i].load = GroupNotify(stack[d][i].load)
               /\ stack'[d][i].rows = EventsIn(stack[d][i].load.eventS)
  BY NotifyShowsEvents
<1>2. Replies(d)' = Replies(d) /\ outbox' = outbox /\ answers' = answers
  BY <1>1 DEF Replies, netVars
<1>3. ASSUME NEW i \in DOMAIN stack[d], NEW id, Mentions(stack'[d][i], Replies(d)', id)
      PROVE  Mentions(stack[d][i], Replies(d), id)
  <2> DEFINE s == stack[d][i]
             t == stack'[d][i]
  <2>1. CASE t = s
    BY <1>2, <1>3, <2>1
  <2>2. CASE s.load.phase = "notify" /\ t.load = GroupNotify(s.load) /\ t.rows = EventsIn(s.load.eventS)
    <3>1. t.no = s.no /\ s.load \in AnyLoads /\ s.load.eventS = s.load.eventArray
      BY <1>1, ShownScreen DEF SameScreens, LoadsOf, LoadFor
    <3>2. t.load.phase = "done"
      BY <2>2, <3>1 DEF GroupNotify, AnyLoads
    <3>3. (\E row \in t.rows : row.id = id) => id \in IdsIn(s.load.eventArray)
      BY <2>2, <3>1 DEF EventsIn, IdsIn
    <3> HIDE DEF s, t
    <3>4. QED BY <1>2, <1>3, <2>2, <3>1, <3>2, <3>3 DEF Mentions, s, t
  <2>3. QED BY <1>1, <2>1, <2>2
<1>4. ASSUME NEW i \in DOMAIN stack'[d], IsLastHome(stack'[d], i)
      PROVE  KeptFor(d, stack[d][i])'
  <2>1. i \in DOMAIN stack[d] /\ IsLastHome(stack[d], i) /\ stack'[d][i].no = stack[d][i].no
    BY <1>1, <1>4, SameLastHome DEF SameScreens
  <2>2. KeptFor(d, stack[d][i])
    BY <2>1 DEF RowsKept
  <2>3. QED BY <1>2, <1>3, <2>1, <2>2 DEF KeptFor
<1>5. QED BY <1>2, <1>4 DEF RowsKept

(* A process that is gone left nothing to keep.                            *)
LEMMA NothingIsKept ==
    ASSUME NEW d \in Devices
    PROVE  /\ stack[d] = << >> /\ outbox[d] = << >> /\ answers[d] = << >> => RowsKept(d)
           /\ stack'[d] = << >> /\ outbox'[d] = << >> /\ answers'[d] = << >> => RowsKept(d)'
<1>1. \A a : a = << >> => DOMAIN a = {}
  OBVIOUS
<1>2. QED BY <1>1 DEF RowsKept, Applied, Erases

(* A step of a device that does not refuse anything keeps what its Home    *)
(* shows.                                                                  *)
LEMMA RowsStep ==
    ASSUME Shape, Numbered, Refusals, NEW d \in Devices, RowsKept(d), LoadsOf(d),
           Once(outbox[d], mainQ[d]), StepOf(d), ~ ServerRefuses(d)
    PROVE  RowsKept(d)'
<1>1. CASE Carries(d)
  <2>1. \/ ServerGrants(d) \/ Receive(d) \/ Disconnect(d) \/ Reconnect(d) \/ GetTimesOut(d)
    BY <1>1 DEF Carries, OnNetwork
  <2>2. UNCHANGED appVars
    BY <1>1 DEF Carries
  <2>3. QED BY <2>1, <2>2, RowsAfterGrant, RowsOverConnection
<1>2. CASE ~ Carries(d)
  <2>1. events' = events
    BY <1>2, AppLeavesDb
  <2>2. ASSUME NEW why, Stop(d, why) PROVE RowsKept(d)'
    <3>1. stack'[d] = << >> /\ outbox'[d] = << >> /\ answers'[d] = << >>
      BY <2>2, StopEmpties
    <3>2. QED BY <3>1, NothingIsKept
  <2>3. CASE \/ KeepsScreens(d) /\ Proceeds(d)
             \/ ShowsHome(d)
    BY <2>1, <2>3, RowsAsScreensMove, RowsAsHomeShows
  <2>4. CASE DidTapDelete(d) \/ OnReadIndex(d) \/ OnReadEvent(d) \/ Notify(d)
    BY <2>1, <2>4, RowsAfterDelete, RowsAfterKeys, RowsAfterEvent, RowsAfterNotify
  <2>5. QED BY <1>2, <2>2, <2>3, <2>4, AppStepIs
<1>3. QED BY <1>1, <1>2

(* A step concerns the process of one device; ending one, and refusing a   *)
(* request, is a fault.                                                    *)
LEMMA FaultsCount ==
    ASSUME Shape, faults \in Nat, NEW d \in Devices, StepOf(d)
    PROVE  /\ faults' \in Nat
           /\ faults' = 0 => faults = 0 /\ ~ ServerRefuses(d)
           /\ \A e \in Devices \ {d} : status'[e] = status[e]
           /\ faults' = 0 /\ status'[d] = "down" => status[d] = "down"
<1>1. status \in [Devices -> {"down", "up"} \cup Traps]
  BY DEF Shape, Types
<1>2. ~ ServerRefuses(d) \/ faults' = faults + 1
  BY DEF ServerRefuses
<1>3. CASE faults' = faults /\ status' = status
  BY <1>1, <1>2, <1>3
<1>4. CASE faults' = faults + 1
           /\ (status' = status \/ \E why : status' = [status EXCEPT ![d] = why])
  BY <1>1, <1>4
<1>5. ASSUME NEW why, why # "down", faults' = faults, status' = [status EXCEPT ![d] = why]
      PROVE  /\ faults' \in Nat
             /\ faults' = 0 => faults = 0 /\ ~ ServerRefuses(d)
             /\ \A e \in Devices \ {d} : status'[e] = status[e]
             /\ faults' = 0 /\ status'[d] = "down" => status[d] = "down"
  BY <1>1, <1>2, <1>5
<1>6. ASSUME NEW why \in Traps, Stop(d, why), faults' = faults
      PROVE  /\ faults' \in Nat
             /\ faults' = 0 => faults = 0 /\ ~ ServerRefuses(d)
             /\ \A e \in Devices \ {d} : status'[e] = status[e]
             /\ faults' = 0 /\ status'[d] = "down" => status[d] = "down"
  <2>1. why # "down"
    BY <1>6 DEF Traps
  <2>2. faults' = faults /\ status' = [status EXCEPT ![d] = why]
    BY <1>6 DEF Stop
  <2>3. QED BY <1>5, <2>1, <2>2
<1>7. CASE Launch(d)
  BY <1>5, <1>7 DEF Launch, histVars
<1>8. CASE Kill(d)
  BY <1>4, <1>8 DEF Kill, Stop
<1>9. CASE \/ DidTapAddEvent(d) \/ DidTapEdit(d) \/ DidTapLogOut(d)
           \/ DidConfirmLogOut(d) \/ DidCancelLogOut(d)
  BY <1>3, <1>9 DEF DidTapAddEvent, DidTapEdit, DidTapLogOut, DidConfirmLogOut,
                    DidCancelLogOut, Navigate, histVars, sessionVars
<1>10. CASE DidTapDelete(d) \/ DidTapUpdate(d) \/ DidTapBack(d) \/ DidTapLogIn(d) \/ SignInAnswered(d)
  BY <1>3, <1>10 DEF DidTapDelete, DidTapUpdate, DidTapBack, DidTapLogIn, SignInAnswered,
                     histVars, sessionVars
<1>11. CASE DidTapSaveEvent(d)
  <2>1. CASE Top(d).user = None
    <3>1. Stop(d, "trap in saveEvent") /\ faults' = faults
      BY <1>11, <2>1 DEF Trap, DidTapSaveEvent
    <3>2. QED BY <1>6, <3>1 DEF Traps
  <2>2. CASE Top(d).user # None
    BY <1>3, <1>11, <2>2 DEF DidTapSaveEvent, histVars, sessionVars
  <2>3. QED BY <2>1, <2>2
<1>12. CASE RunPush(d)
  <2> DEFINE task == Head(mainQ[d])
  <2>2. CASE Position(d, task.from) = 0
    <3>1. UNCHANGED <<histVars, appVars>>
      BY <1>12, <2>2 DEF RunPush
    <3>2. QED BY <1>3, <3>1 DEF appVars, sessionVars, histVars
  <2>3. CASE Position(d, task.from) # 0 /\ task.screen.kind # "home"
    BY <1>3, <1>12, <2>3 DEF RunPush, sessionVars, histVars
  <2>4. CASE Position(d, task.from) # 0 /\ task.screen.kind = "home" /\ user[d] = None
    <3>1. Stop(d, "trap in fetchEventsFromUsers") /\ faults' = faults
      BY <1>12, <2>4 DEF Trap, RunPush
    <3>2. QED BY <1>6, <3>1 DEF Traps
  <2>5. CASE Position(d, task.from) # 0 /\ task.screen.kind = "home" /\ user[d] # None
    BY <1>3, <1>12, <2>5 DEF RunPush, sessionVars, histVars
  <2>6. QED BY <2>2, <2>3, <2>4, <2>5
<1>13. CASE OnDeleteEvent(d)
  <2>1. CASE Head(mainQ[d]).ok /\ Head(mainQ[d]).op.user = None
    <3>1. Stop(d, "trap in deleteEvent") /\ faults' = faults
      BY <1>13, <2>1 DEF Trap, OnDeleteEvent
    <3>2. QED BY <1>6, <3>1 DEF Traps
  <2>2. CASE ~ (Head(mainQ[d]).ok /\ Head(mainQ[d]).op.user = None)
    <3>1. UNCHANGED <<histVars, appVars>>
      BY <1>13, <2>2 DEF OnDeleteEvent
    <3>2. QED BY <1>3, <3>1 DEF appVars, sessionVars, histVars
  <2>3. QED BY <2>1, <2>2
<1>14. CASE OnAlert(d) \/ OnSignedIn(d) \/ OnSaveIndex(d) \/ OnSaved(d) \/ OnDeleteIndex(d)
  <2>1. UNCHANGED <<histVars, status>>
    BY <1>14 DEF OnAlert, OnSignedIn, OnSaveIndex, OnSaved, OnDeleteIndex, appVars, sessionVars
  <2>2. QED BY <1>3, <2>1 DEF histVars
<1>18. CASE OnReadIndex(d) \/ OnReadEvent(d) \/ Notify(d)
  <2>1. UNCHANGED <<histVars, sessionVars>>
    <3>1. CASE OnReadIndex(d)
      BY <3>1 DEF OnReadIndex
    <3>2. CASE OnReadEvent(d)
      BY <3>2 DEF OnReadEvent
    <3>3. CASE Notify(d)
      BY <3>3 DEF Notify
    <3>4. QED BY <1>18, <3>1, <3>2, <3>3
  <2>2. QED BY <1>3, <2>1 DEF histVars, sessionVars
<1>15. CASE ServerRefuses(d) /\ UNCHANGED appVars
  BY <1>4, <1>15 DEF ServerRefuses, appVars, sessionVars
<1>16. CASE /\ UNCHANGED appVars
            /\ \/ ServerGrants(d) \/ Receive(d) \/ Disconnect(d) \/ Reconnect(d) \/ GetTimesOut(d)
  BY <1>3, <1>16 DEF ServerGrants, Receive, Disconnect, Reconnect, GetTimesOut, appVars,
                     sessionVars, histVars
<1>17. QED BY <1>7, <1>8, <1>9, <1>10, <1>11, <1>12, <1>13, <1>14, <1>15, <1>16,
             <1>18 DEF StepOf
-----------------------------------------------------------------------------
LoneInv == faults \in Nat /\ LoadsAdd /\ \A d \in Devices : Lone(d) => RowsKept(d)

(* The loads and the Homes of other devices are not concerned by a step.   *)
LEMMA LoneApart ==
    ASSUME NEW d \in Devices, Apart(d), NEW e \in Devices \ {d}
    PROVE  /\ LoadsOf(e) => LoadsOf(e)'
           /\ events' = events /\ RowsKept(e) => RowsKept(e)'
<1>1. /\ outbox'[e] = outbox[e] /\ answers'[e] = answers[e] /\ mainQ'[e] = mainQ[e]
      /\ stack'[e] = stack[e]
  BY DEF Apart
<1>2. Outstanding(e)' = Outstanding(e) /\ Replies(e)' = Replies(e)
  BY <1>1 DEF Outstanding, Replies
<1>3. LoadsOf(e) => LoadsOf(e)'
  BY <1>1, <1>2 DEF LoadsOf
<1>4. ASSUME events' = events, RowsKept(e) PROVE RowsKept(e)'
  BY <1>1, <1>2, <1>4 DEF RowsKept, KeptFor
<1>5. QED BY <1>3, <1>4

(* While one device runs the app no other is heard of, so a step is its    *)
(* own or leaves its Home and the database alone.                          *)
LEMMA LoneStep ==
    ASSUME Shape, Numbered, Refusals, Unique, LoneInv, NEW e \in Devices, StepOf(e)
    PROVE  LoneInv'
<1>1. /\ Apart(e) /\ faults \in Nat /\ faults' \in Nat
      /\ faults' = 0 => faults = 0 /\ ~ ServerRefuses(e)
      /\ \A x \in Devices \ {e} : status'[x] = status[x]
      /\ faults' = 0 /\ status'[e] = "down" => status[e] = "down"
  BY StepIsApart, FaultsCount DEF LoneInv
<1>2. ASSUME NEW d \in Devices PROVE LoadsOf(d) /\ LoadsOf(d)'
  <2>1. LoadsOf(d)
    BY DEF LoneInv, LoadsAdd
  <2>2. CASE d = e
    <3>1. Once(outbox[e], mainQ[e])
      BY DEF Unique
    <3>2. LoadsOf(e)
      BY <2>1, <2>2
    <3>3. LoadsOf(e)'
      BY <3>1, <3>2, LoadsStep
    <3>4. QED BY <2>1, <2>2, <3>3
  <2>3. CASE d # e
    BY <1>1, <2>1, <2>3, LoneApart
  <2>4. QED BY <2>2, <2>3
<1>3. ASSUME Lone(e)' PROVE RowsKept(e)'
  <2>1. faults' = 0 /\ \A x \in Devices \ {e} : status'[x] = "down"
    BY <1>3 DEF Lone
  <2>2. faults = 0 /\ ~ ServerRefuses(e) /\ \A x \in Devices \ {e} : status[x] = "down"
    BY <1>1, <2>1
  <2>3. RowsKept(e)
    <3>1. CASE stack[e] = << >>
      <4>1. outbox[e] = << >> /\ answers[e] = << >>
        BY <3>1 DEF Shape, Answering
      <4>2. QED BY <3>1, <4>1, NothingIsKept
    <3>2. CASE stack[e] # << >>
      BY <2>2, <3>2 DEF Lone, LoneInv
    <3>3. QED BY <3>1, <3>2
  <2>4. LoadsOf(e) /\ Once(outbox[e], mainQ[e])
    BY <1>2 DEF Unique
  <2>5. QED BY <2>2, <2>3, <2>4, RowsStep
<1>4. ASSUME NEW d \in Devices \ {e}, Lone(d)' PROVE RowsKept(d)'
  <2>1. /\ faults' = 0 /\ stack'[d] # << >> /\ status'[e] = "down"
        /\ \A x \in Devices \ {d} : status'[x] = "down"
    BY <1>4 DEF Lone
  <2>2. faults = 0 /\ status[e] = "down" /\ stack[d] # << >>
    BY <1>1, <2>1 DEF Apart
  <2>3. Lone(d)
    BY <1>1, <2>1, <2>2 DEF Lone
  <2>4. ~ ServerGrants(e)
    BY <2>2, UnprocessedIs DEF ServerGrants
  <2>5. events' = events
    BY <2>4, DbStep DEF dbVars
  <2>6. RowsKept(d)
    BY <2>3 DEF LoneInv
  <2>7. QED BY <1>1, <2>5, <2>6, LoneApart
<1>5. ASSUME NEW d \in Devices PROVE Lone(d)' => RowsKept(d)'
  BY <1>3, <1>4
<1>6. faults' \in Nat
  BY <1>1
<1>7. LoadsAdd'
  BY <1>2 DEF LoadsAdd
<1>8. QED BY <1>5, <1>6, <1>7 DEF LoneInv

(* While one device runs the app without faults, its last Home mentions    *)
(* nothing that is not kept.                                               *)
THEOREM LoneInvariant == Spec => []LoneInv
<1>1. Init => LoneInv
  <2> SUFFICES ASSUME Init PROVE LoneInv
    OBVIOUS
  <2>1. faults = 0 /\ \A d \in Devices : stack[d] = << >>
    BY DEF Init, ClientInit
  <2>2. \A d \in Devices : ~ Lone(d)
    BY <2>1 DEF Lone
  <2>3. \A a : a = << >> => DOMAIN a = {}
    OBVIOUS
  <2>4. LoadsAdd
    BY <2>1, <2>3 DEF LoadsAdd, LoadsOf
  <2>5. faults \in Nat
    BY <2>1
  <2>6. QED BY <2>2, <2>4, <2>5 DEF LoneInv
<1>2. AppInv /\ ReadInv /\ LoneInv /\ [Next]_vars => LoneInv'
  <2> SUFFICES ASSUME AppInv, ReadInv, LoneInv, [Next]_vars PROVE LoneInv'
    OBVIOUS
  <2>1. Shape /\ Numbered /\ Refusals /\ Unique
    BY DEF AppInv, ReadInv
  <2>2. CASE Next
    <3>1. PICK e \in Devices : StepOf(e)
      BY <2>2, StepCases
    <3>2. QED BY <2>1, <3>1, LoneStep
  <2>3. CASE UNCHANGED vars
    <3>1. /\ events' = events /\ outbox' = outbox /\ answers' = answers /\ mainQ' = mainQ
          /\ stack' = stack /\ faults' = faults /\ status' = status
      BY <2>3 DEF vars, dbVars, netVars, histVars, appVars, sessionVars, screenVars
    <3>2. \A d \in Devices : Outstanding(d)' = Outstanding(d) /\ Replies(d)' = Replies(d)
      BY <3>1 DEF Outstanding, Replies
    <3>3. \A d \in Devices : LoadsOf(d) => LoadsOf(d)'
      BY <3>1, <3>2 DEF LoadsOf
    <3>4. \A d \in Devices : RowsKept(d) => RowsKept(d)'
      BY <3>1, <3>2 DEF RowsKept, KeptFor
    <3>5. \A d \in Devices : Lone(d)' => Lone(d)
      BY <3>1 DEF Lone
    <3>6. QED BY <3>1, <3>3, <3>4, <3>5 DEF LoneInv, LoadsAdd
  <2>4. QED BY <2>2, <2>3
<1>3. QED BY <1>1, <1>2, AppInvariant, ReadInvariant, PTL DEF Spec

(* While only one device has run the app, and without faults, the Home on  *)
(* show lists no event that is gone, unless a save or an update of it is   *)
(* still to be written (HomeService.deleteEvent, HomeService.getData).     *)
THEOREM RowsStayStored == Spec => []RowsAreStored
<1>1. Shape /\ LoneInv => RowsAreStored
  <2> SUFFICES ASSUME Shape, LoneInv, NEW d \in Devices, Lone(d), NEW row \in Top(d).rows
               PROVE  \/ events[row.id] # None
                      \/ \E i \in PendingWrites(d, row.id) : outbox[d][i].text # None
    BY DEF RowsAreStored, Lone
  <2> DEFINE n == Len(stack[d])
             out == outbox[d]
  <2>1. stack[d] \in Seq(GoodScreens) /\ stack[d] # << >>
    BY DEF Shape, Types, Lone
  <2>2. n \in DOMAIN stack[d] /\ Top(d) = stack[d][n] /\ \A j \in DOMAIN stack[d] : ~ (j > n)
    BY <2>1 DEF Top, Last
  <2>3. row \in stack[d][n].rows /\ row.id \in Ids
    BY <2>1, <2>2 DEF GoodScreens, AnyScreens, EventModel
  <2> HIDE DEF n
  <2>4. stack[d][n].kind = "home"
    <3>1. LoadFor(stack[d][n], ReadsOf(Outstanding(d), stack[d][n].no))
      BY <2>2 DEF LoneInv, LoadsAdd, LoadsOf
    <3>2. NewLoad.phase # "done"
      BY DEF NewLoad
    <3>3. QED BY <2>3, <3>1, <3>2 DEF LoadFor
  <2>5. IsLastHome(stack[d], n)
    BY <2>2, <2>4 DEF IsLastHome
  <2>6. Mentions(stack[d][n], Replies(d), row.id)
    BY <2>3 DEF Mentions
  <2>7. Kept(out, events, row.id)
    BY <2>2, <2>3, <2>5, <2>6 DEF LoneInv, RowsKept, KeptFor
  <2>8. \A i : i \in PendingWrites(d, row.id) <=> i \in DOMAIN out /\ Writing(out[i], row.id)
    BY DEF PendingWrites, Writing
  <2>9. CASE PendingWrites(d, row.id) = {}
    BY <2>7, <2>8, <2>9 DEF Kept
  <2>10. CASE PendingWrites(d, row.id) # {}
    <3> DEFINE last == Max(PendingWrites(d, row.id))
    <3>1. /\ last \in PendingWrites(d, row.id)
          /\ \A i \in PendingWrites(d, row.id) : i <= last
      BY <2>10, LastPendingWrite
    <3> HIDE DEF last
    <3>2. DOMAIN out \subseteq Nat
      BY OutstandingIs
    <3>3. ~ \E j \in DOMAIN out : j > last /\ Writing(out[j], row.id)
      BY <2>8, <3>1, <3>2
    <3>4. out[last].text # None
      BY <2>7, <2>8, <3>1, <3>3 DEF Kept
    <3>5. QED BY <3>1, <3>4
  <2>11. QED BY <2>9, <2>10
<1>2. AppInv => Shape
  BY DEF AppInv
<1>3. QED BY <1>1, <1>2, AppInvariant, LoneInvariant, PTL
=============================================================================
