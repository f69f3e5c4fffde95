--------------------------------- MODULE LdbIter ---------------------------------
(***************************************************************************)
(* An iterator of the database: DBIter on a MergingIterator on children,   *)
(* the first of which is the memtable, where other threads write on; the   *)
(* others never change.  An entry is named by its sequence number; entries *)
(* are ordered by key and then from the newest.  Every call of the merging *)
(* iterator that reads the memtable once is a step here, and Prev is two   *)
(* where it turns, as it then reads it twice: writes come between them.    *)
(***************************************************************************)
EXTENDS Integers, Sequences, FiniteSets, SequencesExt

CONSTANTS Keys,         \* user keys, from 1 on
          NumChildren,  \* of the merging iterator
          MaxSeq,       \* bound: entries written before the iterator was made
          MaxMore       \* bound: entries written later

ASSUME KeysArePositive == Keys \subseteq Nat \ {0} /\ IsFiniteSet(Keys)
ASSUME BoundsAreNat == {MaxSeq, MaxMore} \subseteq Nat /\ NumChildren \in Nat \ {0}

VARIABLES writes,     \* entry number -> [key, del, child]
          sequence,   \* sequence_ of the iterator
          merging,    \* [pos: child -> entry or 0, dir, current]
          direction, valid, saved, savedValue,  \* DBIter
          pc,         \* of the operation: "idle", "next", "turn", "back", "prev"
          skipping, valueType,                  \* its local variables
          call,                                 \* history: the last call
          was                                   \* history: place and call before it

Children == 1 .. NumChildren

dbIter == <<direction, valid, saved, savedValue>>
vars == <<writes, sequence, merging, dbIter, pc, skipping, valueType, call, was>>

Of(w, s) == w[s].key
\* InternalKeyComparator, for two entries.
Precedes(s, t) == Of(writes, s) < Of(writes, t) \/ (Of(writes, s) = Of(writes, t) /\ s > t)
In(child) == {s \in DOMAIN writes : writes[s].child = child}

FirstOf(entries) == IF entries = {} THEN 0
                    ELSE CHOOSE s \in entries : \A t \in entries \ {s} : Precedes(s, t)
LastOf(entries) == IF entries = {} THEN 0
                   ELSE CHOOSE s \in entries : \A t \in entries \ {s} : Precedes(t, s)

\* A child's own Seek (to the key at a sequence number), Next and Prev.
SeekIn(child, k, q) ==
    FirstOf({s \in In(child) : Of(writes, s) > k \/ (Of(writes, s) = k /\ s <= q)})
NextIn(child, s) == FirstOf({t \in In(child) : Precedes(s, t)})
PrevIn(child, s) == LastOf({t \in In(child) : Precedes(t, s)})
-----------------------------------------------------------------------------
\* MergingIterator.

At(pos, s) == IF s = 0 THEN 0 ELSE CHOOSE c \in Children : pos[c] = s
Entries(pos) == {pos[c] : c \in Children} \ {0}
FindSmallest(pos) == [pos |-> pos, dir |-> "forward", current |-> At(pos, FirstOf(Entries(pos)))]
FindLargest(pos) == [pos |-> pos, dir |-> "reverse", current |-> At(pos, LastOf(Entries(pos)))]

Valid(m) == m.current # 0
Here(m) == m.pos[m.current]

MSeekToFirst == FindSmallest([c \in Children |-> FirstOf(In(c))])
MSeekToLast == FindLargest([c \in Children |-> LastOf(In(c))])
MSeek(k, q) == FindSmallest([c \in Children |-> SeekIn(c, k, q)])

\* In the other direction the other children are positioned after the entry,
\* or before it.
MNext(m) ==
    LET here == Here(m)
        after(c) == SeekIn(c, Of(writes, here), here)
    IN FindSmallest([c \in Children |->
          IF c = m.current THEN NextIn(c, here)
          ELSE IF m.dir = "forward" THEN m.pos[c] ELSE after(c)])

\* Prev in the other direction: it first seeks the entry in the other
\* children, ...
MTurn(m) ==
    LET here == Here(m)
    IN [m EXCEPT !.pos = [c \in Children |->
          IF c = m.current \/ m.dir = "reverse" THEN m.pos[c]
          ELSE SeekIn(c, Of(writes, here), here)]]

\* A slip: a child that has nothing at or after the entry stays at its end.
MPrevFromNowhere(m) ==
    FindLargest([c \in Children |->
        IF m.pos[c] = 0 \/ (c # m.current /\ m.dir = "reverse") THEN m.pos[c]
        ELSE PrevIn(c, m.pos[c])])

\* ... and then moves each one back from where it stands.
MPrev(m) ==
    LET back(c) == IF m.pos[c] = 0 THEN LastOf(In(c)) ELSE PrevIn(c, m.pos[c])
    IN FindLargest([c \in Children |->
          IF c # m.current /\ m.dir = "reverse" THEN m.pos[c] ELSE back(c)])
-----------------------------------------------------------------------------
\* The entries of the memtable are the newest, and those that another child
\* has of one key are neighbours.  A snapshot may be older than any of them.
Layered(w) ==
    /\ \A s, t \in DOMAIN w : s < t /\ w[s].child = 1 => w[t].child = 1
    /\ \A s, t, u \in DOMAIN w :
           /\ s < t /\ t < u /\ w[s].key = w[t].key /\ w[t].key = w[u].key
           /\ w[s].child = w[u].child
           => w[t].child = w[s].child

Init ==
    /\ \E n \in 0 .. MaxSeq :
       \E w \in [1 .. n -> [key : Keys, del : BOOLEAN, child : Children]] :
          Layered(w) /\ writes = w /\ sequence \in 0 .. n
    /\ merging = [pos |-> [c \in Children |-> 0], dir |-> "forward", current |-> 0]
    /\ direction = "forward" /\ valid = FALSE /\ saved = 0 /\ savedValue = 0
    /\ pc = "idle" /\ skipping = FALSE /\ valueType = "deletion" 
    /\ call = <<"none", 0>> /\ was = <<<< >>, call>>

\* Another thread writes; the iterator's own view must not change.
More(k, del) ==
    /\ Len(writes) < MaxSeq + MaxMore
    /\ writes' = Append(writes, [key |-> k, del |-> del, child |-> 1])
    /\ UNCHANGED <<sequence, merging, dbIter, pc, skipping, valueType>>

Fixed == UNCHANGED <<writes, sequence>>
Idle == pc' = "idle" /\ skipping' = FALSE /\ valueType' = "deletion"

\* There is no such entry.
Invalid == valid' = FALSE /\ saved' = 0 /\ Idle

Key == Of(writes, Here(merging))

\* FindNextUserEntry begins, unless the iterator is at its end.
GoForward(m, skip, key) ==
    /\ merging' = m /\ direction' = "forward" /\ Fixed
    /\ IF Valid(m)
       THEN pc' = "next" /\ skipping' = skip /\ saved' = key /\ UNCHANGED <<valid, valueType>>
       ELSE Invalid

\* FindPrevUserEntry begins.
GoBack(m) ==
    /\ merging' = m /\ direction' = "reverse" /\ Fixed
    /\ pc' = "prev" /\ valueType' = "deletion" /\ UNCHANGED <<valid, skipping>>

Seek(k) == pc = "idle" /\ GoForward(MSeek(k, sequence), FALSE, k) /\ savedValue' = 0
SeekToFirst == pc = "idle" /\ GoForward(MSeekToFirst, FALSE, saved) /\ savedValue' = 0
SeekToLast == pc = "idle" /\ GoBack(MSeekToLast) /\ savedValue' = 0 /\ UNCHANGED saved

\* A slip: at the front, the iterator goes on from nowhere.
ForwardFromHere == IF Valid(merging) THEN MNext(merging) ELSE merging

\* Moving back, the merging iterator is just before the entries of the key.
IntoEntries == IF Valid(merging) THEN MNext(merging) ELSE MSeekToFirst

MoveNext ==
    /\ pc = "idle" /\ valid
    /\ \/ direction = "reverse" /\ GoForward(IntoEntries, TRUE, saved)
       \/ direction = "forward" /\ GoForward(merging, TRUE, Key)
    /\ UNCHANGED savedValue

\* One round of FindNextUserEntry.
Hidden == Here(merging) > sequence
FindNextUserEntry ==
    /\ pc = "next" /\ Fixed /\ UNCHANGED <<direction, savedValue>>
    /\ LET e == writes[Here(merging)]
           on == MNext(merging)
           yields == ~ Hidden /\ ~ e.del /\ ~ (skipping /\ e.key <= saved)
       IN IF yields THEN /\ valid' = TRUE /\ saved' = 0 /\ Idle
                         /\ UNCHANGED merging
          ELSE /\ merging' = on
               /\ IF ~ Valid(on) THEN Invalid
                  ELSE /\ IF ~ Hidden /\ e.del THEN saved' = e.key /\ skipping' = TRUE
                          ELSE UNCHANGED <<saved, skipping>>
                       /\ UNCHANGED <<valid, pc, valueType>>

MovePrev ==
    /\ pc = "idle" /\ valid /\ Fixed
    /\ \/ /\ direction = "forward"
          /\ pc' = "turn" /\ saved' = Key
          /\ UNCHANGED <<merging, direction, valid, savedValue, skipping, valueType>>
       \/ direction = "reverse" /\ GoBack(merging) /\ UNCHANGED <<saved, savedValue>>

\* The first Prev turns.
Turn ==
    /\ pc = "turn" /\ Fixed
    /\ merging' = MTurn(merging) /\ pc' = "back"
    /\ UNCHANGED <<dbIter, skipping, valueType>>

\* Scan backwards until the key changes.
Back ==
    /\ pc = "back" /\ Fixed
    /\ LET on == MPrev(merging)
       IN IF ~ Valid(on)
          THEN merging' = on /\ Invalid /\ savedValue' = 0 /\ UNCHANGED direction
          ELSE IF Of(writes, Here(on)) < saved
               THEN GoBack(on) /\ UNCHANGED <<saved, savedValue>>
               ELSE merging' = on /\ UNCHANGED <<dbIter, pc, skipping, valueType>>

StopsAtKey == Of(writes, Here(merging)) < saved

\* A slip: the loop is not left.
PrevGoesOn == UNCHANGED <<merging, dbIter, pc, skipping, valueType>>

PrevEnds ==
    /\ \/ /\ valueType = "deletion" /\ Invalid /\ savedValue' = 0 /\ direction' = "forward"
       \/ /\ valueType = "value" /\ valid' = TRUE /\ Idle
          /\ UNCHANGED <<direction, saved, savedValue>>
    /\ UNCHANGED merging

\* One round of FindPrevUserEntry.
FindPrevUserEntry ==
    /\ pc = "prev" /\ Fixed
    /\ IF ~ Valid(merging) \/ (~ Hidden /\ valueType # "deletion" /\ StopsAtKey)
       THEN PrevEnds
       ELSE LET s == Here(merging)
                e == writes[s]
            IN /\ merging' = MPrev(merging)
               /\ IF Hidden THEN UNCHANGED <<valueType, saved, savedValue>>
                  ELSE /\ valueType' = IF e.del THEN "deletion" ELSE "value"
                       /\ saved' = IF e.del THEN 0 ELSE e.key
                       /\ savedValue' = IF e.del THEN 0 ELSE s
               /\ UNCHANGED <<direction, valid, pc, skipping>>

Round == FindNextUserEntry \/ Turn \/ Back \/ FindPrevUserEntry

\* key() and value().
Position == IF ~ valid THEN << >>
            ELSE IF direction = "forward" THEN <<Key, Here(merging)>>
            ELSE <<saved, savedValue>>
Next ==
    /\ \/ \E k \in Keys : Seek(k) /\ call' = <<"seek", k>>
       \/ SeekToFirst /\ call' = <<"first", 0>>
       \/ SeekToLast /\ call' = <<"last", 0>>
       \/ MoveNext /\ call' = <<"next", 0>>
       \/ MovePrev /\ call' = <<"prev", 0>>
       \/ \E k \in Keys, del \in BOOLEAN : More(k, del) /\ UNCHANGED call
       \/ Round /\ UNCHANGED call
    /\ was' = IF pc = "idle" THEN <<Position, call>> ELSE was

Spec == Init /\ [][Next]_vars

\* The thread that calls the iterator goes on; it may stop calling.
FairSpec == Spec /\ WF_vars(Round /\ UNCHANGED <<call, was>>)
-----------------------------------------------------------------------------
TypeOK ==
    /\ \A c \in Children : merging.pos[c] = 0 \/ writes[merging.pos[c]].child = c
    /\ merging.current \in Children \cup {0} /\ merging.dir \in {"forward", "reverse"}
    /\ direction \in {"forward", "reverse"} /\ valid \in BOOLEAN
    /\ saved \in Keys \cup {0} /\ savedValue \in 0 .. Len(writes)
    /\ pc = "next" => Valid(merging)

\* What was written before the iterator was made, without what is deleted.
Newest(k) == LET seen == {s \in DOMAIN writes : Of(writes, s) = k /\ s <= sequence}
             IN {s \in seen : ~ writes[s].del /\ \A t \in seen : t <= s}
View == [k \in {j \in Keys : Newest(j) # {}} |-> CHOOSE s \in Newest(k) : TRUE]

\* What the children must not pass over: all that is visible, but for the
\* entries that Prev scans back over, once the merging iterator has turned.
Owed(s) ==
    s <= sequence /\ (pc = "back" /\ merging.dir = "reverse" => Of(writes, s) < saved)

\* Of what the iterator has yet to see, nothing is passed over: each child is
\* beyond the entry where MergingIterator stands, and before the next one owed.
ChildrenAreInPlace ==
    Valid(merging) =>
        \A c \in Children \ {merging.current} : \A s \in In(c) :
            LET beyond(t) == IF merging.dir = "forward" THEN Precedes(Here(merging), t)
                             ELSE Precedes(t, Here(merging))
                later(t) == IF merging.dir = "forward" THEN Precedes(merging.pos[c], t)
                            ELSE Precedes(t, merging.pos[c])
            IN /\ s = merging.pos[c] => beyond(s)
               /\ beyond(s) /\ Owed(s) =>
                     merging.pos[c] # 0 /\ (s = merging.pos[c] \/ later(s))

Map == INSTANCE KvIter WITH
    view <- View,
    at <- IF pc = "idle" THEN Position ELSE was[1],
    call <- IF pc = "idle" THEN call ELSE was[2]

\* Between calls the iterator stands where one on a fixed map would, in
\* whatever order Seek, Next and Prev are called.
StandsOnTheMap == Map!Spec

\* A call comes to its end although others write on.
CallsReturn == pc # "idle" ~> pc = "idle"
=============================================================================
