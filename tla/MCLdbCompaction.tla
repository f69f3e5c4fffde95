---------------------------- MODULE MCLdbCompaction ----------------------------
(***************************************************************************)
(* A small instance of LdbCompaction: levels that are full with an entry,  *)
(* and five cases that are explored apart.                                 *)
(***************************************************************************)
EXTENDS LdbCompaction

Tight == [l \in 1 .. NumLevels - 2 |-> 1]
Whole == [lo |-> 0, hi |-> TopKey]
WholeAndPart == {Whole, [lo |-> 1, hi |-> 1]}
Symmetry == Permutations(Takers)

AllFree(holders) == \A h \in holders : held[h].kind = "free"
Entries ==
    mem \cup UNION {imm[i] : i \in DOMAIN imm} \cup UNION {f.ents : f \in FilesOf(current)}
NoDeletions == \A e \in Entries : ~ e.del
TwoKeys == \A e \in Entries : e.key <= 2

Snapshotting == /\ manual.calls = 0 /\ errors = 0 /\ AllFree(Readers) /\ lastSequence <= 3 /\ TwoKeys
                /\ lastSequence <= 2 \/ \E h \in Takers : held[h].kind = "free"
Reading == /\ manual.calls = 0 /\ AllFree(Takers) /\ NoDeletions /\ lastSequence <= 3 /\ TwoKeys
           /\ errors = 0 \/ lastSequence <= 2
CompactingRange == AllFree(Holders) /\ NoDeletions /\ lastSequence <= 2 /\ TwoKeys

\* Two writes of the second key, the later a deletion, then two of the first
\* key, with one snapshot: a marker and what it hides can be in two files.
SplittingAKey ==
    /\ manual.calls = 0 /\ errors = 0 /\ AllFree(Readers) /\ lastSequence <= 4
    /\ Cardinality({h \in Takers : held[h].kind # "free"}) <= 1
    /\ \A e \in Entries : e.key = (IF e.seq <= 2 THEN 2 ELSE 1) /\ e.del = (e.seq = 2)

\* Two files of the first key and two of the third, which nothing but
\* CompactRange merges, and the key between them, written meanwhile.
WritingBetween ==
    /\ AllFree(Holders) /\ errors = 0 /\ manual.asked \in {NoRange, Whole} /\ toCompact = {}
    /\ \A e \in Entries : e.key = <<1, 1, 3, 3, 2>>[e.seq] /\ ~ e.del
    /\ IF manual.calls = 0 THEN comp = << >> /\ lastSequence = Cardinality(Entries) /\ lastSequence <= 4
       ELSE lastSequence >= 4
    /\ IF comp = << >> THEN manual.calls = 0 => \A l \in Levels : pointer[l] = << >>
       ELSE comp[1].manual

\* Snapshots alone (both at once after at most two writes); a reader, and
\* errors after at most two writes; CompactRange with errors, and two writes;
\* a fourth write; a third key.
Cases == Snapshotting \/ Reading \/ CompactingRange \/ SplittingAKey \/ WritingBetween
=============================================================================
