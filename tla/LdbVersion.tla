------------------------------ MODULE LdbVersion ------------------------------
(***************************************************************************)
(* A Version of the database: for each level a set of table files.  These  *)
(* are the operators of version_set.cc that read one: where a key is       *)
(* looked up, which files a range overlaps, which files a compaction       *)
(* takes.  An entry is [key, seq, del], its value named by its sequence    *)
(* number; an internal key is <<user key, sequence>>, ordered by           *)
(* increasing key and then decreasing sequence.  The size of a file is its *)
(* number of entries.                                                      *)
(***************************************************************************)
EXTENDS Integers, Sequences, FiniteSets, SequencesExt

CONSTANTS Keys,             \* user keys: a set of positive integers
          NumLevels,        \* config::kNumLevels
          MaxMemLevel,      \* config::kMaxMemCompactLevel
          CompactTrigger,   \* config::kL0_CompactionTrigger
          LevelLimit,       \* MaxBytesForLevel of the levels from 1 on
          FileLimit,        \* TargetFileSize, MaxFileSizeForLevel
          GrandparentLimit, \* MaxGrandParentOverlapBytes
          ExpandLimit       \* ExpandedCompactionByteSizeLimit

ASSUME KeysArePositive == Keys \subseteq Nat \ {0} /\ IsFiniteSet(Keys)
ASSUME LevelsAreCounted == NumLevels \in Nat \ {0, 1} /\ MaxMemLevel \in 0 .. NumLevels - 1
ASSUME LimitsAreNat ==
    /\ {CompactTrigger, FileLimit, GrandparentLimit, ExpandLimit} \subseteq Nat \ {0}
    /\ \A l \in 1 .. NumLevels - 2 : LevelLimit[l] \in Nat \ {0}

Levels == 0 .. NumLevels - 1

Less(a, b) == a[1] < b[1] \/ (a[1] = b[1] /\ a[2] > b[2])
AtMost(a, b) == a = b \/ Less(a, b)

IKey(e) == <<e.key, e.seq>>

Least(ikeys) == CHOOSE a \in ikeys : \A b \in ikeys : AtMost(a, b)
Greatest(ikeys) == CHOOSE a \in ikeys : \A b \in ikeys : AtMost(b, a)

\* FileMetaData of a table that holds the entries.
NewFile(num, ents) ==
    LET ikeys == {IKey(e) : e \in ents}
    IN [num |-> num, ents |-> ents, smallest |-> Least(ikeys), largest |-> Greatest(ikeys)]

TotalSize(files) == Cardinality(UNION {f.ents : f \in files})

EmptyVersion == [l \in Levels |-> {}]
FilesOf(v) == UNION {v[l] : l \in Levels}

\* A user-key range; 0 and TopKey stand for nullptr.
TopKey == 1 + (IF Keys = {} THEN 0 ELSE CHOOSE k \in Keys : \A j \in Keys : j <= k)
Range2(files) == [lo |-> Least({f.smallest : f \in files})[1],
                  hi |-> Greatest({f.largest : f \in files})[1]]
Overlaps(f, r) == f.largest[1] >= r.lo /\ f.smallest[1] <= r.hi

\* files_[level]: sorted by smallest key, then by number (BySmallestKey).
Before(f, g) == Less(f.smallest, g.smallest) \/ (f.smallest = g.smallest /\ f.num < g.num)
InOrder(files) == SetToSortSeq(files, Before)
-----------------------------------------------------------------------------
\* Reading.

\* FindFile: the first file of the list whose largest key is not before ikey.
FindFile(files, ikey) ==
    {f \in files : /\ AtMost(ikey, f.largest)
                   /\ \A g \in files : Before(g, f) => ~ AtMost(ikey, g.largest)}

\* The files that may hold the key: any of level 0 that overlaps it, and at
\* most one of each other level.
Candidates(v, ikey) ==
    {<<0, f>> : f \in {g \in v[0] : Overlaps(g, [lo |-> ikey[1], hi |-> ikey[1]])}}
    \cup UNION {{<<l, f>> : f \in {g \in FindFile(v[l], ikey) : g.smallest[1] <= ikey[1]}} :
                l \in 1 .. NumLevels - 1}

\* Level by level, and the newest file of level 0 first.
ReadBefore(p, q) == p[1] < q[1] \/ (p[1] = q[1] /\ p[2].num > q[2].num)

\* The entry with the key that a reader at a sequence sees in a table or a
\* memtable: at most one.
Visible(ents, ikey) ==
    {e \in ents : /\ e.key = ikey[1] /\ e.seq <= ikey[2]
                  /\ ~ \E d \in ents : d.key = e.key /\ d.seq <= ikey[2] /\ d.seq > e.seq}

Hits(v, ikey) == {p \in Candidates(v, ikey) : Visible(p[2].ents, ikey) # {}}

First(candidates) == {p \in candidates : \A q \in candidates : ~ ReadBefore(q, p)}

\* Version::Get: the first file that has the key decides.
Get(v, ikey) == UNION {Visible(p[2].ents, ikey) : p \in First(Hits(v, ikey))}

\* The file that a Get charges a seek to: the first one, if it had to read on.
Charged(v, ikey) ==
    IF Cardinality(Candidates(v, ikey)) >= 2 THEN First(Candidates(v, ikey)) \ Hits(v, ikey)
    ELSE {}

\* RecordReadSample charges it whenever a second file may hold the key.
Sampled(v, ikey) ==
    IF Cardinality(Candidates(v, ikey)) >= 2 THEN First(Candidates(v, ikey)) ELSE {}
-----------------------------------------------------------------------------
\* Files that overlap a range.

\* In level 0 a file that reaches out of the range widens it.
Widened(files, r) ==
    LET within(f, s) == s.lo <= f.smallest[1] /\ f.largest[1] <= s.hi
        ranges == {s \in [lo : {r.lo} \cup {f.smallest[1] : f \in files},
                          hi : {r.hi} \cup {f.largest[1] : f \in files}] :
                      /\ s.lo <= r.lo /\ r.hi <= s.hi
                      /\ \A f \in files : Overlaps(f, s) => within(f, s)}
    IN {s \in ranges : \A t \in ranges : t.lo <= s.lo /\ s.hi <= t.hi}

GetOverlappingInputs(v, level, r) ==
    UNION {{f \in v[level] : Overlaps(f, s)} : s \in IF level = 0 THEN Widened(v[0], r) ELSE {r}}

OverlapInLevel(v, level, r) == \E f \in v[level] : Overlaps(f, r)

\* A slip: the levels below are not looked at.
PickLevelBlindly(v, r) == IF OverlapInLevel(v, 0, r) THEN 0 ELSE MaxMemLevel

PickLevelForMemTableOutput(v, r) ==
    LET free(level) ==
            /\ ~ OverlapInLevel(v, level, r)
            /\ level + 1 < NumLevels =>
                  TotalSize(GetOverlappingInputs(v, level + 1, r)) <= GrandparentLimit
        reached == {level \in 1 .. MaxMemLevel : \A l \in 1 .. level : free(l)}
    IN IF OverlapInLevel(v, 0, r) THEN 0 ELSE Cardinality(reached)
-----------------------------------------------------------------------------
\* Compactions.

\* Finalize: score of a level, as a fraction.
Score(v, level) == IF level = 0 THEN <<Cardinality(v[0]), CompactTrigger>>
                   ELSE <<TotalSize(v[level]), LevelLimit[level]>>
Lower(a, b) == a[1] * b[2] < b[1] * a[2]

\* compaction_level_, where the score is at least 1: the first of the highest.
CompactionLevels(v) ==
    {l \in 0 .. NumLevels - 2 :
        /\ ~ Lower(Score(v, l), <<1, 1>>)
        /\ \A m \in 0 .. NumLevels - 2 : ~ Lower(Score(v, l), Score(v, m))
        /\ \A m \in 0 .. l - 1 : Lower(Score(v, m), Score(v, l))}

\* A slip: no file is added for the key two files of a level share.
NoBoundaryInputs(level_files, chosen) == chosen

LargestKey(files) == Greatest({f.largest : f \in files})

\* AddBoundaryInputs: the files behind the chosen ones, as long as each
\* starts with the user key that the one before it ends with.
AddBoundaryInputs(level_files, chosen) ==
    IF chosen = {} THEN chosen
    ELSE LET behind == {f \in level_files : Less(LargestKey(chosen), f.smallest)}
             goes_on(f) ==
                f.smallest[1] = LargestKey(chosen \cup {g \in behind : Before(g, f)})[1]
         IN chosen \cup {f \in behind : \A g \in behind : ~ Before(f, g) => goes_on(g)}

\* SetupOtherInputs: the files of both levels that a compaction takes, and
\* the grandparents its output would overlap.
\* If the wider set is taken, the files below are the same ones.
SetupOtherInputs(v, level, chosen) ==
    LET first == AddBoundaryInputs(v[level], chosen)
        below == GetOverlappingInputs(v, level + 1, Range2(first))
        wider == AddBoundaryInputs(v[level],
                                   GetOverlappingInputs(v, level, Range2(first \cup below)))
        grow == /\ below # {}
                /\ Cardinality(wider) > Cardinality(first)
                /\ TotalSize(below) + TotalSize(wider) < ExpandLimit
                /\ GetOverlappingInputs(v, level + 1, Range2(wider)) = below
        upper == IF grow THEN wider ELSE first
    IN [level |-> level, upper |-> upper, lower |-> below,
        grandparents |-> IF level + 2 < NumLevels
                         THEN GetOverlappingInputs(v, level + 2, Range2(upper \cup below))
                         ELSE {}]

\* The first file after the compaction pointer (<< >>: none yet), or else the
\* first one of the level; as a set.
AfterPointer(files, pointer) ==
    LET after == {f \in files : pointer = << >> \/ Less(pointer, f.largest)}
        from(fs) == {f \in fs : \A g \in fs : ~ Before(g, f)}
    IN IF after = {} THEN from(files) ELSE from(after)

\* PickCompaction starts with one file, and in level 0 with all it overlaps.
StartWith(v, level, file) ==
    IF level = 0 THEN GetOverlappingInputs(v, 0, Range2({file})) ELSE {file}

\* CompactRange: of a level other than 0 only the first files, up to a limit.
ManualInputs(v, level, r) ==
    LET inputs == InOrder(GetOverlappingInputs(v, level, r))
        enough == {i \in DOMAIN inputs :
                      level > 0 /\ TotalSize(ToSet(SubSeq(inputs, 1, i))) >= FileLimit}
    IN IF enough = {} THEN inputs
       ELSE SubSeq(inputs, 1, CHOOSE i \in enough : \A j \in enough : i <= j)

IsTrivialMove(c) ==
    Cardinality(c.upper) = 1 /\ c.lower = {} /\ TotalSize(c.grandparents) <= GrandparentLimit

\* No file of a deeper level of the version may hold the key.
IsBaseLevelForKey(v, level, key) ==
    \A l \in level + 2 .. NumLevels - 1 :
        ~ OverlapInLevel(v, l, [lo |-> key, hi |-> key])
=============================================================================
