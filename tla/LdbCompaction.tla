----------------------------- MODULE LdbCompaction -----------------------------
(***************************************************************************)
(* The tables of a running database: writes fill a memtable, one           *)
(* background thread writes full memtables to tables and merges tables of  *)
(* one level into the next, while readers, iterators and snapshots look at *)
(* versions that may be out of date.  Only that thread installs versions,  *)
(* so LogAndApply's unlocked write shows nothing but the old version and   *)
(* is one step with what follows it; so is a flush.                        *)
(***************************************************************************)
EXTENDS LdbVersion

CONSTANTS MaxSeq,      \* bound: writes
          CanDelete,   \* whether writes delete, too
          Takers,      \* of snapshots
          Readers,     \* in Get, or with an iterator
          Ranges,      \* ranges [lo, hi] given to CompactRange; 0, TopKey: nullptr
          MaxManual,   \* bound: calls of CompactRange
          MaxErrors    \* bound: I/O errors

ASSUME BoundsAreNat == {MaxSeq, MaxManual, MaxErrors} \subseteq Nat /\ CanDelete \in BOOLEAN

VARIABLES lastSequence,
          mem, imm,      \* entries of mem_; << >> or the entries of imm_
          current,       \* versions_->current()
          toCompact,     \* its file_to_compact_, as a set of at most one
          pointer,       \* compact_pointer_: << >> or an internal key
          nextFile,      \* next_file_number_
          disk,          \* numbers of the table files in the directory
          pending,       \* pending_outputs_
          comp,          \* << >> or the compaction that is going on
          manual,        \* a thread in CompactRange
          held,          \* what each holder holds
          bgError,       \* ~ bg_error_.ok()
          errors

memVars == <<lastSequence, mem, imm>>
versionVars == <<current, toCompact, pointer, nextFile, disk, pending>>
vars == <<memVars, versionVars, comp, manual, held, bgError, errors>>

Holders == Takers \cup Readers

Free == [kind |-> "free", seq |-> 0, mem |-> {}, imm |-> << >>,
         version |-> EmptyVersion]
NoRange == [lo |-> 0, hi |-> 0]
IdleManual == [pc |-> "idle", calls |-> 0, asked |-> NoRange, max |-> 1,
               level |-> 0, lo |-> 0, done |-> FALSE,
               set |-> FALSE]          \* manual_compaction_ points to it

Init ==
    /\ lastSequence = 0 /\ mem = {} /\ imm = << >>
    /\ current = EmptyVersion /\ toCompact = {} /\ pointer = [l \in Levels |-> << >>]
    /\ nextFile = 1 /\ disk = {} /\ pending = {}
    /\ comp = << >> /\ manual = IdleManual
    /\ held = [h \in Holders |-> Free]
    /\ bgError = FALSE /\ errors = 0
-----------------------------------------------------------------------------
\* Writers and readers.

Write(k) ==
    /\ ~ bgError /\ lastSequence < MaxSeq
    /\ lastSequence' = lastSequence + 1
    /\ \E del \in {FALSE, CanDelete} :
          mem' = mem \cup {[key |-> k, seq |-> lastSequence + 1, del |-> del]}
    /\ UNCHANGED <<imm, versionVars, comp, manual, held, bgError, errors>>

\* MakeRoomForWrite: a full memtable makes room for a new one.
SwitchMem ==
    /\ mem # {} /\ imm = << >> /\ ~ bgError
    /\ imm' = <<mem>> /\ mem' = {}
    /\ UNCHANGED <<lastSequence, versionVars, comp, manual, held, bgError, errors>>

\* DBImpl::Get: the memtable, the immutable one, the tables.
InMemory(table, full, ikey) ==
    IF Visible(table, ikey) # {} \/ full = << >> THEN Visible(table, ikey)
    ELSE Visible(full[1], ikey)
Found(table, full, version, ikey) ==
    LET found == InMemory(table, full, ikey)
    IN IF found # {} THEN found ELSE Get(version, ikey)

Snapshots == {held[h].seq : h \in {g \in Holders : held[g].kind = "snapshot"}}

GetSnapshot(h) ==
    /\ held[h].kind = "free"
    /\ held' = [held EXCEPT ![h].kind = "snapshot", ![h].seq = lastSequence]
    /\ UNCHANGED <<memVars, versionVars, comp, manual, bgError, errors>>

\* Get and NewIterator: the memtables and the version are referenced.
StartRead(h) ==
    /\ held[h].kind = "free"
    /\ \E s \in {lastSequence} \cup Snapshots :
          held' = [held EXCEPT ![h] = [kind |-> "read", seq |-> s, mem |-> mem, imm |-> imm,
                                       version |-> current]]
    /\ UNCHANGED <<memVars, versionVars, comp, manual, bgError, errors>>

Release(h) == held' = [held EXCEPT ![h] = Free]

ReleaseSnapshot(h) ==
    /\ held[h].kind = "snapshot" /\ Release(h)
    /\ UNCHANGED <<memVars, versionVars, comp, manual, bgError, errors>>

\* UpdateStats, and RecordReadSample, of the version that was read: a file
\* whose seeks have run out becomes the one to compact.
FinishRead(h) ==
    /\ held[h].kind = "read" /\ Release(h)
    /\ \/ UNCHANGED toCompact
       \/ /\ held[h].version = current /\ toCompact = {}
          /\ \E k \in Keys :
                \/ /\ InMemory(held[h].mem, held[h].imm, <<k, held[h].seq>>) = {}
                   /\ toCompact' = Charged(current, <<k, held[h].seq>>)
                \/ toCompact' = Sampled(current, <<k, held[h].seq>>)
    /\ UNCHANGED <<memVars, current, pointer, nextFile, disk, pending, comp, manual,
                   bgError, errors>>
-----------------------------------------------------------------------------
\* The background thread.

\* A slip: only files of the current version are live.
LiveInCurrent(readers, version) == {f.num : f \in FilesOf(version)}

\* AddLiveFiles: files of every version that is still referenced.
Live(readers, version) ==
    {f.num : f \in FilesOf(version) \cup UNION {FilesOf(readers[h].version) : h \in Holders}}

\* DeleteObsoleteFiles, with a new version, pending outputs and table files.
DeleteObsoleteFiles(version, outputs, files) ==
    disk' = IF bgError THEN files ELSE files \cap (Live(held, version) \cup outputs)

InstallVersion(version) == current' = version /\ toCompact' = {}

CompactsMem == imm # << >> /\ (IF comp = << >> THEN ~ bgError ELSE comp[1].rest # {})

\* CompactMemTable: first of all, or between two keys of a compaction.
CompactMemTable ==
    /\ CompactsMem
    /\ nextFile' = nextFile + 1
    /\ \/ /\ imm[1] = {}
          /\ InstallVersion(current)
          /\ DeleteObsoleteFiles(current, pending, disk)
       \/ /\ imm[1] # {}
          /\ \E file \in {NewFile(nextFile, imm[1])} :
             \E level \in {PickLevelForMemTableOutput(current, Range2({file}))} :
             \E version \in {[current EXCEPT ![level] = @ \cup {file}]} :
                /\ InstallVersion(version)
                /\ DeleteObsoleteFiles(version, pending, disk \cup {nextFile})
    /\ imm' = << >>
    /\ UNCHANGED <<lastSequence, mem, pointer, pending, comp, manual, held, bgError, errors>>

\* The table or the manifest cannot be written: the memtable stays.
FailMem ==
    /\ CompactsMem /\ errors < MaxErrors
    /\ errors' = errors + 1 /\ bgError' = TRUE /\ nextFile' = nextFile + 1
    /\ disk' \in {disk, disk \cup {nextFile}}
    /\ UNCHANGED <<memVars, current, toCompact, pointer, pending, comp, manual, held>>

MaySelect == comp = << >> /\ imm = << >> /\ ~ bgError

\* Entries that are hidden at this sequence number are seen by nobody.
SmallestSnapshot == IF Snapshots = {} THEN lastSequence
                    ELSE CHOOSE s \in Snapshots : \A t \in Snapshots : s <= t

\* What DoCompactionWork starts with.
NewWork(c, forced) ==
    [setup |-> c, version |-> current, manual |-> forced,
     snapshot |-> SmallestSnapshot,
     rest |-> UNION {f.ents : f \in c.upper \cup c.lower},
     num |-> 0, out |-> {}, outputs |-> {},
     key |-> 0, seq |-> MaxSeq + 1,        \* of the last entry
     grandparents |-> c.grandparents, overlapped |-> 0, seen |-> FALSE]

PointerAfter(c) == pointer' = [pointer EXCEPT ![c.level] = Greatest({f.largest : f \in c.upper})]

\* PickCompaction: by size before by seeks.
PickedFile ==
    IF CompactionLevels(current) = {} THEN toCompact
    ELSE UNION {{<<l, f>> : f \in AfterPointer(current[l], pointer[l])} :
                l \in CompactionLevels(current)}

StartCompaction ==
    /\ MaySelect /\ ~ manual.set
    /\ \E p \in PickedFile :
       \E files \in {StartWith(current, p[1], p[2])} :
       \E c \in {SetupOtherInputs(current, p[1], files)} :
          /\ PointerAfter(c)
          /\ IF IsTrivialMove(c)
             THEN /\ InstallVersion([current EXCEPT ![c.level] = @ \ c.upper,
                                                    ![c.level + 1] = @ \cup c.upper])
                  /\ UNCHANGED comp
             ELSE comp' = <<NewWork(c, FALSE)>> /\ UNCHANGED <<current, toCompact>>
    /\ UNCHANGED <<memVars, nextFile, disk, pending, manual, held, bgError, errors>>

\* One file cannot be moved: the manifest is not written.
FailMove ==
    /\ MaySelect /\ ~ manual.set /\ errors < MaxErrors
    /\ \E p \in PickedFile :
       \E files \in {StartWith(current, p[1], p[2])} :
       \E c \in {SetupOtherInputs(current, p[1], files)} :
          IsTrivialMove(c) /\ PointerAfter(c)
    /\ errors' = errors + 1 /\ bgError' = TRUE
    /\ UNCHANGED <<memVars, current, toCompact, nextFile, disk, pending, comp, manual, held>>

\* ShouldStopBefore, the drop rules and the output files, for the next key.
NextEntry(w) == CHOOSE e \in w.rest : \A d \in w.rest : AtMost(IKey(e), IKey(d))

Passed(w) == {g \in w.grandparents : Less(g.largest, IKey(NextEntry(w)))}
Overlapped(w) == w.overlapped + IF w.seen THEN TotalSize(Passed(w)) ELSE 0
ShouldStop(w) == Overlapped(w) > GrandparentLimit

LastSeqForKey(w) == IF w.key = NextEntry(w).key THEN w.seq ELSE MaxSeq + 1

\* A deletion marker with nothing to hide.
DropsMarker(w) ==
    LET e == NextEntry(w)
    IN e.del /\ e.seq <= w.snapshot /\ IsBaseLevelForKey(w.version, w.setup.level, e.key)

Drops(w) ==
    LastSeqForKey(w) <= w.snapshot \/ DropsMarker(w)

CloseOutput(w) ==
    IF w.out = {} THEN w
    ELSE [w EXCEPT !.outputs = @ \cup {NewFile(w.num, w.out)}, !.out = {}]

\* The work after a key was taken in, its output file opened and closed.
AfterKey(w) ==
    LET e == NextEntry(w)
        before == [(IF ShouldStop(w) THEN CloseOutput(w) ELSE w)
                      EXCEPT !.rest = @ \ {e}, !.key = e.key, !.seq = e.seq, !.seen = TRUE,
                             !.grandparents = @ \ Passed(w),
                             !.overlapped = IF ShouldStop(w) THEN 0 ELSE Overlapped(w)]
        added == [before EXCEPT !.out = @ \cup {e},
                                !.num = IF before.out = {} THEN nextFile ELSE @]
    IN IF Drops(w) THEN before
       ELSE IF Cardinality(added.out) >= FileLimit THEN CloseOutput(added) ELSE added

CompactKey ==
    /\ comp # << >> /\ comp[1].rest # {}
    /\ \E w \in {AfterKey(comp[1])} :
       \E opened \in {IF w.num = comp[1].num THEN {} ELSE {w.num}} :
          /\ comp' = <<w>>
          /\ nextFile' = nextFile + Cardinality(opened)
          /\ pending' = pending \cup opened /\ disk' = disk \cup opened
    /\ UNCHANGED <<memVars, current, toCompact, pointer, manual, held, bgError, errors>>

\* How a manual compaction ends: done, or the rest of the range is asked for.
ManualAfter(c, failed) ==
    IF ~ c.manual THEN manual
    ELSE [manual EXCEPT !.set = FALSE, !.done = failed,
                        !.lo = Last(InOrder(c.setup.upper)).largest[1]]

\* BackgroundCompaction uses manual_compaction_ when it is through.
UsesManual(c) == c.manual => manual.set

\* InstallCompactionResults, CleanupCompaction, DeleteObsoleteFiles.
InstallResults ==
    /\ comp # << >> /\ comp[1].rest = {} /\ UsesManual(comp[1])
    /\ \E w \in {CloseOutput(comp[1])} :
       \E version \in {[current EXCEPT
                ![w.setup.level] = @ \ w.setup.upper,
                ![w.setup.level + 1] = (@ \ w.setup.lower) \cup w.outputs]} :
          /\ InstallVersion(version)
          /\ DeleteObsoleteFiles(version, {}, disk)
          /\ manual' = ManualAfter(w, FALSE)
    /\ comp' = << >> /\ pending' = {}
    /\ UNCHANGED <<memVars, pointer, nextFile, held, bgError, errors>>

\* An output or the manifest cannot be written: outputs stay as garbage.
FailCompaction ==
    /\ comp # << >> /\ UsesManual(comp[1]) /\ errors < MaxErrors
    /\ errors' = errors + 1 /\ bgError' = TRUE
    /\ comp' = << >> /\ pending' = {}
    /\ manual' = ManualAfter(comp[1], TRUE)
    /\ UNCHANGED <<memVars, current, toCompact, pointer, nextFile, disk, held>>
-----------------------------------------------------------------------------
\* CompactRange, in a thread of its own.

\* The deepest level with files of the range, and level 1 in any case.
StartRange ==
    /\ manual.pc = "idle" /\ manual.calls < MaxManual
    /\ \E r \in Ranges :
          LET deepest == CHOOSE l \in 1 .. NumLevels - 1 :
                  /\ l = 1 \/ OverlapInLevel(current, l, r)
                  /\ \A m \in l + 1 .. NumLevels - 1 : ~ OverlapInLevel(current, m, r)
          IN manual' = [manual EXCEPT !.pc = "switch", !.calls = @ + 1,
                                      !.asked = r, !.max = deepest]
    /\ UNCHANGED <<memVars, versionVars, comp, held, bgError, errors>>

FirstLevel == manual' = [manual EXCEPT !.pc = "level", !.level = 0, !.lo = manual.asked.lo]

\* TEST_CompactMemTable: Write(nullptr), and a wait for the flush.
RangeSwitch ==
    /\ manual.pc = "switch"
    /\ \/ /\ bgError /\ FirstLevel /\ UNCHANGED memVars
       \/ /\ ~ bgError /\ imm = << >>
          /\ imm' = <<mem>> /\ mem' = {} /\ UNCHANGED lastSequence
          /\ manual' = [manual EXCEPT !.pc = "flush"]
    /\ UNCHANGED <<versionVars, comp, held, bgError, errors>>

RangeFlushed ==
    /\ manual.pc = "flush" /\ (imm = << >> \/ bgError)
    /\ FirstLevel
    /\ UNCHANGED <<memVars, versionVars, comp, held, bgError, errors>>

\* TEST_CompactRange: ask for a compaction until the level is done.
RangeAsk ==
    /\ manual.pc = "level" /\ ~ manual.done /\ ~ bgError /\ ~ manual.set
    /\ manual' = [manual EXCEPT !.set = TRUE]
    /\ UNCHANGED <<memVars, versionVars, comp, held, bgError, errors>>

RangeLevelDone ==
    /\ manual.pc = "level" /\ (manual.done \/ bgError)
    /\ LET more == manual.level + 1 < manual.max
       IN manual' = [manual EXCEPT !.done = FALSE, !.set = FALSE, !.lo = manual.asked.lo,
                                   !.level = IF more THEN @ + 1 ELSE 0,
                                   !.pc = IF more THEN "level" ELSE "idle"]
    /\ UNCHANGED <<memVars, versionVars, comp, held, bgError, errors>>

IsDone(inputs) == inputs = << >>

\* The background thread's part: the next files of the range, if any.
StartManual ==
    /\ MaySelect /\ manual.set
    /\ \E inputs \in {ManualInputs(current, manual.level,
                                   [lo |-> manual.lo, hi |-> manual.asked.hi])} :
          \/ /\ inputs = << >>
             /\ manual' = [manual EXCEPT !.done = IsDone(inputs), !.set = FALSE]
             /\ UNCHANGED <<comp, pointer>>
          \/ /\ inputs # << >>
             /\ \E c \in {SetupOtherInputs(current, manual.level, ToSet(inputs))} :
                   comp' = <<NewWork(c, TRUE)>> /\ PointerAfter(c)
             /\ UNCHANGED manual
    /\ UNCHANGED <<memVars, current, toCompact, nextFile, disk, pending, held,
                   bgError, errors>>

Background == CompactMemTable \/ StartCompaction \/ StartManual \/ CompactKey \/ InstallResults
RangeThread == RangeSwitch \/ RangeFlushed \/ RangeAsk \/ RangeLevelDone
Failure == FailMem \/ FailMove \/ FailCompaction

Next ==
    \/ \E k \in Keys : Write(k)
    \/ SwitchMem
    \/ \E h \in Takers : GetSnapshot(h) \/ ReleaseSnapshot(h)
    \/ \E h \in Readers : StartRead(h) \/ FinishRead(h)
    \/ Background
    \/ Failure
    \/ StartRange
    \/ RangeThread

Spec == Init /\ [][Next]_vars
-----------------------------------------------------------------------------
Entry == [key : Keys, seq : 1 .. MaxSeq, del : BOOLEAN]

IsFile(f) == f.ents \in SUBSET Entry \ {{}} /\ f.num \in 1 .. nextFile - 1

TypeOK ==
    /\ lastSequence \in 0 .. MaxSeq /\ mem \subseteq Entry
    /\ imm = << >> \/ imm[1] \subseteq Entry
    /\ DOMAIN current = Levels /\ \A f \in FilesOf(current) : IsFile(f)
    /\ disk \subseteq 1 .. nextFile - 1 /\ pending \subseteq disk
    /\ \A p \in toCompact : p[2] \in current[p[1]]
    /\ bgError \in BOOLEAN /\ errors \in 0 .. MaxErrors

\* What a reader at a sequence sees of memtables and a version.
View(s, table, full, version) ==
    [k \in Keys |-> LET found == Found(table, full, version, <<k, s>>)
                    IN IF \E e \in found : ~ e.del THEN (CHOOSE e \in found : TRUE).seq ELSE 0]

ViewOf(h) ==
    CASE held[h].kind = "free" -> [k \in {} |-> 0]
      [] held[h].kind = "snapshot" -> View(held[h].seq, mem, imm, current)
      [] held[h].kind = "read" -> View(held[h].seq, held[h].mem, held[h].imm, held[h].version)

Store == INSTANCE KvStore WITH
    writes <- lastSequence,
    store <- View(lastSequence, mem, imm, current),
    views <- [h \in Holders |-> ViewOf(h)]

\* Version::Get's binary search relies on it, and VersionSet::Builder aborts
\* if it is not so: "Make sure there is no overlap in levels > 0".
LevelsAreDisjoint ==
    \A l \in 1 .. NumLevels - 1 : \A f, g \in current[l] :
        f = g \/ Less(f.largest, g.smallest) \/ Less(g.largest, f.smallest)

\* A memtable that was flushed meanwhile lies between the files of a compaction.
FlushedBetween(c) ==
    \E f \in current[c.setup.level + 1] \ c.version[c.setup.level + 1] :
        Overlaps(f, Range2(c.setup.upper \cup c.setup.lower))

\* Files of a level come to overlap in one way only, at the end of a CompactRange
\* that merges files with a gap, into which CompactMemTable put one meanwhile.
\* What the background thread picks for itself has no such gaps.
OverlapsComeFromGaps ==
    [][(LevelsAreDisjoint /\ ~ LevelsAreDisjoint')
          => \E i \in DOMAIN comp : comp[i].manual /\ comp[i].rest = {} /\ FlushedBetween(comp[i])]_current

\* SetupOtherInputs looks for boundary files in its own level only; here no
\* file that is left out below starts with the last key of one that is taken.
TakesWholeKeys(c) ==
    \A f \in c.setup.lower, g \in c.version[c.setup.level + 1] \ c.setup.lower :
        g.smallest[1] # f.largest[1]

\* Flushes, moves, compactions and deletions of files do not change what a Get,
\* an iterator or a snapshot sees: to a reader they are no steps of the store.
\* Excepted are the end of a compaction that did not take whole keys (a dropped
\* marker is not "obsolete", as DoCompactionWork has it, if what it hides was
\* left out), and steps from or to an overlap (FindFile may miss a file).
OnlyWritesChangeReads ==
    [][(/\ LevelsAreDisjoint /\ LevelsAreDisjoint'
        /\ comp' # << >> \/ \A i \in DOMAIN comp : TakesWholeKeys(comp[i]))
          => (Store!Next \/ UNCHANGED Store!vars)]_<<memVars, current, held>>

\* "Entries never hop across levels" (Version::Get): a level holds nothing
\* newer about a key than the levels above it, nor a table than a memtable.
NewerIsAbove ==
    LET layers == <<mem>> \o imm \o [l \in 1 .. NumLevels |-> UNION {f.ents : f \in current[l - 1]}]
    IN \A i, j \in DOMAIN layers : i < j =>
          \A d \in layers[i], e \in layers[j] : d.key = e.key => d.seq > e.seq

\* Files that a version still in use or a compaction needs are not deleted.
NeededFilesExist ==
    /\ \A h \in Holders : \A f \in FilesOf(current) \cup FilesOf(held[h].version) : f.num \in disk
    /\ \A i \in DOMAIN comp : \A f \in FilesOf(comp[i].version) \cup comp[i].outputs : f.num \in disk
=============================================================================
