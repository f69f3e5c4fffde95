------------------------------ MODULE LdbRecovery ------------------------------
(***************************************************************************)
(* The files of a database and how it comes back after its process or the  *)
(* machine has stopped: logs, tables, manifests and CURRENT, DB::Open with *)
(* the creation and the recovery, memtable flushes and compactions as far  *)
(* as they touch files.  A write is its sequence number, a table the set   *)
(* of its writes; levels, and what a compaction may leave out, are in      *)
(* LdbCompaction.  reuse_logs is off.                                      *)
(***************************************************************************)
EXTENDS Integers, Sequences, SequencesExt

CONSTANTS MaxSeq,          \* bound: writes
          MaxFile,         \* bound: file numbers
          MaxOpens,        \* bound: calls of DB::Open
          MaxCompactions,  \* bound: compactions
          MaxOutputs,      \* bound: tables from one compaction
          MaxErrors        \* bound: I/O errors

ASSUME BoundsAreNat ==
    /\ {MaxSeq, MaxFile, MaxOpens, MaxCompactions, MaxOutputs, MaxErrors} \subseteq Nat

VARIABLES fs,     \* the file system
          db,     \* the memory of the process
          count,  \* how often what is bounded has happened
          hist    \* history: what was promised, and whether the machine may stop

vars == <<fs, db, count, hist>>
-----------------------------------------------------------------------------
\* The file system, and PosixEnv.  A directory that was not synced since may
\* come back (`older'), and of a file any part that was not synced may be lost.

Names == {"log", "table", "manifest"} \X (1 .. MaxFile)
TheLog(n) == <<"log", n>>
Table(n) == <<"table", n>>
Manifest(n) == <<"manifest", n>>

NoFiles == [files |-> {}, current |-> 0]
NewFs == [dir |-> NoFiles, older |-> {NoFiles},
          data |-> [n \in Names |-> << >>], synced |-> [n \in Names |-> 0]]

InDir(f, d) == [f EXCEPT !.dir = d, !.older = IF hist.power THEN @ \cup {d} ELSE {d}]
Create(f, n) == [InDir(f, [f.dir EXCEPT !.files = @ \cup {n}])
                    EXCEPT !.data[n] = << >>, !.synced[n] = 0]
Unlink(f, n) == InDir(f, [f.dir EXCEPT !.files = @ \ {n}])
AppendTo(f, n, items) == [f EXCEPT !.data[n] = @ \o items]

\* Sync: fsync keeps the file and its own entry in the directory.
Sync(f, n) == [f EXCEPT !.synced[n] = Len(f.data[n]),
                        !.older = {[d EXCEPT !.files = @ \cup {n}] : d \in @}]

\* A slip: the manifest is not synced.
ManifestNotSynced(f, n) == f

\* SyncDirIfManifest first.
SyncManifest(f, n) == [Sync(f, n) EXCEPT !.older = {f.dir}]

\* SetCurrentFile renames a temporary file that was synced.
SetCurrentFile(f, number) == InDir(f, [f.dir EXCEPT !.current = number])

Unsynced(f, d) == {n \in d.files : Len(f.data[n]) > f.synced[n]}

\* What the machine may find: any older directory, files cut off.
MachineFinds(f) ==
    UNION {{[dir |-> d, older |-> {d},
             data |-> [n \in Names |-> IF n \notin d.files THEN << >>
                                       ELSE IF n \in DOMAIN keep THEN SubSeq(f.data[n], 1, keep[n])
                                       ELSE f.data[n]],
             synced |-> [n \in Names |-> IF n \notin d.files THEN 0
                                         ELSE IF n \in DOMAIN keep THEN keep[n]
                                         ELSE f.synced[n]]] :
            keep \in {k \in [Unsynced(f, d) -> 0 .. MaxSeq + 1] :
                        \A n \in DOMAIN k : k[n] \in f.synced[n] .. Len(f.data[n])}} :
           d \in f.older}
-----------------------------------------------------------------------------
\* The manifest is a log of edits; next = 0: the edit has no numbers.
Edit(added, deleted, log, next, last) ==
    [add |-> added, del |-> deleted, log |-> log, next |-> next, last |-> last, torn |-> FALSE]
TornEdit == [Edit({}, {}, 0, 0, 0) EXCEPT !.torn = TRUE]

\* DBImpl and its VersionSet when the database is not open.
Closed == [pc |-> "down",
           tables |-> {}, log |-> 0, next |-> 2, last |-> 0,  \* VersionSet
           manifest |-> 0,                 \* manifest_file_number_
           added |-> {},                   \* the edit of Open
           todo |-> << >>, rest |-> << >>, \* logs to recover, records of the first
           logfile |-> 0,                  \* logfile_number_
           mem |-> {}, imm |-> << >>,
           jobs |-> << >>,                 \* of the background thread, innermost first
           bgError |-> FALSE]

Init ==
    /\ fs = NewFs /\ db = Closed
    /\ count = [opens |-> 0, compactions |-> 0, errors |-> 0]
    /\ \E power \in BOOLEAN :
          hist = [acked |-> {}, synced |-> {}, machine |-> FALSE, power |-> power]

Counts(what) == count' = [count EXCEPT ![what] = @ + 1]
Errs == count.errors < MaxErrors /\ Counts("errors")
Goto(step) == db' = [db EXCEPT !.pc = step]
-----------------------------------------------------------------------------
\* DB::Open.

NewEdit == Edit({}, {}, 0, 2, 0)

\* Recover: with no CURRENT, NewDB writes the first manifest.
Open ==
    /\ db.pc = "down" /\ count.opens < MaxOpens /\ Counts("opens")
    /\ \/ fs.dir.current # 0 /\ Goto("recover") /\ UNCHANGED fs
       \/ /\ fs.dir.current = 0 /\ Goto("new")
          /\ fs' = AppendTo(Create(fs, Manifest(1)), Manifest(1), <<NewEdit>>)
    /\ UNCHANGED hist

InstallNew ==
    /\ db.pc = "new" /\ Goto("recover")
    /\ fs' = SetCurrentFile(fs, 1)
    /\ UNCHANGED <<count, hist>>

FailNew ==
    /\ db.pc = "new" /\ Errs
    /\ fs' = Unlink(fs, Manifest(1)) /\ db' = Closed
    /\ UNCHANGED hist

\* VersionSet::Builder, for all edits.
TablesAfter(edits) == FoldLeft(LAMBDA tables, e : (tables \ e.del) \cup e.add, {}, edits)

\* A torn edit goes unnoticed at the end only (LdbLog).
Readable(edits) ==
    /\ \A i \in 1 .. Len(edits) - 1 : ~ edits[i].torn
    /\ \E i \in DOMAIN edits : edits[i].next > 0

\* A slip: logs older than the newest are taken for obsolete.
NewestLog(files, from) ==
    {n \in 1 .. MaxFile : TheLog(n) \in files /\ \A m \in n + 1 .. MaxFile : TheLog(m) \notin files}

LogsFrom(files, from) == {n \in from .. MaxFile : TheLog(n) \in files}

RestOf(logs) == IF logs = << >> THEN << >> ELSE fs.data[TheLog(logs[1])]

\* VersionSet::Recover, and what DBImpl::Recover does next: every table must
\* have a file of its number, and newer logs are looked for.
RecoverVersion ==
    /\ db.pc = "recover"
    /\ LET edits == fs.data[Manifest(fs.dir.current)]
           tables == TablesAfter(edits)
           e == Last(SelectSeq(edits, LAMBDA x : x.next > 0))
           logs == SetToSortSeq(LogsFrom(fs.dir.files, e.log), <)
       IN IF Manifest(fs.dir.current) \in fs.dir.files /\ Readable(edits)
             /\ tables \subseteq {n[2] : n \in fs.dir.files}
          THEN db' = [db EXCEPT !.pc = "logs", !.tables = tables, !.log = e.log,
                                !.manifest = e.next, !.next = e.next + 1, !.last = e.last,
                                !.todo = logs, !.rest = RestOf(logs)]
          ELSE Goto("corrupt")
    /\ UNCHANGED <<fs, count, hist>>

Higher(a, b) == IF a >= b THEN a ELSE b

MaxSequence(number) == Higher(db.last, number)

\* RecoverLogFile: whenever the memtable is full, and at the end of the log.
RecoverTable ==
    /\ db.pc = "logs" /\ db.rest # << >> /\ db.next <= MaxFile
    /\ \E n \in DOMAIN db.rest :
          LET writes == ToSet(SubSeq(db.rest, 1, n))
              file == Table(db.next)
          IN /\ fs' = Sync(AppendTo(Create(fs, file), file, <<writes>>), file)
             /\ db' = [db EXCEPT !.rest = SubSeq(@, n + 1, Len(@)),
                                 !.added = @ \cup {db.next}, !.next = @ + 1,
                                 !.last = MaxSequence(db.rest[n])]
    /\ UNCHANGED <<count, hist>>

MarkFileNumberUsed(number) == Higher(db.next, number + 1)

NextLog ==
    /\ db.pc = "logs" /\ db.rest = << >> /\ db.todo # << >>
    /\ db' = [db EXCEPT !.next = MarkFileNumberUsed(db.todo[1]),
                        !.todo = Tail(@), !.rest = RestOf(Tail(db.todo))]
    /\ UNCHANGED <<fs, count, hist>>

OpenLog ==
    /\ db.pc = "logs" /\ db.todo = << >> /\ db.next <= MaxFile
    /\ fs' = Create(fs, TheLog(db.next))
    /\ db' = [db EXCEPT !.pc = "manifest", !.logfile = db.next, !.next = @ + 1]
    /\ UNCHANGED <<count, hist>>

\* LogAndApply makes a new manifest: a snapshot of the version, and the edit.
OpenManifest ==
    /\ db.pc = "manifest" /\ Goto("sync")
    /\ LET m == Manifest(db.manifest)
           edit == Edit(db.added, {}, db.logfile, db.next, db.last)
       IN fs' = AppendTo(Create(fs, m), m, <<Edit(db.tables, {}, 0, 0, 0), edit>>)
    /\ UNCHANGED <<count, hist>>

OpenSync ==
    /\ db.pc = "sync" /\ Goto("current")
    /\ fs' = SyncManifest(fs, Manifest(db.manifest))
    /\ UNCHANGED <<count, hist>>

OpenCurrent ==
    /\ db.pc = "current"
    /\ fs' = SetCurrentFile(fs, db.manifest)
    /\ db' = [db EXCEPT !.pc = "clean", !.tables = @ \cup db.added, !.added = {},
                        !.log = db.logfile]
    /\ UNCHANGED <<count, hist>>

\* The new manifest is deleted, and the database not opened.
OpenFails ==
    /\ db.pc \in {"manifest", "sync", "current"} /\ Errs
    /\ fs' = Unlink(fs, Manifest(db.manifest)) /\ db' = Closed
    /\ UNCHANGED hist

\* pending_outputs_: of a flush until the table is built, of a compaction
\* until it is through.
Pending == UNION {ToSet(j.numbers) : j \in {i \in ToSet(db.jobs) : ~ i.flush \/ i.stage = "build"}}

\* A slip: the log of the memtable that is being written is not kept.
ObsoleteBeforeLogfile(n) ==
    CASE n[1] = "log" -> n[2] < db.logfile
      [] n[1] = "manifest" -> n[2] < db.manifest
      [] n[1] = "table" -> n[2] \notin db.tables \cup Pending

Obsolete(n) ==
    CASE n[1] = "log" -> n[2] < db.log
      [] n[1] = "manifest" -> n[2] < db.manifest
      [] n[1] = "table" -> n[2] \notin db.tables \cup Pending

\* DeleteObsoleteFiles, one file after the other, with the mutex held.
DeleteObsoleteFiles ==
    /\ db.pc = "clean"
    /\ \/ /\ \E n \in fs.dir.files : Obsolete(n) /\ fs' = Unlink(fs, n)
          /\ UNCHANGED db
       \/ /\ \A n \in fs.dir.files : ~ Obsolete(n)
          /\ Goto("running") /\ UNCHANGED fs
    /\ UNCHANGED <<count, hist>>
-----------------------------------------------------------------------------
\* The running database.

\* A write, acknowledged; with sync, the log is synced first.
Write(sync) ==
    /\ db.pc = "running" /\ ~ db.bgError /\ db.last < MaxSeq
    /\ LET w == db.last + 1
           log == TheLog(db.logfile)
           written == AppendTo(fs, log, <<w>>)
       IN /\ fs' = IF sync THEN Sync(written, log) ELSE written
          /\ db' = [db EXCEPT !.mem = @ \cup {w}, !.last = w]
          /\ hist' = [hist EXCEPT !.acked = @ \cup {w},
                                  !.synced = IF sync THEN @ \cup {w} ELSE @]
    /\ UNCHANGED count

\* MakeRoomForWrite: a new log and a new memtable.
SwitchMem ==
    /\ db.pc = "running" /\ ~ db.bgError /\ db.imm = << >> /\ db.mem # {} /\ db.next <= MaxFile
    /\ fs' = Create(fs, TheLog(db.next))
    /\ db' = [db EXCEPT !.imm = <<db.mem>>, !.mem = {}, !.logfile = db.next, !.next = @ + 1]
    /\ UNCHANGED <<count, hist>>

StartJob(flush, inputs) ==
    /\ db.next <= MaxFile
    /\ fs' = Create(fs, Table(db.next))
    /\ db' = [db EXCEPT !.next = @ + 1,
                        !.jobs = <<[flush |-> flush, numbers |-> <<db.next>>, inputs |-> inputs,
                                    stage |-> "build"]>> \o @]
    /\ UNCHANGED hist

\* First of all, or within a compaction.
MayFlush ==
    /\ db.imm # << >>
    /\ IF db.jobs = << >> THEN ~ db.bgError
       ELSE ~ db.jobs[1].flush /\ db.jobs[1].stage = "build"

StartFlush ==
    /\ db.pc = "running" /\ MayFlush
    /\ StartJob(TRUE, {}) /\ UNCHANGED count

StartCompaction ==
    /\ db.pc = "running" /\ db.imm = << >> /\ db.jobs = << >> /\ ~ db.bgError
    /\ count.compactions < MaxCompactions /\ Counts("compactions")
    /\ \E inputs \in SUBSET db.tables \ {{}} : StartJob(FALSE, inputs)

Job == db.jobs[1]
Runs(stage) == db.pc = "running" /\ db.jobs # << >> /\ Job.stage = stage
StageIs(stage) == db' = [db EXCEPT !.jobs[1].stage = stage]

\* A compaction goes on to another output file.
NextOutput ==
    /\ Runs("build") /\ ~ Job.flush /\ Len(Job.numbers) < MaxOutputs /\ db.next <= MaxFile
    /\ fs' = Create(fs, Table(db.next))
    /\ db' = [db EXCEPT !.next = @ + 1, !.jobs[1].numbers = Append(@, db.next)]
    /\ UNCHANGED <<count, hist>>

WritesIn(number) == UNION ToSet(fs.data[Table(number)])

\* BuildTable or the merge, with a Sync of each table at its end.  A write may
\* have entries in several tables: it is whole with the last one of them.
BuildOutput ==
    /\ Runs("build") /\ StageIs("log")
    /\ LET writes == IF Job.flush THEN db.imm[1] ELSE UNION {WritesIn(t) : t \in Job.inputs}
           file == Table(Last(Job.numbers))
       IN fs' = Sync(AppendTo(fs, file, <<writes>>), file)
    /\ UNCHANGED <<count, hist>>

\* The edit: a flush makes the logs before the current one unnecessary.
LogAfter == IF Job.flush THEN db.logfile ELSE db.log

LogEdit ==
    /\ Runs("log") /\ StageIs("sync")
    /\ fs' = AppendTo(fs, Manifest(db.manifest),
                      <<Edit(ToSet(Job.numbers), Job.inputs, LogAfter, db.next, db.last)>>)
    /\ UNCHANGED <<count, hist>>

\* After a background error nothing is deleted.
Install ==
    /\ Runs("sync")
    /\ fs' = SyncManifest(fs, Manifest(db.manifest))
    /\ db' = [db EXCEPT !.tables = (@ \ Job.inputs) \cup ToSet(Job.numbers), !.log = LogAfter,
                        !.imm = IF Job.flush THEN << >> ELSE @, !.jobs = Tail(@),
                        !.pc = IF db.bgError THEN "running" ELSE "clean"]
    /\ UNCHANGED <<count, hist>>

\* A table cannot be built, or an edit not be written whole, or not be synced.
JobFails ==
    /\ db.pc = "running" /\ db.jobs # << >> /\ Errs
    /\ db' = [db EXCEPT !.jobs = Tail(@), !.bgError = TRUE]
    /\ CASE Job.stage = "build" ->
              fs' = IF Job.flush THEN Unlink(fs, Table(Job.numbers[1])) ELSE fs
         [] Job.stage = "log" ->
              fs' \in {fs, AppendTo(fs, Manifest(db.manifest), <<TornEdit>>)}
         [] Job.stage = "sync" -> fs' = fs
    /\ UNCHANGED hist

\* The process stops, or is closed.
ProcessStops ==
    /\ db.pc \notin {"down", "corrupt"} /\ db' = Closed
    /\ UNCHANGED <<fs, count, hist>>

MachineStopsNow ==
    /\ hist.power /\ db.pc \notin {"down", "corrupt"}
    /\ db' = Closed /\ fs' \in MachineFinds(fs)
    /\ hist' = [hist EXCEPT !.machine = TRUE]
    /\ UNCHANGED count

Next ==
    \/ Open \/ InstallNew \/ FailNew
    \/ RecoverVersion \/ RecoverTable \/ NextLog
    \/ OpenLog \/ OpenManifest \/ OpenSync \/ OpenCurrent \/ OpenFails
    \/ DeleteObsoleteFiles
    \/ \E sync \in BOOLEAN : Write(sync)
    \/ SwitchMem
    \/ StartFlush \/ StartCompaction \/ NextOutput \/ BuildOutput \/ LogEdit \/ Install \/ JobFails
    \/ ProcessStops \/ MachineStopsNow

Spec == Init /\ [][Next]_vars
-----------------------------------------------------------------------------
TypeOK ==
    /\ fs.dir \in fs.older /\ fs.dir.current \in 0 .. MaxFile
    /\ \A d \in fs.older : d.files \subseteq Names
    /\ \A n \in Names : fs.synced[n] \in 0 .. Len(fs.data[n])
    /\ hist.synced \subseteq hist.acked /\ hist.acked \subseteq 1 .. MaxSeq
    /\ db.mem \subseteq 1 .. MaxSeq /\ Len(db.imm) <= 1 /\ Len(db.jobs) <= 2

Contents ==
    UNION {WritesIn(t) : t \in {s \in db.tables : Table(s) \in fs.dir.files}}
    \cup db.mem \cup UNION ToSet(db.imm)

\* "If it is just the process that crashes, no writes will be lost even if
\* sync==false" (options.h).
AckedSurvive == db.pc = "running" /\ ~ hist.machine => hist.acked \subseteq Contents

\* "The write will be flushed from the operating system buffer cache before
\* the write is considered complete" (options.h): it survives the machine.
SyncedSurvive == db.pc = "running" => hist.synced \subseteq Contents

\* Wherever the process or the machine stopped, no manifest is found torn and
\* no table that one names is missing (VersionSet::Recover), but for the first
\* manifest, which NewDB does not sync, and for edits torn by an I/O error.
OpensAgain == db.pc = "corrupt" /\ count.errors = 0 => fs.dir.current = 1

=============================================================================
