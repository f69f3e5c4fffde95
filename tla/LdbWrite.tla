------------------------------- MODULE LdbWrite -------------------------------
(***************************************************************************)
(* DBImpl::Write: calls of several threads queue up, the first of them     *)
(* writes a group of batches to the log and to the memtable with the mutex *)
(* released, and one background thread writes full memtables to tables.    *)
(* `mutex' is held over the steps of one critical section; a thread that   *)
(* waits goes on only after its condition variable was signalled.          *)
(***************************************************************************)
EXTENDS Integers, Sequences, FiniteSets, SequencesExt

CONSTANTS Calls,       \* calls of Write, each made once
          Kinds,       \* [sync, count]: options.sync, entries (0: nullptr)
          MemRoom,     \* entries a memtable takes (write_buffer_size)
          SmallBatch, MaxBatch,      \* limits of a group, in entries
          CompactTrigger, SlowdownTrigger, StopTrigger,   \* config::kL0_...
          MaxErrors,   \* bound: I/O errors
          None

ASSUME CallsAreFinite == IsFiniteSet(Calls) /\ None \notin Calls
ASSUME KindsType == Kinds \subseteq [sync : BOOLEAN, count : Nat]
ASSUME LimitsAreNat == {MemRoom, SmallBatch, MaxBatch, MaxErrors} \subseteq Nat
ASSUME TriggersAreOrdered == /\ {CompactTrigger, SlowdownTrigger, StopTrigger} \subseteq Nat \ {0}
                             /\ CompactTrigger <= SlowdownTrigger
                             /\ SlowdownTrigger <= StopTrigger

VARIABLES mutex,         \* the call in a critical section, or None
          call,          \* call[c]: where a call is, and what it was told
          writers,       \* writers_
          group,         \* calls whose batches are being written
          lastSequence,  \* versions_->LastSequence()
          log, synced,   \* entries in the current log; entries that are synced
          mem, imm,      \* entries of mem_; of imm_, or NoTable
          tables, l0,    \* entries in tables; number of level-0 files
          bg,            \* what the background thread does
          scheduled,     \* background_compaction_scheduled_
          bgError,       \* ~ bg_error_.ok()
          closing,       \* shutting_down_ and the destructor: "no", "wait", "done"
          errors         \* I/O errors so far

queueVars == <<call, writers, group>>
dataVars == <<lastSequence, log, synced, mem, imm, tables, l0>>
bgVars == <<bg, scheduled, bgError, closing>>
vars == <<mutex, queueVars, dataVars, bgVars, errors>>

NoTable == {-1}

NewCall == [pc |-> "idle", sync |-> FALSE, count |-> 0, seq |-> 0,
            ok |-> TRUE, awake |-> FALSE, delayed |-> FALSE,
            before |-> {}]     \* history: calls that had succeeded before

Init ==
    /\ mutex = None /\ call = [c \in Calls |-> NewCall]
    /\ writers = << >> /\ group = << >>
    /\ lastSequence = 0 /\ log = {} /\ synced = {}
    /\ mem = {} /\ imm = NoTable /\ tables = {} /\ l0 = 0
    /\ bg = "idle" /\ scheduled = FALSE /\ bgError = FALSE /\ closing = "no"
    /\ errors = 0

Entries(c) == call[c].seq .. (call[c].seq + call[c].count - 1)

Returned(c) == call[c].pc = "done"
Succeeded(c) == Returned(c) /\ call[c].ok

\* NeedsCompaction and the other reasons of MaybeScheduleCompaction.
Schedules(immutable, files, error) ==
    closing = "no" /\ ~ error /\ (immutable # NoTable \/ files >= CompactTrigger)

\* background_work_finished_signal_.SignalAll() in a function of the calls.
WakeAll(calls) ==
    [c \in Calls |-> IF calls[c].pc \in {"stall", "await"}
                     THEN [calls[c] EXCEPT !.awake = TRUE] ELSE calls[c]]
-----------------------------------------------------------------------------
\* A call joins the queue; the first in it goes on with the mutex held.

Enqueue(c) ==
    /\ mutex = None /\ call[c].pc = "idle" /\ closing = "no"
    /\ \E kind \in Kinds :
          call' = [call EXCEPT ![c].sync = kind.sync, ![c].count = kind.count,
                     ![c].pc = IF writers = << >> THEN "room" ELSE "queued",
                     ![c].before = {d \in Calls : Succeeded(d)}]
    /\ writers' = Append(writers, c)
    /\ mutex' = IF writers = << >> THEN c ELSE None
    /\ UNCHANGED <<group, dataVars, bgVars, errors>>

\* The call's own condition variable was signalled.
WakeUp(c) ==
    /\ mutex = None /\ call[c].pc = "queued" /\ call[c].awake
    /\ call' = [call EXCEPT ![c].awake = FALSE,
                            ![c].pc = IF Head(writers) = c THEN "room" ELSE "queued"]
    /\ mutex' = IF Head(writers) = c THEN c ELSE None
    /\ UNCHANGED <<writers, group, dataVars, bgVars, errors>>

Forced(c) == call[c].count = 0

\* MakeRoomForWrite, after a delay or a wait.
Return(c, from) ==
    /\ mutex = None /\ call[c].pc = from
    /\ from = "stall" => call[c].awake
    /\ call' = [call EXCEPT ![c].pc = "room", ![c].awake = FALSE]
    /\ mutex' = c
    /\ UNCHANGED <<writers, group, dataVars, bgVars, errors>>

\* Yield previous error.
Refuses == bgError

InRoom(c) == mutex = c /\ call[c].pc = "room"

NeedsDelay(c) == ~ Forced(c) /\ ~ call[c].delayed /\ l0 >= SlowdownTrigger
HasRoom(c) == ~ Forced(c) /\ Cardinality(mem) <= MemRoom

MustWait == imm # NoTable \/ l0 >= StopTrigger

\* Unlock, sleep, lock again: once for a call.
Delay(c) ==
    /\ InRoom(c) /\ ~ Refuses /\ NeedsDelay(c)
    /\ call' = [call EXCEPT ![c].pc = "sleep", ![c].delayed = TRUE]
    /\ mutex' = None
    /\ UNCHANGED <<writers, group, dataVars, bgVars, errors>>

Stall(c) ==
    /\ InRoom(c) /\ ~ Refuses /\ ~ NeedsDelay(c) /\ ~ HasRoom(c) /\ MustWait
    /\ call' = [call EXCEPT ![c].pc = "stall"]
    /\ mutex' = None
    /\ UNCHANGED <<writers, group, dataVars, bgVars, errors>>

FailInRoom(c) ==
    /\ InRoom(c)
    /\ \/ Refuses /\ UNCHANGED errors
       \/ /\ ~ Refuses /\ ~ NeedsDelay(c) /\ ~ HasRoom(c) /\ ~ MustWait
          /\ errors < MaxErrors /\ errors' = errors + 1      \* no log file
    /\ call' = [call EXCEPT ![c].pc = "finish", ![c].ok = FALSE]
    /\ group' = <<c>>
    /\ UNCHANGED <<mutex, writers, dataVars, bgVars>>

\* A slip: a synced call joins a group whose log record is not synced.
JoinsAnyGroup(first, c) == TRUE

JoinsGroup(first, c) == call[c].sync => call[first].sync

Prefix(n) == SubSeq(writers, 1, n)

\* The sum of the first n numbers.
Sum(numbers, n) ==
    LET sum[i \in 0..n] == IF i = 0 THEN 0 ELSE sum[i - 1] + numbers[i]
    IN  sum[n]

\* The entries of the first n calls.
Count(calls, n) == Sum([i \in DOMAIN calls |-> call[calls[i]].count], n)

\* BuildBatchGroup: the calls from the first one on, up to one that may not
\* join or makes the batch too big.  A nullptr batch adds nothing to it.
BuildBatchGroup ==
    LET first == Head(writers)
        limit == IF call[first].count <= SmallBatch
                 THEN call[first].count + SmallBatch ELSE MaxBatch
        fits(n) == \A i \in 2..n :
                      /\ JoinsGroup(first, writers[i])
                      /\ call[writers[i]].count # 0 => Count(writers, i) <= limit
    IN  Prefix(CHOOSE n \in 1..Len(writers) :
                  fits(n) /\ (n = Len(writers) \/ ~ fits(n + 1)))

\* A slip: the batches of a group are not counted.
NumberedAlike(calls) ==
    [c \in Calls |-> IF c \in ToSet(calls) THEN [call[c] EXCEPT !.seq = lastSequence + 1]
                     ELSE call[c]]

\* The sequence numbers of a group follow LastSequence in the order of its calls.
Numbered(calls) ==
    [c \in Calls |->
       IF c \in ToSet(calls)
       THEN LET i == CHOOSE j \in DOMAIN calls : calls[j] = c
            IN  [call[c] EXCEPT !.seq = lastSequence + 1 + Count(calls, i - 1)]
       ELSE call[c]]

\* There is room, or room is made: the memtable is full and imm_ is free.
StartGroup(c) ==
    /\ InRoom(c) /\ ~ Refuses /\ ~ NeedsDelay(c) /\ HasRoom(c)
    /\ group' = BuildBatchGroup
    /\ call' = [Numbered(BuildBatchGroup) EXCEPT ![c].pc = "log"]
    /\ mutex' = None
    /\ UNCHANGED <<writers, dataVars, bgVars, errors>>

\* A new log file and a new memtable; the old one is left to be written.
SwitchMemTable(c) ==
    /\ InRoom(c) /\ ~ Refuses /\ ~ NeedsDelay(c) /\ ~ HasRoom(c) /\ ~ MustWait
    /\ imm' = mem /\ mem' = {} /\ log' = {}
    /\ scheduled' = (scheduled \/ Schedules(mem, l0, bgError))
    /\ IF Forced(c)
       THEN /\ call' = [call EXCEPT ![c].pc = "finish"] /\ group' = <<c>>
            /\ UNCHANGED mutex
       ELSE /\ group' = BuildBatchGroup
            /\ call' = [Numbered(BuildBatchGroup) EXCEPT ![c].pc = "log"]
            /\ mutex' = None
    /\ UNCHANGED <<writers, lastSequence, synced, tables, l0, bg, bgError, closing, errors>>
-----------------------------------------------------------------------------
\* The first call writes its group with the mutex released.

GroupEntries == UNION {Entries(c) : c \in ToSet(group)}

LastEntry == call[Head(group)].seq + Count(group, Len(group)) - 1

\* A slip: the new LastSequence is published before the entries are there.
AddRecordPublishes(c) ==
    /\ call[c].pc = "log"
    /\ log' = log \cup GroupEntries
    /\ lastSequence' = LastEntry
    /\ call' = [call EXCEPT ![c].pc = IF call[c].sync THEN "sync" ELSE "insert"]
    /\ UNCHANGED <<mutex, writers, group, synced, mem, imm, tables, l0, bgVars, errors>>

AddRecord(c) ==
    /\ call[c].pc = "log"
    /\ \/ /\ log' = log \cup GroupEntries
          /\ call' = [call EXCEPT ![c].pc = IF call[c].sync THEN "sync" ELSE "insert"]
          /\ UNCHANGED errors
       \/ /\ errors < MaxErrors /\ errors' = errors + 1
          /\ call' = [call EXCEPT ![c].pc = "relock", ![c].ok = FALSE]
          /\ UNCHANGED log
    /\ UNCHANGED <<mutex, writers, group, lastSequence, synced, mem, imm, tables, l0, bgVars>>

Sync(c) ==
    /\ call[c].pc = "sync"
    /\ \/ /\ synced' = synced \cup log
          /\ call' = [call EXCEPT ![c].pc = "insert"] /\ UNCHANGED errors
       \/ /\ errors < MaxErrors /\ errors' = errors + 1
          /\ call' = [call EXCEPT ![c].pc = "unsynced", ![c].ok = FALSE]
          /\ UNCHANGED synced
    /\ UNCHANGED <<mutex, writers, group, lastSequence, log, mem, imm, tables, l0, bgVars>>

\* One entry of the group at a time: readers go on meanwhile.
Insert(c) ==
    /\ call[c].pc = "insert"
    /\ LET left == GroupEntries \ mem
       IN  IF left = {}
           THEN call' = [call EXCEPT ![c].pc = "relock"] /\ UNCHANGED mem
           ELSE /\ mem' = mem \cup {CHOOSE e \in left : \A f \in left : e <= f}
                /\ UNCHANGED call
    /\ UNCHANGED <<mutex, writers, group, lastSequence, log, synced, imm, tables, l0, bgVars, errors>>

\* The mutex again: a failed sync stops all writes to come.
Relock(c) ==
    /\ mutex = None /\ call[c].pc \in {"relock", "unsynced"}
    /\ LET failed == call[c].pc = "unsynced"
           calls == [call EXCEPT ![c].pc = "finish"]
       IN  /\ bgError' = (bgError \/ failed)
           /\ call' = IF failed /\ ~ bgError THEN WakeAll(calls) ELSE calls
    /\ lastSequence' = LastEntry
    /\ mutex' = c
    /\ UNCHANGED <<writers, group, log, synced, mem, imm, tables, l0, bg, scheduled, closing, errors>>

\* A slip: the next call in the queue is not told that it is first now.
FinishSilently(c) ==
    /\ mutex = c /\ call[c].pc = "finish"
    /\ writers' = SubSeq(writers, Len(group) + 1, Len(writers))
    /\ call' = [d \in Calls |->
          IF d \in ToSet(group)
          THEN [call[d] EXCEPT !.ok = call[c].ok, !.awake = TRUE,
                               !.pc = IF Forced(d) /\ call[c].ok THEN "await" ELSE "done"]
          ELSE call[d]]
    /\ group' = << >> /\ mutex' = None
    /\ UNCHANGED <<dataVars, bgVars, errors>>

\* The calls of the group get its status; the next in the queue is signalled.
\* A nullptr batch comes from TEST_CompactMemTable, which waits for imm_ next.
Finish(c) ==
    /\ mutex = c /\ call[c].pc = "finish"
    /\ writers' = SubSeq(writers, Len(group) + 1, Len(writers))
    /\ call' = [d \in Calls |->
          IF d \in ToSet(group)
          THEN [call[d] EXCEPT !.ok = call[c].ok, !.awake = TRUE,
                               !.pc = IF Forced(d) /\ call[c].ok THEN "await" ELSE "done"]
          ELSE IF writers' # << >> /\ d = Head(writers')
               THEN [call[d] EXCEPT !.awake = TRUE] ELSE call[d]]
    /\ group' = << >> /\ mutex' = None
    /\ UNCHANGED <<dataVars, bgVars, errors>>

AwaitFlush(c) ==
    /\ mutex = None /\ call[c].pc = "await" /\ call[c].awake
    /\ call' = [call EXCEPT ![c].awake = FALSE,
                            ![c].ok = imm = NoTable,
                            ![c].pc = IF imm = NoTable \/ bgError THEN "done" ELSE "await"]
    /\ UNCHANGED <<mutex, writers, group, dataVars, bgVars, errors>>
-----------------------------------------------------------------------------
\* The background thread.

\* A slip: the flag stays up when the work is done.
BgFinishStaysScheduled(calls, error) ==
    /\ bg' = "idle" /\ bgError' = error /\ UNCHANGED scheduled
    /\ call' = WakeAll(calls)

\* The end of BackgroundCall: schedule again if there is more, wake everybody.
BgFinish(calls, error) ==
    /\ bg' = "idle" /\ bgError' = error
    /\ scheduled' = Schedules(imm', l0', error)
    /\ call' = WakeAll(calls)

BackgroundCall ==
    /\ mutex = None /\ scheduled /\ bg = "idle"
    /\ UNCHANGED <<mutex, writers, group, dataVars, closing, errors>>
    /\ IF closing = "no" /\ ~ bgError /\ (imm # NoTable \/ l0 >= CompactTrigger)
       THEN /\ bg' = IF imm # NoTable THEN "flush" ELSE "compact"
            /\ UNCHANGED <<call, scheduled, bgError>>
       ELSE BgFinish(call, bgError)

BgFails == errors < MaxErrors /\ errors' = errors + 1

BgError == UNCHANGED dataVars /\ BgFinish(call, TRUE)

\* CompactMemTable: the table and the new version are written, or the error
\* is recorded.  The destructor's flag turns success into an error.
Flushed ==
    /\ tables' = tables \cup imm /\ imm' = NoTable
    /\ l0' \in (IF imm = {} THEN {l0} ELSE {l0, l0 + 1})
    /\ UNCHANGED <<lastSequence, log, synced, mem>>

CompactMemTable ==
    /\ mutex = None /\ bg = "flush"
    /\ UNCHANGED <<mutex, writers, group, closing>>
    /\ \/ closing = "no" /\ Flushed /\ BgFinish(call, bgError) /\ UNCHANGED errors
       \/ closing # "no" /\ BgError /\ UNCHANGED errors
       \/ BgFails /\ BgError

\* A compaction stops for the immutable memtable, and goes on after it.
FlushFirst ==
    /\ mutex = None /\ bg = "compact" /\ imm # NoTable
    /\ \/ closing = "no" /\ Flushed /\ UNCHANGED <<bgError, errors>>
       \/ BgFails /\ bgError' = TRUE /\ UNCHANGED dataVars
    /\ call' = WakeAll(call)
    /\ UNCHANGED <<mutex, writers, group, bg, scheduled, closing>>

Compact ==
    /\ mutex = None /\ bg = "compact"
    /\ UNCHANGED <<mutex, writers, group, closing>>
    /\ \/ /\ closing = "no" /\ l0' = 0
          /\ UNCHANGED <<lastSequence, log, synced, mem, imm, tables, errors>>
          /\ BgFinish(call, bgError)
       \/ closing # "no" /\ BgError /\ UNCHANGED errors
       \/ BgFails /\ BgError

\* The destructor, once no call is under way: it waits for the thread.
Close ==
    /\ mutex = None
    /\ \/ /\ closing = "no" /\ \A c \in Calls : Returned(c)
          /\ closing' = "wait"
       \/ /\ closing = "wait" /\ ~ scheduled
          /\ closing' = "done"
    /\ UNCHANGED <<mutex, queueVars, dataVars, bg, scheduled, bgError, errors>>
-----------------------------------------------------------------------------
Write(c) == \/ WakeUp(c) \/ Return(c, "sleep") \/ Return(c, "stall")
            \/ Delay(c) \/ Stall(c) \/ FailInRoom(c) \/ StartGroup(c) \/ SwitchMemTable(c)
            \/ AddRecord(c) \/ Sync(c) \/ Insert(c) \/ Relock(c) \/ Finish(c)
            \/ AwaitFlush(c)

Background == BackgroundCall \/ CompactMemTable \/ FlushFirst \/ Compact

Next == \/ \E c \in Calls : Enqueue(c) \/ Write(c)
        \/ Background \/ Close

Spec == Init /\ [][Next]_vars

(* Every thread goes on when it can; no call has to be made.               *)
FairSpec == /\ Spec /\ WF_vars(Background) /\ WF_vars(closing # "no" /\ Close)
            /\ \A c \in Calls : WF_vars(Write(c))
-----------------------------------------------------------------------------
Places == {"idle", "queued", "room", "sleep", "stall", "log", "sync", "insert",
           "relock", "unsynced", "finish", "await", "done"}

TypeOK ==
    /\ mutex \in Calls \cup {None}
    /\ call \in [Calls -> [pc : Places, sync : BOOLEAN, count : Nat, seq : Nat,
                           ok : BOOLEAN, awake : BOOLEAN, delayed : BOOLEAN,
                           before : SUBSET Calls]]
    /\ writers \in Seq(Calls) /\ group \in Seq(Calls)
    /\ lastSequence \in Nat /\ log \subseteq Nat /\ synced \subseteq Nat
    /\ mem \subseteq Nat /\ (imm = NoTable \/ imm \subseteq Nat) /\ tables \subseteq Nat
    /\ l0 \in 0..StopTrigger
    /\ bg \in {"idle", "flush", "compact"}
    /\ scheduled \in BOOLEAN /\ bgError \in BOOLEAN
    /\ closing \in {"no", "wait", "done"} /\ errors \in 0..MaxErrors

Stored == mem \cup tables \cup (IF imm = NoTable THEN {} ELSE imm)

(* A call that asked for sync and was told OK is on stable storage, also   *)
(* when another call wrote it in its group (db_impl.cc:1281-1284).         *)
SyncedIfAsked ==
    \A c \in Calls : Succeeded(c) /\ call[c].sync => Entries(c) \subseteq synced \cup tables

(* What a reader can see, the entries up to LastSequence, is at every      *)
(* moment made of whole batches (db_impl.cc:1236), and has every batch     *)
(* that was acknowledged.                                                  *)
ReadersSeeBatches ==
    LET visible == {e \in Stored : e <= lastSequence}
    IN  \A c \in Calls : /\ call[c].seq # 0 => \/ Entries(c) \subseteq visible
                                               \/ Entries(c) \cap visible = {}
                         /\ Succeeded(c) => Entries(c) \subseteq visible

(* Batches get numbers of their own (db_impl.cc:1204), and later ones than *)
(* every call that had succeeded before theirs began.                      *)
WritesAreOrdered ==
    \A c, d \in Calls :
        /\ c # d /\ call[c].seq # 0 /\ call[d].seq # 0 => Entries(c) \cap Entries(d) = {}
        /\ c \in call[d].before => \A e \in Entries(c), f \in Entries(d) :
                                      call[d].seq # 0 => e < f

(* No call waits for ever (db_impl.cc:1190, 1334-1345): whoever may have to wait is woken, in whatever  *)
(* way the group, the flush or the compaction it waits for ends.           *)
EveryCallReturns == \A c \in Calls : call[c].pc # "idle" ~> Returned(c)

(* The destructor waits for the background thread (db_impl.cc:157): an     *)
(* error, or work that was scheduled before, does not keep it waiting.     *)
CloseReturns == closing = "wait" ~> closing = "done"
=============================================================================
