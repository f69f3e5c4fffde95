-------------------------------- MODULE LdbLog --------------------------------
(***************************************************************************)
(* The record format of leveldb's log and MANIFEST files: the writer cuts  *)
(* records into fragments that fit their block, the process or the machine *)
(* stops, and a reader puts the records together again.  A file is its     *)
(* sequence of bytes; a byte is named by the fragment it was written for   *)
(* and its place there, so a header is recognised, and a checksum agrees,  *)
(* exactly if all the bytes of one fragment are in place.                  *)
(***************************************************************************)
EXTENDS Integers, Sequences, FiniteSets, SequencesExt

CONSTANTS BlockSize, HeaderSize,   \* kBlockSize, kHeaderSize
          Lengths,                 \* lengths of records
          InitialOffsets,          \* initial_offset_ of the reader
          MaxRecords, MaxFaults    \* bounds

ASSUME SizesAreSound == /\ HeaderSize \in Nat \ {0} /\ BlockSize \in Nat
                        /\ HeaderSize < BlockSize
ASSUME InputsAreNat == Lengths \subseteq Nat /\ InitialOffsets \subseteq Nat
ASSUME BoundsAreNat == {MaxRecords, MaxFaults} \subseteq Nat

VARIABLES file,        \* bytes of the file
          frags,       \* fragments emitted, in order
          blockOffset, \* block_offset_ of the writer
          adding,      \* the record AddRecord is cutting up: number, bytes left
          acked,       \* records whose AddRecord has returned OK
          faults,      \* failed appends, crashes and damaged bytes so far
          reuse,       \* Options::reuse_logs
          mode,        \* "write" or "read"
          rd,          \* state of the reader
          output,      \* records returned: the fragments each is made of
          alarms       \* drops the reader has reported

writerVars == <<file, frags, blockOffset, adding, acked>>
readerVars == <<rd, output, alarms>>
vars == <<writerVars, faults, reuse, mode, readerVars>>

Idle == [rec |-> 0, left |-> 0, begin |-> TRUE]
Zero == <<0, 0>>       \* a byte of a trailer, or of a preallocated region
Damaged == <<0, 1>>    \* a byte that is not what was written

Records == Len(SelectSeq(frags, LAMBDA f : f.type \in {"full", "first"}))

NewReader(offset) ==
    [pos |-> 0, end |-> 0, eof |-> FALSE,      \* buffer_ is file[pos..end)
     offset |-> offset, resync |-> offset > 0,
     inFragment |-> FALSE, scratch |-> << >>, finished |-> FALSE]

Init ==
    /\ file = << >> /\ frags = << >> /\ blockOffset = 0
    /\ adding = Idle /\ acked = {}
    /\ faults = [errors |-> 0, crashes |-> 0, damage |-> 0]
    /\ reuse \in BOOLEAN /\ mode = "write"
    /\ rd = NewReader(0) /\ output = << >> /\ alarms = 0

CanFail == faults.errors + faults.crashes + faults.damage < MaxFaults
-----------------------------------------------------------------------------
\* The writer.

AddRecord ==
    /\ mode = "write" /\ adding = Idle /\ Records < MaxRecords
    /\ \E n \in Lengths : adding' = [rec |-> Records + 1, left |-> n, begin |-> TRUE]
    /\ UNCHANGED <<file, frags, blockOffset, acked, faults, mode, readerVars>>

TypeOf(begin, end) ==
    CASE begin /\ end -> "full" [] begin /\ ~ end -> "first"
      [] ~ begin /\ end -> "last" [] OTHER -> "middle"

\* A slip: the zeros that fill a block are left out.
NoTrailer == << >>

Trailer ==
    LET leftover == BlockSize - blockOffset
    IN  IF leftover < HeaderSize THEN [i \in 1..leftover |-> Zero] ELSE << >>

\* One turn of AddRecord's loop: the trailer, and one fragment of the record.
NextFragment ==
    LET start == IF BlockSize - blockOffset < HeaderSize THEN 0 ELSE blockOffset
        avail == BlockSize - start - HeaderSize
        length == IF adding.left < avail THEN adding.left ELSE avail
    IN  [rec |-> adding.rec, length |-> length, inBlock |-> start,
         type |-> TypeOf(adding.begin, length = adding.left)]

Bytes(k, f) == [i \in 1..(HeaderSize + f.length) |-> <<k, i>>]

EmitPhysicalRecord ==
    /\ mode = "write" /\ adding # Idle
    /\ LET f == NextFragment
           rest == adding.left - f.length
       IN  /\ frags' = Append(frags, f)
           /\ file' = file \o Trailer \o Bytes(Len(frags) + 1, f)
           /\ blockOffset' = f.inBlock + HeaderSize + f.length
           /\ IF rest = 0
              THEN adding' = Idle /\ acked' = acked \cup {adding.rec}
              ELSE /\ adding' = [adding EXCEPT !.left = rest, !.begin = FALSE]
                   /\ UNCHANGED acked
    /\ UNCHANGED <<faults, mode, readerVars>>

\* What an append that does not go through leaves in the file.
PartOf(f) ==
    LET bytes == Trailer \o Bytes(Len(frags) + 1, f)
    IN  {SubSeq(bytes, 1, n) : n \in 0..(Len(bytes) - 1)}

\* A full disk, say: the record is given up, and the offset has moved on.
AppendFails ==
    /\ mode = "write" /\ adding # Idle /\ CanFail
    /\ LET f == NextFragment
       IN  /\ frags' = Append(frags, f)
           /\ \E part \in PartOf(f) : file' = file \o part
           /\ blockOffset' = f.inBlock + HeaderSize + f.length
    /\ adding' = Idle
    /\ faults' = [faults EXCEPT !.errors = @ + 1]
    /\ UNCHANGED <<acked, mode, readerVars>>

\* The process ends, maybe within an append; every append before is kept.
ProcessStops ==
    /\ mode = "write" /\ CanFail
    /\ IF adding = Idle
       THEN UNCHANGED <<file, frags>>
       ELSE LET f == NextFragment
            IN  /\ frags' = Append(frags, f)
                /\ \E part \in PartOf(f) : file' = file \o part
    /\ adding' = Idle
    /\ faults' = [faults EXCEPT !.crashes = @ + 1]
    /\ IF reuse
       THEN blockOffset' = Len(file') % BlockSize /\ UNCHANGED <<mode, rd>>
       ELSE /\ mode' = "read" /\ UNCHANGED blockOffset
            /\ \E offset \in InitialOffsets : rd' = NewReader(offset)
    /\ UNCHANGED <<acked, output, alarms>>

\* The machine stops: whatever was not synced may be gone.
MachineStops ==
    /\ mode = "write" /\ ~ reuse /\ CanFail
    /\ \E n \in 0..Len(file) : file' = SubSeq(file, 1, n)
    /\ adding' = Idle /\ mode' = "read"
    /\ faults' = [faults EXCEPT !.crashes = @ + 1]
    /\ \E offset \in InitialOffsets : rd' = NewReader(offset)
    /\ UNCHANGED <<frags, blockOffset, acked, output, alarms>>

\* A byte goes bad on the disk, before anything is read.
Damage ==
    /\ mode = "read" /\ rd.end = 0 /\ ~ rd.finished /\ CanFail
    /\ \E i \in DOMAIN file : file' = [file EXCEPT ![i] = Damaged]
    /\ faults' = [faults EXCEPT !.damage = @ + 1]
    /\ UNCHANGED <<frags, blockOffset, adding, acked, mode, readerVars>>

StartReading ==
    /\ mode = "write" /\ adding = Idle
    /\ mode' = "read"
    /\ \E offset \in InitialOffsets : rd' = NewReader(offset)
    /\ UNCHANGED <<writerVars, faults, output, alarms>>
-----------------------------------------------------------------------------
\* The reader.

Reading == mode = "read" /\ ~ rd.finished

Buffered == rd.end - rd.pos

\* Blocks before the one that initial_offset_ is in are skipped.
InitialBlock(offset) ==
    LET inBlock == offset % BlockSize
    IN  offset - inBlock + (IF inBlock > BlockSize - (HeaderSize - 1) THEN BlockSize ELSE 0)

ReadBlock ==
    /\ Reading /\ Buffered < HeaderSize /\ ~ rd.eof
    /\ LET from == IF rd.end = 0 THEN InitialBlock(rd.offset) ELSE rd.end
           size == IF from >= Len(file) THEN 0
                   ELSE IF Len(file) - from < BlockSize THEN Len(file) - from ELSE BlockSize
       IN  rd' = [rd EXCEPT !.pos = from, !.end = from + size, !.eof = size < BlockSize]
    /\ UNCHANGED <<writerVars, faults, mode, output, alarms>>

\* kEof: a record that was begun is ignored, not reported.
AtEof ==
    /\ Reading
    /\ rd' = [rd EXCEPT !.pos = rd.end, !.scratch = << >>, !.finished = TRUE]
    /\ UNCHANGED <<writerVars, faults, mode, output, alarms>>

TruncatedHeader == Buffered < HeaderSize /\ rd.eof /\ AtEof

\* Positions count from 0, sequences from 1.
ByteAt(p) == file[p + 1]

\* The fragment whose header is at the start of the buffer, 0 if there is none.
HeaderOf ==
    LET k == ByteAt(rd.pos)[1]
    IN  IF k # 0 /\ \A i \in 1..HeaderSize : ByteAt(rd.pos + i - 1) = <<k, i>>
        THEN k ELSE 0

Fits(k) == HeaderSize + frags[k].length <= Buffered

ChecksumAgrees(k) ==
    \A i \in 1..frags[k].length : ByteAt(rd.pos + HeaderSize + i - 1) = <<k, HeaderSize + i>>

\* A slip: the record that was being put together goes on after the gap.
BadRecordKeepsFragment(report) ==
    /\ rd' = [rd EXCEPT !.pos = rd.end, !.resync = FALSE]
    /\ alarms' = alarms + report
    /\ UNCHANGED <<writerVars, faults, mode, output>>

\* A slip: nothing is read after a bad record.
BadRecordStops(report) ==
    /\ rd' = [rd EXCEPT !.pos = rd.end, !.resync = FALSE, !.inFragment = FALSE,
                        !.scratch = << >>, !.finished = TRUE]
    /\ alarms' = alarms + report
    /\ UNCHANGED <<writerVars, faults, mode, output>>

\* kBadRecord: the rest of the block, and the record begun, are dropped.
BadRecord(report) ==
    /\ rd' = [rd EXCEPT !.pos = rd.end, !.resync = FALSE, !.inFragment = FALSE,
                        !.scratch = << >>]
    /\ alarms' = alarms + report + (IF rd.inFragment /\ ~ rd.resync THEN 1 ELSE 0)
    /\ UNCHANGED <<writerVars, faults, mode, output>>

\* A slip: a fragment cut off by the end of the file is reported as damage.
BadLengthAlways == BadRecord(1)

\* At the end of the file the writer is taken to have died within a record.
BadLength ==
    \/ rd.eof /\ AtEof
    \/ ~ rd.eof /\ BadRecord(1)

ZeroHeader == \A i \in 0..(HeaderSize - 1) : ByteAt(rd.pos + i) = Zero

\* Bytes that are no header: any length, any type, but not the right checksum.
ReadGarbage ==
    /\ Reading /\ Buffered >= HeaderSize /\ HeaderOf = 0
    /\ \/ BadRecord(0)                        \* type and length zero
       \/ ~ ZeroHeader /\ (BadLength \/ BadRecord(1))

ReadBroken ==
    /\ Reading /\ Buffered >= HeaderSize /\ HeaderOf # 0
    /\ LET k == HeaderOf
       IN  \/ ~ Fits(k) /\ BadLength
           \/ Fits(k) /\ ~ ChecksumAgrees(k) /\ BadRecord(1)

\* A whole fragment is at the start of the buffer; `after' is what follows it.
Fragment(k) ==
    /\ Reading /\ Buffered >= HeaderSize /\ HeaderOf = k
    /\ k # 0 /\ Fits(k) /\ ChecksumAgrees(k)

After(k) == rd.pos + HeaderSize + frags[k].length

\* The fragment starts before initial_offset_: a bad record of another kind.
SkipEarly ==
    \E k \in DOMAIN frags :
        /\ Fragment(k) /\ rd.pos < rd.offset
        /\ rd' = [rd EXCEPT !.pos = After(k), !.resync = FALSE, !.inFragment = FALSE,
                            !.scratch = << >>]
        /\ alarms' = alarms + (IF rd.inFragment /\ ~ rd.resync THEN 1 ELSE 0)
        /\ UNCHANGED <<writerVars, faults, mode, output>>

\* Looking for the first record after a seek, the ends of others are skipped.
Resync ==
    \E k \in DOMAIN frags :
        /\ Fragment(k) /\ rd.pos >= rd.offset
        /\ rd.resync /\ frags[k].type \in {"middle", "last"}
        /\ rd' = [rd EXCEPT !.pos = After(k), !.resync = frags[k].type # "last"]
        /\ UNCHANGED <<writerVars, faults, mode, output, alarms>>

ScratchLength == FoldFunction(LAMBDA k, n : n + frags[k].length, 0, rd.scratch)

\* ReadRecord's switch over the type of a fragment.
TakeFragment ==
    \E k \in DOMAIN frags :
        /\ Fragment(k) /\ rd.pos >= rd.offset
        /\ LET type == frags[k].type
               begins == type \in {"full", "first"}
               joined == IF begins THEN <<k>> ELSE Append(rd.scratch, k)
               taken == begins \/ rd.inFragment
               partial == begins /\ rd.inFragment /\ ScratchLength > 0
           IN  /\ ~ (rd.resync /\ ~ begins)
               /\ output' = IF taken /\ type \in {"full", "last"}
                            THEN Append(output, joined) ELSE output
               /\ rd' = [rd EXCEPT !.pos = After(k), !.resync = FALSE,
                             !.scratch = IF taken /\ type \in {"first", "middle"}
                                         THEN joined ELSE << >>,
                             !.inFragment = taken /\ type \in {"first", "middle"}]
               /\ alarms' = alarms + (IF partial \/ ~ taken THEN 1 ELSE 0)
        /\ UNCHANGED <<writerVars, faults, mode>>
-----------------------------------------------------------------------------
Next ==
    /\ UNCHANGED reuse
    /\ \/ AddRecord \/ EmitPhysicalRecord \/ AppendFails \/ ProcessStops
       \/ MachineStops \/ Damage \/ StartReading
       \/ ReadBlock \/ TruncatedHeader \/ ReadGarbage \/ ReadBroken
       \/ SkipEarly \/ Resync \/ TakeFragment

Spec == Init /\ [][Next]_vars
-----------------------------------------------------------------------------
TypeOK ==
    /\ file \in Seq((0..Len(frags)) \X (0..(BlockSize)))
    /\ blockOffset \in 0..BlockSize
    /\ acked \subseteq 1..Records
    /\ mode \in {"write", "read"} /\ alarms \in Nat
    /\ rd.pos <= rd.end
    /\ \A i \in DOMAIN output : output[i] \in Seq(DOMAIN frags)

Parts(n) == SelectSeq([i \in DOMAIN frags |-> i], LAMBDA k : frags[k].rec = n)

\* Where the bytes of a record are, whole and in one place after the other.
Offsets(n) ==
    {p \in 0..(Len(file) - 1) : \E i \in DOMAIN Parts(n) : ByteAt(p)[1] = Parts(n)[i]}

Size(n) == FoldFunction(LAMBDA k, s : s + HeaderSize + frags[k].length, 0, Parts(n))

Whole(n) == n \in acked /\ Cardinality(Offsets(n)) = Size(n)

Start(n) == CHOOSE p \in Offsets(n) : \A q \in Offsets(n) : p <= q

InOrder(s) == SetToSortSeq(s, LAMBDA m, n : m < n)

NoFaults == faults.errors = 0 /\ faults.damage = 0 /\ ~ reuse

(* Wherever the process or the machine stops, the reader returns the       *)
(* records that are whole, from the first one at or after initial_offset_  *)
(* (log_reader.h:41-42), in order, each as it was written: fragments,      *)
(* trailers and block boundaries leave no trace.                           *)
RoundTrip ==
    rd.finished /\ NoFaults =>
        output = LET found == InOrder({n \in 1..Records : Whole(n) /\ Start(n) >= rd.offset})
                 IN  [i \in DOMAIN found |-> Parts(found[i])]

(* A tail the writer left when it died is not taken for damage             *)
(* (log_reader.cc:145-149, 207-212, 229-232).                              *)
TornTailIsSilent == NoFaults /\ rd.offset = 0 => alarms = 0

(* Whatever is damaged, cut or misplaced: the reader returns only records  *)
(* that were added, in the order of their adding and each at most once,    *)
(* never one joined from pieces of two (log_reader.cc:153-158).            *)
NothingForged ==
    \A i \in DOMAIN output :
        /\ \E n \in 1..Records : output[i] = Parts(n)
        /\ i > 1 => Head(output[i - 1]) < Head(output[i])

Block(p) == p \div BlockSize

(* Damage stays in its block: a record that is whole is read unless one of *)
(* its bytes lies in a damaged block behind the damaged place              *)
(* (log_reader.cc:248-255).                                                *)
DamageIsLocal ==
    rd.finished /\ rd.offset = 0 /\ faults.errors = 0 /\ ~ reuse =>
        \A n \in 1..Records :
            /\ Whole(n)
            /\ \A p \in Offsets(n), q \in 0..(Len(file) - 1) :
                  ByteAt(q) = Damaged => Block(p) # Block(q) \/ p < q
            => \E i \in DOMAIN output : output[i] = Parts(n)
=============================================================================
