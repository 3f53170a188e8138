------------------------------ MODULE CoreLogs ------------------------------
(***************************************************************************)
(* The log history of the OpenWRT backend (core_logs.rs): lines wait in    *)
(* memory and are appended in batches, each a gzip member of its own, to   *)
(* the active segment, which becomes the previous one when it is full.     *)
(* Every operation runs under one mutex, so what interleaves with a flush  *)
(* is a failing file operation, a killed backend and a power loss.         *)
(***************************************************************************)
EXTENDS Naturals, Sequences

CONSTANTS
  Segment,      \* SEGMENT_BYTES
  Overhead,     \* what gzip may add to a batch, and COMPRESSED_BYTES to SEGMENT_BYTES
  MaxLine,      \* MAX_LINE_BYTES, with the line's end
  Prefix,       \* bytes of CORE_PREFIX
  MaxLegacy,    \* bound on the lines an old release left behind
  MaxRecorded,  \* bound on the lines recorded
  MaxFaults,    \* bound on failing file operations
  MaxStops      \* bound on kills and power losses

ASSUME SizesAssumption ==
  /\ {Segment, Overhead, MaxLine, Prefix} \subseteq Nat \ {0}
  /\ MaxLine <= Segment

ASSUME BoundsAssumption == {MaxLegacy, MaxRecorded, MaxFaults, MaxStops} \subseteq Nat

VARIABLES
  active,        \* logs.log.gz, a sequence of members, empty when there is no file
  previous,      \* logs.log.1.gz
  legacy,        \* logs.log of an old release
  activeBytes,   \* active_bytes
  pending,       \* pending
  pendingBytes,  \* pending_bytes
  pc,            \* where the operation under way is
  migrating,     \* it is migrate_legacy
  packed,        \* the compressed size of its member
  activeSize,    \* active_size, in members
  recorded,      \* the number of the last line recorded
  cleared,       \* the number of the last line a successful clear removed
  torn,          \* lines of failed appends that could not be cut off again
  faults,
  stops

disk == <<active, previous, legacy>>
memory == <<activeBytes, pending, pendingBytes>>
task == <<pc, migrating, packed, activeSize>>
ghosts == <<recorded, cleared, torn>>
bounds == <<faults, stops>>
vars == <<disk, memory, task, ghosts, bounds>>

-----------------------------------------------------------------------------
(* Lines, batches and segments.                                            *)

Lesser(m, n) == IF m < n THEN m ELSE n

\* Old lines have the numbers up to MaxLegacy.
Line == [no : 1..(MaxLegacy + MaxRecorded), bytes : 1..MaxLine]
Member == [lines : Seq(Line), packed : 1..(Segment + Overhead), whole : BOOLEAN]

Total(sizes) ==
  LET sum[n \in 0..Len(sizes)] == IF n = 0 THEN 0 ELSE sum[n - 1] + sizes[n]
  IN sum[Len(sizes)]

Bytes(lines) == Total([i \in DOMAIN lines |-> lines[i].bytes])
Packed(file) == Total([i \in DOMAIN file |-> file[i].packed])

Content(file) ==
  LET lines[n \in 0..Len(file)] == IF n = 0 THEN <<>> ELSE lines[n - 1] \o file[n].lines
  IN lines[Len(file)]

Numbers(lines) == {lines[i].no : i \in DOMAIN lines}

\* A batch may compress well or not at all.
PackedSizes(lines) == {1, Bytes(lines) + Overhead}

\* What is decoded of a segment: nothing after the first broken member, and no more than
\* the two limits allow.
Decoded(file) ==
  LET Fits(n) == /\ \A i \in 1..(n - 1) : file[i].whole
                 /\ Packed(SubSeq(file, 1, n)) <= Segment + Overhead
  IN Content(SubSeq(file, 1, CHOOSE n \in 0..Len(file) :
                               Fits(n) /\ (n < Len(file) => ~Fits(n + 1))))

Valid(file) ==
  /\ \A i \in DOMAIN file : file[i].whole
  /\ Packed(file) <= Segment + Overhead
  /\ Bytes(Content(file)) <= Segment

\* Of a broken segment the longest run of complete lines among the first bytes.
Cut(lines) ==
  SubSeq(lines, 1, CHOOSE n \in 0..Len(lines) :
                     /\ Bytes(SubSeq(lines, 1, n)) <= Segment
                     /\ n < Len(lines) => Bytes(SubSeq(lines, 1, n + 1)) > Segment)

ReadSegment(file) == IF Valid(file) THEN Content(file) ELSE Cut(Decoded(file))

Snapshot == ReadSegment(previous) \o ReadSegment(active) \o pending

\* record: the line is cut, and the oldest make room for it.
Recorded(buffer, line) ==
  LET short == [line EXCEPT !.bytes = Lesser(@, MaxLine)]
      all   == buffer.bytes + short.bytes
      Room(n) == all - Bytes(SubSeq(buffer.lines, 1, n)) <= Segment
      drop  == CHOOSE n \in 0..Len(buffer.lines) : Room(n) /\ (n > 0 => ~Room(n - 1))
  IN [lines |-> Append(SubSeq(buffer.lines, drop + 1, Len(buffer.lines)), short),
      bytes |-> all - Bytes(SubSeq(buffer.lines, 1, drop))]

\* The lines of the old log that begin after its last Segment bytes do; with a shorter log
\* all of them.
LegacyTail ==
  LET skip == IF Bytes(legacy) > Segment THEN Bytes(legacy) - Segment ELSE 0
      first == IF skip = 0 THEN 1
               ELSE CHOOSE i \in 2..(Len(legacy) + 1) :
                      /\ Bytes(SubSeq(legacy, 1, i - 1)) > skip
                      /\ Bytes(SubSeq(legacy, 1, i - 2)) <= skip
  IN SubSeq(legacy, first, Len(legacy))

-----------------------------------------------------------------------------
\* An old release may have left a log of any length, also with lines longer than a segment.
Init ==
  /\ active = <<>>
  /\ previous = <<>>
  /\ \E n \in 0..MaxLegacy : \E sizes \in [1..n -> {1, Segment + 1}] :
       legacy = [i \in 1..n |-> [no |-> i, bytes |-> sizes[i]]]
  /\ activeBytes = 0
  /\ pending = <<>>
  /\ pendingBytes = 0
  /\ pc = "new"
  /\ migrating = FALSE
  /\ packed = 0
  /\ activeSize = 0
  /\ recorded = MaxLegacy
  /\ cleared = 0
  /\ torn = {}
  /\ faults = 0
  /\ stops = 0

Fault ==
  /\ faults < MaxFaults
  /\ faults' = faults + 1
  /\ UNCHANGED stops

\* The mutated form trusts the length of a segment it could not read to its end.
NewTrusting ==
  /\ pc = "new"
  /\ activeBytes' = Bytes(ReadSegment(active))
  /\ pc' = "migrate"
  /\ UNCHANGED <<disk, pending, pendingBytes, migrating, packed, activeSize, ghosts, bounds>>

\* A segment that cannot be read to its end counts as full.
New ==
  /\ pc = "new"
  /\ activeBytes' = IF Valid(active) THEN Bytes(ReadSegment(active)) ELSE Segment
  /\ pc' = "migrate"
  /\ UNCHANGED <<disk, pending, pendingBytes, migrating, packed, activeSize, ghosts, bounds>>

Record ==
  /\ pc = "idle"
  /\ recorded < MaxLegacy + MaxRecorded
  /\ recorded' = recorded + 1
  /\ \E bytes \in 1..(MaxLine + 1) :
       LET buffer == Recorded([lines |-> pending, bytes |-> pendingBytes],
                              [no |-> recorded', bytes |-> bytes])
       IN /\ pending' = buffer.lines
          /\ pendingBytes' = buffer.bytes
  /\ UNCHANGED <<disk, activeBytes, task, cleared, torn, bounds>>

-----------------------------------------------------------------------------
(* flush: measure and rotate, then append.                                 *)

\* flush returns; its caller in migrate_legacy returns the error or goes on.
Return(outcome) ==
  /\ pc' = IF migrating /\ outcome = "ok" THEN "remove" ELSE "idle"
  /\ migrating' = (migrating /\ outcome = "ok")
  /\ packed' = 0
  /\ activeSize' = 0

Flushing == (pc = "idle" \/ pc = "flush") /\ pending # <<>>

\* What active_bytes counts once the file has been measured.
Measured == IF active = <<>> THEN 0 ELSE activeBytes

Full(size) ==
  \/ Packed(active) + size > Segment + Overhead
  \/ Measured + pendingBytes > Segment

FlushInPlace ==
  /\ Flushing
  /\ \E size \in PackedSizes(pending) :
       /\ ~Full(size)
       /\ packed' = size
  /\ activeBytes' = Measured
  /\ activeSize' = Len(active)
  /\ pc' = "append"
  /\ UNCHANGED <<disk, pending, pendingBytes, migrating, ghosts, bounds>>

Rotate ==
  /\ Flushing
  /\ \E size \in PackedSizes(pending) :
       /\ Full(size)
       /\ packed' = size
  /\ previous' = active
  /\ active' = <<>>
  /\ activeBytes' = 0
  /\ activeSize' = 0
  /\ pc' = "append"
  /\ UNCHANGED <<legacy, pending, pendingBytes, migrating, ghosts, bounds>>

\* The mutated form ignores that the segment could not be renamed.
RotateFailsUnseen ==
  /\ Flushing
  /\ \E size \in PackedSizes(pending) :
       /\ Full(size)
       /\ packed' = size
  /\ Fault
  /\ activeBytes' = 0
  /\ activeSize' = 0
  /\ pc' = "append"
  /\ UNCHANGED <<disk, pending, pendingBytes, migrating, ghosts>>

\* Compressing the batch or measuring the file fails.
MeasureFails ==
  /\ Flushing
  /\ Fault
  /\ Return("failed")
  /\ UNCHANGED <<disk, memory, ghosts>>

RotateFails ==
  /\ Flushing
  /\ \E size \in PackedSizes(pending) : Full(size)
  /\ Fault
  /\ activeBytes' = Measured
  /\ Return("failed")
  /\ UNCHANGED <<disk, pending, pendingBytes, ghosts>>

Batch == [lines |-> pending, packed |-> packed, whole |-> TRUE]

\* What a broken append may leave of a batch: some of its lines can still be decoded.
Pieces(lines) ==
  {[lines |-> SubSeq(lines, 1, n), packed |-> 1, whole |-> FALSE] : n \in 0..Len(lines)}

Appended ==
  /\ pc = "append"
  /\ active' = Append(active, Batch)
  /\ activeBytes' = activeBytes + pendingBytes
  /\ pending' = <<>>
  /\ pendingBytes' = 0
  /\ Return("ok")
  /\ UNCHANGED <<previous, legacy, ghosts, bounds>>

\* The file cannot be opened, or what was written of the batch is cut off again.
AppendFails ==
  /\ pc = "append"
  /\ Fault
  /\ active' = SubSeq(active, 1, activeSize)
  /\ Return("failed")
  /\ UNCHANGED <<previous, legacy, memory, ghosts>>

\* A piece of the batch stays, and the segment counts as full.
AppendTears ==
  /\ pc = "append"
  /\ Fault
  /\ \E piece \in Pieces(pending) :
       /\ active' = Append(active, piece)
       /\ torn' = torn \cup Numbers(piece.lines)
  /\ activeBytes' = Segment
  /\ Return("failed")
  /\ UNCHANGED <<previous, legacy, pending, pendingBytes, recorded, cleared>>

-----------------------------------------------------------------------------
(* migrate_legacy, when the backend starts.                                *)

NothingToMigrate ==
  /\ pc = "migrate"
  /\ legacy = <<>>
  /\ pc' = "idle"
  /\ UNCHANGED <<disk, memory, migrating, packed, activeSize, ghosts, bounds>>

MigrationFails ==
  /\ pc = "migrate"
  /\ legacy # <<>>
  /\ Fault
  /\ pc' = "idle"
  /\ UNCHANGED <<disk, memory, migrating, packed, activeSize, ghosts>>

\* record, for each line of the tail with CORE_PREFIX before it.
Refilled ==
  LET tail == LegacyTail
      buffer[n \in 0..Len(tail)] ==
        IF n = 0 THEN [lines |-> pending, bytes |-> pendingBytes]
        ELSE Recorded(buffer[n - 1], [tail[n] EXCEPT !.bytes = @ + Prefix])
  IN buffer[Len(tail)]

Migrate ==
  /\ pc = "migrate"
  /\ legacy # <<>>
  /\ pending' = Refilled.lines
  /\ pendingBytes' = Refilled.bytes
  /\ pc' = IF Refilled.lines = <<>> THEN "remove" ELSE "flush"
  /\ migrating' = TRUE
  /\ UNCHANGED <<disk, activeBytes, packed, activeSize, ghosts, bounds>>

RemoveLegacy ==
  /\ pc = "remove"
  /\ \/ legacy' = <<>> /\ UNCHANGED bounds
     \/ Fault /\ UNCHANGED legacy
  /\ pc' = "idle"
  /\ migrating' = FALSE
  /\ UNCHANGED <<active, previous, memory, packed, activeSize, ghosts>>

-----------------------------------------------------------------------------
(* clear, and the ends of a backend.                                       *)

Removed(file, failed, name) == IF name \in failed THEN file ELSE <<>>

\* The mutated form leaves the old log to the next start.
ClearNotLegacy ==
  /\ pc = "idle"
  /\ pending' = <<>>
  /\ pendingBytes' = 0
  /\ \E failed \in SUBSET {"previous", "active"} :
       /\ previous' = Removed(previous, failed, "previous")
       /\ active' = Removed(active, failed, "active")
       /\ activeBytes' = IF "active" \in failed THEN activeBytes ELSE 0
       /\ cleared' = IF failed = {} THEN recorded ELSE cleared
       /\ IF failed = {} THEN UNCHANGED bounds ELSE Fault
  /\ UNCHANGED <<legacy, task, recorded, torn>>

\* Each file is tried, also when another could not be removed.
Clear ==
  /\ pc = "idle"
  /\ pending' = <<>>
  /\ pendingBytes' = 0
  /\ \E failed \in SUBSET {"previous", "active", "legacy"} :
       /\ previous' = Removed(previous, failed, "previous")
       /\ active' = Removed(active, failed, "active")
       /\ legacy' = Removed(legacy, failed, "legacy")
       /\ activeBytes' = IF "active" \in failed THEN activeBytes ELSE 0
       /\ cleared' = IF failed = {} THEN recorded ELSE cleared
       /\ IF failed = {} THEN UNCHANGED bounds ELSE Fault
  /\ UNCHANGED <<task, recorded, torn>>

\* Memory is gone, and the next backend starts.
Restarted ==
  /\ stops < MaxStops
  /\ stops' = stops + 1
  /\ activeBytes' = 0
  /\ pending' = <<>>
  /\ pendingBytes' = 0
  /\ pc' = "new"
  /\ migrating' = FALSE
  /\ packed' = 0
  /\ activeSize' = 0
  /\ UNCHANGED <<legacy, ghosts, faults>>

\* A kill inside an append may leave all of the batch, a piece or nothing of it.
Killed ==
  /\ Restarted
  /\ \/ UNCHANGED active
     \/ /\ pc = "append"
        /\ \E piece \in Pieces(pending) \cup {Batch} : active' = Append(active, piece)
  /\ UNCHANGED previous

\* Nothing is synced: a power loss may also take the last batches of either segment.
Survives(file) ==
  {SubSeq(file, 1, n) : n \in 0..Len(file)} \cup
  UNION {{Append(SubSeq(file, 1, n - 1), piece) : piece \in Pieces(file[n].lines)} :
           n \in DOMAIN file}

PowerLost ==
  /\ Restarted
  /\ active' \in Survives(active)
  /\ previous' \in Survives(previous)

Next ==
  \/ New \/ Record \/ Clear
  \/ MeasureFails \/ FlushInPlace \/ Rotate \/ RotateFails
  \/ Appended \/ AppendFails \/ AppendTears
  \/ NothingToMigrate \/ MigrationFails \/ Migrate \/ RemoveLegacy
  \/ Killed \/ PowerLost

Spec == Init /\ [][Next]_vars

-----------------------------------------------------------------------------
TypeOK ==
  /\ active \in Seq(Member)
  /\ previous \in Seq(Member)
  /\ legacy \in Seq([no : 1..MaxLegacy, bytes : 1..(Segment + 1)])
  /\ activeBytes \in 0..Segment
  /\ pending \in Seq(Line)
  /\ pendingBytes \in 0..Segment
  /\ pc \in {"new", "idle", "migrate", "flush", "append", "remove"}
  /\ migrating \in BOOLEAN
  /\ packed \in 0..(Segment + Overhead)
  /\ activeSize \in Nat
  /\ recorded \in MaxLegacy..(MaxLegacy + MaxRecorded)
  /\ cleared \in {0} \cup MaxLegacy..(MaxLegacy + MaxRecorded)
  /\ torn \subseteq 1..(MaxLegacy + MaxRecorded)
  /\ faults \in 0..MaxFaults
  /\ stops \in 0..MaxStops

\* "Each batch is a complete gzip member, readable while the core runs": no batch is ever
\* put behind a broken one, nor beyond what read_segment decodes, whatever failed before;
\* and what is read neither reorders lines nor repeats one. The exceptions are lines of a
\* failed append that could not be cut off, and the migrated ones, which a kill before the
\* removal of the old log migrates again.
ReadInOrder ==
  LET seen == Snapshot
  IN /\ \A file \in {previous, active} : ReadSegment(file) = Content(file)
     /\ \A j \in DOMAIN seen :
          seen[j].no > MaxLegacy /\ seen[j].no \notin torn
            => \A i \in 1..(j - 1) : seen[i].no < seen[j].no

\* A line that a clear has removed is gone for good, also through the old log and the
\* next start of the backend.
ClearedForGood == \A no \in Numbers(Snapshot) : no > cleared

History(older, newer) == Numbers(ReadSegment(older)) \cup Numbers(ReadSegment(newer))

\* The lines of the active segment stay in the history: a flush, failing or killed at any
\* point, may only lose the generation before it.
GenerationKept ==
  [][active' # active
       => \/ Numbers(ReadSegment(active)) \subseteq History(previous', active')
          \/ Clear
          \/ PowerLost]_vars
=============================================================================
