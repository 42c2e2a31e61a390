----------------------------- MODULE EventQueue -----------------------------
(***************************************************************************)
(* The persistent telemetry queue of queue.h as the main loop drives it    *)
(* (covio_firmware.ino): segment files on flash, the write position kept   *)
(* in the totalizer's checkpoint, the read cursor kept in the queue's own  *)
(* AckRec, and power cuts between any two flash operations.                *)
(*                                                                         *)
(* Each handler is cut into one step per flash operation; pc names the     *)
(* operation that comes next.  Checkpoint and AckRec are atomic registers  *)
(* here (cpD, ackD: what a boot loads), which is what DualSlot is shown to *)
(* implement; the failure record has its two slots.  Offsets count rows    *)
(* instead of bytes.                                                       *)
(***************************************************************************)
EXTENDS Naturals, Sequences, FiniteSets, SequencesExt, FiniteSetsExt, Functions

CONSTANTS
    SegRows,    \* QUEUE_SEGMENT_ROWS: rows per segment file
    BatchMax,   \* PUSH_BATCH_MAX: rows per push
    MaxOrphan,  \* MAX_ORPHAN_CANDIDATES: files one boot can sweep
    MaxSeq,     \* bound: telemetry samples taken
    MaxBoot,    \* bound: boots (power cuts + 1)
    MaxFailed,  \* bound: appends that fail
    Damages     \* what may damage the queue's records, at most one per behaviour

ASSUME SizesArePositive ==
    /\ SegRows \in Nat \ {0} /\ BatchMax \in Nat \ {0} /\ MaxOrphan \in Nat \ {0}
    /\ MaxSeq \in Nat /\ MaxBoot \in Nat \ {0} /\ MaxFailed \in Nat

ASSUME DamagesKnown == Damages \subseteq {"checkpoint", "ack", "recover"}

VARIABLES
    files,      \* segment id -> sequence of cells: the seg_NNNNNN.bin files
    cp, cpD,    \* Checkpoint in RAM and on flash: [seq, qseg, qoff]
    ack, ackD,  \* AckRec in RAM and on flash: [acked, cseg, coff]
    unacked,    \* unackedCount_: the maintained backlog counter
    failed,     \* failed_write_count in RAM (and writes: they are counted together)
    failedD,    \* FailureState on flash: the count in slot 1 (FAIL_PATH_A, odd counts)
                \* and in slot 0 (FAIL_PATH_B, even ones); 0: no valid record there
    seq,        \* the main loop's telemetry sequence number
    boot,       \* boot_id of this power-up
    pc,         \* the flash operation that comes next
    w,          \* append()'s locals: [seg, off] = activeSeg, goodOffset
    del,        \* segment ids still to be removed by the running handler
    confirmed,  \* history: rows that were ever confirmed by a checkpoint
    abandoned,  \* history: rows reset_ack gave up
    damage,     \* history: the damage that happened, a set of at most one
    tally       \* history of the failure count: "unsaved": RAM is ahead of flash,
                \* "lost": a cut came while it was

vars == <<files, cp, cpD, ack, ackD, unacked, failed, failedD, seq, boot, pc, w, del,
          confirmed, abandoned, damage, tally>>

-----------------------------------------------------------------------------
(***************************************************************************)
(* Rows and files.  A row is named by the boot and the seq it was built    *)
(* under.  A torn append leaves either a full-size cell whose CRC fails or *)
(* some bytes that do not make up a row; the latter only at the end.       *)
(***************************************************************************)
Row(b, s) == [kind |-> "row", boot |-> b, seq |-> s]
Junk == [kind |-> "junk", boot |-> 0, seq |-> 0]
Part == [kind |-> "part", boot |-> 0, seq |-> 0]
IsRow(c) == c.kind = "row"

Rows == {Row(b, s) : b \in 1 .. MaxBoot, s \in 1 .. MaxSeq}

\* Cells a full-row read returns: everything but a partial tail.
Whole(f) == IF f # <<>> /\ Last(f) = Part THEN Len(f) - 1 ELSE Len(f)

\* How far a reader may go in segment s: the confirmed offset in the active
\* segment, the file size in a closed one.
Limit(c, s) == IF s = c.qseg THEN c.qoff ELSE Len(files[s])

\* Where a reader with cursor a starts in segment s (clamped to the limit).
From(a, c, s) == IF s = a.cseg THEN Min({a.coff, Limit(c, s)}) ELSE 0

\* The last cell the reader can read in full.
End(c, s) == Min({Limit(c, s), Whole(files[s])})

\* The segments a reader visits: from the cursor up to the active segment,
\* stopping at the first file that does not exist.
Walk(a, c) == {s \in a.cseg .. c.qseg : a.cseg .. s \subseteq DOMAIN files}

Unacked(a, x) == IsRow(x) /\ x.seq > a.acked

\* A place is a segment and a cell of it; places in the order they are read.
CellAt(p) == files[p[1]][p[2]]
Before(p, q) == p[1] < q[1] \/ (p[1] = q[1] /\ p[2] < q[2])

\* pendingImpl_() without its batch limit: where the un-acked rows are.
Readable(a, c) ==
    UNION {{s} \X {i \in From(a, c, s) + 1 .. End(c, s) : Unacked(a, files[s][i])} :
              s \in Walk(a, c)}

Visible(a, c) == {CellAt(p) : p \in Readable(a, c)}

\* The k-th of these places.
Nth(places, k) == CHOOSE p \in places : Cardinality({q \in places : Before(q, p)}) = k - 1

\* pending(batch, PUSH_BATCH_MAX)
Pending ==
    LET places == Readable(ack, cp)
    IN  [k \in 1 .. Min({BatchMax, Cardinality(places)}) |-> CellAt(Nth(places, k))]

\* How many of a .. b come before the first that is not in S.
Leading(a, b, S) == Cardinality({k \in a .. b : a .. k \subseteq S})

\* adoptValidRows_(): the end of the run of valid rows that starts at `from`.
AdoptValidRows(f, from) ==
    from + Leading(from + 1, Whole(f), {i \in DOMAIN f : IsRow(f[i])})

-----------------------------------------------------------------------------
(***************************************************************************)
(* The walk of ackThrough(): over rows that are acknowledged (or not rows  *)
(* at all), out of closed segments that are used up, never out of the      *)
(* active one.                                                             *)
(***************************************************************************)
\* Mutant of Consumable: off by one.
ConsumableOneMore(n, x) == ~IsRow(x) \/ x.seq <= n + 1

Consumable(n, x) == ~IsRow(x) \/ x.seq <= n

\* Where the walk stops inside segment s.
StopIn(n, s) ==
    LET from == From(ack, cp, s)
    IN  from + Leading(from + 1, End(cp, s),
                       {i \in DOMAIN files[s] : Consumable(n, files[s][i])})

UsedUp(n, s) == s < cp.qseg /\ StopIn(n, s) >= Limit(cp, s)

\* The segment the walk ends in.
StopSeg(n) ==
    ack.cseg + Leading(ack.cseg, cp.qseg, {s \in DOMAIN files : UsedUp(n, s)})

\* The offset it ends at there, and the rows it passed on the way.
StopOff(n, stop) ==
    IF stop \in DOMAIN files /\ stop <= cp.qseg THEN StopIn(n, stop)
    ELSE IF stop = ack.cseg THEN ack.coff ELSE 0

Consumed(n, stop) ==
    LET walked == {s \in ack.cseg .. stop : s <= cp.qseg /\ s \in DOMAIN files}
    IN  Cardinality(UNION {{s} \X (From(ack, cp, s) + 1 .. StopIn(n, s)) : s \in walked})

-----------------------------------------------------------------------------
(***************************************************************************)
(* The failure record of recordWriteFailure_(), the third one that is kept *)
(* in two slots.  Its writes may fail or tear, so its slots are state here *)
(* and not a register.                                                     *)
(***************************************************************************)
FailSlots == {0, 1}

\* Mutant of FailSlot: always the same one, which a torn write leaves without a record.
OneFailSlot == 1

\* persistFail_(): the slot that the next failure is written to.
FailSlot == (failed + 1) % 2

\* begin(): the valid slot with the higher count, a zeroed record if there is none.
LoadFail(slots) == IF slots[1] >= slots[0] THEN slots[1] ELSE slots[0]

-----------------------------------------------------------------------------
(***************************************************************************)
(* Power-up state of a new device, and the steps of the main loop.  loop() *)
(* takes a sample whenever one is due before it considers the network, and *)
(* the push period is longer than the sample period, so every push is      *)
(* preceded by a sample: top -> sample -> net -> top.                      *)
(***************************************************************************)
Init ==
    /\ files = <<>>                              \* no segment file
    /\ cp = [seq |-> 0, qseg |-> 0, qoff |-> 0] /\ cpD = cp
    /\ ack = [acked |-> 0, cseg |-> 0, coff |-> 0] /\ ackD = ack
    /\ unacked = 0 /\ failed = 0 /\ failedD = [i \in FailSlots |-> 0]
    /\ seq = 0 /\ boot = 1
    /\ pc = "top"
    /\ w = [seg |-> 0, off |-> 0] /\ del = {}
    /\ confirmed = {} /\ abandoned = {} /\ damage = {} /\ tally = "sure"

flash == <<files, cpD, ackD, failedD>>
ghosts == <<confirmed, abandoned, damage, tally>>

\* Mutant of TakeSample: the checkpoint of the seq comes before the row.
TakeSampleCommitFirst ==
    /\ pc = "top" /\ seq < MaxSeq
    /\ seq' = seq + 1
    /\ cp' = [cp EXCEPT !.seq = seq + 1] /\ cpD' = cp'
    /\ pc' = "open"
    /\ UNCHANGED <<files, ack, ackD, unacked, failed, failedD, boot, w, del, ghosts>>

\* loop(): a telemetry record is due; the row is built under the next seq.
TakeSample ==
    /\ pc = "top" /\ seq < MaxSeq
    /\ seq' = seq + 1
    /\ pc' = "open"
    /\ UNCHANGED <<flash, cp, ack, unacked, failed, boot, w, del, ghosts>>

\* No record is due any more (the bound on samples is reached).
SamplesDone ==
    /\ pc = "top" /\ seq = MaxSeq
    /\ pc' = "net"
    /\ UNCHANGED <<flash, cp, ack, unacked, failed, seq, boot, w, del, ghosts>>

\* append(): the segment the row goes to, after rollover.
TargetSeg == IF cp.qoff >= SegRows THEN cp.qseg + 1 ELSE cp.qseg
TargetOff == IF cp.qoff >= SegRows THEN 0 ELSE cp.qoff

\* Mutant of GoodOffset: adopts even a one-row tail.
GoodOffsetAnyTail(f, off) ==
    CASE Len(f) > off -> AdoptValidRows(f, off)
      [] Len(f) < off -> Len(f)
      [] OTHER        -> off

\* The offset append() trusts: the checkpoint's, moved forward over valid rows
\* when the file is more than one row longer, back when the file is shorter.
GoodOffset(f, off) ==
    CASE Len(f) > off + 1 -> AdoptValidRows(f, off)
      [] Len(f) < off     -> Len(f)
      [] OTHER            -> off

Content(s) == IF s \in DOMAIN files THEN files[s] ELSE <<>>
WithFile(s, f) == [x \in DOMAIN files \cup {s} |-> IF x = s THEN f ELSE files[x]]
WithoutFile(s) == Restrict(files, DOMAIN files \ {s})

\* append(): opening for append creates the file; then the tail is examined.
SegmentOpen ==
    /\ pc = "open"
    /\ LET f == Content(TargetSeg)
           good == GoodOffset(f, TargetOff)
       IN  /\ files' = WithFile(TargetSeg, f)
           /\ w' = [seg |-> TargetSeg, off |-> good]
           /\ pc' = IF Len(f) > good THEN "truncate" ELSE "write"
    /\ UNCHANGED <<cp, cpD, ack, ackD, unacked, failed, failedD, seq, boot, del, ghosts>>

\* The unconfirmed tail is cut off before anything is written.
TruncateTail ==
    /\ pc = "truncate"
    /\ files' = [files EXCEPT ![w.seg] = SubSeq(@, 1, w.off)]
    /\ pc' = "write"
    /\ UNCHANGED <<cp, cpD, ack, ackD, unacked, failed, failedD, seq, boot, w, del, ghosts>>

\* The whole row reaches the file.
WriteRow ==
    /\ pc = "write"
    /\ files' = [files EXCEPT ![w.seg] = Append(@, Row(boot, seq))]
    /\ pc' = "checkpoint"
    /\ UNCHANGED <<cp, cpD, ack, ackD, unacked, failed, failedD, seq, boot, w, del, ghosts>>

\* setQueueOffset(): the row is confirmed, with the total and seq of before.
ConfirmRow ==
    /\ pc = "checkpoint"
    /\ cp' = [cp EXCEPT !.qseg = w.seg, !.qoff = w.off + 1]
    /\ cpD' = cp'
    /\ unacked' = unacked + 1
    /\ confirmed' = confirmed \cup {Row(boot, seq)}
    /\ pc' = "service"
    /\ UNCHANGED <<files, ack, ackD, failed, failedD, seq, boot, w, del, abandoned, damage,
                   tally>>

\* Totalizer::service(seq), which follows every append() whatever its outcome.
ServiceCheckpoint ==
    /\ pc = "service"
    /\ cp' = [cp EXCEPT !.seq = seq]
    /\ cpD' = cp'
    /\ pc' = "net"
    /\ UNCHANGED <<files, ack, ackD, unacked, failed, failedD, seq, boot, w, del, ghosts>>

\* No push is due, the device is offline or backing off, or the push fails.
NoAck ==
    /\ pc = "net"
    /\ pc' = "top"
    /\ UNCHANGED <<flash, cp, ack, unacked, failed, seq, boot, w, del, ghosts>>

\* Mutant of BoundAckSeq: the server's value as it comes.
AckSeqUnbounded(n, batch) == n

\* Mutant of BoundAckSeq: any answer acknowledges the batch.
AckWholeBatch(n, batch) == Last(batch).seq

\* boundAckSeq(): never beyond the last row of the batch that was sent.
BoundAckSeq(n, batch) == Min({n, Last(batch).seq})

\* ackThrough(): the cursor moves in RAM; what it leaves behind will go.
AckThrough(n) ==
    /\ IF n <= ack.acked
       THEN pc' = "top" /\ UNCHANGED <<ack, unacked, del>>
       ELSE LET stop == StopSeg(n)
                used == Consumed(n, stop)
            IN  /\ ack' = [acked |-> n, cseg |-> stop, coff |-> StopOff(n, stop)]
                /\ unacked' = IF used <= unacked THEN unacked - used ELSE 0
                /\ del' = {s \in ack.cseg .. stop : s < stop}
                /\ pc' = "persistAck"
    /\ UNCHANGED <<flash, cp, failed, seq, boot, w, ghosts>>

\* pushOnce(): a batch was sent and the server answered ack_seq = n.
PushAcked(n) ==
    /\ pc = "net" /\ Pending # <<>>
    /\ AckThrough(BoundAckSeq(n, Pending))

\* persistAck_(): only then are the used-up segments removed.
PersistAck ==
    /\ pc = "persistAck"
    /\ ackD' = ack
    /\ pc' = IF del = {} THEN "top" ELSE "remove"
    /\ UNCHANGED <<files, cp, cpD, ack, unacked, failed, failedD, seq, boot, w, del, ghosts>>

RemoveSegment ==
    /\ pc = "remove"
    /\ files' = WithoutFile(Min(del))
    /\ del' = del \ {Min(del)}
    /\ pc' = IF del' = {} THEN "top" ELSE "remove"
    /\ UNCHANGED <<cp, cpD, ack, ackD, unacked, failed, failedD, seq, boot, w, ghosts>>

-----------------------------------------------------------------------------
(***************************************************************************)
(* Power cuts and boots.  RAM is lost; begin() reloads the three records.  *)
(***************************************************************************)
LoseRam ==
    /\ pc # "off" /\ boot < MaxBoot
    /\ pc' = "off"
    /\ cp' = cpD /\ ack' = ackD /\ unacked' = 0 /\ seq' = 0
    /\ w' = [seg |-> 0, off |-> 0] /\ del' = {}
    /\ failed' = LoadFail(failedD')
    /\ tally' = IF tally = "unsaved" THEN "lost" ELSE tally
    /\ UNCHANGED <<cpD, ackD, boot, confirmed, abandoned, damage>>

PowerCut == UNCHANGED <<files, failedD>> /\ LoseRam

\* What a write that stops midway leaves.  In a file that damage has made
\* shorter than the checkpoint says, append() would resume at the end of a
\* partial row: offsets that are no whole number of rows are left out.
Debris == IF w.seg = cp.qseg /\ w.off < cp.qoff THEN {Junk} ELSE {Junk, Part}

\* The cut hits appendWrite(): some bytes of the row are in the file.
TornAppend ==
    /\ pc = "write"
    /\ \E c \in Debris : files' = [files EXCEPT ![w.seg] = Append(@, c)]
    /\ UNCHANGED failedD
    /\ LoseRam

\* Mutant of Candidates: no below-cursor sweep.
CandidatesAboveOnly == {s \in DOMAIN files : s > cp.qseg}

\* cleanupOrphanSegments_(), first pass: what to remove.
Candidates == {s \in DOMAIN files : s > cp.qseg \/ s < ack.cseg}

Regressed == DOMAIN files # {} /\ Max(DOMAIN files) > cp.qseg + 1

\* Mutant of BootAdopt: adopts the segment but not its rows.
BootAdoptEmpty ==
    /\ pc = "off" /\ Regressed
    /\ cp' = [cp EXCEPT !.qseg = Max(DOMAIN files), !.qoff = 0]
    /\ cpD' = cp'
    /\ boot' = boot + 1
    /\ pc' = "sweep"
    /\ UNCHANGED <<files, ack, ackD, unacked, failed, failedD, seq, w, del, ghosts>>

\* begin() with a checkpoint that went backwards: the highest segment becomes
\* the active one, up to its last valid row, and nothing is removed.
BootAdopt ==
    /\ pc = "off" /\ Regressed
    /\ LET top == Max(DOMAIN files)
       IN  cp' = [cp EXCEPT !.qseg = top, !.qoff = AdoptValidRows(files[top], 0)]
    /\ cpD' = cp'
    /\ boot' = boot + 1
    /\ pc' = "sweep"
    /\ UNCHANGED <<files, ack, ackD, unacked, failed, failedD, seq, w, del, ghosts>>

\* begin() otherwise: as many candidates as the list holds will be removed.
BootSweep ==
    /\ pc = "off" /\ ~Regressed
    /\ del' \in kSubset(Min({MaxOrphan, Cardinality(Candidates)}), Candidates)
    /\ boot' = boot + 1
    /\ pc' = "sweep"
    /\ UNCHANGED <<flash, cp, ack, unacked, failed, seq, w, ghosts>>

\* Second pass: one removal, in directory order.
SweepSegment(s) ==
    /\ pc = "sweep"
    /\ s \in del
    /\ files' = WithoutFile(s)
    /\ del' = del \ {s}
    /\ UNCHANGED <<cp, cpD, ack, ackD, unacked, failed, failedD, seq, boot, pc, w, ghosts>>

\* Mutant of ResumeSeqFloor: the lower of the two.
ResumeSeqCeiling(checkpointSeq, ackedSeq) ==
    IF checkpointSeq <= ackedSeq THEN checkpointSeq ELSE ackedSeq

\* resumeSeqFloor(): the higher of the checkpoint's seq and the ack watermark.
ResumeSeqFloor(checkpointSeq, ackedSeq) ==
    IF checkpointSeq >= ackedSeq THEN checkpointSeq ELSE ackedSeq

\* computeUnackedCount_() and the resumed sequence number; loop() starts.
BootDone ==
    /\ pc = "sweep" /\ del = {}
    /\ unacked' = Cardinality(Readable(ack, cp))
    /\ seq' = ResumeSeqFloor(cp.seq, ack.acked)
    /\ pc' = "top"
    /\ UNCHANGED <<flash, cp, ack, failed, boot, w, del, ghosts>>

-----------------------------------------------------------------------------
(***************************************************************************)
(* Flash operations of append() that fail.  The row is gone; the failure   *)
(* is counted, and the count written, before service() commits the seq.    *)
(***************************************************************************)
\* A behaviour has failing appends or one damage, not both (a bound).
MayFail == failed < MaxFailed /\ damage = {}

\* An append has failed: the count says so, or a cut has made it forget.
AppendFailed == failed > 0 \/ tally = "lost"

SegmentOpenFails ==
    /\ pc = "open" /\ MayFail
    /\ pc' = "recordFailure"
    /\ UNCHANGED <<flash, cp, ack, unacked, failed, seq, boot, w, del, ghosts>>

TruncateFails ==
    /\ pc = "truncate" /\ MayFail
    /\ pc' = "recordFailure"
    /\ UNCHANGED <<flash, cp, ack, unacked, failed, seq, boot, w, del, ghosts>>

\* appendWrite() fails or is short: nothing or some bytes of the row remain.
WriteShort ==
    /\ pc = "write" /\ MayFail
    /\ \/ UNCHANGED files
       \/ Part \in Debris /\ files' = [files EXCEPT ![w.seg] = Append(@, Part)]
    /\ pc' = "recordFailure"
    /\ UNCHANGED <<cp, cpD, ack, ackD, unacked, failed, failedD, seq, boot, w, del, ghosts>>

\* recordWriteFailure_() and persistFail_(): the whole record reaches its slot,
\* with the failures that earlier writes of it did not save.
RecordWriteFailure ==
    /\ pc = "recordFailure"
    /\ failed' = failed + 1
    /\ failedD' = [failedD EXCEPT ![FailSlot] = failed + 1]
    /\ tally' = IF tally = "unsaved" THEN "sure" ELSE tally
    /\ pc' = "service"
    /\ UNCHANGED <<files, cp, cpD, ack, ackD, unacked, seq, boot, w, del, confirmed, abandoned,
                   damage>>

\* persistFail_()'s writeWhole() fails: a log line, and service() commits the seq
\* all the same.  A file that does not open keeps its old record; a short write
\* has already truncated it.
PersistFailFails ==
    /\ pc = "recordFailure"
    /\ failed' = failed + 1
    /\ \/ UNCHANGED failedD
       \/ failedD' = [failedD EXCEPT ![FailSlot] = 0]
    /\ tally' = IF tally = "sure" THEN "unsaved" ELSE tally
    /\ pc' = "service"
    /\ UNCHANGED <<files, cp, cpD, ack, ackD, unacked, seq, boot, w, del, confirmed, abandoned,
                   damage>>

\* The cut hits that write: the slot it had truncated holds no record.
TornFailureRecord ==
    /\ pc = "recordFailure"
    /\ failedD' = [failedD EXCEPT ![FailSlot] = 0]
    /\ LoseRam
    /\ UNCHANGED files

\* The operator's reset_ack: the cursor jumps to the write position.
ResetAckToCurrentPosition ==
    /\ pc = "top"
    /\ ack' = [acked |-> cp.seq, cseg |-> cp.qseg, coff |-> cp.qoff]
    /\ unacked' = 0
    /\ abandoned' = abandoned \cup Visible(ack, cp)
    /\ pc' = "persistAck"
    /\ UNCHANGED <<flash, cp, failed, seq, boot, w, del, confirmed, damage, tally>>

-----------------------------------------------------------------------------
(***************************************************************************)
(* Damage: what the code meets with recovery code or does not look at.     *)
(* It comes to a device on which no append has failed (a bound).           *)
(***************************************************************************)
Damaged(d) == d \in Damages /\ damage = {} /\ ~AppendFailed /\ damage' = {d}

\* Totalizer::begin() finds no valid slot and starts from a zeroed record.
CheckpointLost ==
    /\ pc = "off"
    /\ Damaged("checkpoint")
    /\ cpD' = [seq |-> 0, qseg |-> 0, qoff |-> 0] /\ cp' = cpD'
    /\ UNCHANGED <<files, ack, ackD, unacked, failed, failedD, seq, boot, pc, w, del,
                   confirmed, abandoned, tally>>

\* persistAck_() does not look at writeWhole()'s result.
PersistAckFails ==
    /\ pc = "persistAck"
    /\ Damaged("ack")
    /\ pc' = IF del = {} THEN "top" ELSE "remove"
    /\ UNCHANGED <<flash, cp, ack, unacked, failed, seq, boot, w, del,
                   confirmed, abandoned, tally>>

\* The operator's recover_queue: segment 0 is removed, then both positions are
\* set to its start; the other segments and the backlog counter stay.
RecoverRemove ==
    /\ pc = "top"
    /\ Damaged("recover")
    /\ files' = WithoutFile(0)
    /\ pc' = "recover"
    /\ UNCHANGED <<cp, cpD, ack, ackD, unacked, failed, failedD, seq, boot, w, del,
                   confirmed, abandoned, tally>>

RecoverPositions ==
    /\ pc = "recover"
    /\ cp' = [cp EXCEPT !.qseg = 0, !.qoff = 0] /\ cpD' = cp'
    /\ ack' = [ack EXCEPT !.cseg = 0, !.coff = 0]
    /\ pc' = "persistAck"
    /\ UNCHANGED <<files, ackD, unacked, failed, failedD, seq, boot, w, del, ghosts>>

-----------------------------------------------------------------------------
AppendStep == TakeSample \/ SegmentOpen \/ TruncateTail \/ WriteRow \/ ConfirmRow
AckStep == PersistAck \/ RemoveSegment
BootStep ==
    \/ BootAdopt \/ BootSweep \/ BootDone
    \/ \E s \in del : SweepSegment(s)
AppendFault ==
    \/ SegmentOpenFails \/ TruncateFails \/ WriteShort
    \/ RecordWriteFailure \/ PersistFailFails \/ TornFailureRecord

\* The device by itself: samples, checkpoints, the ack path, cuts and boots.
DeviceNext ==
    \/ AppendStep \/ SamplesDone \/ ServiceCheckpoint \/ NoAck
    \/ AckStep
    \/ PowerCut \/ TornAppend \/ BootStep

\* The queue with a server that may answer any ack_seq, failing appends,
\* damaged records and an operator.
Next ==
    \/ DeviceNext
    \/ \E n \in 0 .. MaxSeq + 1 : PushAcked(n)
    \/ AppendFault
    \/ CheckpointLost \/ PersistAckFails \/ RecoverRemove \/ RecoverPositions
    \/ ResetAckToCurrentPosition

Spec == Init /\ [][Next]_vars

-----------------------------------------------------------------------------
(***************************************************************************)
(* Properties                                                              *)
(***************************************************************************)
Offsets == 0 .. MaxSeq * MaxBoot
CellType == Rows \cup {Junk, Part}

\* Every variable has its type; a partial row is only ever the last cell.
TypeOK ==
    /\ DOMAIN files \subseteq 0 .. MaxSeq
    /\ \A s \in DOMAIN files :
          /\ Range(files[s]) \subseteq CellType
          /\ \A i \in 1 .. Len(files[s]) - 1 : files[s][i] # Part
    /\ {cp, cpD} \subseteq [seq : 0 .. MaxSeq, qseg : 0 .. MaxSeq, qoff : Offsets]
    /\ {ack, ackD} \subseteq [acked : 0 .. MaxSeq, cseg : 0 .. MaxSeq, coff : Offsets]
    /\ unacked \in Offsets
    /\ failed \in 0 .. MaxFailed /\ failedD \in [FailSlots -> 0 .. MaxFailed]
    /\ seq \in 0 .. MaxSeq /\ boot \in 1 .. MaxBoot
    /\ pc \in {"top", "open", "truncate", "write", "checkpoint", "service", "net",
               "persistAck", "remove", "recordFailure", "recover", "off", "sweep"}
    /\ w \in [seg : 0 .. MaxSeq, off : Offsets]
    /\ del \subseteq 0 .. MaxSeq
    /\ confirmed \subseteq Rows /\ abandoned \subseteq Rows
    /\ damage \subseteq Damages /\ Cardinality(damage) <= 1
    /\ tally \in {"sure", "unsaved", "lost"}

\* Rows that are owed to the server: confirmed by a checkpoint, above the ack
\* watermark on flash, and not given up by an operator.
Owed == {r \in confirmed \ abandoned : r.seq > ackD.acked}

\* "Never delete a record until the server ACKs it" (queue.h:9) and "A segment
\* is NEVER deleted before its corresponding cursor advance is durable"
\* (queue.h:601-602): at every instant, a power cut included, whatever is owed
\* is what the next boot would send.
OwedIsReadable == Owed \subseteq Visible(ackD, cpD)

\* The same while both records and the segments are intact.
NoLoss == damage = {} => OwedIsReadable

\* "FIFO order preserved by seq" (queue.h:12): what will be sent is in the order
\* in which it was written and no row is in it twice; boundAckSeq() relies on
\* the last row of a batch having the highest seq (sync.h:181-184).
Fifo ==
    damage = {} => \A p, q \in Readable(ackD, cpD) : Before(p, q) =>
        /\ CellAt(p).seq <= CellAt(q).seq /\ CellAt(p).boot <= CellAt(q).boot
        /\ CellAt(p) # CellAt(q)

\* The maintained counter behind pendingCount() and QUALITY_BACKLOG_HIGH equals
\* a full scan whenever the loop is between handlers (queue.h:654-659).
BacklogExact ==
    (damage = {} /\ pc \in {"top", "net"}) => unacked = Cardinality(Readable(ack, cp))

\* The read cursor on flash never passes the write position on flash, although
\* two separately persisted records hold them.
CursorBehindWriter ==
    damage = {} =>
        \/ ackD.cseg < cpD.qseg
        \/ ackD.cseg = cpD.qseg /\ ackD.coff <= cpD.qoff

\* A row is never written under a seq that the watermark already covers, where
\* pending() would filter it out and it would never be sent: what
\* resumeSeqFloor() is for (ack_validation.h:39-47).
NewRowsAboveAck ==
    pc \in {"open", "truncate", "write", "checkpoint"} => seq > ack.acked

\* The same while the checkpoint is intact.
NewRowsDeliverable == damage # {"checkpoint"} => NewRowsAboveAck

\* A seq that was committed without a row behind it is a lost sample, and the
\* failure counter accounts for each one (queue.h:68-74), over power cuts between
\* the failure and the commit and cuts that tear the record.  Only one thing may
\* make it forget: a cut after a write of the record has failed (queue.h:757-766)
\* and before a later failure has written the whole count.
LostSamplesCounted ==
    LET lost == {s \in 1 .. cpD.seq : \A r \in confirmed : r.seq # s}
    IN  damage # {"checkpoint"} /\ tally # "lost" => Cardinality(lost) <= failed

\* A boot leaves only live segments on flash: what a cut stranded between
\* persistAck_() and its removals, and an interrupted rollover, are swept.
BootReclaims ==
    [][(BootDone /\ damage = {}) => DOMAIN files \subseteq ack.cseg .. cp.qseg]_vars

\* A boot that recognises a lost checkpoint (queue.h:944-951) makes every owed
\* row that is still on flash readable again.
AdoptionExposes ==
    [][(BootAdopt /\ damage = {"checkpoint"}) =>
          \A r \in Owed : (\E s \in DOMAIN files : r \in Range(files[s]))
                             => r \in Visible(ackD, cpD)']_vars
==============================================================================
