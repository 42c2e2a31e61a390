------------------------------ MODULE Pipeline ------------------------------
(***************************************************************************)
(* Delivery from the device's queue to the server's tables: EventQueue     *)
(* pushing (sync.h, pushOnce()) to Receiver over HTTP.                     *)
(*                                                                         *)
(* A push blocks the main loop until it has an answer or gives up.  The    *)
(* connection may fail at any point: before the request arrives, or after  *)
(* the server has stored it.  A request the device gave up, by a timeout   *)
(* or a power cut, may still reach the server later, in between others.    *)
(***************************************************************************)
EXTENDS EventQueue

CONSTANTS
    MaxLate,    \* bound: given-up requests that may still arrive, at one time
    BadBoots    \* boots whose firmware builds rows the server does not accept

ASSUME LateBound == MaxLate \in Nat /\ BadBoots \subseteq Nat

VARIABLES
    post,         \* the push in progress: [phase, batch]
    late,         \* batches given up by the device and still under way
    records, quarantined, answer    \* the server: see Receiver

net == <<post, late>>
server == <<records, quarantined, answer>>
pvars == <<vars, net, server>>

Refused == {r \in Rows : r.boot \in BadBoots}

R == INSTANCE Receiver WITH
        Rejected <- Refused, Batches <- Seq(Rows)

Idle == [phase |-> "idle", batch |-> <<>>]

PInit ==
    /\ Init
    /\ post = Idle /\ late = {}
    /\ R!Init

-----------------------------------------------------------------------------
(***************************************************************************)
(* The push, the server, the network.                                      *)
(***************************************************************************)
\* pushOnce(): the pending rows go out; pc "post" is the blocking POST().
PushSend ==
    /\ pc = "net"
    /\ LET batch == Pending
       IN  batch # <<>> /\ post' = [phase |-> "sent", batch |-> batch]
    /\ pc' = "post"
    /\ UNCHANGED <<flash, cp, ack, unacked, failed, seq, boot, w, del, ghosts, late, server>>

ServerStore ==
    /\ post.phase = "sent"
    /\ R!StoreBatch(post.batch)
    /\ post' = [post EXCEPT !.phase = "stored"]
    /\ UNCHANGED <<vars, late>>

ServerAnswer ==
    /\ post.phase = "stored"
    /\ R!AnswerRequest
    /\ post' = [post EXCEPT !.phase = "answered"]
    /\ UNCHANGED <<vars, late>>

\* A 200 with an ack_seq: the queue is pruned through the bounded value.
PushResult ==
    /\ pc = "post" /\ post.phase = "answered"
    /\ AckThrough(BoundAckSeq(answer, post.batch))
    /\ post' = Idle
    /\ UNCHANGED <<late, server>>

\* The device stops waiting; an unhandled request may still be under way.
GiveUp ==
    /\ post' = Idle
    /\ \/ late' = late
       \/ /\ post.phase = "sent" /\ Cardinality(late) < MaxLate
          /\ late' = late \cup {post.batch}
    /\ UNCHANGED server

\* No 200, or a 200 without ack_seq: the queue is kept.
PushFails ==
    /\ pc = "post"
    /\ pc' = "top"
    /\ GiveUp
    /\ UNCHANGED <<flash, cp, ack, unacked, failed, seq, boot, w, del, ghosts>>

\* A given-up request arrives after all; nobody reads the answer.
LateStore(batch) ==
    /\ batch \in late
    /\ R!StoreBatch(batch)
    /\ late' = late \ {batch}
    /\ UNCHANGED <<vars, post>>

LateLost(batch) ==
    /\ batch \in late
    /\ late' = late \ {batch}
    /\ UNCHANGED <<vars, post, server>>

Local(A) == A /\ UNCHANGED <<net, server>>

\* The main loop's own steps, in the order of loop().
DeviceStep ==
    \/ TakeSample \/ SamplesDone \/ SegmentOpen \/ TruncateTail \/ WriteRow
    \/ ConfirmRow \/ ServiceCheckpoint \/ NoAck \/ PersistAck \/ RemoveSegment
    \/ BootSweep \/ BootDone \/ (\E s \in del : SweepSegment(s))
    \/ RecordWriteFailure

AppendFails == SegmentOpenFails \/ TruncateFails \/ WriteShort \/ PersistFailFails

DeviceCut == (PowerCut \/ TornAppend \/ TornFailureRecord) /\ GiveUp

PNext ==
    \/ Local(DeviceStep) \/ Local(AppendFails)
    \/ DeviceCut
    \/ PushSend \/ PushResult \/ PushFails
    \/ ServerStore \/ ServerAnswer
    \/ \E batch \in late : LateStore(batch) \/ LateLost(batch)

(***************************************************************************)
(* Fairness.  loop() keeps running; the push timer fires for ever, so a    *)
(* push is not put off for ever (its backoff is at most two minutes); and  *)
(* an outage ends: of infinitely many attempts one gets through each leg.  *)
(***************************************************************************)
Fairness ==
    /\ WF_pvars(Local(DeviceStep))
    /\ SF_pvars(PushSend)
    /\ SF_pvars(ServerStore) /\ SF_pvars(ServerAnswer) /\ SF_pvars(PushResult)

PSpec == PInit /\ [][PNext]_pvars /\ Fairness

-----------------------------------------------------------------------------
(***************************************************************************)
(* Properties                                                              *)
(***************************************************************************)
\* The rows that are on their way or stored are rows the queue confirmed; the
\* push state matches the loop's.
PTypeOK ==
    /\ post.phase \in {"idle", "sent", "stored", "answered"}
    /\ (pc = "post") = (post.phase # "idle")
    /\ \A b \in late \cup {post.batch} : Range(b) \subseteq confirmed
    /\ Cardinality(late) <= MaxLate

\* What the device has pruned, or will prune after the next boot, the server
\* has: the two watermarks are ordered at every instant, lost answers, retries
\* and cuts included (sync.h, "prune on cumulative ack_seq").
PrunedIsResolved == 1 .. Max({ack.acked, ackD.acked}) \subseteq R!Resolved

\* End-to-end "zero loss" (ARCHITECTURE.md, failure-mode matrix): every row that
\* was ever confirmed is still readable after a power cut, or its seq is resolved
\* at the server.
EndToEnd ==
    \A r \in confirmed : r \in Visible(ackD, cpD) \/ r.seq \in R!Resolved

\* A seq that a power cut made the device build twice is stored as it was built
\* first: the later row is the one that is "absorbed by the server"
\* (covio_firmware.ino, ORDER MATTERS), whatever late requests do.
FirstBuiltWins ==
    \A s \in DOMAIN records :
        \A r \in confirmed \ Refused : r.seq = s => records[s].boot <= r.boot

\* "no gap, no freeze" (ARCHITECTURE.md): unless an append failed, no committed
\* seq is without a row, so the cumulative ack can reach it.
NoBurntSeq == ~AppendFailed => \A s \in 1 .. cpD.seq : \E r \in confirmed : r.seq = s

\* A row that was confirmed is eventually acknowledged to the device.
Delivered(s) == (\E r \in confirmed : r.seq = s) ~> (ack.acked >= s)

\* The backlog drains after every outage and every power cut, as long as no
\* append has failed.
BacklogDrains ==
    \A s \in 1 .. MaxSeq :
        (\E r \in confirmed : r.seq = s) ~> (ack.acked >= s \/ AppendFailed)

\* "that 1 s sample lost, stream continues" (ARCHITECTURE.md:204): rows after a
\* lost sample are still acknowledged and pruned.
StreamContinues == \A s \in 1 .. MaxSeq : Delivered(s)
=============================================================================
