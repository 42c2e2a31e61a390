------------------------------- MODULE Receiver -------------------------------
(***************************************************************************)
(* The server's push endpoint (server.py, push()) for one device: what it  *)
(* stores and what it acknowledges.                                        *)
(*                                                                         *)
(* A request is handled in two atomic steps, because that is where other   *)
(* requests of the same device can come between: the transaction that      *)
(* stores the batch (commit), and the query that computes ack_seq from     *)
(* whatever is stored by then.  A delayed request may be handled after     *)
(* later ones, and any request may be handled again: a batch is any        *)
(* sequence of rows.  The registry row written in the same transaction is  *)
(* the Server module's.                                                    *)
(***************************************************************************)
EXTENDS Naturals, Sequences, FiniteSets

CONSTANTS
    Rows,       \* telemetry rows, records with at least a field seq
    Rejected,   \* the rows that fail the acceptance rule (ADR-001)
    Batches     \* the record lists a request may carry

ASSUME RowsHaveSeq == \A r \in Rows : r.seq \in Nat \ {0}
ASSUME BatchesAreRows == Batches \subseteq Seq(Rows) /\ Rejected \subseteq Rows

VARIABLES
    records,      \* seq -> row: the table records, PRIMARY KEY (device_id, seq)
    quarantined,  \* the seqs in quarantined_records
    answer        \* the ack_seq most recently computed

vars == <<records, quarantined, answer>>

Accepted(batch) == {i \in DOMAIN batch : batch[i] \notin Rejected}
SeqsAt(batch, I) == {batch[i].seq : i \in I}

\* The first accepted row of the batch with this seq.
FirstWith(batch, s) ==
    batch[CHOOSE i \in Accepted(batch) :
              /\ batch[i].seq = s
              /\ \A j \in Accepted(batch) : batch[j].seq = s => i <= j]

\* Mutant of Insert: INSERT OR REPLACE, the last row of a seq stays.
InsertOrReplace(batch) ==
    LET new == SeqsAt(batch, Accepted(batch))
        LastWith(s) == batch[CHOOSE i \in Accepted(batch) :
                                /\ batch[i].seq = s
                                /\ \A j \in Accepted(batch) : batch[j].seq = s => j <= i]
    IN  [s \in DOMAIN records \cup new |-> IF s \in new THEN LastWith(s) ELSE records[s]]

\* INSERT OR IGNORE INTO records, for the accepted rows in order.
Insert(batch) ==
    [s \in DOMAIN records \cup SeqsAt(batch, Accepted(batch)) |->
        IF s \in DOMAIN records THEN records[s] ELSE FirstWith(batch, s)]

\* Mutant of Quarantine: keeps the last request's only.
QuarantineLatest(batch) == SeqsAt(batch, DOMAIN batch \ Accepted(batch))

\* INSERT OR IGNORE INTO quarantined_records, for the others.
Quarantine(batch) == quarantined \cup SeqsAt(batch, DOMAIN batch \ Accepted(batch))

\* Mutant of Resolved: the accepted seqs only.
AcceptedSeqs == DOMAIN records

\* Seqs with a terminal disposition: the UNION the ack query scans.
Resolved == DOMAIN records \cup quarantined

\* Mutant of IsContiguousEnd: the number of resolved seqs, holes or not.
IsResolvedCount(n) == n = Cardinality(Resolved)

\* The scan over the sorted seqs ends at n: the highest n with no hole below.
IsContiguousEnd(n) == 1 .. n \subseteq Resolved /\ n + 1 \notin Resolved

-----------------------------------------------------------------------------
Init ==
    /\ records = <<>>
    /\ quarantined = {}
    /\ answer = 0

\* push() up to its commit.
Store(batch) ==
    /\ records' = Insert(batch)
    /\ quarantined' = Quarantine(batch)

\* push() after its commit: the cumulative ack.
ComputeAck(n) ==
    /\ IsContiguousEnd(n)
    /\ answer' = n

StoreBatch(batch) == Store(batch) /\ UNCHANGED answer

\* Some request past its commit is answered.
AnswerRequest ==
    /\ \E n \in 0 .. Cardinality(Resolved) : ComputeAck(n)
    /\ UNCHANGED <<records, quarantined>>

Next == (\E batch \in Batches : StoreBatch(batch)) \/ AnswerRequest

Spec == Init /\ [][Next]_vars

-----------------------------------------------------------------------------
(***************************************************************************)
(* Properties                                                              *)
(***************************************************************************)
\* Every table holds what its key says.
TypeOK ==
    /\ DOMAIN records \subseteq Nat \ {0}
    /\ \A s \in DOMAIN records : records[s] \in Rows /\ records[s].seq = s
    /\ quarantined \subseteq Nat \ {0}
    /\ answer \in Nat

\* An acknowledged seq has a terminal disposition, it and all below it, however
\* the handlers of several requests interleave: the device deletes its copy on
\* the strength of this (server.py:933-937).
AckCoversResolved == 1 .. answer \subseteq Resolved

\* A stored row is never replaced or removed by a duplicate or a late request:
\* "INSERT OR IGNORE = idempotent" (server.py:833).
RecordsImmutable ==
    [][\A s \in DOMAIN records : s \in DOMAIN records' /\ records'[s] = records[s]]_vars

\* The cumulative ack never goes back, whichever request is answered.
AckNeverRegresses == [][answer' >= answer]_vars

=============================================================================
