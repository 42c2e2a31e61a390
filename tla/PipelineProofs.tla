---------------------------- MODULE PipelineProofs ----------------------------
(***************************************************************************)
(* Proofs about the persistent queue and the push pipeline, for any        *)
(* segment and batch size and any number of samples, boots and failures:   *)
(* nothing that is owed is lost, in order, counted, and pruned only when   *)
(* the server has it.                                                      *)
(***************************************************************************)
EXTENDS Pipeline, FiniteSetTheorems, WellFoundedInduction, TLAPS

AppendPcs == {"open", "truncate", "write", "checkpoint", "recordFailure", "service"}
LoopPcs == {"top", "net", "post", "persistAck", "remove", "recover"}

-----------------------------------------------------------------------------
(***************************************************************************)
(* The invariant, in parts.  The first three hold whatever is damaged.     *)
(***************************************************************************)
FilesType ==
    /\ files \in [DOMAIN files -> Seq(CellType)] /\ DOMAIN files \subseteq Nat
    /\ \E u \in Nat : \A s \in DOMAIN files : s <= u
Checkpoints == [seq : 0 .. MaxSeq, qseg : Nat, qoff : Nat]
AckRecs == [acked : 0 .. MaxSeq, cseg : Nat, coff : Nat]
Positions == [seg : Nat, off : Nat]

Types ==
    /\ FilesType
    /\ cp \in Checkpoints /\ cpD = cp /\ ack \in AckRecs /\ ackD \in AckRecs /\ w \in Positions
    /\ unacked \in Nat /\ failed \in Nat
    /\ seq \in 0 .. MaxSeq /\ boot \in 1 .. MaxBoot
    /\ pc \in AppendPcs \cup LoopPcs \cup {"off", "sweep"}
    /\ del \subseteq Nat
    /\ confirmed \subseteq Rows /\ abandoned \subseteq Rows
    /\ damage \subseteq Damages

\* What the steps of one handler know of each other.
Handlers ==
    /\ pc \in AppendPcs => seq > 0
    /\ pc \in {"truncate", "write", "checkpoint"} => w.seg \in DOMAIN files
    /\ pc = "truncate" => w.off <= Len(files[w.seg])
    /\ pc = "remove" => del # {}
    /\ pc \notin {"persistAck", "remove", "sweep"} => del = {}
    /\ pc = "off" => boot < MaxBoot
    /\ pc = "recover" => damage # {}

\* The three counters: seq, the committed seq and the watermark.
Watermarks ==
    damage # {"checkpoint"} =>
        /\ ack.acked <= cp.seq /\ ackD.acked <= cp.seq
        /\ pc \in AppendPcs => seq = cp.seq + 1
        /\ pc \in LoopPcs => seq = cp.seq

\* No row is more than one ahead of the committed seq, and none when a push is
\* made; one that is ahead was confirmed before the last power cut.
FileSeqs(n) ==
    \A s \in DOMAIN files : \A i \in DOMAIN files[s] :
        IsRow(files[s][i]) => files[s][i].seq <= n

ConfirmedSeqs ==
    \A r \in confirmed :
        /\ r.seq <= cp.seq + 1 /\ r.boot <= boot
        /\ r.seq = cp.seq + 1 => r.boot < boot \/ pc \in {"service", "off"}

RowSeqs ==
    damage # {"checkpoint"} =>
        /\ FileSeqs(cp.seq + 1)
        /\ pc \in {"net", "post"} => FileSeqs(cp.seq)
        /\ ConfirmedSeqs

IsLost(s) == \A r \in confirmed : r.seq # s
Lost == {s \in 1 .. cp.seq : IsLost(s)}

\* A seq that will be committed has a row or was counted.
Losses ==
    damage # {"checkpoint"} /\ tally # "lost" =>
        /\ Cardinality(Lost) <= failed
        /\ pc = "service" => ~IsLost(seq) \/ Cardinality(Lost) < failed

\* The failure record: a slot holds a count of its own parity, and none is ahead
\* of RAM.  Unless a write of it has failed, the higher slot is the count in RAM.
FailRecord ==
    /\ failedD \in [FailSlots -> Nat] /\ tally \in {"sure", "unsaved", "lost"}
    /\ \A i \in FailSlots : failedD[i] <= failed /\ (failedD[i] > 0 => failedD[i] % 2 = i)
    /\ tally = "sure" => LoadFail(failedD) = failed

\* How many cells of a live segment are in use, and the cells from a cursor on.
Used(c, s) == IF s = c.qseg THEN c.qoff ELSE SegRows
Start(a, s) == IF s = a.cseg THEN a.coff ELSE 0
Region(a, c) == UNION {{s} \X (Start(a, s) + 1 .. Used(c, s)) : s \in a.cseg .. c.qseg}

\* The segment files: closed ones are full, nothing but rows is in use, and the
\* file the next row goes to is at most one cell longer than it should be.
Layout ==
    /\ cp.qoff <= SegRows
    /\ cp.qoff = 0 => cp.qseg = 0
    /\ \A s \in DOMAIN files : s <= TargetSeg
    /\ TargetSeg \in DOMAIN files => Len(files[TargetSeg]) \in TargetOff .. TargetOff + 1
    /\ TargetOff > 0 => TargetSeg \in DOMAIN files
    /\ \A s \in ackD.cseg .. cp.qseg : s < TargetSeg =>
          s \in DOMAIN files /\ Len(files[s]) = SegRows
    /\ \A s \in ackD.cseg .. cp.qseg : \A i \in 1 .. Used(cp, s) : IsRow(files[s][i])

\* append() in the middle.
Appending ==
    /\ pc \in {"truncate", "write", "checkpoint"} => w = [seg |-> TargetSeg, off |-> TargetOff]
    /\ pc = "truncate" => Len(files[w.seg]) = w.off + 1
    /\ pc = "write" => Len(files[w.seg]) = w.off
    /\ pc = "checkpoint" => Len(files[w.seg]) = w.off + 1 /\ files[w.seg][w.off + 1] = Row(boot, seq)

NotBeyond(a, seg, off) == a.cseg < seg \/ (a.cseg = seg /\ a.coff <= off)

\* The read cursor, in RAM and on flash.
Cursors ==
    /\ ack.coff <= SegRows /\ ackD.coff <= SegRows
    /\ NotBeyond(ack, cp.qseg, cp.qoff) /\ NotBeyond(ackD, ack.cseg, ack.coff)
    /\ pc # "persistAck" => ackD = ack
    /\ pc \in {"persistAck", "remove"} => \A s \in del : s < ack.cseg
    /\ pc = "sweep" => \A s \in del : s < ack.cseg \/ s > cp.qseg

Precedes(x, y) == x.seq <= y.seq /\ x.boot <= y.boot /\ x # y

\* From the cursor on there are confirmed rows above the watermark, in order.
Ordered ==
    /\ \A p \in Region(ackD, cp) : CellAt(p) \in confirmed /\ CellAt(p).seq > ackD.acked
    /\ \A p \in Region(ack, cp) : CellAt(p).seq > ack.acked
    /\ \A p, q \in Region(ackD, cp) : Before(p, q) => Precedes(CellAt(p), CellAt(q))

\* Whatever is owed is there.
Kept(a) == \A r \in confirmed \ abandoned : r.seq > a.acked =>
              \E p \in Region(a, cp) : CellAt(p) = r

Counted == pc \notin {"off", "sweep"} => unacked = Cardinality(Region(ack, cp))

\* All this as long as nothing is damaged.
Sound == Layout /\ Appending /\ Cursors /\ Ordered /\ Kept(ack) /\ Kept(ackD) /\ Counted
Intact == damage = {} => Sound

Base == Types /\ Handlers /\ Watermarks /\ RowSeqs /\ Losses
QInv == Base /\ FailRecord /\ Intact
-----------------------------------------------------------------------------
(***************************************************************************)
(* The steps the queue takes, on its own or in the pipeline: those of      *)
(* EventQueue, an answer n to a push, and a push going out or failing.     *)
(***************************************************************************)
Answered(n) ==
    /\ pc \in {"net", "post"} /\ (damage # {"checkpoint"} => n <= cp.seq)
    /\ AckThrough(n)

PushMoves ==
    /\ (pc = "net" /\ pc' = "post") \/ (pc = "post" /\ pc' = "top")
    /\ UNCHANGED <<flash, cp, ack, unacked, failed, seq, boot, w, del, ghosts>>

QNext ==
    \/ DeviceNext \/ AppendFault
    \/ CheckpointLost \/ PersistAckFails \/ RecoverRemove \/ RecoverPositions
    \/ ResetAckToCurrentPosition
    \/ \E n \in 0 .. MaxSeq : Answered(n)
    \/ PushMoves

\* A non-empty set of naturals has a least element, a bounded one a greatest.
LEMMA LeastNatural ==
    ASSUME NEW T, T \subseteq Nat, T # {}
    PROVE  \E x \in T : \A y \in T : x <= y
<1>1. PICK x \in T : \A y \in T : <<y, x>> \notin OpToRel(<, Nat)
  BY NatLessThanWellFounded, WFMin
<1>2. \A y \in T : ~(y < x)
  BY <1>1 DEF OpToRel
<1> QED
  BY <1>2

LEMMA MinIsLeast ==
    ASSUME NEW T, T \subseteq Nat, T # {}
    PROVE  Min(T) \in T /\ \A y \in T : Min(T) <= y
<1>1. \E x \in T : \A y \in T : x <= y
  BY LeastNatural
<1> QED BY <1>1 DEF Min

LEMMA MinOfTwo ==
    ASSUME NEW a \in Nat, NEW b \in Nat
    PROVE  Min({a, b}) = IF a <= b THEN a ELSE b
  BY DEF Min

LEMMA MaxIsGreatest ==
    ASSUME NEW T, T \subseteq Nat, T # {}, NEW u \in Nat, \A y \in T : y <= u
    PROVE  Max(T) \in T /\ \A y \in T : Max(T) >= y
<1> DEFINE B == {b \in Nat : \A y \in T : y <= b}
<1>1. PICK b \in B : \A c \in B : b <= c
  <2>1. u \in B
    OBVIOUS
  <2> HIDE DEF B
  <2>2. B \subseteq Nat
    BY DEF B
  <2> QED BY <2>1, <2>2, LeastNatural
<1>2. b \in T
  <2> SUFFICES ASSUME b \notin T PROVE FALSE
    OBVIOUS
  <2>1. PICK y \in T : TRUE
    OBVIOUS
  <2>2. b > 0 /\ \A z \in T : z <= b - 1
    BY <2>1
  <2>3. b - 1 \in B
    BY <2>2
  <2> QED BY <1>1, <2>3
<1>3. \A y \in T : b >= y
  OBVIOUS
<1> QED BY <1>2, <1>3 DEF Max

\* Leading() counts up to the first one that is not in S.
LEMMA LeadingEnds ==
    ASSUME NEW a \in Nat, NEW b \in Nat, NEW S
    PROVE  /\ Leading(a, b, S) \in Nat
           /\ Leading(a, b, S) > 0 => a + Leading(a, b, S) <= b + 1
           /\ \A i \in Nat : i >= a /\ i < a + Leading(a, b, S) => i \in S
           /\ a + Leading(a, b, S) <= b => a + Leading(a, b, S) \notin S
<1> DEFINE K == {k \in a .. b : a .. k \subseteq S}
           Out == {k \in Nat : k >= a /\ (k > b \/ k \notin S)}
<1>1. PICK e \in Out : \A k \in Out : e <= k
  <2>1. Out \subseteq Nat
    OBVIOUS
  <2>2. a + b + 1 \in Out
    OBVIOUS
  <2> HIDE DEF Out
  <2> QED BY <2>1, <2>2, LeastNatural
<1>2. \A i \in a .. e - 1 : i \in S /\ i <= b
  BY <1>1
<1>3. K = a .. e - 1
  <2>1. \A k \in K : k < e
    BY <1>1
  <2>2. \A k \in a .. e - 1 : k \in K
    BY <1>2
  <2> QED BY <2>1, <2>2
<1>4. Leading(a, b, S) = e - a
  <2>1. e \in Nat /\ e >= a
    OBVIOUS
  <2>2. Cardinality(a .. e - 1) = IF a > e - 1 THEN 0 ELSE (e - 1) - a + 1
    BY <2>1, FS_Interval
  <2>3. Leading(a, b, S) = Cardinality(K)
    BY DEF Leading
  <2> HIDE DEF K
  <2>4. Leading(a, b, S) = Cardinality(a .. e - 1)
    BY <1>3, <2>3
  <2> QED BY <2>1, <2>2, <2>4
<1> QED BY <1>1, <1>2, <1>4

\* Finitely many finite columns make a finite set of places.
LEMMA ColumnsFinite ==
    ASSUME NEW f, IsFiniteSet(DOMAIN f), \A s \in DOMAIN f : IsFiniteSet(f[s])
    PROVE  IsFiniteSet(UNION {{s} \X f[s] : s \in DOMAIN f})
<1> DEFINE C == {{s} \X f[s] : s \in DOMAIN f}
           g == [s \in DOMAIN f |-> {s} \X f[s]]
<1>1. g \in Surjection(DOMAIN f, C)
  BY DEF Surjection
<1>2. IsFiniteSet(C)
  BY <1>1, FS_Surjection
<1>3. ASSUME NEW T \in C PROVE IsFiniteSet(T)
  <2>1. PICK s \in DOMAIN f : T = {s} \X f[s]
    OBVIOUS
  <2>2. IsFiniteSet({s}) /\ IsFiniteSet(f[s])
    BY FS_Singleton
  <2> QED BY <2>1, <2>2, FS_Product
<1> QED BY <1>2, <1>3, FS_UNION

\* The places of a set have a first one, and any count of them is reached.
LEMMA FirstPlace ==
    ASSUME NEW P, P \subseteq Nat \X Nat, P # {}
    PROVE  \E p \in P : \A q \in P : q = p \/ Before(p, q)
<1> DEFINE A == {p[1] : p \in P}
<1>1. PICK s \in A : \A t \in A : s <= t
  <2>1. A \subseteq Nat /\ A # {}
    OBVIOUS
  <2> HIDE DEF A
  <2> QED BY <2>1, LeastNatural
<1> DEFINE B == {p[2] : p \in {q \in P : q[1] = s}}
<1>2. PICK i \in B : \A j \in B : i <= j
  <2>1. B \subseteq Nat /\ B # {}
    OBVIOUS
  <2> HIDE DEF B
  <2> QED BY <2>1, LeastNatural
<1>3. PICK p \in P : p[1] = s /\ p[2] = i
  OBVIOUS
<1>4. ASSUME NEW q \in P PROVE q = p \/ Before(p, q)
  <2>1. s <= q[1] /\ (q[1] = s => i <= q[2])
    BY <1>1, <1>2
  <2> QED BY <1>3, <2>1 DEF Before
<1> QED BY <1>4

LEMMA BeforeOrders ==
    ASSUME NEW p \in Nat \X Nat, NEW q \in Nat \X Nat, NEW r \in Nat \X Nat
    PROVE  /\ ~Before(p, p)
           /\ Before(p, q) /\ Before(q, r) => Before(p, r)
           /\ p = q \/ Before(p, q) \/ Before(q, p)
  BY DEF Before

LEMMA NthExists ==
    ASSUME NEW P, P \subseteq Nat \X Nat, IsFiniteSet(P), NEW k \in 1 .. Cardinality(P)
    PROVE  Nth(P, k) \in P /\ Cardinality({q \in P : Before(q, Nth(P, k))}) = k - 1
<1> DEFINE Ahead(p) == {q \in P : Before(q, p)}
           Bad == {n \in 1 .. Cardinality(P) : ~ \E p \in P : Cardinality(Ahead(p)) = n - 1}
<1>1. Cardinality(P) \in Nat
  BY FS_CardinalityType
<1>2. Bad = {}
  <2> SUFFICES ASSUME Bad # {} PROVE FALSE
    OBVIOUS
  <2>1. PICK n \in Bad : \A j \in Bad : n <= j
    <3>1. Bad \subseteq Nat
      BY <1>1
    <3> HIDE DEF Bad
    <3> QED BY <3>1, LeastNatural
  <2> n \in 1 .. Cardinality(P) /\ n \in Nat
    BY <1>1, <2>1
  <2>2. CASE n = 1
    <3>1. P # {}
      BY <2>1, <1>1, FS_EmptySet
    <3>2. PICK p \in P : \A q \in P : q = p \/ Before(p, q)
      BY <3>1, FirstPlace
    <3>3. Ahead(p) = {}
      BY <3>2, BeforeOrders
    <3>4. Cardinality(Ahead(p)) = n - 1
      <4> HIDE DEF Ahead
      <4> QED BY <2>2, <3>3, FS_EmptySet
    <3> QED BY <2>1, <3>4
  <2>3. CASE n > 1
    <3>1. PICK p \in P : Cardinality(Ahead(p)) = n - 2
      <4>1. n - 1 \in 1 .. Cardinality(P)
        BY <1>1, <2>3
      <4>2. n - 1 \notin Bad
        <5> HIDE DEF Bad
        <5> QED BY <2>1
      <4> QED BY <4>1, <4>2
    <3> DEFINE Rest == {q \in P : Before(p, q)}
               Past == Ahead(p) \cup {p}
    <3>2. IsFiniteSet(Ahead(p)) /\ p \notin Ahead(p)
      BY FS_Subset, BeforeOrders
    <3>3. Cardinality(Past) = n - 1
      <4>1. Cardinality(Past) = Cardinality(Ahead(p)) + 1
        BY <3>2, FS_AddElement
      <4> QED BY <4>1, <3>1
    <3>4. Rest # {}
      <4>1. CASE Rest = {}
        <5>1. P = Past
          BY <4>1, BeforeOrders
        <5>2. Cardinality(P) = n - 1
          BY <5>1, <3>3
        <5> QED BY <5>2, <1>1
      <4> QED BY <4>1
    <3>5. PICK r \in Rest : \A q \in Rest : q = r \/ Before(r, q)
      BY <3>4, FirstPlace
    <3>6. Ahead(r) = Past
      <4>1. ASSUME NEW q \in Ahead(r) PROVE q \in Past
        BY <3>5, BeforeOrders
      <4>2. ASSUME NEW q \in Past PROVE q \in Ahead(r)
        BY <3>5, BeforeOrders
      <4> QED BY <4>1, <4>2
    <3> QED BY <2>1, <3>3, <3>6
  <2> QED BY <1>1, <2>1, <2>2, <2>3
<1>3. \E p \in P : Cardinality(Ahead(p)) = k - 1
  BY <1>2
<1> QED BY <1>3 DEF Nth

-----------------------------------------------------------------------------
(***************************************************************************)
(* Cells, files, and what a reader sees.                                   *)
(***************************************************************************)
LEMMA Cells ==
    ASSUME NEW c \in CellType
    PROVE  /\ IsRow(c) <=> c \in Rows
           /\ c \in Rows => c.seq \in 1 .. MaxSeq /\ c.boot \in 1 .. MaxBoot
  BY DEF CellType, Rows, Row, Junk, Part, IsRow

LEMMA NewRow ==
    ASSUME NEW b \in 1 .. MaxBoot, NEW s \in 1 .. MaxSeq
    PROVE  /\ Row(b, s) \in Rows /\ Row(b, s).boot = b /\ Row(b, s).seq = s
           /\ IsRow(Row(b, s))
  BY DEF Rows, Row, IsRow

\* The numbers a reader computes are numbers, and it stays inside the files.
LEMMA ReaderType ==
    ASSUME Types, NEW a \in AckRecs, NEW s \in DOMAIN files
    PROVE  /\ Limit(cp, s) \in Nat /\ From(a, cp, s) \in Nat /\ End(cp, s) \in Nat
           /\ End(cp, s) <= Len(files[s]) /\ End(cp, s) <= Limit(cp, s)
           /\ From(a, cp, s) = IF s # a.cseg THEN 0
                               ELSE IF a.coff <= Limit(cp, s) THEN a.coff ELSE Limit(cp, s)
<1>1. files[s] \in Seq(CellType) /\ Len(files[s]) \in Nat
  BY DEF Types, FilesType, Checkpoints, AckRecs
<1>2. Limit(cp, s) \in Nat /\ a.coff \in Nat
  BY <1>1 DEF Limit, Types, FilesType, Checkpoints, AckRecs
<1>3. Whole(files[s]) \in Nat /\ Whole(files[s]) <= Len(files[s])
  <2>1. files[s] # <<>> => Len(files[s]) > 0
    BY <1>1
  <2> QED BY <1>1, <2>1 DEF Whole
<1>4. Min({a.coff, Limit(cp, s)}) = IF a.coff <= Limit(cp, s) THEN a.coff ELSE Limit(cp, s)
  BY <1>2, MinOfTwo
<1>5. End(cp, s) = IF Limit(cp, s) <= Whole(files[s]) THEN Limit(cp, s) ELSE Whole(files[s])
  BY <1>2, <1>3, MinOfTwo DEF End
<1> QED BY <1>2, <1>3, <1>4, <1>5 DEF From

\* A readable place is a cell with a row above the watermark.
LEMMA ReadableCells ==
    ASSUME Types, NEW a \in AckRecs, NEW p \in Readable(a, cp)
    PROVE  /\ p \in Nat \X Nat /\ p = <<p[1], p[2]>>
           /\ p[1] \in DOMAIN files /\ p[2] \in DOMAIN files[p[1]]
           /\ CellAt(p) \in Rows /\ CellAt(p).seq > a.acked
<1>1. PICK s \in Walk(a, cp) :
         p \in {s} \X {i \in From(a, cp, s) + 1 .. End(cp, s) : Unacked(a, files[s][i])}
  BY DEF Readable
<1>2. s \in DOMAIN files
  BY DEF Walk, Types, FilesType, Checkpoints, AckRecs
<1>3. p = <<s, p[2]>> /\ p[1] = s /\ p[2] \in From(a, cp, s) + 1 .. End(cp, s)
        /\ Unacked(a, files[s][p[2]])
  BY <1>1
<1>4. From(a, cp, s) \in Nat /\ End(cp, s) \in Nat /\ End(cp, s) <= Len(files[s])
  BY <1>2, ReaderType
<1>5. files[s] \in Seq(CellType) /\ s \in Nat
  BY <1>2 DEF Types, FilesType, Checkpoints, AckRecs
<1>6. p[2] \in 1 .. Len(files[s]) /\ p[2] \in Nat
  BY <1>3, <1>4, <1>5
<1>7. files[s][p[2]] \in CellType /\ p[2] \in DOMAIN files[s]
  BY <1>5, <1>6
<1>8. CellAt(p) \in Rows /\ CellAt(p).seq > a.acked
  BY <1>3, <1>7, Cells DEF CellAt, Unacked, AckRecs
<1> QED BY <1>2, <1>3, <1>5, <1>6, <1>7, <1>8

LEMMA ReadableFinite ==
    ASSUME Types, NEW a \in AckRecs
    PROVE  IsFiniteSet(Readable(a, cp)) /\ Cardinality(Readable(a, cp)) \in Nat
<1> DEFINE Column(s) == {i \in From(a, cp, s) + 1 .. End(cp, s) : Unacked(a, files[s][i])}
           f == [s \in Walk(a, cp) |-> Column(s)]
<1>1. IsFiniteSet(Walk(a, cp))
  <2>1. IsFiniteSet(a.cseg .. cp.qseg)
    BY FS_Interval DEF Types, FilesType, Checkpoints, AckRecs
  <2>2. Walk(a, cp) \in SUBSET (a.cseg .. cp.qseg)
    BY DEF Walk
  <2> QED BY <2>1, <2>2, FS_Subset
<1>2. ASSUME NEW s \in Walk(a, cp) PROVE IsFiniteSet(Column(s))
  <2>0. s \in DOMAIN files
    BY DEF Walk, Types, FilesType, Checkpoints, AckRecs
  <2>1. From(a, cp, s) \in Nat /\ End(cp, s) \in Nat
    BY <2>0, ReaderType
  <2>2. IsFiniteSet(From(a, cp, s) + 1 .. End(cp, s))
    BY <2>1, FS_Interval
  <2> QED BY <2>2, FS_Subset
<1>3. IsFiniteSet(UNION {{s} \X f[s] : s \in DOMAIN f})
  <2>1. DOMAIN f = Walk(a, cp) /\ \A s \in DOMAIN f : IsFiniteSet(f[s])
    BY <1>2
  <2> HIDE DEF f
  <2> QED BY <1>1, <2>1, ColumnsFinite
<1>4. Readable(a, cp) = UNION {{s} \X f[s] : s \in DOMAIN f}
  BY DEF Readable
<1> QED BY <1>3, <1>4, FS_CardinalityType

\* A batch is a list of readable rows.
LEMMA PendingRows ==
    ASSUME Types
    PROVE  /\ Pending \in Seq(Rows)
           /\ Len(Pending) = Min({BatchMax, Cardinality(Readable(ack, cp))})
           /\ \A k \in 1 .. Len(Pending) :
                 /\ Nth(Readable(ack, cp), k) \in Readable(ack, cp)
                 /\ Pending[k] = CellAt(Nth(Readable(ack, cp), k))
<1> DEFINE P == Readable(ack, cp)
           n == Min({BatchMax, Cardinality(P)})
<1>1. IsFiniteSet(P) /\ Cardinality(P) \in Nat /\ P \subseteq Nat \X Nat
  BY ReadableFinite, ReadableCells DEF Types, FilesType, Checkpoints, AckRecs
<1>2. n \in Nat /\ n <= Cardinality(P)
  BY <1>1, MinOfTwo, SizesArePositive
<1>3. ASSUME NEW k \in 1 .. n PROVE Nth(P, k) \in P /\ CellAt(Nth(P, k)) \in Rows
  <2> HIDE DEF P, n
  <2>1. k \in 1 .. Cardinality(P)
    BY <1>1, <1>2
  <2>2. Nth(P, k) \in P
    BY <1>1, <2>1, NthExists
  <2> QED BY <2>2, ReadableCells DEF P, Types, FilesType, Checkpoints, AckRecs
<1>4. Pending = [k \in 1 .. n |-> CellAt(Nth(P, k))]
  BY DEF Pending
<1> HIDE DEF P, n
<1>5. Pending \in Seq(Rows) /\ Len(Pending) = n
  BY <1>2, <1>3, <1>4
<1>6. \A k \in 1 .. Len(Pending) : Nth(P, k) \in P /\ Pending[k] = CellAt(Nth(P, k))
  BY <1>3, <1>4, <1>5
<1> QED BY <1>5, <1>6 DEF P, n

LEMMA LastOfRows ==
    ASSUME NEW b \in Seq(Rows), b # <<>>
    PROVE  Last(b) \in Rows /\ Last(b) = b[Len(b)] /\ Len(b) \in DOMAIN b
  BY DEF Last

-----------------------------------------------------------------------------
(***************************************************************************)
(* What the flash operations do to the files.                              *)
(***************************************************************************)
LEMMA FileCells ==
    ASSUME FilesType, NEW s \in DOMAIN files
    PROVE  /\ s \in Nat /\ files[s] \in Seq(CellType) /\ Len(files[s]) \in Nat
           /\ DOMAIN files[s] = 1 .. Len(files[s])
           /\ \A i \in DOMAIN files[s] : files[s][i] \in CellType
  BY DEF FilesType

LEMMA FileAppended ==
    ASSUME FilesType, NEW t \in DOMAIN files, NEW c \in CellType,
           files' = [files EXCEPT ![t] = Append(@, c)]
    PROVE  /\ FilesType' /\ DOMAIN files' = DOMAIN files
           /\ Len(files'[t]) = Len(files[t]) + 1 /\ files'[t][Len(files[t]) + 1] = c
           /\ \A s \in DOMAIN files : \A i \in DOMAIN files[s] : files'[s][i] = files[s][i]
           /\ \A s \in DOMAIN files : s # t => files'[s] = files[s]
<1>1. files[t] \in Seq(CellType)
  BY FileCells
<1>2. Append(files[t], c) \in Seq(CellType)
  BY <1>1
<1>3. DOMAIN files' = DOMAIN files /\ files'[t] = Append(files[t], c)
        /\ \A s \in DOMAIN files : s # t => files'[s] = files[s]
  BY DEF FilesType
<1>4. \A s \in DOMAIN files' : files'[s] \in Seq(CellType)
  BY <1>2, <1>3, FileCells
<1>5. FilesType'
  BY <1>3, <1>4 DEF FilesType
<1>6. /\ Len(files'[t]) = Len(files[t]) + 1 /\ files'[t][Len(files[t]) + 1] = c
      /\ \A i \in DOMAIN files[t] : files'[t][i] = files[t][i]
  BY <1>1, <1>3
<1> QED BY <1>3, <1>5, <1>6

LEMMA FileTruncated ==
    ASSUME FilesType, NEW t \in DOMAIN files, NEW n \in 0 .. Len(files[t]),
           files' = [files EXCEPT ![t] = SubSeq(@, 1, n)]
    PROVE  /\ FilesType' /\ DOMAIN files' = DOMAIN files
           /\ Len(files'[t]) = n
           /\ \A i \in 1 .. n : files'[t][i] = files[t][i]
           /\ \A s \in DOMAIN files : s # t => files'[s] = files[s]
<1>1. files[t] \in Seq(CellType) /\ Len(files[t]) \in Nat
  BY FileCells
<1>2. /\ SubSeq(files[t], 1, n) \in Seq(CellType) /\ Len(SubSeq(files[t], 1, n)) = n
      /\ \A i \in 1 .. n : SubSeq(files[t], 1, n)[i] = files[t][i]
  BY <1>1
<1>3. DOMAIN files' = DOMAIN files /\ files'[t] = SubSeq(files[t], 1, n)
        /\ \A s \in DOMAIN files : s # t => files'[s] = files[s]
  BY DEF FilesType
<1>4. \A s \in DOMAIN files' : files'[s] \in Seq(CellType)
  BY <1>2, <1>3, FileCells
<1>5. FilesType'
  BY <1>3, <1>4 DEF FilesType
<1> QED BY <1>2, <1>3, <1>5

LEMMA FileOpened ==
    ASSUME FilesType, NEW t \in Nat, files' = WithFile(t, Content(t))
    PROVE  /\ FilesType' /\ DOMAIN files' = DOMAIN files \cup {t}
           /\ \A s \in DOMAIN files : files'[s] = files[s]
           /\ t \notin DOMAIN files => files'[t] = <<>>
           /\ files'[t] = Content(t) /\ Content(t) \in Seq(CellType)
<1>1. Content(t) \in Seq(CellType)
  BY FileCells DEF Content
<1>2. DOMAIN files' = DOMAIN files \cup {t}
        /\ \A s \in DOMAIN files' : files'[s] = IF s = t THEN Content(t) ELSE files[s]
  BY DEF WithFile
<1>3. \A s \in DOMAIN files' : files'[s] \in Seq(CellType)
  BY <1>1, <1>2, FileCells
<1>4. FilesType'
  <2>1. PICK u \in Nat : \A s \in DOMAIN files : s <= u
    BY DEF FilesType
  <2>2. u + t \in Nat /\ \A s \in DOMAIN files' : s <= u + t
    BY <1>2, <2>1 DEF FilesType
  <2>3. files' \in [DOMAIN files' -> Seq(CellType)] /\ DOMAIN files' \subseteq Nat
    BY <1>2, <1>3 DEF FilesType, WithFile
  <2> QED BY <2>2, <2>3 DEF FilesType
<1> QED BY <1>1, <1>2, <1>4 DEF Content

LEMMA FileRemoved ==
    ASSUME FilesType, NEW t, files' = WithoutFile(t)
    PROVE  /\ FilesType' /\ DOMAIN files' = DOMAIN files \ {t}
           /\ \A s \in DOMAIN files' : files'[s] = files[s]
  BY DEF FilesType, WithoutFile, Restrict

\* The offset append() continues at is inside the file, or the one it had.
LEMMA GoodOffsetType ==
    ASSUME NEW f \in Seq(CellType), NEW off \in Nat
    PROVE  /\ Whole(f) \in Nat /\ Whole(f) <= Len(f)
           /\ AdoptValidRows(f, off) \in Nat /\ GoodOffset(f, off) \in Nat
           /\ Len(f) \in off .. off + 1 => GoodOffset(f, off) = off
           /\ f = <<>> => GoodOffset(f, off) = 0
<1>1. Whole(f) \in Nat /\ Whole(f) <= Len(f)
  <2>1. Len(f) \in Nat /\ (f # <<>> => Len(f) > 0)
    OBVIOUS
  <2> QED BY <2>1 DEF Whole
<1>2. AdoptValidRows(f, off) \in Nat
  <2>1. Leading(off + 1, Whole(f), {i \in DOMAIN f : IsRow(f[i])}) \in Nat
    BY <1>1, LeadingEnds
  <2> QED BY <2>1 DEF AdoptValidRows
<1>3. Len(f) \in Nat
  OBVIOUS
<1> QED BY <1>1, <1>2, <1>3 DEF GoodOffset

-----------------------------------------------------------------------------
(***************************************************************************)
(* The failure record.  Its slots alternate, so a write that tears or      *)
(* fails never hits the slot that holds the count, as long as no earlier   *)
(* write has failed.                                                       *)
(***************************************************************************)
LEMMA Parity ==
    \A n \in Nat : {n % 2, (n + 1) % 2} \subseteq FailSlots /\ (n + 1) % 2 # n % 2
  BY DEF FailSlots

\* One slot is left without a record, or none: what a cut may do.
FailTorn == UNCHANGED failedD \/ failedD' = [failedD EXCEPT ![FailSlot] = 0]

LEMMA TornKeeps ==
    ASSUME FailRecord, failed \in Nat, FailTorn
    PROVE  /\ failedD' \in [FailSlots -> Nat]
           /\ \A i \in FailSlots : failedD'[i] \in {0, failedD[i]}
           /\ tally = "sure" => LoadFail(failedD') = failed
<1>1. FailSlot \in FailSlots /\ FailSlot # failed % 2 /\ 0 \in FailSlots /\ 1 \in FailSlots
  BY Parity DEF FailSlot, FailSlots
<1>2. failedD' \in [FailSlots -> Nat] /\ \A i \in FailSlots : failedD'[i] \in {0, failedD[i]}
  BY <1>1 DEF FailRecord, FailTorn
<1>3. ASSUME tally = "sure" PROVE LoadFail(failedD') = failed
  <2>1. CASE failed = 0
    BY <1>1, <1>2, <2>1 DEF LoadFail, FailRecord
  <2>2. CASE failed > 0
    <3>1. PICK i \in FailSlots : failedD[i] = failed
      BY <1>1, <1>3 DEF FailRecord, LoadFail
    <3>2. failedD'[i] = failed
      <4>1. i = failed % 2
        BY <2>2, <3>1 DEF FailRecord
      <4> QED BY <1>1, <3>1, <4>1 DEF FailRecord, FailTorn
    <3>3. \A k \in FailSlots : failedD'[k] \in Nat /\ failedD'[k] <= failed
      BY <1>2 DEF FailRecord
    <3> QED BY <1>1, <3>1, <3>2, <3>3 DEF LoadFail, FailSlots
  <2> QED BY <2>1, <2>2
<1> QED BY <1>2, <1>3

\* What a boot loads is the count, unless a write of it had failed before the cut.
LEMMA FailRecordCut ==
    ASSUME FailRecord, failed \in Nat, LoseRam, FailTorn
    PROVE  /\ FailRecord' /\ failed' \in Nat
           /\ tally' # "lost" => tally # "lost" /\ failed' = failed
<1>1. failed' = LoadFail(failedD') /\ tally' = IF tally = "unsaved" THEN "lost" ELSE tally
  BY DEF LoseRam
<1>2. /\ failedD' \in [FailSlots -> Nat]
      /\ \A i \in FailSlots : failedD'[i] \in {0, failedD[i]}
      /\ tally = "sure" => failed' = failed
  BY <1>1, TornKeeps
<1>3. failed' \in Nat /\ \A i \in FailSlots : failedD'[i] <= failed'
  BY <1>1, <1>2 DEF LoadFail, FailSlots
<1>4. tally \in {"sure", "unsaved", "lost"}
  BY DEF FailRecord
<1>5. \A i \in FailSlots : failedD'[i] > 0 => failedD'[i] % 2 = i
  BY <1>2 DEF FailRecord
<1> QED BY <1>1, <1>2, <1>3, <1>4, <1>5 DEF FailRecord

LEMMA FailRecordFails ==
    ASSUME FailRecord, failed \in Nat, RecordWriteFailure \/ PersistFailFails
    PROVE  FailRecord'
<1>1. FailSlot \in FailSlots /\ (failed + 1) % 2 = FailSlot /\ failed' = failed + 1
  BY Parity DEF FailSlot, RecordWriteFailure, PersistFailFails
<1>2. CASE RecordWriteFailure
  <2>1. /\ failedD' = [failedD EXCEPT ![FailSlot] = failed + 1]
        /\ tally' = IF tally = "unsaved" THEN "sure" ELSE tally
    BY <1>2 DEF RecordWriteFailure
  <2>2. /\ failedD' \in [FailSlots -> Nat] /\ failedD'[FailSlot] = failed'
        /\ \A i \in FailSlots : i # FailSlot => failedD'[i] = failedD[i]
    BY <1>1, <2>1 DEF FailRecord
  <2>3. \A i \in FailSlots : failedD'[i] <= failed' /\ (failedD'[i] > 0 => failedD'[i] % 2 = i)
    BY <1>1, <2>2 DEF FailRecord
  <2>4. LoadFail(failedD') = failed'
    BY <1>1, <2>2, <2>3 DEF LoadFail, FailSlots
  <2> QED BY <2>1, <2>2, <2>3, <2>4 DEF FailRecord
<1>3. CASE PersistFailFails
  <2>1. FailTorn /\ tally' = IF tally = "sure" THEN "unsaved" ELSE tally
    BY <1>3 DEF PersistFailFails, FailTorn
  <2>2. /\ failedD' \in [FailSlots -> Nat]
        /\ \A i \in FailSlots : failedD'[i] \in {0, failedD[i]}
    BY <2>1, TornKeeps
  <2>3. \A i \in FailSlots : failedD'[i] <= failed' /\ (failedD'[i] > 0 => failedD'[i] % 2 = i)
    BY <1>1, <2>2 DEF FailRecord
  <2> QED BY <2>1, <2>2, <2>3 DEF FailRecord
<1> QED BY <1>2, <1>3

-----------------------------------------------------------------------------
(***************************************************************************)
(* The part of the invariant that holds whatever is damaged.               *)
(***************************************************************************)
\* The steps that change neither the checkpoint nor what the files hold, but
\* for removing one.
Plain ==
    \/ TakeSample \/ NoAck \/ PushMoves \/ PersistAck \/ RemoveSegment
    \/ SegmentOpenFails \/ TruncateFails
    \/ PersistAckFails \/ RecoverRemove \/ RecoverPositions
    \/ (\E s \in del : SweepSegment(s))

LEMMA BasePlain == ASSUME Base, Plain PROVE Base'
<1> USE SizesArePositive DEF Base, flash, ghosts, AppendPcs, LoopPcs
<1> USE DEF Plain, TakeSample, NoAck, PushMoves, PersistAck, RemoveSegment, SegmentOpenFails,
        TruncateFails, MayFail, PersistAckFails, RecoverRemove, RecoverPositions, Damaged,
        SweepSegment
<1>1. /\ FilesType' /\ DOMAIN files' \subseteq DOMAIN files
      /\ \A s \in DOMAIN files' : files'[s] = files[s]
  <2>1. UNCHANGED files \/ \E t : files' = WithoutFile(t)
    OBVIOUS
  <2>2. FilesType
    BY DEF Types
  <2>3. CASE UNCHANGED files
    BY <2>2, <2>3 DEF FilesType
  <2> QED BY <2>1, <2>2, <2>3, FileRemoved
<1>2. /\ cp' \in Checkpoints /\ cpD' = cp' /\ ack' \in AckRecs /\ ackD' \in AckRecs
      /\ w' \in Positions
  <2>1. [seg |-> 0, off |-> 0] \in Positions
    BY DEF Positions
  <2>2. \A c \in Checkpoints : [c EXCEPT !.qseg = 0, !.qoff = 0] \in Checkpoints
    BY DEF Checkpoints
  <2>3. \A a \in AckRecs : [a EXCEPT !.cseg = 0, !.coff = 0] \in AckRecs
    BY DEF AckRecs
  <2> QED BY <2>1, <2>2, <2>3 DEF Types
<1>3. Types'
  BY <1>1, <1>2 DEF Types, Handlers
<1>4. Handlers'
  <2>1. pc' = "recover" => damage' # {}
    BY DEF Handlers
  <2>2. pc' \notin {"truncate", "write", "checkpoint"} /\ (pc' \in AppendPcs => seq' > 0)
    BY DEF Types, Handlers
  <2>3. /\ pc' = "remove" => del' # {}
        /\ pc' \notin {"persistAck", "remove", "sweep"} => del' = {}
        /\ pc' = "off" => boot' < MaxBoot
    BY DEF Handlers
  <2> QED BY <2>1, <2>2, <2>3 DEF Handlers
<1>5. Watermarks'
  BY DEF Types, Handlers, Watermarks, Checkpoints, AckRecs
<1>6. RowSeqs'
  BY <1>1 DEF Types, RowSeqs, FileSeqs, ConfirmedSeqs, Checkpoints
<1>7. Losses'
  BY DEF Types, Losses, IsLost, Lost, Checkpoints
<1> QED BY <1>3, <1>4, <1>5, <1>6, <1>7

\* The steps that write to a file.
LEMMA BaseSegmentOpen == ASSUME Base, SegmentOpen PROVE Base'
<1> USE SizesArePositive DEF Base, ghosts, AppendPcs, LoopPcs
<1> DEFINE f == Content(TargetSeg)
           good == GoodOffset(f, TargetOff)
<1>0. FilesType /\ TargetSeg \in Nat /\ TargetOff \in Nat
  BY DEF Types, Checkpoints, TargetSeg, TargetOff
<1>1. /\ FilesType' /\ DOMAIN files' = DOMAIN files \cup {TargetSeg}
      /\ \A s \in DOMAIN files : files'[s] = files[s]
      /\ TargetSeg \notin DOMAIN files => files'[TargetSeg] = <<>>
      /\ files'[TargetSeg] = f /\ f \in Seq(CellType)
  BY <1>0, FileOpened DEF SegmentOpen
<1>2. good \in Nat
  BY <1>0, <1>1, GoodOffsetType
<1> HIDE DEF f, good
<1>3. /\ w' = [seg |-> TargetSeg, off |-> good] /\ pc = "open"
      /\ pc' = IF Len(f) > good THEN "truncate" ELSE "write"
      /\ UNCHANGED <<cp, cpD, ack, ackD, unacked, failed, failedD, seq, boot, del, ghosts>>
  BY DEF SegmentOpen, f, good
<1>4. w' \in Positions /\ w'.seg = TargetSeg /\ w'.off = good
  BY <1>0, <1>2, <1>3 DEF Positions
<1>5. Types'
  BY <1>1, <1>3, <1>4 DEF Types
<1>6. Handlers'
  BY <1>1, <1>2, <1>3, <1>4 DEF Types, Handlers
<1>7. Watermarks'
  BY <1>3 DEF Watermarks
<1>8. RowSeqs'
  <2>1. ASSUME NEW s \in DOMAIN files', NEW i \in DOMAIN files'[s]
        PROVE  s \in DOMAIN files /\ files'[s] = files[s]
    BY <1>1
  <2> QED BY <1>3, <2>1 DEF RowSeqs, FileSeqs, ConfirmedSeqs
<1>9. Losses'
  BY <1>3 DEF Losses, IsLost, Lost
<1> QED BY <1>5, <1>6, <1>7, <1>8, <1>9

LEMMA BaseTruncateTail == ASSUME Base, TruncateTail PROVE Base'
<1> USE SizesArePositive DEF Base, ghosts, AppendPcs, LoopPcs
<1>0. FilesType /\ w.seg \in DOMAIN files /\ w.off \in 0 .. Len(files[w.seg])
  <2>1. FilesType /\ w.seg \in DOMAIN files
    BY DEF Types, Handlers, TruncateTail
  <2>2. Len(files[w.seg]) \in Nat
    BY <2>1, FileCells
  <2> QED BY <2>1, <2>2 DEF Types, Handlers, TruncateTail, Positions
<1>1. /\ FilesType' /\ DOMAIN files' = DOMAIN files
      /\ Len(files'[w.seg]) = w.off
      /\ \A i \in 1 .. w.off : files'[w.seg][i] = files[w.seg][i]
      /\ \A s \in DOMAIN files : s # w.seg => files'[s] = files[s]
  BY <1>0, FileTruncated DEF TruncateTail
<1>2. /\ pc = "truncate" /\ pc' = "write"
      /\ UNCHANGED <<cp, cpD, ack, ackD, unacked, failed, failedD, seq, boot, w, del, ghosts>>
  BY DEF TruncateTail
<1>3. Types' /\ Handlers' /\ Watermarks' /\ Losses'
  BY <1>1, <1>2 DEF Types, Handlers, Watermarks, Losses, IsLost, Lost
<1>4. RowSeqs'
  <2>1. ASSUME NEW s \in DOMAIN files', NEW i \in DOMAIN files'[s]
        PROVE  s \in DOMAIN files /\ i \in DOMAIN files[s] /\ files'[s][i] = files[s][i]
    <3>1. CASE s # w.seg
      BY <1>1, <3>1
    <3>2. CASE s = w.seg
      <4>1. DOMAIN files'[s] = 1 .. w.off
        BY <1>1, <3>2, FileCells DEF FilesType
      <4>2. DOMAIN files[s] = 1 .. Len(files[s]) /\ Len(files[s]) \in Nat
        BY <1>0, <3>2, FileCells
      <4> QED BY <1>0, <1>1, <3>2, <4>1, <4>2
    <3> QED BY <3>1, <3>2
  <2> QED BY <1>2, <2>1 DEF RowSeqs, FileSeqs, ConfirmedSeqs
<1> QED BY <1>3, <1>4

\* One cell is appended; a row has the seq of the sample being written.
LEMMA CellAppended ==
    ASSUME Base, pc = "write", NEW c \in {Junk, Part, Row(boot, seq)},
           files' = [files EXCEPT ![w.seg] = Append(@, c)]
    PROVE  /\ FilesType' /\ DOMAIN files' = DOMAIN files
           /\ c \in CellType /\ w.seg \in DOMAIN files
           /\ damage # {"checkpoint"} =>
                 \A s \in DOMAIN files' : \A i \in DOMAIN files'[s] :
                    IsRow(files'[s][i]) => files'[s][i].seq <= cp.seq + 1
<1>0. FilesType /\ w.seg \in DOMAIN files /\ seq \in 1 .. MaxSeq /\ boot \in 1 .. MaxBoot
  BY SizesArePositive DEF Base, Types, Handlers, AppendPcs
<1>1. c \in CellType
  BY <1>0, NewRow DEF CellType
<1>2. /\ FilesType' /\ DOMAIN files' = DOMAIN files
      /\ Len(files'[w.seg]) = Len(files[w.seg]) + 1 /\ files'[w.seg][Len(files[w.seg]) + 1] = c
      /\ \A s \in DOMAIN files : \A i \in DOMAIN files[s] : files'[s][i] = files[s][i]
      /\ \A s \in DOMAIN files : s # w.seg => files'[s] = files[s]
  BY <1>0, <1>1, FileAppended
<1>3. ASSUME damage # {"checkpoint"}, NEW s \in DOMAIN files', NEW i \in DOMAIN files'[s],
             IsRow(files'[s][i])
      PROVE  files'[s][i].seq <= cp.seq + 1
  <2>1. CASE s # w.seg \/ i \in DOMAIN files[s]
    BY <1>2, <1>3, <2>1 DEF Base, RowSeqs, FileSeqs
  <2>2. CASE s = w.seg /\ i \notin DOMAIN files[s]
    <3>1. Len(files[s]) \in Nat /\ DOMAIN files[s] = 1 .. Len(files[s])
      BY <1>0, <2>2, FileCells
    <3>2. DOMAIN files'[s] = 1 .. Len(files'[s])
      BY <1>2 DEF FilesType
    <3>3. files'[s][i] = c
      BY <1>2, <2>2, <3>1, <3>2
    <3>4. IsRow(c) => c.seq = seq
      BY <1>0, NewRow DEF Junk, Part, IsRow
    <3> QED BY <1>3, <3>3, <3>4, <1>0 DEF Base, Watermarks, AppendPcs, Types, Checkpoints
  <2> QED BY <2>1, <2>2
<1> QED BY <1>0, <1>1, <1>2, <1>3

LEMMA BaseWriteRow == ASSUME Base, WriteRow PROVE Base'
<1> USE SizesArePositive DEF Base, ghosts, AppendPcs, LoopPcs
<1>1. /\ pc = "write" /\ pc' = "checkpoint"
      /\ files' = [files EXCEPT ![w.seg] = Append(@, Row(boot, seq))]
      /\ UNCHANGED <<cp, cpD, ack, ackD, unacked, failed, failedD, seq, boot, w, del, ghosts>>
  BY DEF WriteRow
<1>2. /\ FilesType' /\ DOMAIN files' = DOMAIN files
      /\ damage # {"checkpoint"} => FileSeqs(cp.seq + 1)'
  BY <1>1, CellAppended DEF FileSeqs
<1>3. Types' /\ Handlers' /\ Watermarks' /\ Losses'
  BY <1>1, <1>2 DEF Types, Handlers, Watermarks, Losses, IsLost, Lost
<1>4. RowSeqs'
  BY <1>1, <1>2 DEF RowSeqs, ConfirmedSeqs
<1> QED BY <1>3, <1>4

LEMMA BaseWriteShort == ASSUME Base, WriteShort PROVE Base'
<1> USE SizesArePositive DEF Base, ghosts, AppendPcs, LoopPcs
<1>1. /\ pc = "write" /\ pc' = "recordFailure"
      /\ UNCHANGED files \/ files' = [files EXCEPT ![w.seg] = Append(@, Part)]
      /\ UNCHANGED <<cp, cpD, ack, ackD, unacked, failed, failedD, seq, boot, w, del, ghosts>>
  BY DEF WriteShort
<1>2. /\ FilesType' /\ DOMAIN files' = DOMAIN files
      /\ damage # {"checkpoint"} => FileSeqs(cp.seq + 1)'
  <2>1. CASE UNCHANGED files
    BY <1>1, <2>1 DEF Types, RowSeqs, FileSeqs, FilesType
  <2> QED BY <1>1, <2>1, CellAppended DEF FileSeqs
<1>3. Types' /\ Handlers' /\ Watermarks' /\ Losses'
  BY <1>1, <1>2 DEF Types, Handlers, Watermarks, Losses, IsLost, Lost
<1>4. RowSeqs'
  BY <1>1, <1>2 DEF RowSeqs, ConfirmedSeqs
<1> QED BY <1>3, <1>4

\* A power cut, whatever of the record that is being written it tears.
LEMMA BaseCut ==
    ASSUME Base, FailRecord, LoseRam, FailTorn, FilesType',
           damage # {"checkpoint"} => FileSeqs(cp.seq + 1)'
    PROVE  Base'
<1> USE SizesArePositive DEF Base, AppendPcs, LoopPcs
<1>1. /\ boot < MaxBoot /\ pc' = "off" /\ cp' = cp /\ cpD' = cp /\ ack' = ackD
      /\ unacked' = 0 /\ seq' = 0 /\ w' = [seg |-> 0, off |-> 0] /\ del' = {}
      /\ UNCHANGED <<ackD, boot, confirmed, abandoned, damage>>
  BY DEF LoseRam, Types
<1>2. failed' \in Nat /\ (tally' # "lost" => tally # "lost" /\ failed' = failed)
  BY FailRecordCut DEF Types
<1>3. w' \in Positions
  BY <1>1 DEF Positions
<1>4. Types' /\ Handlers' /\ Watermarks'
  BY <1>1, <1>2, <1>3 DEF Types, Handlers, Watermarks
<1>5. Losses'
  BY <1>1, <1>2 DEF Losses, IsLost, Lost
<1>6. RowSeqs'
  BY <1>1 DEF RowSeqs, ConfirmedSeqs
<1> QED BY <1>4, <1>5, <1>6

LEMMA BaseCuts ==
    ASSUME Base, FailRecord, PowerCut \/ TornAppend \/ TornFailureRecord
    PROVE  Base'
<1>1. LoseRam /\ FailTorn
  BY DEF PowerCut, TornAppend, TornFailureRecord, FailTorn
<1>2. FilesType' /\ (damage # {"checkpoint"} => FileSeqs(cp.seq + 1)')
  <2>1. CASE UNCHANGED files
    BY <1>1, <2>1 DEF Base, Types, RowSeqs, FileSeqs, FilesType, LoseRam
  <2>2. CASE TornAppend
    <3>1. PICK c \in {Junk, Part} : files' = [files EXCEPT ![w.seg] = Append(@, c)]
      BY <2>2 DEF TornAppend, Debris
    <3>2. pc = "write" /\ cp' = cp
      BY <2>2 DEF TornAppend, LoseRam, Base, Types
    <3> QED BY <3>1, <3>2, CellAppended DEF FileSeqs
  <2> QED BY <2>1, <2>2 DEF PowerCut, TornFailureRecord
<1> QED BY <1>1, <1>2, BaseCut

LEMMA LostFinite == ASSUME Types PROVE IsFiniteSet(Lost) /\ Cardinality(Lost) \in Nat
<1>1. IsFiniteSet(1 .. cp.seq)
  BY SizesArePositive, FS_Interval DEF Types, Checkpoints
<1> QED BY <1>1, FS_Subset, FS_CardinalityType DEF Lost

LEMMA BaseConfirmRow == ASSUME Base, ConfirmRow PROVE Base'
<1> USE SizesArePositive DEF Base, AppendPcs, LoopPcs
<1>1. /\ pc = "checkpoint" /\ pc' = "service"
      /\ cp' = [cp EXCEPT !.qseg = w.seg, !.qoff = w.off + 1] /\ cpD' = cp'
      /\ unacked' = unacked + 1 /\ confirmed' = confirmed \cup {Row(boot, seq)}
      /\ UNCHANGED <<files, ack, ackD, failed, failedD, seq, boot, w, del, abandoned, damage,
                     tally>>
  BY DEF ConfirmRow
<1>2. cp' \in Checkpoints /\ cp'.seq = cp.seq
  <2>1. w.seg \in Nat /\ w.off + 1 \in Nat /\ cp \in Checkpoints
    BY DEF Types, Positions
  <2> QED BY <1>1, <2>1 DEF Checkpoints
<1>3. Row(boot, seq) \in Rows /\ Row(boot, seq).boot = boot /\ Row(boot, seq).seq = seq
  BY <1>1, NewRow DEF Types, Handlers
<1>4. Types'
  BY <1>1, <1>2, <1>3 DEF Types, FilesType
<1>5. Handlers' /\ Watermarks'
  BY <1>1, <1>2 DEF Handlers, Watermarks
<1>6. RowSeqs'
  <2>1. damage # {"checkpoint"} => FileSeqs(cp.seq + 1)'
    BY <1>1, <1>2 DEF RowSeqs, FileSeqs
  <2>2. damage # {"checkpoint"} => seq = cp.seq + 1
    BY <1>1 DEF Watermarks
  <2>3. damage # {"checkpoint"} => ConfirmedSeqs'
    BY <1>1, <1>2, <1>3, <2>2 DEF RowSeqs, ConfirmedSeqs, Types, Checkpoints
  <2> QED BY <1>1, <2>1, <2>3 DEF RowSeqs
<1>7. Losses'
  <2>1. \A s : IsLost(s)' => IsLost(s)
    BY <1>1 DEF IsLost
  <2>2. ~IsLost(seq)'
    BY <1>1, <1>3 DEF IsLost
  <2>3. Lost' \subseteq Lost
    BY <1>2, <2>1 DEF Lost
  <2>4. Cardinality(Lost') <= Cardinality(Lost) /\ Cardinality(Lost') \in Nat
    BY <2>3, LostFinite, FS_Subset, FS_CardinalityType
  <2>5. Cardinality(Lost) \in Nat /\ failed \in Nat
    BY LostFinite DEF Types
  <2> QED BY <1>1, <2>2, <2>4, <2>5 DEF Losses
<1> QED BY <1>4, <1>5, <1>6, <1>7

LEMMA BaseServiceCheckpoint == ASSUME Base, ServiceCheckpoint PROVE Base'
<1> USE SizesArePositive DEF Base, ghosts, AppendPcs, LoopPcs
<1>1. /\ pc = "service" /\ pc' = "net" /\ cp' = [cp EXCEPT !.seq = seq] /\ cpD' = cp'
      /\ UNCHANGED <<files, ack, ackD, unacked, failed, failedD, seq, boot, w, del, ghosts>>
  BY DEF ServiceCheckpoint
<1>2. cp' \in Checkpoints /\ cp'.seq = seq /\ cp.seq \in Nat /\ seq \in Nat
  BY <1>1 DEF Types, Checkpoints
<1>3. damage # {"checkpoint"} => cp'.seq = cp.seq + 1 /\ seq = cp.seq + 1
  BY <1>1, <1>2 DEF Watermarks
<1>4. Types' /\ Handlers'
  BY <1>1, <1>2 DEF Types, Handlers, FilesType
<1>5. Watermarks'
  BY <1>1, <1>2, <1>3 DEF Watermarks, Types, AckRecs
<1>6. RowSeqs'
  <2> SUFFICES ASSUME damage # {"checkpoint"} PROVE RowSeqs'
    BY <1>1 DEF RowSeqs
  <2>1. FileSeqs(cp.seq)'
    BY <1>1, <1>3 DEF RowSeqs, FileSeqs
  <2>2. FileSeqs(cp.seq + 1)'
    <3>1. ASSUME NEW s \in DOMAIN files', NEW i \in DOMAIN files'[s], IsRow(files'[s][i])
          PROVE files'[s][i].seq <= cp'.seq + 1
      <4>1. files'[s][i] \in Rows
        BY <1>4, <3>1, Cells DEF Types, FilesType
      <4>2. files'[s][i].seq \in Nat
        BY <4>1 DEF Rows, Row
      <4> QED BY <1>2, <2>1, <3>1, <4>2 DEF FileSeqs
    <3> QED BY <3>1 DEF FileSeqs
  <2>3. ConfirmedSeqs'
    <3>1. ASSUME NEW r \in confirmed PROVE r.seq \in Nat
      BY <3>1 DEF Types, Rows, Row
    <3> QED BY <1>1, <1>2, <1>3, <3>1 DEF RowSeqs, ConfirmedSeqs
  <2> QED BY <1>1, <2>1, <2>2, <2>3 DEF RowSeqs
<1>7. Losses'
  <2> SUFFICES ASSUME damage # {"checkpoint"}, tally # "lost" PROVE Cardinality(Lost') <= failed
    BY <1>1 DEF Losses
  <2>0. IsFiniteSet(Lost) /\ Cardinality(Lost) \in Nat /\ failed \in Nat
    BY LostFinite DEF Types
  <2>1. \A s : IsLost(s)' <=> IsLost(s)
    BY <1>1 DEF IsLost
  <2>2. Lost' \subseteq Lost \cup {seq}
    BY <1>2, <1>3, <2>1 DEF Lost
  <2>3. CASE ~IsLost(seq)
    <3>1. Lost' \subseteq Lost
      BY <2>1, <2>2, <2>3 DEF Lost
    <3>2. Cardinality(Lost') <= Cardinality(Lost) /\ Cardinality(Lost') \in Nat
      BY <2>0, <3>1, FS_Subset, FS_CardinalityType
    <3> QED BY <2>0, <3>2 DEF Losses
  <2>4. CASE IsLost(seq)
    <3>1. Cardinality(Lost) < failed
      BY <1>1, <2>4 DEF Losses
    <3>2. seq \notin Lost
      BY <1>2, <1>3 DEF Lost
    <3>3. IsFiniteSet(Lost \cup {seq}) /\ Cardinality(Lost \cup {seq}) = Cardinality(Lost) + 1
      BY <2>0, <3>2, FS_AddElement
    <3>4. Cardinality(Lost') <= Cardinality(Lost \cup {seq}) /\ Cardinality(Lost') \in Nat
      BY <2>2, <3>3, FS_Subset, FS_CardinalityType
    <3> QED BY <2>0, <3>1, <3>3, <3>4
  <2> QED BY <2>3, <2>4
<1> QED BY <1>4, <1>5, <1>6, <1>7

\* The last sample: rows have no seq beyond MaxSeq.
LEMMA BaseSamplesDone == ASSUME Base, SamplesDone PROVE Base'
<1> USE SizesArePositive DEF Base, flash, ghosts, AppendPcs, LoopPcs
<1>1. Types' /\ Handlers' /\ Watermarks' /\ Losses'
  BY DEF SamplesDone, Types, Handlers, Watermarks, Losses, IsLost, Lost, FilesType
<1>2. damage # {"checkpoint"} => FileSeqs(cp.seq)
  <2>1. ASSUME NEW s \in DOMAIN files, NEW i \in DOMAIN files[s], IsRow(files[s][i])
        PROVE files[s][i].seq \in 1 .. MaxSeq
    <3>1. files[s][i] \in CellType
      BY FileCells DEF Types
    <3> QED BY <2>1, <3>1, Cells
  <2> QED BY <2>1 DEF FileSeqs, SamplesDone, Watermarks
<1>3. RowSeqs'
  BY <1>2 DEF SamplesDone, RowSeqs, FileSeqs, ConfirmedSeqs
<1> QED BY <1>1, <1>3

LEMMA BaseFailureRecorded ==
    ASSUME Base, FailRecord, RecordWriteFailure \/ PersistFailFails
    PROVE  Base'
<1> USE SizesArePositive DEF Base, AppendPcs, LoopPcs
<1>1. /\ pc = "recordFailure" /\ pc' = "service" /\ failed' = failed + 1
      /\ tally' # "lost" => tally # "lost"
      /\ UNCHANGED <<files, cp, cpD, ack, ackD, unacked, seq, boot, w, del, confirmed, abandoned,
                     damage>>
  BY DEF RecordWriteFailure, PersistFailFails, FailRecord
<1>2. Types' /\ Handlers' /\ Watermarks'
  BY <1>1 DEF Types, Handlers, Watermarks, FilesType
<1>3. RowSeqs'
  BY <1>1 DEF RowSeqs, FileSeqs, ConfirmedSeqs
<1>4. Losses'
  <2>1. Lost' = Lost
    BY <1>1 DEF Lost, IsLost
  <2>2. Cardinality(Lost) \in Nat /\ failed \in Nat
    BY LostFinite DEF Types
  <2> QED BY <1>1, <2>1, <2>2 DEF Losses
<1> QED BY <1>2, <1>3, <1>4

-----------------------------------------------------------------------------
\* Boots.
LEMMA BaseBootAdopt == ASSUME Base, BootAdopt PROVE Base'
<1> USE SizesArePositive DEF Base, ghosts, AppendPcs, LoopPcs
<1> DEFINE top == Max(DOMAIN files)
           n == AdoptValidRows(files[top], 0)
<1>1. /\ pc = "off" /\ pc' = "sweep" /\ boot' = boot + 1
      /\ cp' = [cp EXCEPT !.qseg = top, !.qoff = n] /\ cpD' = cp'
      /\ UNCHANGED <<files, ack, ackD, unacked, failed, failedD, seq, w, del, ghosts>>
  BY DEF BootAdopt
<1>2. top \in Nat /\ n \in Nat
  <2>1. PICK u \in Nat : \A s \in DOMAIN files : s <= u
    BY DEF Types, FilesType
  <2>2. top \in DOMAIN files
    BY <2>1, MaxIsGreatest DEF Types, FilesType, BootAdopt, Regressed
  <2>3. top \in Nat /\ files[top] \in Seq(CellType)
    BY <2>2, FileCells DEF Types
  <2> QED BY <2>3, GoodOffsetType
<1> HIDE DEF top, n
<1>3. cp' \in Checkpoints /\ cp'.seq = cp.seq
  BY <1>1, <1>2 DEF Types, Checkpoints
<1>4. Types' /\ Handlers' /\ Watermarks'
  BY <1>1, <1>3 DEF Types, Handlers, Watermarks, FilesType
<1>5. RowSeqs'
  BY <1>1, <1>3 DEF RowSeqs, FileSeqs, ConfirmedSeqs, Types, Rows, Row
<1>6. Losses'
  BY <1>1, <1>3 DEF Losses, IsLost, Lost
<1> QED BY <1>4, <1>5, <1>6

LEMMA BaseBootSweep == ASSUME Base, BootSweep PROVE Base'
<1> USE SizesArePositive DEF Base, flash, ghosts, AppendPcs, LoopPcs
<1>1. /\ pc = "off" /\ pc' = "sweep" /\ boot' = boot + 1 /\ del' \subseteq DOMAIN files
      /\ UNCHANGED <<flash, cp, ack, unacked, failed, seq, w, ghosts>>
  BY DEF BootSweep, kSubset, Candidates
<1>2. Types' /\ Handlers' /\ Watermarks' /\ Losses'
  BY <1>1 DEF Types, Handlers, Watermarks, Losses, IsLost, Lost, FilesType
<1>3. RowSeqs'
  BY <1>1 DEF RowSeqs, FileSeqs, ConfirmedSeqs, Types, Rows, Row
<1> QED BY <1>2, <1>3

LEMMA BaseBootDone == ASSUME Base, BootDone PROVE Base'
<1> USE SizesArePositive DEF Base, flash, ghosts, AppendPcs, LoopPcs
<1>1. unacked' \in Nat
  BY ReadableFinite DEF BootDone, Types
<1>2. Types' /\ Handlers'
  BY <1>1 DEF BootDone, Types, Handlers, FilesType, ResumeSeqFloor, Checkpoints, AckRecs
<1>3. Watermarks'
  BY DEF BootDone, Watermarks, ResumeSeqFloor, Types, Checkpoints, AckRecs
<1>4. Losses' /\ RowSeqs'
  BY DEF BootDone, Losses, IsLost, Lost, RowSeqs, FileSeqs, ConfirmedSeqs
<1> QED BY <1>2, <1>3, <1>4

LEMMA BaseCheckpointLost == ASSUME Base, CheckpointLost PROVE Base'
<1> USE SizesArePositive DEF Base, AppendPcs, LoopPcs
<1>1. cp' \in Checkpoints
  BY DEF CheckpointLost, Checkpoints
<1>2. Types' /\ Handlers'
  BY <1>1 DEF CheckpointLost, Damaged, Types, Handlers, FilesType
<1>3. damage' = {"checkpoint"}
  BY DEF CheckpointLost, Damaged
<1> QED BY <1>2, <1>3 DEF Watermarks, RowSeqs, Losses

LEMMA BaseResetAck == ASSUME Base, ResetAckToCurrentPosition PROVE Base'
<1> USE SizesArePositive DEF Base, flash, AppendPcs, LoopPcs
<1>1. ack' \in AckRecs /\ ack'.acked = cp.seq
  BY DEF ResetAckToCurrentPosition, Types, Checkpoints, AckRecs
<1>2. abandoned' \subseteq Rows
  BY ReadableCells DEF ResetAckToCurrentPosition, Visible, Types
<1>3. Types' /\ Handlers'
  BY <1>1, <1>2 DEF ResetAckToCurrentPosition, Types, Handlers, FilesType
<1>4. Watermarks'
  BY <1>1 DEF ResetAckToCurrentPosition, Watermarks, Types, Checkpoints
<1>5. RowSeqs' /\ Losses'
  BY DEF ResetAckToCurrentPosition, Losses, IsLost, Lost, RowSeqs, FileSeqs, ConfirmedSeqs
<1> QED BY <1>3, <1>4, <1>5

\* What the walk of ackThrough() computes are numbers.
LEMMA StopInType ==
    ASSUME Types, NEW n \in Nat, NEW s \in DOMAIN files
    PROVE  /\ StopIn(n, s) \in Nat /\ StopIn(n, s) >= From(ack, cp, s)
           /\ StopIn(n, s) > From(ack, cp, s) => StopIn(n, s) <= End(cp, s)
           /\ \A i \in From(ack, cp, s) + 1 .. StopIn(n, s) : Consumable(n, files[s][i])
           /\ (StopIn(n, s) < End(cp, s)) => ~Consumable(n, files[s][StopIn(n, s) + 1])
<1> DEFINE from == From(ack, cp, s)
           C == {i \in DOMAIN files[s] : Consumable(n, files[s][i])}
           k == Leading(from + 1, End(cp, s), C)
<1>1. from \in Nat /\ End(cp, s) \in Nat /\ End(cp, s) <= Len(files[s])
  BY ReaderType DEF Types
<1>2. StopIn(n, s) = from + k
  BY DEF StopIn
<1>3. /\ k \in Nat /\ (k > 0 => from + 1 + k <= End(cp, s) + 1)
      /\ \A i \in Nat : i >= from + 1 /\ i < from + 1 + k => i \in C
      /\ from + 1 + k <= End(cp, s) => from + 1 + k \notin C
  <2> HIDE DEF from, C
  <2> QED BY <1>1, LeadingEnds
<1>4. DOMAIN files[s] = 1 .. Len(files[s]) /\ Len(files[s]) \in Nat
  BY FileCells DEF Types
<1>5. \A i \in DOMAIN files[s] : i \in C <=> Consumable(n, files[s][i])
  OBVIOUS
<1> HIDE DEF from, C, k
<1>6. ASSUME NEW i \in from + 1 .. StopIn(n, s) PROVE Consumable(n, files[s][i])
  <2>1. i \in C
    BY <1>1, <1>2, <1>3
  <2> QED BY <2>1 DEF C
<1>7. (StopIn(n, s) < End(cp, s)) => ~Consumable(n, files[s][StopIn(n, s) + 1])
  BY <1>1, <1>2, <1>3, <1>4, <1>5
<1>8. StopIn(n, s) \in Nat /\ StopIn(n, s) >= from /\ (StopIn(n, s) > from => StopIn(n, s) <= End(cp, s))
  BY <1>1, <1>2, <1>3
<1> QED BY <1>6, <1>7, <1>8 DEF from

\* It leaves used-up closed segments only.
LEMMA StopSegType ==
    ASSUME Types, NEW n \in Nat
    PROVE  /\ StopSeg(n) \in Nat /\ StopSeg(n) >= ack.cseg
           /\ StopSeg(n) > ack.cseg => StopSeg(n) <= cp.qseg
           /\ \A s \in ack.cseg .. StopSeg(n) - 1 : s \in DOMAIN files /\ UsedUp(n, s)
           /\ StopSeg(n) \in DOMAIN files /\ StopSeg(n) <= cp.qseg => ~UsedUp(n, StopSeg(n))
<1> DEFINE U == {s \in DOMAIN files : UsedUp(n, s)}
           k == Leading(ack.cseg, cp.qseg, U)
<1>0. ack.cseg \in Nat /\ cp.qseg \in Nat
  BY DEF Types, Checkpoints, AckRecs
<1>1. StopSeg(n) = ack.cseg + k
  BY DEF StopSeg
<1>2. /\ k \in Nat /\ (k > 0 => ack.cseg + k <= cp.qseg + 1)
      /\ \A i \in Nat : i >= ack.cseg /\ i < ack.cseg + k => i \in U
      /\ ack.cseg + k <= cp.qseg => ack.cseg + k \notin U
  <2> HIDE DEF U
  <2> QED BY <1>0, LeadingEnds
<1>3. \A s \in U : s \in DOMAIN files /\ UsedUp(n, s) /\ s < cp.qseg
  BY DEF UsedUp
<1>4. \A s \in DOMAIN files : UsedUp(n, s) => s \in U
  OBVIOUS
<1> HIDE DEF U, k
<1>5. k > 0 => ack.cseg + k <= cp.qseg
  <2>1. k > 0 => ack.cseg + k - 1 \in U
    BY <1>0, <1>2
  <2> QED BY <1>0, <1>2, <1>3, <2>1
<1>6. \A s \in ack.cseg .. StopSeg(n) - 1 : s \in DOMAIN files /\ UsedUp(n, s)
  BY <1>0, <1>1, <1>2, <1>3
<1> QED BY <1>0, <1>1, <1>2, <1>4, <1>5, <1>6

LEMMA ConsumedType ==
    ASSUME Types, NEW n \in Nat
    PROVE  StopOff(n, StopSeg(n)) \in Nat /\ Consumed(n, StopSeg(n)) \in Nat
<1> DEFINE stop == StopSeg(n)
           walked == {s \in ack.cseg .. stop : s <= cp.qseg /\ s \in DOMAIN files}
           f == [s \in walked |-> From(ack, cp, s) + 1 .. StopIn(n, s)]
<1>1. stop \in Nat /\ ack.cseg \in Nat /\ ack.coff \in Nat
  BY StopSegType DEF Types, AckRecs
<1>2. StopOff(n, stop) \in Nat
  BY <1>1, StopInType DEF StopOff
<1>3. IsFiniteSet(walked)
  <2>1. IsFiniteSet(ack.cseg .. stop)
    <3> HIDE DEF stop
    <3>1. ack.cseg \in Int /\ stop \in Int
      BY <1>1
    <3> QED BY <3>1, FS_Interval, Zenon
  <2>2. walked \in SUBSET (ack.cseg .. stop)
    OBVIOUS
  <2> HIDE DEF walked, stop
  <2> QED BY <2>1, <2>2, FS_Subset
<1>4. DOMAIN f = walked /\ \A s \in DOMAIN f : IsFiniteSet(f[s])
  <2>1. ASSUME NEW s \in walked PROVE IsFiniteSet(From(ack, cp, s) + 1 .. StopIn(n, s))
    <3>1. StopIn(n, s) \in Nat /\ From(ack, cp, s) \in Nat
      BY StopInType, ReaderType DEF Types
    <3> QED BY <3>1, FS_Interval
  <2> QED BY <2>1
<1>5. IsFiniteSet(UNION {{s} \X f[s] : s \in DOMAIN f})
  <2> HIDE DEF f, walked
  <2> QED BY <1>3, <1>4, ColumnsFinite
<1>6. Consumed(n, stop) = Cardinality(UNION {{s} \X f[s] : s \in DOMAIN f})
  BY DEF Consumed
<1> QED BY <1>2, <1>5, <1>6, FS_CardinalityType

LEMMA BaseAnswered == ASSUME Base, NEW n \in 0 .. MaxSeq, Answered(n) PROVE Base'
<1> USE SizesArePositive DEF Base, flash, ghosts, AppendPcs, LoopPcs
<1>1. CASE n <= ack.acked
  <2>1. /\ pc \in {"net", "post"} /\ pc' = "top"
        /\ UNCHANGED <<flash, cp, ack, unacked, failed, seq, boot, w, del, ghosts>>
    BY <1>1 DEF Answered, AckThrough
  <2>2. Types' /\ Handlers' /\ Watermarks' /\ Losses'
    BY <2>1 DEF Types, Handlers, Watermarks, Losses, IsLost, Lost, FilesType
  <2>3. RowSeqs'
    BY <2>1 DEF RowSeqs, FileSeqs, ConfirmedSeqs
  <2> QED BY <2>2, <2>3
<1>2. CASE ~(n <= ack.acked)
  <2>1. /\ pc \in {"net", "post"} /\ pc' = "persistAck"
        /\ ack' = [acked |-> n, cseg |-> StopSeg(n), coff |-> StopOff(n, StopSeg(n))]
        /\ unacked' = IF Consumed(n, StopSeg(n)) <= unacked
                      THEN unacked - Consumed(n, StopSeg(n)) ELSE 0
        /\ del' \subseteq ack.cseg .. StopSeg(n)
        /\ UNCHANGED <<flash, cp, failed, seq, boot, w, ghosts>>
    BY <1>2 DEF Answered, AckThrough
  <2>2. n \in Nat /\ StopSeg(n) \in Nat /\ StopOff(n, StopSeg(n)) \in Nat
        /\ Consumed(n, StopSeg(n)) \in Nat
    BY StopSegType, ConsumedType
  <2>3. ack' \in AckRecs /\ ack'.acked = n
    BY <2>1, <2>2 DEF AckRecs
  <2>4. del' \subseteq Nat
    BY <2>1, <2>2 DEF Types, AckRecs
  <2>5. unacked' \in Nat
    BY <2>1, <2>2 DEF Types
  <2>6. Types' /\ Handlers'
    BY <2>1, <2>3, <2>4, <2>5 DEF Types, Handlers, FilesType
  <2>7. Watermarks' /\ Losses'
    BY <2>1, <2>3 DEF Watermarks, Losses, IsLost, Lost, Answered
  <2>8. RowSeqs'
    BY <2>1 DEF RowSeqs, FileSeqs, ConfirmedSeqs
  <2> QED BY <2>6, <2>7, <2>8
<1> QED BY <1>1, <1>2

LEMMA BaseStep == ASSUME Base, FailRecord, QNext PROVE Base'
  BY BasePlain, BaseSegmentOpen, BaseTruncateTail, BaseWriteRow, BaseWriteShort, BaseCuts,
     BaseConfirmRow, BaseServiceCheckpoint, BaseSamplesDone, BaseFailureRecorded,
     BaseBootAdopt, BaseBootSweep, BaseBootDone, BaseCheckpointLost, BaseResetAck, BaseAnswered
  DEF QNext, Plain, DeviceNext, AppendStep, AckStep, BootStep, AppendFault

\* Every other step leaves the record alone.
LEMMA FailRecordStep == ASSUME Base, FailRecord, QNext PROVE FailRecord'
<1>0. failed \in Nat
  BY DEF Base, Types
<1>1. CASE PowerCut \/ TornAppend \/ TornFailureRecord
  BY <1>0, <1>1, FailRecordCut DEF PowerCut, TornAppend, TornFailureRecord, FailTorn
<1>2. CASE RecordWriteFailure \/ PersistFailFails
  BY <1>0, <1>2, FailRecordFails
<1>3. ASSUME UNCHANGED <<failed, failedD, tally>> PROVE FailRecord'
  BY <1>3 DEF FailRecord
<1>4. CASE DeviceNext /\ ~(PowerCut \/ TornAppend)
  <2>1. UNCHANGED <<failed, failedD, tally>>
    BY <1>4 DEF flash, ghosts, DeviceNext, AppendStep, AckStep, BootStep, TakeSample, SegmentOpen,
       TruncateTail, WriteRow, ConfirmRow, SamplesDone, ServiceCheckpoint, NoAck, PersistAck,
       RemoveSegment, BootAdopt, BootSweep, BootDone, SweepSegment
  <2> QED BY <1>3, <2>1
<1>5. CASE ~DeviceNext /\ ~(RecordWriteFailure \/ PersistFailFails \/ TornFailureRecord)
  <2>1. UNCHANGED <<failed, failedD, tally>>
    BY <1>5 DEF flash, ghosts, QNext, AppendFault, SegmentOpenFails, TruncateFails, WriteShort,
       CheckpointLost, PersistAckFails, RecoverRemove, RecoverPositions,
       ResetAckToCurrentPosition, Answered, AckThrough, PushMoves
  <2> QED BY <1>3, <2>1
<1> QED BY <1>1, <1>2, <1>4, <1>5

LEMMA BaseStutters == ASSUME Base, UNCHANGED vars PROVE Base'
  BY DEF Base, vars, Types, FilesType, Handlers, Watermarks, RowSeqs, FileSeqs, ConfirmedSeqs,
         Losses, IsLost, Lost

LEMMA BaseInit == ASSUME Init PROVE Base
<1> USE SizesArePositive DEF Init, AppendPcs, LoopPcs
<1>1. Types
  BY DEF Types, FilesType, Checkpoints, AckRecs, Positions
<1>2. Handlers /\ Watermarks /\ RowSeqs
  BY DEF Handlers, Watermarks, RowSeqs, FileSeqs, ConfirmedSeqs
<1>3. Losses
  <2>1. Lost = {}
    BY DEF Lost
  <2> QED BY <2>1, FS_EmptySet DEF Losses
<1> QED BY <1>1, <1>2, <1>3 DEF Base

-----------------------------------------------------------------------------
(***************************************************************************)
(* The cells from the cursor on.                                           *)
(***************************************************************************)
LEMMA InRegion ==
    ASSUME NEW a \in AckRecs, NEW c \in Checkpoints
    PROVE  /\ Region(a, c) \subseteq Nat \X Nat
           /\ \A p \in Region(a, c) : p = <<p[1], p[2]>>
           /\ \A s, i \in Nat : <<s, i>> \in Region(a, c) <=>
                 a.cseg <= s /\ s <= c.qseg /\ Start(a, s) < i /\ i <= Used(c, s)
<1>1. \A s \in Nat : Start(a, s) \in Nat /\ Used(c, s) \in Nat
  BY SizesArePositive DEF Start, Used, AckRecs, Checkpoints
<1>2. ASSUME NEW p \in Region(a, c)
      PROVE  p \in Nat \X Nat /\ p = <<p[1], p[2]>>
  <2>1. PICK s \in a.cseg .. c.qseg : p \in {s} \X (Start(a, s) + 1 .. Used(c, s))
    BY DEF Region
  <2>2. s \in Nat
    BY DEF AckRecs, Checkpoints
  <2> QED BY <1>1, <2>1, <2>2
<1>3. ASSUME NEW s \in Nat, NEW i \in Nat
      PROVE  <<s, i>> \in Region(a, c) <=>
                 a.cseg <= s /\ s <= c.qseg /\ Start(a, s) < i /\ i <= Used(c, s)
  <2>1. <<s, i>> \in Region(a, c) <=> s \in a.cseg .. c.qseg /\ i \in Start(a, s) + 1 .. Used(c, s)
    BY DEF Region
  <2> QED BY <1>1, <2>1 DEF AckRecs, Checkpoints
<1> QED BY <1>2, <1>3

LEMMA RegionFinite ==
    ASSUME NEW a \in AckRecs, NEW c \in Checkpoints
    PROVE  IsFiniteSet(Region(a, c)) /\ Cardinality(Region(a, c)) \in Nat
<1> DEFINE f == [s \in a.cseg .. c.qseg |-> Start(a, s) + 1 .. Used(c, s)]
<1>1. IsFiniteSet(a.cseg .. c.qseg)
  BY FS_Interval DEF AckRecs, Checkpoints
<1>2. ASSUME NEW s \in a.cseg .. c.qseg PROVE IsFiniteSet(Start(a, s) + 1 .. Used(c, s))
  <2>1. Start(a, s) \in Nat /\ Used(c, s) \in Nat
    BY SizesArePositive DEF Start, Used, AckRecs, Checkpoints
  <2> QED BY <2>1, FS_Interval
<1>3. DOMAIN f = a.cseg .. c.qseg /\ \A s \in DOMAIN f : IsFiniteSet(f[s])
  BY <1>2
<1>4. Region(a, c) = UNION {{s} \X f[s] : s \in DOMAIN f}
  BY DEF Region
<1> HIDE DEF f
<1>5. IsFiniteSet(UNION {{s} \X f[s] : s \in DOMAIN f})
  BY <1>1, <1>3, ColumnsFinite
<1> QED BY <1>4, <1>5, FS_CardinalityType

\* Where append() writes.
LEMMA Target ==
    ASSUME Base
    PROVE  /\ cp.qseg \in Nat /\ cp.qoff \in Nat /\ TargetSeg \in Nat /\ TargetOff \in Nat
           /\ cp.qoff <= SegRows => \/ TargetSeg = cp.qseg /\ TargetOff = cp.qoff /\ cp.qoff < SegRows
                                    \/ TargetSeg = cp.qseg + 1 /\ TargetOff = 0 /\ cp.qoff = SegRows
  BY SizesArePositive DEF Base, Types, Checkpoints, TargetSeg, TargetOff

LEMMA LiveCells ==
    ASSUME Base, Sound, NEW s \in ackD.cseg .. cp.qseg, NEW i \in 1 .. Used(cp, s)
    PROVE  /\ s \in Nat /\ i \in Nat /\ s \in DOMAIN files /\ i \in DOMAIN files[s]
           /\ IsRow(files[s][i])
           /\ s < TargetSeg \/ (s = TargetSeg /\ i <= TargetOff)
<1>1. s \in Nat /\ i \in Nat /\ Used(cp, s) \in Nat /\ s <= cp.qseg
  BY SizesArePositive DEF Base, Types, AckRecs, Checkpoints, Used
<1>2. CASE s < TargetSeg
  <2>1. s \in DOMAIN files /\ Len(files[s]) = SegRows
    BY <1>2 DEF Sound, Layout
  <2>2. Used(cp, s) <= SegRows
    BY SizesArePositive DEF Used, Sound, Layout
  <2>3. i \in DOMAIN files[s]
    BY <1>1, <2>1, <2>2, SizesArePositive, FileCells DEF Base, Types
  <2> QED BY <1>1, <1>2, <2>1, <2>3 DEF Sound, Layout
<1>3. CASE ~(s < TargetSeg)
  <2>1. s = TargetSeg /\ TargetSeg = cp.qseg /\ TargetOff = cp.qoff /\ Used(cp, s) = cp.qoff
    BY <1>1, <1>3, Target DEF Sound, Layout, Used
  <2>2. TargetOff \in Nat /\ TargetOff > 0
    BY <1>1, <2>1, Target
  <2>3. s \in DOMAIN files /\ Len(files[s]) \in TargetOff .. TargetOff + 1
    BY <2>1, <2>2 DEF Sound, Layout
  <2>4. i \in DOMAIN files[s]
    BY <1>1, <2>1, <2>2, <2>3, FileCells DEF Base, Types
  <2> QED BY <1>1, <2>1, <2>3, <2>4 DEF Sound, Layout
<1> QED BY <1>2, <1>3

LEMMA RegionCells ==
    ASSUME Base, Sound, NEW p \in Region(ackD, cp)
    PROVE  /\ p \in Nat \X Nat /\ p = <<p[1], p[2]>>
           /\ p[1] \in ackD.cseg .. cp.qseg /\ p[2] \in 1 .. Used(cp, p[1])
           /\ p[1] \in DOMAIN files /\ p[2] \in DOMAIN files[p[1]]
           /\ IsRow(CellAt(p)) /\ CellAt(p) \in Rows
           /\ p[1] < TargetSeg \/ (p[1] = TargetSeg /\ p[2] <= TargetOff)
<1>0. ackD \in AckRecs /\ cp \in Checkpoints /\ FilesType
  BY DEF Base, Types
<1>1. p \in Nat \X Nat /\ p = <<p[1], p[2]>> /\ p[1] \in Nat /\ p[2] \in Nat
  BY <1>0, InRegion
<1>2. ackD.cseg <= p[1] /\ p[1] <= cp.qseg /\ Start(ackD, p[1]) < p[2] /\ p[2] <= Used(cp, p[1])
  BY <1>0, <1>1, InRegion
<1>3. Start(ackD, p[1]) \in Nat /\ Used(cp, p[1]) \in Nat /\ ackD.cseg \in Nat /\ cp.qseg \in Nat
  BY <1>0, SizesArePositive DEF Start, Used, AckRecs, Checkpoints
<1>4. p[1] \in ackD.cseg .. cp.qseg /\ p[2] \in 1 .. Used(cp, p[1])
  BY <1>1, <1>2, <1>3
<1>5. /\ p[1] \in DOMAIN files /\ p[2] \in DOMAIN files[p[1]] /\ IsRow(files[p[1]][p[2]])
      /\ p[1] < TargetSeg \/ (p[1] = TargetSeg /\ p[2] <= TargetOff)
  BY <1>4, LiveCells
<1>6. files[p[1]][p[2]] \in CellType
  BY <1>0, <1>5, FileCells
<1> QED BY <1>1, <1>4, <1>5, <1>6, Cells DEF CellAt

\* The cursor in RAM is ahead of the one on flash.
LEMMA RegionsNest ==
    ASSUME Base, Sound
    PROVE  Region(ack, cp) \subseteq Region(ackD, cp) /\ ackD.cseg <= ack.cseg /\ ack.cseg <= cp.qseg
<1>0. ack \in AckRecs /\ ackD \in AckRecs /\ cp \in Checkpoints
  BY DEF Base, Types
<1>1. /\ ackD.cseg < ack.cseg \/ (ackD.cseg = ack.cseg /\ ackD.coff <= ack.coff)
      /\ ack.cseg \in Nat /\ ackD.cseg \in Nat /\ ack.coff \in Nat /\ ackD.coff \in Nat
      /\ cp.qseg \in Nat /\ ack.cseg <= cp.qseg
  BY <1>0 DEF Sound, Cursors, NotBeyond, AckRecs, Checkpoints
<1>2. ASSUME NEW p \in Region(ack, cp) PROVE p \in Region(ackD, cp)
  <2>1. p = <<p[1], p[2]>> /\ p[1] \in Nat /\ p[2] \in Nat
    BY <1>0, InRegion
  <2>2. ack.cseg <= p[1] /\ p[1] <= cp.qseg /\ Start(ack, p[1]) < p[2] /\ p[2] <= Used(cp, p[1])
    BY <1>0, <2>1, InRegion
  <2>3. ackD.cseg <= p[1] /\ Start(ackD, p[1]) < p[2]
    BY <1>1, <2>1, <2>2 DEF Start
  <2>4. <<p[1], p[2]>> \in Region(ackD, cp)
    BY <1>0, <2>1, <2>2, <2>3, InRegion
  <2> QED BY <2>1, <2>4
<1> QED BY <1>1, <1>2

\* What a step must leave alone in the files: the cells in use, and the file
\* that the next row goes to keeps its length but for one cell.
FilesKept ==
    /\ FilesType'
    /\ \A s \in DOMAIN files' : s <= TargetSeg
    /\ TargetSeg \in DOMAIN files' => Len(files'[TargetSeg]) \in TargetOff .. TargetOff + 1
    /\ \A s \in ackD'.cseg .. cp.qseg : s < TargetSeg => s \in DOMAIN files' /\ files'[s] = files[s]
    /\ TargetOff > 0 => /\ TargetSeg \in DOMAIN files'
                        /\ \A i \in 1 .. TargetOff : files'[TargetSeg][i] = files[TargetSeg][i]

LEMMA Frame ==
    ASSUME Base, Sound, FilesKept,
           ackD' = ackD \/ ackD' = ack, ack' = ack \/ (ack' = ackD /\ ackD' = ackD),
           cp'.qseg = cp.qseg, cp'.qoff = cp.qoff, cp' \in Checkpoints,
           UNCHANGED <<confirmed, abandoned>>
    PROVE  Layout' /\ Ordered' /\ Kept(ack)' /\ Kept(ackD)'
<1>0. ack \in AckRecs /\ ackD \in AckRecs /\ cp \in Checkpoints
  BY DEF Base, Types
<1>1. TargetSeg' = TargetSeg /\ TargetOff' = TargetOff /\ \A s : Used(cp', s) = Used(cp, s)
  BY DEF TargetSeg, TargetOff, Used
<1>2. \A a : Region(a, cp') = Region(a, cp)
  BY <1>1 DEF Region
<1>3. ackD.cseg <= ackD'.cseg /\ ackD'.cseg \in Nat /\ ackD.cseg \in Nat
  BY <1>0, RegionsNest DEF AckRecs
<1>4. ASSUME NEW s \in ackD'.cseg .. cp.qseg, NEW i \in 1 .. Used(cp, s)
      PROVE  files'[s][i] = files[s][i]
  <2>1. s \in ackD.cseg .. cp.qseg
    BY <1>0, <1>3 DEF Checkpoints
  <2>2. s < TargetSeg \/ (s = TargetSeg /\ i <= TargetOff /\ i \in Nat)
    BY <2>1, LiveCells
  <2>3. CASE s < TargetSeg
    BY <2>3 DEF FilesKept
  <2>4. CASE s = TargetSeg /\ i <= TargetOff /\ i \in Nat
    <3>1. i \in 1 .. TargetOff /\ TargetOff > 0
      BY <2>4, Target
    <3> QED BY <2>4, <3>1 DEF FilesKept
  <2> QED BY <2>2, <2>3, <2>4
<1>5. Layout'
  <2>1. \A s \in ackD'.cseg .. cp'.qseg : s < TargetSeg' =>
          s \in DOMAIN files' /\ Len(files'[s]) = SegRows
    <3>1. ASSUME NEW s \in ackD'.cseg .. cp.qseg, s < TargetSeg
          PROVE  s \in DOMAIN files' /\ Len(files'[s]) = SegRows
      <4>1. s \in ackD.cseg .. cp.qseg
        BY <1>0, <1>3 DEF Checkpoints
      <4> QED BY <3>1, <4>1 DEF FilesKept, Sound, Layout
    <3> QED BY <1>1, <3>1
  <2>2. \A s \in ackD'.cseg .. cp'.qseg : \A i \in 1 .. Used(cp', s) : IsRow(files'[s][i])
    <3>1. ASSUME NEW s \in ackD'.cseg .. cp.qseg, NEW i \in 1 .. Used(cp, s)
          PROVE  IsRow(files'[s][i])
      <4>1. s \in ackD.cseg .. cp.qseg
        BY <1>0, <1>3 DEF Checkpoints
      <4> QED BY <1>4, <4>1, LiveCells
    <3> QED BY <1>1, <3>1
  <2>3. /\ cp'.qoff <= SegRows /\ (cp'.qoff = 0 => cp'.qseg = 0)
        /\ \A s \in DOMAIN files' : s <= TargetSeg'
        /\ TargetSeg' \in DOMAIN files' => Len(files'[TargetSeg']) \in TargetOff' .. TargetOff' + 1
        /\ TargetOff' > 0 => TargetSeg' \in DOMAIN files'
    BY <1>1 DEF FilesKept, Sound, Layout
  <2> QED BY <2>1, <2>2, <2>3 DEF Layout
<1>6. /\ Region(ack', cp) \subseteq Region(ackD, cp) /\ Region(ackD', cp) \subseteq Region(ackD, cp)
  BY RegionsNest
<1>7. ASSUME NEW a \in {ack, ackD}, a.cseg >= ackD'.cseg, NEW p \in Region(a, cp)
      PROVE  CellAt(p)' = CellAt(p)
  <2>1. p \in Region(ackD, cp)
    BY RegionsNest
  <2>2. p[1] \in ackD.cseg .. cp.qseg /\ p[2] \in 1 .. Used(cp, p[1]) /\ p[1] \in Nat /\ p[2] \in Nat
          /\ p = <<p[1], p[2]>>
    BY <2>1, RegionCells
  <2>3. a.cseg <= p[1]
    BY <1>0, <2>2, InRegion
  <2>4. p[1] \in ackD'.cseg .. cp.qseg
    BY <1>0, <1>3, <1>7, <2>2, <2>3 DEF AckRecs
  <2> QED BY <1>4, <2>2, <2>4 DEF CellAt
<1>a. ack'.cseg >= ackD'.cseg
  BY <1>0, RegionsNest DEF AckRecs
<1>b. /\ \A p \in Region(ackD', cp) : CellAt(p)' = CellAt(p)
      /\ \A p \in Region(ack', cp) : CellAt(p)' = CellAt(p)
  BY <1>0, <1>3, <1>7, <1>a DEF AckRecs
<1>c. /\ \A p \in Region(ackD, cp) : CellAt(p) \in confirmed /\ CellAt(p).seq > ackD.acked
      /\ \A p \in Region(ack, cp) : CellAt(p).seq > ack.acked
      /\ \A p, q \in Region(ackD, cp) : Before(p, q) => Precedes(CellAt(p), CellAt(q))
  BY DEF Ordered, Sound
<1>8. Ordered'
  <2>1. \A p \in Region(ackD', cp') : CellAt(p)' \in confirmed' /\ CellAt(p)'.seq > ackD'.acked
    BY <1>2, <1>6, <1>b, <1>c
  <2>2. \A p \in Region(ack', cp') : CellAt(p)'.seq > ack'.acked
    BY <1>2, <1>6, <1>b, <1>c
  <2>3. \A p, q \in Region(ackD', cp') : Before(p, q) => Precedes(CellAt(p)', CellAt(q)')
    BY <1>2, <1>6, <1>b, <1>c
  <2> QED BY <2>1, <2>2, <2>3 DEF Ordered
<1>9. Kept(ack)' /\ Kept(ackD)'
  <2>1. ASSUME NEW a \in {ack', ackD'}, NEW r \in confirmed \ abandoned, r.seq > a.acked
        PROVE  \E p \in Region(a, cp') : CellAt(p)' = r
    <3>1. PICK p \in Region(a, cp) : CellAt(p) = r
      BY <2>1 DEF Kept, Sound
    <3> QED BY <1>2, <1>b, <3>1
  <2> QED BY <2>1 DEF Kept
<1> QED BY <1>5, <1>8, <1>9

\* A step that leaves the files alone.
LEMMA FilesUntouched ==
    ASSUME Base, Sound, UNCHANGED files, ackD' \in {ack, ackD}
    PROVE  FilesKept
<1>1. ackD.cseg <= ackD'.cseg /\ ackD'.cseg \in Nat /\ ackD.cseg \in Nat /\ cp.qseg \in Nat
  BY RegionsNest DEF Base, Types, AckRecs, Checkpoints
<1>2. \A s \in ackD'.cseg .. cp.qseg : s \in ackD.cseg .. cp.qseg
  BY <1>1
<1>3. FilesType'
  BY DEF Base, Types, FilesType
<1> QED BY <1>2, <1>3 DEF FilesKept, Sound, Layout

-----------------------------------------------------------------------------
(***************************************************************************)
(* Nothing is lost, as long as nothing is damaged.                         *)
(***************************************************************************)
\* The steps that leave the files, the backlog counter and the cursor in RAM.
Quiet ==
    \/ TakeSample \/ SamplesDone \/ NoAck \/ PushMoves \/ ServiceCheckpoint \/ PersistAck
    \/ SegmentOpenFails \/ TruncateFails \/ RecordWriteFailure \/ PersistFailFails
    \/ BootSweep

LEMMA SoundQuiet == ASSUME Base, Base', Sound, Quiet PROVE Sound'
<1> USE DEF Quiet, TakeSample, SamplesDone, NoAck, PushMoves, ServiceCheckpoint, PersistAck,
        SegmentOpenFails, TruncateFails, RecordWriteFailure, PersistFailFails, BootSweep, flash,
        ghosts
<1>1. /\ UNCHANGED <<files, ack, unacked, w, confirmed, abandoned>>
      /\ ackD' = ackD \/ (ackD' = ack /\ pc = "persistAck")
  OBVIOUS
<1>2. cp'.qseg = cp.qseg /\ cp'.qoff = cp.qoff /\ cp' \in Checkpoints
  BY DEF Base, Types, Checkpoints
<1>3. Layout' /\ Ordered' /\ Kept(ack)' /\ Kept(ackD)'
  BY <1>1, <1>2, FilesUntouched, Frame
<1>4. pc' \notin {"truncate", "write", "checkpoint"}
  OBVIOUS
<1>5. Appending'
  BY <1>4 DEF Appending
<1>6. Cursors'
  <2>1. /\ NotBeyond(ack, cp.qseg, cp.qoff)' /\ NotBeyond(ackD, ack.cseg, ack.coff)'
        /\ ack'.coff <= SegRows /\ ackD'.coff <= SegRows
    BY <1>1, <1>2 DEF NotBeyond, Sound, Cursors, Base, Types, AckRecs
  <2>2. (pc' # "persistAck" => ackD' = ack') /\ pc' # "persistAck"
    BY DEF Sound, Cursors
  <2>3. pc' = "remove" => \A s \in del' : s < ack'.cseg
    BY <1>1 DEF Sound, Cursors
  <2>4. pc' = "sweep" => \A s \in del' : s < ack'.cseg \/ s > cp'.qseg
    BY <1>1, <1>2 DEF kSubset, Candidates
  <2> QED BY <2>1, <2>2, <2>3, <2>4 DEF Cursors
<1>7. Region(ack', cp') = Region(ack, cp)
  BY <1>1, <1>2 DEF Region, Used
<1>8. Counted'
  BY <1>1, <1>7 DEF Counted, Sound
<1> QED BY <1>3, <1>5, <1>6, <1>8 DEF Sound

\* A step that is confined to the files and the handler's own state.
FilesOnly == UNCHANGED <<cp, cpD, ack, ackD, unacked, confirmed, abandoned>>

LEMMA SoundFiles ==
    ASSUME Base, Base', Sound, FilesKept, FilesOnly, Appending', pc \notin {"off", "sweep"},
           pc' \notin {"persistAck", "sweep"}, pc # "persistAck", del' \subseteq del,
           pc' = "remove" => pc = "remove"
    PROVE  Sound'
<1>1. Layout' /\ Ordered' /\ Kept(ack)' /\ Kept(ackD)'
  BY Frame DEF FilesOnly, Base, Types
<1>2. Cursors'
  BY DEF FilesOnly, Sound, Cursors, NotBeyond
<1>3. Counted'
  BY DEF FilesOnly, Sound, Counted
<1> QED BY <1>1, <1>2, <1>3 DEF Sound

LEMMA SoundSegmentOpen == ASSUME Base, Base', Sound, SegmentOpen PROVE Sound'
<1> DEFINE f == Content(TargetSeg)
           good == GoodOffset(f, TargetOff)
<1>0. FilesType /\ TargetSeg \in Nat /\ TargetOff \in Nat
  BY Target DEF Base, Types
<1>1. /\ FilesType' /\ DOMAIN files' = DOMAIN files \cup {TargetSeg}
      /\ \A s \in DOMAIN files : files'[s] = files[s]
      /\ TargetSeg \notin DOMAIN files => files'[TargetSeg] = <<>>
      /\ files'[TargetSeg] = f /\ f \in Seq(CellType)
  BY <1>0, FileOpened DEF SegmentOpen
<1>2. Len(f) \in TargetOff .. TargetOff + 1
  BY <1>0, <1>1 DEF Sound, Layout
<1>3. good = TargetOff
  BY <1>0, <1>1, <1>2, GoodOffsetType
<1> HIDE DEF f, good
<1>4. /\ w' = [seg |-> TargetSeg, off |-> TargetOff] /\ pc = "open"
      /\ pc' = IF Len(f) > TargetOff THEN "truncate" ELSE "write"
      /\ UNCHANGED <<cp, cpD, ack, ackD, unacked, failed, failedD, seq, boot, del, ghosts>>
  BY <1>3 DEF SegmentOpen, f, good
<1>5. TargetSeg' = TargetSeg /\ TargetOff' = TargetOff
  BY <1>4 DEF TargetSeg, TargetOff
<1>6. Appending'
  BY <1>0, <1>1, <1>2, <1>4, <1>5 DEF Appending
<1>7. FilesKept
  BY <1>0, <1>1, <1>2, <1>4 DEF FilesKept, Sound, Layout
<1> QED BY <1>4, <1>6, <1>7, SoundFiles DEF FilesOnly, ghosts

LEMMA SoundTruncateTail == ASSUME Base, Base', Sound, TruncateTail PROVE Sound'
<1>0. /\ FilesType /\ TargetSeg \in Nat /\ TargetOff \in Nat
      /\ w = [seg |-> TargetSeg, off |-> TargetOff] /\ w.seg = TargetSeg /\ w.off = TargetOff
      /\ TargetSeg \in DOMAIN files /\ Len(files[TargetSeg]) = TargetOff + 1
  BY Target DEF Base, Types, Handlers, Sound, Appending, TruncateTail
<1>1. /\ FilesType' /\ DOMAIN files' = DOMAIN files
      /\ Len(files'[TargetSeg]) = TargetOff
      /\ \A i \in 1 .. TargetOff : files'[TargetSeg][i] = files[TargetSeg][i]
      /\ \A s \in DOMAIN files : s # TargetSeg => files'[s] = files[s]
  <2>1. TargetOff \in 0 .. Len(files[TargetSeg])
    BY <1>0
  <2>2. files' = [files EXCEPT ![TargetSeg] = SubSeq(@, 1, TargetOff)]
    BY <1>0 DEF TruncateTail
  <2> QED BY <1>0, <2>1, <2>2, FileTruncated
<1>2. /\ pc = "truncate" /\ pc' = "write"
      /\ UNCHANGED <<cp, cpD, ack, ackD, unacked, failed, failedD, seq, boot, w, del, ghosts>>
  BY DEF TruncateTail
<1>3. TargetSeg' = TargetSeg /\ TargetOff' = TargetOff
  BY <1>2 DEF TargetSeg, TargetOff
<1>4. Appending'
  BY <1>0, <1>1, <1>2, <1>3 DEF Appending
<1>5. FilesKept
  BY <1>0, <1>1, <1>2 DEF FilesKept, Sound, Layout
<1> QED BY <1>2, <1>4, <1>5, SoundFiles DEF FilesOnly, ghosts

\* One more cell at the end of the active file, where the next row goes.
LEMMA CellWritten ==
    ASSUME Base, Sound, pc = "write", NEW c \in CellType, UNCHANGED ackD,
           files' = [files EXCEPT ![w.seg] = Append(@, c)]
    PROVE  /\ FilesKept /\ w = [seg |-> TargetSeg, off |-> TargetOff]
           /\ Len(files'[TargetSeg]) = TargetOff + 1 /\ files'[TargetSeg][TargetOff + 1] = c
<1>0. /\ FilesType /\ TargetSeg \in Nat /\ TargetOff \in Nat
      /\ w = [seg |-> TargetSeg, off |-> TargetOff] /\ w.seg = TargetSeg /\ w.off = TargetOff
      /\ TargetSeg \in DOMAIN files /\ Len(files[TargetSeg]) = TargetOff
  BY Target DEF Base, Types, Handlers, Sound, Appending
<1>1. /\ FilesType' /\ DOMAIN files' = DOMAIN files
      /\ Len(files'[TargetSeg]) = TargetOff + 1 /\ files'[TargetSeg][TargetOff + 1] = c
      /\ \A s \in DOMAIN files : \A i \in DOMAIN files[s] : files'[s][i] = files[s][i]
      /\ \A s \in DOMAIN files : s # TargetSeg => files'[s] = files[s]
  BY <1>0, FileAppended
<1>2. DOMAIN files[TargetSeg] = 1 .. TargetOff
  BY <1>0, FileCells
<1>3. FilesKept
  BY <1>0, <1>1, <1>2 DEF FilesKept, Sound, Layout
<1> QED BY <1>0, <1>1, <1>3

LEMMA SoundWriteRow == ASSUME Base, Base', Sound, WriteRow PROVE Sound'
<1>1. /\ pc = "write" /\ pc' = "checkpoint"
      /\ files' = [files EXCEPT ![w.seg] = Append(@, Row(boot, seq))]
      /\ UNCHANGED <<cp, cpD, ack, ackD, unacked, failed, failedD, seq, boot, w, del, ghosts>>
  BY DEF WriteRow
<1>2. Row(boot, seq) \in CellType
  BY <1>1, CellAppended
<1>3. /\ FilesKept /\ w = [seg |-> TargetSeg, off |-> TargetOff]
      /\ Len(files'[TargetSeg]) = TargetOff + 1 /\ files'[TargetSeg][TargetOff + 1] = Row(boot, seq)
  BY <1>1, <1>2, CellWritten
<1>4. TargetSeg' = TargetSeg /\ TargetOff' = TargetOff
  BY <1>1 DEF TargetSeg, TargetOff
<1>5. Appending'
  BY <1>1, <1>3, <1>4 DEF Appending
<1> QED BY <1>1, <1>3, <1>5, SoundFiles DEF FilesOnly, ghosts

LEMMA SoundWriteShort == ASSUME Base, Base', Sound, WriteShort PROVE Sound'
<1>1. /\ pc = "write" /\ pc' = "recordFailure"
      /\ UNCHANGED files \/ files' = [files EXCEPT ![w.seg] = Append(@, Part)]
      /\ UNCHANGED <<cp, cpD, ack, ackD, unacked, failed, failedD, seq, boot, w, del, ghosts>>
  BY DEF WriteShort
<1>2. FilesKept
  <2>1. Part \in CellType
    BY DEF CellType
  <2> QED BY <1>1, <2>1, CellWritten, FilesUntouched
<1>3. Appending'
  BY <1>1 DEF Appending
<1> QED BY <1>1, <1>2, <1>3, SoundFiles DEF FilesOnly, ghosts

\* A power cut: the cursor falls back to the one on flash.
LEMMA SoundCut ==
    ASSUME Base, Base', Sound, FilesKept, LoseRam
    PROVE  Sound'
<1>1. /\ pc' = "off" /\ cp' = cp /\ ack' = ackD /\ UNCHANGED <<ackD, confirmed, abandoned>>
      /\ del' = {}
  BY DEF LoseRam, ghosts, Base, Types
<1>2. Layout' /\ Ordered' /\ Kept(ack)' /\ Kept(ackD)'
  BY <1>1, Frame DEF Base, Types
<1>3. Appending' /\ Counted'
  BY <1>1 DEF Appending, Counted
<1>4. ackD.coff <= SegRows /\ NotBeyond(ackD, cp.qseg, cp.qoff) /\ NotBeyond(ackD, ackD.cseg, ackD.coff)
  BY DEF Sound, Cursors, NotBeyond, Base, Types, AckRecs, Checkpoints
<1>5. Cursors'
  BY <1>1, <1>4 DEF Cursors, NotBeyond
<1> QED BY <1>2, <1>3, <1>5 DEF Sound

LEMMA SoundPowerCut ==
    ASSUME Base, Base', Sound, PowerCut \/ TornFailureRecord PROVE Sound'
  BY SoundCut, FilesUntouched DEF PowerCut, TornFailureRecord, LoseRam

LEMMA SoundTornAppend == ASSUME Base, Base', Sound, TornAppend PROVE Sound'
<1>1. PICK c \in {Junk, Part} : files' = [files EXCEPT ![w.seg] = Append(@, c)]
  BY DEF TornAppend, Debris
<1>2. c \in CellType
  BY DEF CellType
<1>3. FilesKept
  BY <1>1, <1>2, CellWritten DEF TornAppend, LoseRam
<1> QED BY <1>3, SoundCut DEF TornAppend

\* Removing a segment that lies behind the cursor or beyond the writer.
LEMMA SegmentGone ==
    ASSUME Base, Sound, ackD = ack, UNCHANGED ackD, NEW t \in del, files' = WithoutFile(t),
           t < ack.cseg \/ t > cp.qseg
    PROVE  FilesKept
<1>0. FilesType /\ TargetSeg \in Nat /\ TargetOff \in Nat /\ cp.qseg \in Nat /\ ack.cseg \in Nat
        /\ t \in Nat
  BY Target DEF Base, Types, AckRecs
<1>1. /\ FilesType' /\ DOMAIN files' = DOMAIN files \ {t}
      /\ \A s \in DOMAIN files' : files'[s] = files[s]
  BY <1>0, FileRemoved
<1>2. \A s \in ackD.cseg .. cp.qseg : s # t
  BY <1>0
<1>3. TargetOff > 0 => TargetSeg # t
  BY <1>0, Target, RegionsNest DEF Sound, Layout
<1> QED BY <1>1, <1>2, <1>3 DEF FilesKept, Sound, Layout

LEMMA SoundRemoveSegment == ASSUME Base, Base', Sound, RemoveSegment PROVE Sound'
<1>1. /\ pc = "remove" /\ pc' \in {"top", "remove"} /\ files' = WithoutFile(Min(del))
      /\ del' = del \ {Min(del)}
      /\ UNCHANGED <<cp, cpD, ack, ackD, unacked, failed, failedD, seq, boot, w, ghosts>>
  BY DEF RemoveSegment
<1>2. Min(del) \in del
  BY <1>1, MinIsLeast DEF Base, Types, Handlers
<1>3. FilesKept
  BY <1>1, <1>2, SegmentGone DEF Sound, Cursors
<1>4. Appending'
  BY <1>1 DEF Appending
<1> QED BY <1>1, <1>3, <1>4, SoundFiles DEF FilesOnly, ghosts

LEMMA SoundSweepSegment == ASSUME Base, Base', Sound, NEW t \in del, SweepSegment(t) PROVE Sound'
<1>1. /\ pc = "sweep" /\ pc' = "sweep" /\ files' = WithoutFile(t) /\ del' = del \ {t}
      /\ UNCHANGED <<cp, cpD, ack, ackD, unacked, failed, failedD, seq, boot, w, ghosts>>
  BY DEF SweepSegment
<1>2. FilesKept
  BY <1>1, SegmentGone DEF Sound, Cursors
<1>3. Layout' /\ Ordered' /\ Kept(ack)' /\ Kept(ackD)'
  BY <1>1, <1>2, Frame DEF Base, Types, ghosts
<1>4. Appending' /\ Counted'
  BY <1>1 DEF Appending, Counted
<1>5. Cursors'
  BY <1>1 DEF Sound, Cursors, NotBeyond
<1> QED BY <1>3, <1>4, <1>5 DEF Sound

\* The checkpoint cannot have gone backwards: no segment is beyond the target.
LEMMA NotRegressed == ASSUME Base, Sound PROVE ~Regressed
<1> SUFFICES ASSUME Regressed PROVE FALSE
  OBVIOUS
<1>1. TargetSeg \in Nat /\ \A s \in DOMAIN files : s <= TargetSeg
  BY Target DEF Sound, Layout
<1>2. Max(DOMAIN files) \in DOMAIN files
  BY <1>1, MaxIsGreatest DEF Base, Types, FilesType, Regressed
<1>3. TargetSeg <= cp.qseg + 1
  BY Target DEF Sound, Layout
<1> QED BY <1>1, <1>2, <1>3, Target DEF Regressed, Base, Types, FilesType

\* With nothing damaged a reader's limits are the cells in use.
LEMMA ReaderExact ==
    ASSUME Base, Sound, NEW a \in {ack, ackD}, NEW s \in a.cseg .. cp.qseg, s \in DOMAIN files
    PROVE  /\ Limit(cp, s) = Used(cp, s) /\ From(a, cp, s) = Start(a, s) /\ End(cp, s) = Used(cp, s)
           /\ Start(a, s) \in Nat /\ Used(cp, s) \in Nat /\ Start(a, s) <= Used(cp, s) /\ s \in Nat
           /\ Used(cp, s) <= SegRows
<1>0. /\ a \in AckRecs /\ a.cseg \in Nat /\ a.coff \in Nat /\ cp.qseg \in Nat /\ cp.qoff \in Nat
      /\ ackD.cseg \in Nat /\ s \in Nat /\ SegRows \in Nat
  BY SizesArePositive DEF Base, Types, AckRecs, Checkpoints
<1>1. s \in ackD.cseg .. cp.qseg
  BY <1>0, RegionsNest DEF Base, Types, AckRecs
<1>2. /\ files[s] \in Seq(CellType) /\ Len(files[s]) \in Nat /\ DOMAIN files[s] = 1 .. Len(files[s])
      /\ Used(cp, s) \in Nat
  BY <1>0, FileCells DEF Base, Types, Used
<1>3. Limit(cp, s) = Used(cp, s)
  BY <1>0, <1>1, Target DEF Limit, Used, Sound, Layout
<1>4. a.cseg = s => a.coff <= Used(cp, s)
  BY <1>0 DEF Sound, Cursors, NotBeyond, Used, Base, Types, AckRecs
<1>5. From(a, cp, s) = Start(a, s)
  BY <1>0, <1>2, <1>3, <1>4, ReaderType DEF Start, Base
<1>6. Used(cp, s) <= Len(files[s])
  <2>1. CASE Used(cp, s) = 0
    BY <1>2, <2>1
  <2>2. CASE Used(cp, s) > 0
    <3>1. Used(cp, s) \in 1 .. Used(cp, s)
      BY <1>2, <2>2
    <3>2. Used(cp, s) \in DOMAIN files[s]
      BY <1>1, <3>1, LiveCells
    <3> QED BY <1>2, <3>2
  <2> QED BY <1>2, <2>1, <2>2
<1>7. Whole(files[s]) \in Nat /\ Used(cp, s) <= Whole(files[s])
  <2>1. CASE Used(cp, s) = Len(files[s]) /\ files[s] # <<>>
    <3>1. Len(files[s]) > 0 /\ Len(files[s]) \in 1 .. Used(cp, s)
      BY <1>2, <2>1
    <3>2. IsRow(files[s][Len(files[s])])
      BY <1>1, <3>1, LiveCells
    <3>3. Last(files[s]) # Part
      BY <3>2 DEF Last, IsRow, Part
    <3> QED BY <1>2, <2>1, <3>3 DEF Whole
  <2>2. CASE ~(Used(cp, s) = Len(files[s]) /\ files[s] # <<>>)
    <3>1. files[s] # <<>> => Len(files[s]) > 0
      BY <1>2
    <3> QED BY <1>2, <1>6, <2>2, <3>1 DEF Whole
  <2> QED BY <2>1, <2>2
<1>8. End(cp, s) = Used(cp, s)
  BY <1>2, <1>3, <1>7, MinOfTwo DEF End
<1>9. Start(a, s) \in Nat /\ Start(a, s) <= Used(cp, s) /\ Used(cp, s) <= SegRows
  BY <1>0, <1>2, <1>4 DEF Start, Used, Sound, Layout
<1> QED BY <1>0, <1>2, <1>3, <1>5, <1>8, <1>9

\* What can be read is what is in use from the cursor on.
LEMMA ReadableIsRegion ==
    ASSUME Base, Sound, NEW a \in {ack, ackD}
    PROVE  Readable(a, cp) = Region(a, cp)
<1>0. a \in AckRecs /\ cp \in Checkpoints /\ a.cseg \in Nat /\ cp.qseg \in Nat /\ ackD.cseg <= a.cseg
        /\ ackD.cseg \in Nat
  BY RegionsNest DEF Base, Types, AckRecs, Checkpoints
<1>1. ASSUME NEW p \in Readable(a, cp) PROVE p \in Region(a, cp)
  <2>1. PICK s \in Walk(a, cp) :
          p \in {s} \X {i \in From(a, cp, s) + 1 .. End(cp, s) : Unacked(a, files[s][i])}
    BY DEF Readable
  <2>2. s \in a.cseg .. cp.qseg /\ s \in DOMAIN files
    BY <1>0 DEF Walk
  <2>3. From(a, cp, s) = Start(a, s) /\ End(cp, s) = Used(cp, s)
    BY <2>2, ReaderExact
  <2>4. p \in {s} \X (Start(a, s) + 1 .. Used(cp, s))
    BY <2>1, <2>3
  <2> QED BY <2>2, <2>4 DEF Region
<1>2. ASSUME NEW p \in Region(a, cp) PROVE p \in Readable(a, cp)
  <2>1. p \in Region(ackD, cp)
    BY RegionsNest
  <2>2. /\ p = <<p[1], p[2]>> /\ p[1] \in Nat /\ p[2] \in Nat
        /\ p[1] \in DOMAIN files /\ p[2] \in 1 .. Used(cp, p[1]) /\ IsRow(CellAt(p))
        /\ p[1] < TargetSeg \/ (p[1] = TargetSeg /\ p[2] <= TargetOff)
    BY <2>1, RegionCells
  <2>3. a.cseg <= p[1] /\ p[1] <= cp.qseg /\ Start(a, p[1]) < p[2] /\ p[2] <= Used(cp, p[1])
    BY <1>0, <2>2, InRegion
  <2>4. p[1] \in Walk(a, cp)
    <3>1. ASSUME NEW t \in a.cseg .. p[1] PROVE t \in DOMAIN files
      <4>1. CASE t = p[1]
        BY <2>2, <4>1
      <4>2. CASE t # p[1]
        <5>1. t \in ackD.cseg .. cp.qseg /\ t < TargetSeg
          BY <1>0, <2>2, <2>3, <4>2, Target
        <5> QED BY <5>1 DEF Sound, Layout
      <4> QED BY <4>1, <4>2
    <3> QED BY <1>0, <2>2, <2>3, <3>1 DEF Walk
  <2>5. CellAt(p).seq > a.acked
    BY <2>1 DEF Sound, Ordered
  <2>6. Unacked(a, files[p[1]][p[2]])
    BY <2>2, <2>5 DEF Unacked, CellAt
  <2>7. p[2] \in From(a, cp, p[1]) + 1 .. End(cp, p[1])
    <3>1. p[1] \in a.cseg .. cp.qseg
      BY <1>0, <2>2, <2>3
    <3> QED BY <2>2, <2>3, <3>1, ReaderExact
  <2>8. p \in {p[1]} \X {i \in From(a, cp, p[1]) + 1 .. End(cp, p[1]) : Unacked(a, files[p[1]][i])}
    BY <2>2, <2>6, <2>7
  <2> QED BY <2>4, <2>8 DEF Readable
<1> QED BY <1>1, <1>2

LEMMA SoundBootDone == ASSUME Base, Base', Sound, BootDone PROVE Sound'
<1>1. /\ pc = "sweep" /\ pc' = "top" /\ del = {} /\ del' = {}
      /\ unacked' = Cardinality(Readable(ack, cp))
      /\ UNCHANGED <<files, cp, ack, ackD, confirmed, abandoned>>
  BY DEF BootDone, flash, ghosts
<1>2. Layout' /\ Ordered' /\ Kept(ack)' /\ Kept(ackD)'
  BY <1>1, FilesUntouched, Frame DEF Base, Types
<1>3. Appending' /\ Cursors'
  BY <1>1 DEF Appending, Sound, Cursors, NotBeyond
<1>4. Counted'
  BY <1>1, ReadableIsRegion DEF Counted
<1> QED BY <1>2, <1>3, <1>4 DEF Sound

\* reset_ack leaves nothing to be read.
LEMMA SoundResetAck ==
    ASSUME Base, Base', Sound, damage = {}, ResetAckToCurrentPosition PROVE Sound'
<1>1. /\ pc = "top" /\ pc' = "persistAck" /\ unacked' = 0
      /\ ack' = [acked |-> cp.seq, cseg |-> cp.qseg, coff |-> cp.qoff]
      /\ abandoned' = abandoned \cup Visible(ack, cp)
      /\ UNCHANGED <<files, cp, ackD, w, del, confirmed>>
  BY DEF ResetAckToCurrentPosition, flash
<1>2. /\ ack'.acked = cp.seq /\ ack'.cseg = cp.qseg /\ ack'.coff = cp.qoff
      /\ ack' \in AckRecs /\ cp \in Checkpoints /\ del = {} /\ ackD = ack
  BY <1>1 DEF Base, Types, Handlers, Sound, Cursors
<1>3. Region(ack', cp) = {}
  <2>1. ASSUME NEW p \in Region(ack', cp) PROVE FALSE
    <3>1. p = <<p[1], p[2]>> /\ p[1] \in Nat /\ p[2] \in Nat
      BY <1>2, InRegion
    <3>2. cp.qseg <= p[1] /\ p[1] <= cp.qseg /\ Start(ack', p[1]) < p[2] /\ p[2] <= Used(cp, p[1])
      BY <1>2, <3>1, InRegion
    <3> QED BY <1>2, <3>1, <3>2 DEF Start, Used, Checkpoints
  <2> QED BY <2>1
<1>4. Layout'
  BY <1>1 DEF Sound, Layout, TargetSeg, TargetOff, Used
<1>5. Appending' /\ Counted'
  BY <1>1, <1>3, FS_EmptySet DEF Appending, Counted
<1>6. Cursors'
  BY <1>1, <1>2 DEF Sound, Cursors, NotBeyond, Layout, Base, Types, Checkpoints
<1>7. Ordered'
  BY <1>1, <1>3 DEF Sound, Ordered, CellAt
<1>8. Kept(ackD)'
  BY <1>1 DEF Sound, Kept, CellAt
<1>9. Kept(ack)'
  <2>1. ASSUME NEW r \in confirmed', r \notin abandoned', r.seq > ack'.acked PROVE FALSE
    <3>1. r \in confirmed \ abandoned /\ r \in Rows
      BY <1>1, <2>1 DEF Base, Types
    <3>2. r.seq > ack.acked
      <4>1. r.seq \in Nat
        BY <3>1 DEF Rows, Row
      <4>2. ack.acked <= cp.seq
        BY DEF Base, Watermarks
      <4> QED BY <1>2, <2>1, <4>1, <4>2 DEF Base, Types, AckRecs, Checkpoints
    <3>3. PICK p \in Region(ack, cp) : CellAt(p) = r
      BY <3>1, <3>2 DEF Sound, Kept
    <3> QED BY <1>1, <2>1, <3>3, ReadableIsRegion DEF Visible
  <2> QED BY <2>1 DEF Kept
<1> QED BY <1>4, <1>5, <1>6, <1>7, <1>8, <1>9 DEF Sound

\* A confirmed row comes last in the region.
LEMMA RegionGrows ==
    ASSUME Base, Sound, NEW a \in {ack, ackD}, NEW c \in Checkpoints,
           c.qseg = TargetSeg, c.qoff = TargetOff + 1
    PROVE  /\ Region(a, c) = Region(a, cp) \cup {<<TargetSeg, TargetOff + 1>>}
           /\ <<TargetSeg, TargetOff + 1>> \notin Region(a, cp)
<1> DEFINE new == <<TargetSeg, TargetOff + 1>>
<1>0. /\ a \in AckRecs /\ cp \in Checkpoints /\ a.cseg \in Nat /\ a.coff \in Nat /\ a.cseg <= cp.qseg
      /\ cp.qseg \in Nat /\ cp.qoff \in Nat /\ SegRows \in Nat /\ cp.qoff <= SegRows
      /\ TargetSeg \in Nat /\ TargetOff \in Nat /\ TargetOff + 1 \in Nat
  <2>1. a \in AckRecs /\ ack \in AckRecs /\ ackD \in AckRecs /\ cp \in Checkpoints
    BY DEF Base, Types
  <2>2. a.cseg <= cp.qseg
    BY <2>1, RegionsNest DEF AckRecs, Checkpoints
  <2>3. cp.qoff <= SegRows
    BY DEF Sound, Layout
  <2>4. TargetSeg \in Nat /\ TargetOff \in Nat /\ cp.qseg \in Nat /\ cp.qoff \in Nat
    BY Target
  <2>5. a.cseg \in Nat /\ a.coff \in Nat
    BY <2>1 DEF AckRecs
  <2> QED BY <2>1, <2>2, <2>3, <2>4, <2>5, SizesArePositive
<1>1. \/ TargetSeg = cp.qseg /\ TargetOff = cp.qoff /\ cp.qoff < SegRows
      \/ TargetSeg = cp.qseg + 1 /\ TargetOff = 0 /\ cp.qoff = SegRows
  BY <1>0, Target
<1>2. a.cseg = TargetSeg => a.coff <= TargetOff
  BY <1>0, <1>1 DEF Sound, Cursors, NotBeyond, Base, Types, AckRecs
<1>3. ASSUME NEW s \in Nat, NEW i \in Nat
      PROVE  <<s, i>> \in Region(a, c) <=> <<s, i>> \in Region(a, cp) \/ <<s, i>> = new
  <2>1. <<s, i>> \in Region(a, c) <=>
          a.cseg <= s /\ s <= TargetSeg /\ Start(a, s) < i /\ i <= Used(c, s)
    BY <1>0, InRegion
  <2>2. <<s, i>> \in Region(a, cp) <=>
          a.cseg <= s /\ s <= cp.qseg /\ Start(a, s) < i /\ i <= Used(cp, s)
    BY <1>0, InRegion
  <2>3. <<s, i>> = new <=> s = TargetSeg /\ i = TargetOff + 1
    OBVIOUS
  <2> HIDE DEF new
  <2>4. CASE s = TargetSeg
    BY <1>0, <1>1, <1>2, <2>1, <2>2, <2>3, <2>4 DEF Start, Used
  <2>5. CASE s # TargetSeg
    BY <1>0, <1>1, <2>1, <2>2, <2>3, <2>5 DEF Used
  <2> QED BY <2>4, <2>5
<1>4. \A p \in Region(a, c) \cup Region(a, cp) \cup {new} :
         p = <<p[1], p[2]>> /\ p[1] \in Nat /\ p[2] \in Nat
  BY <1>0, InRegion
<1>5. new \notin Region(a, cp)
  BY <1>0, <1>1, InRegion DEF Used
<1> HIDE DEF new
<1>6. Region(a, c) = Region(a, cp) \cup {new}
  BY <1>3, <1>4
<1> QED BY <1>5, <1>6 DEF new

LEMMA SoundConfirmRow == ASSUME Base, Base', Sound, damage = {}, ConfirmRow PROVE Sound'
<1> DEFINE new == <<TargetSeg, TargetOff + 1>>
           row == Row(boot, seq)
<1>1. /\ pc = "checkpoint" /\ pc' = "service"
      /\ cp' = [cp EXCEPT !.qseg = w.seg, !.qoff = w.off + 1]
      /\ unacked' = unacked + 1 /\ confirmed' = confirmed \cup {row}
      /\ UNCHANGED <<files, ack, ackD, del, abandoned>>
  BY DEF ConfirmRow
<1>2. /\ TargetSeg \in Nat /\ TargetOff \in Nat /\ cp.qseg \in Nat /\ cp.qoff \in Nat
      /\ cp.qoff <= SegRows /\ SegRows \in Nat /\ SegRows > 0
      /\ ack \in AckRecs /\ ackD \in AckRecs /\ cp \in Checkpoints /\ cp' \in Checkpoints
      /\ ackD.cseg \in Nat /\ ack.cseg \in Nat /\ ackD.cseg <= ack.cseg /\ ack.cseg <= cp.qseg
  <2>1. ack \in AckRecs /\ ackD \in AckRecs /\ cp \in Checkpoints /\ cp' \in Checkpoints
    BY DEF Base, Types
  <2>2. ackD.cseg \in Nat /\ ack.cseg \in Nat
    BY <2>1 DEF AckRecs
  <2>3. cp.qoff <= SegRows
    BY DEF Sound, Layout
  <2> QED BY <2>1, <2>2, <2>3, Target, RegionsNest, SizesArePositive
<1>3. \/ TargetSeg = cp.qseg /\ TargetOff = cp.qoff /\ cp.qoff < SegRows
      \/ TargetSeg = cp.qseg + 1 /\ TargetOff = 0 /\ cp.qoff = SegRows
  BY <1>2, Target
<1>4. /\ w.seg = TargetSeg /\ w.off = TargetOff
      /\ TargetSeg \in DOMAIN files /\ Len(files[TargetSeg]) = TargetOff + 1
      /\ files[TargetSeg][TargetOff + 1] = row
  BY <1>1 DEF Sound, Appending, Base, Handlers
<1>5. cp'.qseg = TargetSeg /\ cp'.qoff = TargetOff + 1
  BY <1>1, <1>2, <1>4 DEF Checkpoints
<1>6. row \in Rows /\ row.seq = seq /\ row.boot = boot /\ seq = cp.seq + 1 /\ IsRow(row)
  BY <1>1, NewRow DEF Base, Types, Handlers, Watermarks, AppendPcs
<1> HIDE DEF row
<1>7. Layout'
  <2>1. /\ TargetSeg' = IF TargetOff + 1 >= SegRows THEN TargetSeg + 1 ELSE TargetSeg
        /\ TargetOff' = IF TargetOff + 1 >= SegRows THEN 0 ELSE TargetOff + 1
    BY <1>5 DEF TargetSeg, TargetOff
  <2>2. /\ cp'.qoff <= SegRows /\ cp'.qoff # 0
        /\ \A s \in DOMAIN files' : s <= TargetSeg'
    <3>1. \A s \in DOMAIN files : s \in Nat /\ s <= TargetSeg
      BY DEF Sound, Layout, Base, Types, FilesType
    <3> QED BY <1>1, <1>2, <1>3, <1>5, <2>1, <3>1
  <2>3. /\ TargetSeg' \in DOMAIN files' => Len(files'[TargetSeg']) \in TargetOff' .. TargetOff' + 1
        /\ TargetOff' > 0 => TargetSeg' \in DOMAIN files'
    <3>1. CASE TargetOff + 1 >= SegRows
      <4>1. TargetSeg + 1 \notin DOMAIN files
        BY <1>2 DEF Sound, Layout
      <4> QED BY <1>1, <2>1, <3>1, <4>1
    <3>2. CASE ~(TargetOff + 1 >= SegRows)
      BY <1>1, <1>2, <1>4, <2>1, <3>2
    <3> QED BY <3>1, <3>2
  <2>4. ASSUME NEW s \in ackD.cseg .. TargetSeg, s < TargetSeg'
        PROVE  s \in DOMAIN files /\ Len(files[s]) = SegRows
    <3>1. CASE s = TargetSeg
      BY <1>2, <1>3, <1>4, <2>1, <2>4, <3>1
    <3>2. CASE s # TargetSeg
      <4>1. s \in ackD.cseg .. cp.qseg /\ s < TargetSeg
        BY <1>2, <1>3, <3>2
      <4> QED BY <4>1 DEF Sound, Layout
    <3> QED BY <3>1, <3>2
  <2>5. ASSUME NEW s \in ackD.cseg .. TargetSeg, NEW i \in 1 .. Used(cp', s)
        PROVE  IsRow(files[s][i])
    <3>0. s \in Nat /\ i \in Nat /\ i >= 1 /\ i <= Used(cp', s)
      BY <1>2, <1>5 DEF Used
    <3>1. CASE s = TargetSeg /\ i = TargetOff + 1
      BY <1>4, <1>6, <3>1
    <3>2. CASE s = TargetSeg /\ i # TargetOff + 1
      <4>1. s \in ackD.cseg .. cp.qseg /\ i \in 1 .. Used(cp, s)
        BY <1>2, <1>3, <1>5, <3>0, <3>2 DEF Used
      <4> QED BY <4>1, LiveCells
    <3>3. CASE s # TargetSeg
      <4>1. s \in ackD.cseg .. cp.qseg /\ i \in 1 .. Used(cp, s)
        BY <1>2, <1>3, <1>5, <3>0, <3>3 DEF Used
      <4> QED BY <4>1, LiveCells
    <3> QED BY <3>1, <3>2, <3>3
  <2> QED BY <1>1, <1>5, <2>2, <2>3, <2>4, <2>5 DEF Layout
<1>8. /\ Region(ack', cp') = Region(ack, cp) \cup {new} /\ new \notin Region(ack, cp)
      /\ Region(ackD', cp') = Region(ackD, cp) \cup {new} /\ new \notin Region(ackD, cp)
  BY <1>1, <1>2, <1>5, RegionGrows
<1>9. Counted'
  <2>1. IsFiniteSet(Region(ack, cp)) /\ Cardinality(Region(ack, cp)) \in Nat
    BY <1>2, RegionFinite
  <2>2. Cardinality(Region(ack, cp) \cup {new}) = Cardinality(Region(ack, cp)) + 1
    BY <1>8, <2>1, FS_AddElement
  <2> QED BY <1>1, <1>8, <2>2 DEF Counted, Sound
<1>10. \A p : CellAt(p)' = CellAt(p)
  BY <1>1 DEF CellAt
<1>11. CellAt(new) = row
  BY <1>4 DEF CellAt
<1>12. Ordered'
  <2>1. ack.acked < row.seq /\ ackD.acked < row.seq
    BY <1>2, <1>6 DEF Base, Watermarks, AckRecs, Checkpoints
  <2>2. ASSUME NEW p \in Region(ackD, cp)
        PROVE  Precedes(CellAt(p), row) /\ ~Before(new, p)
    <3>1. CellAt(p) \in confirmed /\ CellAt(p) \in Rows
      BY RegionCells DEF Sound, Ordered
    <3>2. /\ CellAt(p).seq <= cp.seq + 1 /\ CellAt(p).boot <= boot
          /\ CellAt(p).seq = cp.seq + 1 => CellAt(p).boot < boot
      BY <1>1, <3>1 DEF Base, RowSeqs, ConfirmedSeqs
    <3>3. CellAt(p) # row
      BY <1>6, <3>2 DEF Base, Types
    <3>4. Precedes(CellAt(p), row)
      BY <1>6, <3>2, <3>3 DEF Precedes
    <3>5. p \in Nat \X Nat /\ (p[1] < TargetSeg \/ (p[1] = TargetSeg /\ p[2] <= TargetOff))
      BY RegionCells
    <3> QED BY <1>2, <3>4, <3>5 DEF Before
  <2>3. ~Before(new, new)
    BY <1>2 DEF Before
  <2>4. \A p \in Region(ackD, cp) \cup {new} : CellAt(p) \in confirmed \cup {row} /\ CellAt(p).seq > ackD.acked
    BY <1>2, <1>6, <1>11, <2>1 DEF Sound, Ordered, AckRecs, Base, Types
  <2>5. \A p \in Region(ack, cp) \cup {new} : CellAt(p).seq > ack.acked
    BY <1>2, <1>6, <1>11, <2>1 DEF Sound, Ordered, AckRecs, Base, Types
  <2>6. \A p, q \in Region(ackD, cp) \cup {new} : Before(p, q) => Precedes(CellAt(p), CellAt(q))
    <3> HIDE DEF new
    <3> QED BY <1>11, <2>2, <2>3 DEF Sound, Ordered
  <2> HIDE DEF new
  <2> QED BY <1>1, <1>8, <1>10, <2>4, <2>5, <2>6 DEF Ordered
<1>13. Kept(ack)' /\ Kept(ackD)'
  <2> HIDE DEF new
  <2>1. ASSUME NEW a \in {ack, ackD}, NEW r \in confirmed', r \notin abandoned, r.seq > a.acked
        PROVE  \E p \in Region(a, cp) \cup {new} : CellAt(p) = r
    BY <1>1, <1>11, <2>1 DEF Sound, Kept
  <2> QED BY <1>1, <1>8, <1>10, <2>1 DEF Kept
<1>14. Cursors'
  BY <1>1, <1>2, <1>3, <1>5 DEF Sound, Cursors, NotBeyond, AckRecs
<1>15. Appending'
  BY <1>1 DEF Appending
<1> QED BY <1>7, <1>9, <1>12, <1>13, <1>14, <1>15 DEF Sound

\* ackThrough() passes acknowledged cells of the region, stops in a segment of
\* it, and stops there at the first cell that is not acknowledged.
Passed(n) ==
    UNION {{s} \X (From(ack, cp, s) + 1 .. StopIn(n, s)) :
              s \in {t \in ack.cseg .. StopSeg(n) : t <= cp.qseg /\ t \in DOMAIN files}}

LEMMA StopsInside ==
    ASSUME Base, Sound, NEW n \in Nat
    PROVE  LET stop == StopSeg(n)
               off == StopOff(n, stop)
           IN  /\ stop \in Nat /\ off \in Nat /\ ack.cseg <= stop /\ stop <= cp.qseg
               /\ Start(ack, stop) <= off /\ off <= Used(cp, stop) /\ off <= SegRows
               /\ \A s \in ack.cseg .. cp.qseg : s <= stop => \A i \in Nat :
                     <<s, i>> \in Passed(n) <=>
                        Start(ack, s) < i /\ i <= (IF s = stop THEN off ELSE Used(cp, s))
               /\ stop < cp.qseg => off < Used(cp, stop)
               /\ off < Used(cp, stop) => ~Consumable(n, files[stop][off + 1])
<1> DEFINE stop == StopSeg(n)
           off == StopOff(n, stop)
<1>0. /\ Types /\ ack \in AckRecs /\ cp \in Checkpoints /\ ack.cseg \in Nat /\ ack.coff \in Nat
      /\ cp.qseg \in Nat /\ cp.qoff \in Nat /\ ack.cseg <= cp.qseg /\ SegRows \in Nat
      /\ ackD.cseg \in Nat /\ ackD.cseg <= ack.cseg
  <2>1. Types /\ ack \in AckRecs /\ ackD \in AckRecs /\ cp \in Checkpoints
    BY DEF Base, Types
  <2> QED BY <2>1, RegionsNest, SizesArePositive DEF AckRecs, Checkpoints
<1>1. /\ stop \in Nat /\ stop >= ack.cseg /\ stop <= cp.qseg
      /\ \A s \in ack.cseg .. stop - 1 : s \in DOMAIN files /\ UsedUp(n, s)
      /\ stop \in DOMAIN files => ~UsedUp(n, stop)
  BY <1>0, StopSegType
<1> HIDE DEF stop
<1>2. ASSUME NEW s \in ack.cseg .. cp.qseg, s \in DOMAIN files
      PROVE  /\ StopIn(n, s) \in Nat /\ Start(ack, s) \in Nat /\ Used(cp, s) \in Nat
             /\ Start(ack, s) <= StopIn(n, s) /\ StopIn(n, s) <= Used(cp, s) /\ Used(cp, s) <= SegRows
             /\ From(ack, cp, s) = Start(ack, s) /\ Limit(cp, s) = Used(cp, s)
             /\ StopIn(n, s) < Used(cp, s) => ~Consumable(n, files[s][StopIn(n, s) + 1])
  BY <1>0, <1>2, ReaderExact, StopInType
<1>3. stop \notin DOMAIN files => stop = cp.qseg /\ Used(cp, stop) = 0 /\ stop = ack.cseg /\ ack.coff = 0
  <2> SUFFICES ASSUME stop \notin DOMAIN files
               PROVE  stop = cp.qseg /\ Used(cp, stop) = 0 /\ stop = ack.cseg /\ ack.coff = 0
    OBVIOUS
  <2>1. stop \in ackD.cseg .. cp.qseg
    BY <1>0, <1>1
  <2>2. ~(stop < TargetSeg)
    BY <2>1 DEF Sound, Layout
  <2>3. stop = cp.qseg /\ TargetSeg = cp.qseg /\ TargetOff = cp.qoff
    BY <1>0, <1>1, <2>2, Target DEF Sound, Layout
  <2>4. cp.qoff = 0 /\ cp.qseg = 0
    BY <1>0, <2>3 DEF Sound, Layout
  <2> QED BY <1>0, <1>1, <2>3, <2>4 DEF Used, Sound, Cursors, NotBeyond
<1>4. /\ stop \in DOMAIN files => off = StopIn(n, stop)
      /\ stop \notin DOMAIN files => off = 0
  <2>1. CASE stop \in DOMAIN files
    BY <1>1, <2>1 DEF StopOff
  <2>2. CASE stop \notin DOMAIN files
    BY <1>3, <2>2 DEF StopOff
  <2> QED BY <2>1, <2>2
<1> HIDE DEF off
<1>5. /\ off \in Nat /\ Start(ack, stop) <= off /\ off <= Used(cp, stop) /\ off <= SegRows
      /\ stop < cp.qseg => off < Used(cp, stop)
      /\ off < Used(cp, stop) => ~Consumable(n, files[stop][off + 1])
  <2>1. CASE stop \in DOMAIN files
    <3>1. stop \in ack.cseg .. cp.qseg
      BY <1>0, <1>1
    <3>2. ~(stop < cp.qseg /\ StopIn(n, stop) >= Limit(cp, stop))
      BY <1>1, <2>1 DEF UsedUp
    <3> QED BY <1>0, <1>1, <1>2, <1>4, <2>1, <3>1, <3>2
  <2>2. CASE stop \notin DOMAIN files
    BY <1>0, <1>3, <1>4, <2>2 DEF Start
  <2> QED BY <2>1, <2>2
<1>6. ASSUME NEW s \in ack.cseg .. cp.qseg, s <= stop, NEW i \in Nat
      PROVE  <<s, i>> \in Passed(n) <=>
                Start(ack, s) < i /\ i <= (IF s = stop THEN off ELSE Used(cp, s))
  <2>0. s \in Nat
    BY <1>0
  <2>1. CASE s \in DOMAIN files
    <3>1. s \in ack.cseg .. stop /\ s <= cp.qseg
      BY <1>0, <1>1, <1>6
    <3>2. <<s, i>> \in Passed(n) <=> i \in From(ack, cp, s) + 1 .. StopIn(n, s)
      BY <2>1, <3>1 DEF Passed, stop
    <3>3. s < stop => StopIn(n, s) = Used(cp, s)
      <4>1. s < stop => StopIn(n, s) >= Limit(cp, s)
        BY <1>0, <1>1, <2>0 DEF UsedUp
      <4> QED BY <1>2, <2>1, <4>1
    <3> QED BY <1>1, <1>2, <1>4, <1>6, <2>0, <2>1, <3>2, <3>3
  <2>2. CASE s \notin DOMAIN files
    <3>1. s = stop
      BY <1>0, <1>1, <1>6, <2>0, <2>2
    <3>2. <<s, i>> \notin Passed(n)
      BY <2>2 DEF Passed
    <3> QED BY <1>3, <1>4, <2>2, <3>1, <3>2 DEF Start
  <2> QED BY <2>1, <2>2
<1> QED BY <1>1, <1>5, <1>6 DEF stop, off

\* The new cursor splits the region into what was passed and what remains.
LEMMA PassedSplits ==
    ASSUME Base, Sound, NEW n \in 0 .. MaxSeq, NEW a \in AckRecs,
           a = [acked |-> n, cseg |-> StopSeg(n), coff |-> StopOff(n, StopSeg(n))]
    PROVE  /\ Region(ack, cp) = Passed(n) \cup Region(a, cp)
           /\ Passed(n) \cap Region(a, cp) = {}
           /\ \A p \in Region(a, cp) : CellAt(p).seq > n
           /\ \A p \in Passed(n) : CellAt(p).seq <= n
<1> DEFINE stop == StopSeg(n)
           off == StopOff(n, stop)
<1>0. /\ Types /\ ack \in AckRecs /\ cp \in Checkpoints /\ n \in Nat /\ ack.cseg \in Nat
      /\ cp.qseg \in Nat
  BY SizesArePositive DEF Base, Types, AckRecs, Checkpoints
<1>1. /\ stop \in Nat /\ off \in Nat /\ ack.cseg <= stop /\ stop <= cp.qseg
      /\ Start(ack, stop) <= off /\ off <= Used(cp, stop) /\ off <= SegRows
      /\ \A s \in ack.cseg .. cp.qseg : s <= stop => \A i \in Nat :
            <<s, i>> \in Passed(n) <=>
               Start(ack, s) < i /\ i <= (IF s = stop THEN off ELSE Used(cp, s))
      /\ stop < cp.qseg => off < Used(cp, stop)
      /\ off < Used(cp, stop) => ~Consumable(n, files[stop][off + 1])
  BY <1>0, StopsInside
<1>2. a.cseg = stop /\ a.coff = off
  OBVIOUS
<1> HIDE DEF stop, off
<1>3. \A p \in Passed(n) : /\ p = <<p[1], p[2]>> /\ p[1] \in Nat /\ p[2] \in Nat
                           /\ p[1] \in ack.cseg .. cp.qseg /\ p[1] <= stop
                           /\ p[1] \in DOMAIN files
                           /\ p[2] \in From(ack, cp, p[1]) + 1 .. StopIn(n, p[1])
  <2>1. ASSUME NEW p \in Passed(n)
        PROVE  /\ p = <<p[1], p[2]>> /\ p[1] \in Nat /\ p[2] \in Nat
               /\ p[1] \in ack.cseg .. cp.qseg /\ p[1] <= stop /\ p[1] \in DOMAIN files
               /\ p[2] \in From(ack, cp, p[1]) + 1 .. StopIn(n, p[1])
    <3>1. PICK s \in {t \in ack.cseg .. stop : t <= cp.qseg /\ t \in DOMAIN files} :
            p \in {s} \X (From(ack, cp, s) + 1 .. StopIn(n, s))
      BY DEF Passed, stop
    <3>2. s \in Nat /\ s \in DOMAIN files /\ s \in ack.cseg .. cp.qseg /\ s <= stop
      BY <1>0, <1>1, <3>1
    <3>3. From(ack, cp, s) \in Nat /\ StopIn(n, s) \in Nat
      BY <1>0, <3>2, ReaderType, StopInType
    <3> QED BY <3>1, <3>2, <3>3
  <2> QED BY <2>1
<1>4. \A p \in Region(ack, cp) \cup Region(a, cp) : p = <<p[1], p[2]>> /\ p[1] \in Nat /\ p[2] \in Nat
  BY <1>0, InRegion
<1>5. ASSUME NEW s \in Nat, NEW i \in Nat
      PROVE  /\ <<s, i>> \in Region(ack, cp) <=> <<s, i>> \in Passed(n) \/ <<s, i>> \in Region(a, cp)
             /\ ~(<<s, i>> \in Passed(n) /\ <<s, i>> \in Region(a, cp))
  <2>1. <<s, i>> \in Region(ack, cp) <=>
          ack.cseg <= s /\ s <= cp.qseg /\ Start(ack, s) < i /\ i <= Used(cp, s)
    BY <1>0, InRegion
  <2>2. <<s, i>> \in Region(a, cp) <=>
          stop <= s /\ s <= cp.qseg /\ Start(a, s) < i /\ i <= Used(cp, s)
    BY <1>0, <1>2, InRegion
  <2>3. Start(ack, s) \in Nat /\ Used(cp, s) \in Nat /\ Start(a, s) = IF s = stop THEN off ELSE 0
    BY <1>0, <1>2, SizesArePositive DEF Start, Used, AckRecs, Checkpoints
  <2>4. CASE ack.cseg <= s /\ s <= stop
    <3>1. s \in ack.cseg .. cp.qseg
      BY <1>0, <1>1, <2>4
    <3>2. <<s, i>> \in Passed(n) <=>
            Start(ack, s) < i /\ i <= (IF s = stop THEN off ELSE Used(cp, s))
      BY <1>1, <2>4, <3>1
    <3> QED BY <1>0, <1>1, <2>1, <2>2, <2>3, <2>4, <3>2
  <2>5. CASE ~(ack.cseg <= s /\ s <= stop)
    <3>1. <<s, i>> \notin Passed(n)
      BY <1>0, <1>3, <2>5
    <3>2. s > stop => Start(ack, s) = 0
      BY <1>0, <1>1 DEF Start
    <3> QED BY <1>0, <1>1, <2>1, <2>2, <2>3, <2>5, <3>1, <3>2
  <2> QED BY <2>4, <2>5
<1>6. /\ Region(ack, cp) = Passed(n) \cup Region(a, cp)
      /\ Passed(n) \cap Region(a, cp) = {}
  BY <1>3, <1>4, <1>5
<1>7. \A p \in Region(ack, cp) : /\ CellAt(p) \in Rows /\ IsRow(CellAt(p)) /\ CellAt(p).seq \in Nat
                                 /\ p \in Region(ackD, cp) /\ p \in Nat \X Nat
  <2>1. \A r \in Rows : r.seq \in Nat
    BY DEF Rows, Row
  <2> QED BY <2>1, RegionsNest, RegionCells
<1>8. ASSUME NEW p \in Passed(n) PROVE CellAt(p).seq <= n
  <2>1. Consumable(n, files[p[1]][p[2]])
    BY <1>0, <1>3, StopInType
  <2> QED BY <1>6, <1>7, <2>1 DEF Consumable, CellAt
<1>9. ASSUME NEW p \in Region(a, cp) PROVE CellAt(p).seq > n
  <2> DEFINE first == <<stop, off + 1>>
  <2>0. p = <<p[1], p[2]>> /\ p[1] \in Nat /\ p[2] \in Nat
    BY <1>4
  <2>1. stop <= p[1] /\ p[1] <= cp.qseg /\ Start(a, p[1]) < p[2] /\ p[2] <= Used(cp, p[1])
    BY <1>0, <1>2, <2>0, InRegion
  <2>2. off < Used(cp, stop)
    <3>1. Used(cp, stop) \in Nat
      BY <1>0, SizesArePositive DEF Used, Checkpoints
    <3>2. CASE p[1] = stop
      BY <1>1, <1>2, <2>0, <2>1, <3>1, <3>2 DEF Start
    <3>3. CASE p[1] # stop
      BY <1>0, <1>1, <2>0, <2>1, <3>3
    <3> QED BY <3>2, <3>3
  <2>3. first \in Region(a, cp)
    BY <1>0, <1>1, <1>2, <2>2, InRegion, SizesArePositive DEF Start, Used, Checkpoints
  <2>4. ~Consumable(n, CellAt(first))
    BY <1>1, <2>2 DEF CellAt
  <2>5. p = first \/ Before(first, p)
    BY <1>1, <1>2, <2>0, <2>1 DEF Before, Start
  <2> HIDE DEF first
  <2>6. CellAt(first).seq > n
    BY <1>0, <1>6, <1>7, <2>3, <2>4 DEF Consumable
  <2>7. Before(first, p) => CellAt(first).seq <= CellAt(p).seq
    BY <1>6, <1>7, <2>3 DEF Sound, Ordered, Precedes
  <2>8. CellAt(first).seq \in Nat /\ CellAt(p).seq \in Nat
    BY <1>6, <1>7, <2>3
  <2> QED BY <1>0, <2>5, <2>6, <2>7, <2>8
<1> QED BY <1>6, <1>8, <1>9

LEMMA SoundAnswered ==
    ASSUME Base, Base', Sound, damage = {}, NEW n \in 0 .. MaxSeq, Answered(n)
    PROVE  Sound'
<1>0. /\ ack \in AckRecs /\ ackD \in AckRecs /\ cp \in Checkpoints /\ ack' \in AckRecs /\ n \in Nat
      /\ ack.cseg \in Nat /\ cp.qseg \in Nat /\ ack.acked \in Nat /\ SegRows \in Nat
  BY SizesArePositive DEF Base, Types, AckRecs, Checkpoints
<1>1. CASE n <= ack.acked
  <2>1. /\ pc \in {"net", "post"} /\ pc' = "top"
        /\ UNCHANGED <<flash, cp, ack, unacked, w, del, ghosts>>
    BY <1>1 DEF Answered, AckThrough
  <2>2. Layout' /\ Ordered' /\ Kept(ack)' /\ Kept(ackD)'
    BY <1>0, <2>1, FilesUntouched, Frame DEF flash, ghosts
  <2>3. Appending' /\ Cursors' /\ Counted'
    BY <2>1 DEF Appending, Sound, Cursors, NotBeyond, Counted, flash
  <2> QED BY <2>2, <2>3 DEF Sound
<1>2. CASE ~(n <= ack.acked)
  <2> DEFINE stop == StopSeg(n)
             off == StopOff(n, stop)
             used == Consumed(n, stop)
  <2>1. /\ pc \in {"net", "post"} /\ pc' = "persistAck"
        /\ ack' = [acked |-> n, cseg |-> stop, coff |-> off]
        /\ unacked' = IF used <= unacked THEN unacked - used ELSE 0
        /\ del' = {s \in ack.cseg .. stop : s < stop}
        /\ UNCHANGED <<files, cp, ackD, w, confirmed, abandoned>>
    BY <1>2 DEF Answered, AckThrough, flash, ghosts
  <2>2. /\ Region(ack, cp) = Passed(n) \cup Region(ack', cp)
        /\ Passed(n) \cap Region(ack', cp) = {}
        /\ \A p \in Region(ack', cp) : CellAt(p).seq > n
        /\ \A p \in Passed(n) : CellAt(p).seq <= n
    BY <1>0, <2>1, PassedSplits
  <2>3. /\ stop \in Nat /\ off \in Nat /\ ack.cseg <= stop /\ stop <= cp.qseg
        /\ Start(ack, stop) <= off /\ off <= Used(cp, stop) /\ off <= SegRows
    BY <1>0, StopsInside
  <2>4. used = Cardinality(Passed(n))
    BY DEF Consumed, Passed
  <2> HIDE DEF stop, off, used
  <2>5. Layout'
    BY <2>1 DEF Sound, Layout, TargetSeg, TargetOff, Used
  <2>6. Appending'
    BY <2>1 DEF Appending
  <2>7. Cursors'
    <3>1. ack'.cseg = stop /\ ack'.coff = off /\ ackD = ack
      BY <2>1 DEF Sound, Cursors
    <3>2. NotBeyond(ack', cp.qseg, cp.qoff)
      BY <1>0, <2>3, <3>1 DEF NotBeyond, Used
    <3>3. NotBeyond(ackD, ack'.cseg, ack'.coff)
      BY <1>0, <2>3, <3>1 DEF NotBeyond, Start
    <3> QED BY <2>1, <2>3, <3>1, <3>2, <3>3 DEF Sound, Cursors, NotBeyond
  <2>8. Counted'
    <3>1. IsFiniteSet(Region(ack, cp)) /\ IsFiniteSet(Region(ack', cp)) /\ IsFiniteSet(Passed(n))
      BY <1>0, <2>2, RegionFinite, FS_Subset
    <3>2. Cardinality(Region(ack, cp)) = Cardinality(Passed(n)) + Cardinality(Region(ack', cp))
      <4>1. Cardinality({}) = 0
        BY FS_EmptySet
      <4>2. Cardinality(Passed(n) \cup Region(ack', cp)) =
              Cardinality(Passed(n)) + Cardinality(Region(ack', cp))
                - Cardinality(Passed(n) \cap Region(ack', cp))
        BY <3>1, FS_Union
      <4>3. Cardinality(Passed(n)) \in Nat /\ Cardinality(Region(ack', cp)) \in Nat
        BY <3>1, FS_CardinalityType
      <4>4. /\ Cardinality(Region(ack, cp)) = Cardinality(Passed(n) \cup Region(ack', cp))
            /\ Cardinality(Passed(n) \cap Region(ack', cp)) = Cardinality({})
        BY <2>2
      <4> QED BY <4>1, <4>2, <4>3, <4>4
    <3>3. Cardinality(Passed(n)) \in Nat /\ Cardinality(Region(ack', cp)) \in Nat
      BY <3>1, FS_CardinalityType
    <3>4. unacked = Cardinality(Region(ack, cp))
      BY <2>1 DEF Sound, Counted
    <3> QED BY <2>1, <2>4, <3>2, <3>3, <3>4 DEF Counted
  <2>9. Ordered'
    <3>1. \A p : CellAt(p)' = CellAt(p)
      BY <2>1 DEF CellAt
    <3> QED BY <2>1, <2>2, <3>1 DEF Sound, Ordered
  <2>10. Kept(ackD)'
    BY <2>1 DEF Sound, Kept, CellAt
  <2>11. Kept(ack)'
    <3>1. ASSUME NEW r \in confirmed \ abandoned, r.seq > n
          PROVE  \E p \in Region(ack', cp) : CellAt(p) = r
      <4>1. r.seq \in Nat
        BY DEF Base, Types, Rows, Row
      <4>2. PICK p \in Region(ack, cp) : CellAt(p) = r
        BY <1>0, <1>2, <3>1, <4>1 DEF Sound, Kept
      <4> QED BY <1>0, <2>2, <3>1, <4>1, <4>2
    <3> QED BY <2>1, <3>1 DEF Kept, CellAt
  <2> QED BY <2>5, <2>6, <2>7, <2>8, <2>9, <2>10, <2>11 DEF Sound
<1> QED BY <1>1, <1>2

LEMMA SoundStep == ASSUME Base, Base', Sound, damage = {}, damage' = {}, QNext PROVE Sound'
<1>1. ~BootAdopt
  BY NotRegressed DEF BootAdopt
<1>2. ~(CheckpointLost \/ PersistAckFails \/ RecoverRemove \/ RecoverPositions)
  BY DEF CheckpointLost, PersistAckFails, RecoverRemove, RecoverPositions, Damaged, Base, Handlers
<1> QED
  BY <1>1, <1>2, SoundQuiet, SoundSegmentOpen, SoundTruncateTail, SoundWriteRow, SoundConfirmRow,
     SoundRemoveSegment, SoundPowerCut, SoundTornAppend, SoundSweepSegment, SoundBootDone,
     SoundWriteShort, SoundResetAck, SoundAnswered
  DEF QNext, DeviceNext, AppendStep, AckStep, BootStep, AppendFault, Quiet

\* Damage is never undone.
LEMMA DamageStays == ASSUME QNext, damage' = {} PROVE damage = {}
<1> USE DEF ghosts
<1>1. CASE DeviceNext
  BY <1>1 DEF DeviceNext, AppendStep, AckStep, BootStep, TakeSample, SegmentOpen, TruncateTail,
     WriteRow, ConfirmRow, SamplesDone, ServiceCheckpoint, NoAck, PersistAck, RemoveSegment,
     PowerCut, TornAppend, LoseRam, BootAdopt, BootSweep, BootDone, SweepSegment
<1>2. CASE ~DeviceNext
  BY <1>2 DEF QNext, AppendFault, SegmentOpenFails, TruncateFails, WriteShort, RecordWriteFailure,
     PersistFailFails, TornFailureRecord, LoseRam, CheckpointLost, PersistAckFails, RecoverRemove, RecoverPositions, Damaged,
     ResetAckToCurrentPosition, Answered, AckThrough, PushMoves
<1> QED BY <1>1, <1>2

LEMMA QueueStep == ASSUME QInv, QNext \/ UNCHANGED vars PROVE QInv'
<1>1. CASE QNext
  BY <1>1, BaseStep, FailRecordStep, SoundStep, DamageStays DEF QInv, Intact
<1>2. CASE UNCHANGED vars
  <2>1. Base' /\ FailRecord'
    BY <1>2, BaseStutters DEF QInv, FailRecord, vars
  <2>2. Intact'
    BY <1>2 DEF vars, QInv, Intact, Sound, Layout, Appending, Cursors, Ordered, Kept, Counted,
       CellAt, TargetSeg, TargetOff
  <2> QED BY <2>1, <2>2 DEF QInv
<1> QED BY <1>1, <1>2

LEMMA QueueInit == ASSUME Init PROVE QInv
<1>1. Base /\ FailRecord
  BY BaseInit DEF Init, FailRecord, FailSlots, LoadFail
<1>2. Region(ack, cp) = {} /\ Region(ackD, cp) = {}
  <2>1. ack \in AckRecs /\ ackD = ack /\ cp \in Checkpoints /\ ack.coff = 0 /\ cp.qoff = 0 /\ cp.qseg = 0
          /\ ack.cseg = 0
    BY <1>1 DEF Init, Base, Types
  <2>2. ASSUME NEW p \in Region(ack, cp) PROVE FALSE
    <3>1. p = <<p[1], p[2]>> /\ p[1] \in Nat /\ p[2] \in Nat
      BY <2>1, InRegion
    <3>2. p[1] <= 0 /\ Start(ack, p[1]) < p[2] /\ p[2] <= Used(cp, p[1])
      BY <2>1, <3>1, InRegion
    <3> QED BY <2>1, <3>1, <3>2 DEF Start, Used
  <2> QED BY <2>1, <2>2
<1>3. TargetSeg = 0 /\ TargetOff = 0
  BY SizesArePositive DEF Init, TargetSeg, TargetOff
<1>4. Layout /\ Appending /\ Cursors
  BY <1>3, SizesArePositive DEF Init, Layout, Appending, Cursors, NotBeyond, Used
<1>5. Ordered /\ Kept(ack) /\ Kept(ackD) /\ Counted
  BY <1>2, FS_EmptySet DEF Init, Ordered, Kept, Counted
<1> QED BY <1>1, <1>4, <1>5 DEF QInv, Intact, Sound

-----------------------------------------------------------------------------
(***************************************************************************)
(* The queue on its own.                                                   *)
(***************************************************************************)
\* Whatever the server answers, the device acknowledges a row that it sent.
LEMMA PendingSeqs ==
    ASSUME Base, pc = "net", NEW r \in Range(Pending)
    PROVE  r \in Rows /\ r \in Visible(ack, cp) /\ (damage # {"checkpoint"} => r.seq <= cp.seq)
<1>1. PICK k \in DOMAIN Pending : r = Pending[k]
  BY DEF Range
<1>2. Nth(Readable(ack, cp), k) \in Readable(ack, cp) /\ r = CellAt(Nth(Readable(ack, cp), k))
  <2>1. k \in 1 .. Len(Pending)
    BY <1>1, PendingRows DEF Base
  <2> QED BY <1>1, <2>1, PendingRows DEF Base
<1> DEFINE p == Nth(Readable(ack, cp), k)
<1>3. /\ p[1] \in DOMAIN files /\ p[2] \in DOMAIN files[p[1]] /\ CellAt(p) \in Rows
      /\ r \in Visible(ack, cp)
  BY <1>2, ReadableCells DEF Base, Types, Visible
<1>4. IsRow(CellAt(p))
  BY <1>3 DEF Rows, Row, IsRow
<1> QED BY <1>2, <1>3, <1>4 DEF Base, RowSeqs, FileSeqs, CellAt

LEMMA BoundedAnswer ==
    ASSUME NEW b \in Seq(Rows), b # <<>>, NEW n \in Nat
    PROVE  /\ BoundAckSeq(n, b) \in 0 .. MaxSeq /\ BoundAckSeq(n, b) <= n
           /\ BoundAckSeq(n, b) <= Last(b).seq /\ Last(b) \in Range(b)
<1>1. Last(b) \in Rows /\ Last(b) \in Range(b)
  BY LastOfRows DEF Range
<1>2. Last(b).seq \in 0 .. MaxSeq
  BY <1>1, SizesArePositive DEF Rows, Row
<1> HIDE DEF Last
<1> QED BY <1>1, <1>2, MinOfTwo, SizesArePositive DEF BoundAckSeq

LEMMA PushIsAnswered ==
    ASSUME Base, NEW n \in 0 .. MaxSeq + 1, PushAcked(n)
    PROVE  \E m \in 0 .. MaxSeq : Answered(m)
<1>1. /\ pc = "net" /\ Pending # <<>> /\ Pending \in Seq(Rows) /\ n \in Nat
      /\ AckThrough(BoundAckSeq(n, Pending))
  BY PendingRows, SizesArePositive DEF PushAcked, Base
<1>2. /\ BoundAckSeq(n, Pending) \in 0 .. MaxSeq /\ BoundAckSeq(n, Pending) <= Last(Pending).seq
      /\ Last(Pending) \in Range(Pending)
  BY <1>1, BoundedAnswer
<1>3. Last(Pending) \in Rows /\ (damage # {"checkpoint"} => Last(Pending).seq <= cp.seq)
  BY <1>1, <1>2, PendingSeqs
<1>4. Last(Pending).seq \in Nat /\ cp.seq \in Nat
  BY <1>3, SizesArePositive DEF Rows, Row, Base, Types, Checkpoints
<1>5. damage # {"checkpoint"} => BoundAckSeq(n, Pending) <= cp.seq
  BY <1>2, <1>3, <1>4, SizesArePositive
<1> QED BY <1>1, <1>2, <1>5 DEF Answered

\* The inductive invariant: it holds initially and every step of the queue,
\* power cuts, failing appends and damage included, preserves it.
THEOREM QueueInvariant == Spec => []QInv
<1>1. Init => QInv
  BY QueueInit
<1>2. QInv /\ [Next]_vars => QInv'
  <2> SUFFICES ASSUME QInv, [Next]_vars PROVE QInv'
    OBVIOUS
  <2>1. QNext \/ UNCHANGED vars
    BY PushIsAnswered DEF Next, QNext, QInv
  <2> QED BY <2>1, QueueStep
<1> QED BY <1>1, <1>2, PTL DEF Spec

LEMMA WatermarksGive == ASSUME QInv PROVE NewRowsDeliverable
  BY DEF QInv, Base, Types, Watermarks, NewRowsDeliverable, NewRowsAboveAck, AppendPcs, AckRecs, Checkpoints

\* A row is never written under a seq that the ack watermark covers already,
\* unless the checkpoint was lost.
THEOREM NewRowsDeliverableAlways == Spec => []NewRowsDeliverable
  BY QueueInvariant, WatermarksGive, PTL

LEMMA LossesGive == ASSUME QInv PROVE LostSamplesCounted
<1>1. Lost = {s \in 1 .. cpD.seq : \A r \in confirmed : r.seq # s}
  BY DEF Lost, IsLost, QInv, Base, Types
<1> QED BY <1>1 DEF QInv, Base, Losses, LostSamplesCounted

\* Every committed seq without a row is covered by the failure counter, also after
\* a cut that tore its record: only a cut after a failed write of it makes it forget.
THEOREM LostSamplesCountedAlways == Spec => []LostSamplesCounted
  BY QueueInvariant, LossesGive, PTL

LEMMA SoundGives == ASSUME QInv PROVE NoLoss /\ Fifo /\ BacklogExact /\ CursorBehindWriter
<1> SUFFICES ASSUME damage = {} PROVE NoLoss /\ Fifo /\ BacklogExact /\ CursorBehindWriter
  BY DEF NoLoss, Fifo, BacklogExact, CursorBehindWriter
<1>1. Base /\ Sound /\ cpD = cp
  BY DEF QInv, Intact, Base, Types
<1>2. Readable(ack, cp) = Region(ack, cp) /\ Readable(ackD, cp) = Region(ackD, cp)
  BY <1>1, ReadableIsRegion
<1>3. NoLoss
  BY <1>1, <1>2 DEF NoLoss, OwedIsReadable, Owed, Visible, Sound, Kept
<1>4. Fifo
  BY <1>1, <1>2 DEF Fifo, Sound, Ordered, Precedes
<1>5. BacklogExact
  BY <1>1, <1>2 DEF BacklogExact, Sound, Counted
<1>6. CursorBehindWriter
  BY <1>1 DEF CursorBehindWriter, Sound, Cursors, NotBeyond, Base, Types, AckRecs, Checkpoints
<1> QED BY <1>3, <1>4, <1>5, <1>6

\* What is owed to the server is what the next boot would send, at every
\* instant: no interleaving of appends, acks, removals and cuts loses a row.
THEOREM NoLossAlways == Spec => []NoLoss
<1>1. QInv => NoLoss
  BY SoundGives
<1> QED BY <1>1, QueueInvariant, PTL

\* What can be sent is in the order in which it was built, without repetition.
THEOREM FifoAlways == Spec => []Fifo
<1>1. QInv => Fifo
  BY SoundGives
<1> QED BY <1>1, QueueInvariant, PTL

\* The maintained backlog counter equals a full scan.
THEOREM BacklogExactAlways == Spec => []BacklogExact
<1>1. QInv => BacklogExact
  BY SoundGives
<1> QED BY <1>1, QueueInvariant, PTL

\* The read cursor on flash never passes the write position on flash.
THEOREM CursorBehindWriterAlways == Spec => []CursorBehindWriter
<1>1. QInv => CursorBehindWriter
  BY SoundGives
<1> QED BY <1>1, QueueInvariant, PTL

-----------------------------------------------------------------------------
(***************************************************************************)
(* The pipeline: the queue, the pushes under way and the server.           *)
(***************************************************************************)
\* Every confirmed row that was built earlier under the seq of a row of the
\* batch is in the batch, before it.
Earliest(b) ==
    \A i \in DOMAIN b : \A r \in confirmed :
        r.seq = b[i].seq /\ r.boot < b[i].boot => \E j \in DOMAIN b : j < i /\ b[j] = r

Genuine(b) == b \in Seq(Rows) /\ Range(b) \subseteq confirmed /\ Earliest(b)

\* The push in progress and the requests that were given up.
Pushes ==
    /\ post \in [phase : {"idle", "sent", "stored", "answered"}, batch : Seq(Rows)]
    /\ (pc = "post") <=> (post.phase # "idle")
    /\ pc = "post" => post.batch # <<>> /\ \A r \in Range(post.batch) : r.seq <= cp.seq
    /\ Genuine(post.batch) /\ \A b \in late : Genuine(b)

\* The tables: stored rows were confirmed, and none was built before them.
Tables ==
    \A s \in DOMAIN records :
        /\ records[s] \in confirmed
        /\ \A r \in confirmed \ Refused : r.seq = s => records[s].boot <= r.boot

\* The watermarks: the server's answer and the device's two cursors.
Acks ==
    /\ answer \in Nat /\ 1 .. answer \subseteq R!Resolved
    /\ 1 .. ack.acked \subseteq R!Resolved /\ 1 .. ackD.acked \subseteq R!Resolved

PInv == QInv /\ damage = {} /\ abandoned = {} /\ Pushes /\ Tables /\ Acks

-----------------------------------------------------------------------------
\* A place ahead of the k-th is the j-th for some j before k.
LEMMA NthPrefix ==
    ASSUME NEW P, P \subseteq Nat \X Nat, IsFiniteSet(P), NEW k \in 1 .. Cardinality(P),
           NEW q \in P, Before(q, Nth(P, k))
    PROVE  \E j \in 1 .. k - 1 : Nth(P, j) = q
<1> DEFINE Ahead(p) == {x \in P : Before(x, p)}
           n == Cardinality(Ahead(q))
<1>0. Cardinality(P) \in Nat /\ k \in Nat
  BY FS_CardinalityType
<1>1. ASSUME NEW x \in P, NEW y \in P, Before(x, y)
      PROVE  /\ Cardinality(Ahead(x)) \in Nat /\ Cardinality(Ahead(y)) \in Nat
             /\ Cardinality(Ahead(x)) < Cardinality(Ahead(y))
  <2>1. IsFiniteSet(Ahead(x)) /\ IsFiniteSet(Ahead(y))
    BY FS_Subset
  <2>2. x \notin Ahead(x) /\ Ahead(x) \cup {x} \subseteq Ahead(y)
    BY <1>1, BeforeOrders
  <2> HIDE DEF Ahead
  <2>3. Cardinality(Ahead(x) \cup {x}) = Cardinality(Ahead(x)) + 1
    BY <2>1, <2>2, FS_AddElement
  <2>4. Cardinality(Ahead(x) \cup {x}) <= Cardinality(Ahead(y))
    BY <2>1, <2>2, FS_Subset
  <2>5. Cardinality(Ahead(x)) \in Nat /\ Cardinality(Ahead(y)) \in Nat
    BY <2>1, FS_CardinalityType
  <2> QED BY <2>3, <2>4, <2>5
<1>2. Nth(P, k) \in P /\ Cardinality(Ahead(Nth(P, k))) = k - 1
  BY NthExists
<1>3. n \in Nat /\ n < k - 1
  BY <1>1, <1>2
<1>4. PICK m \in 1 .. k - 1 : m \in 1 .. Cardinality(P) /\ m - 1 = n
  <2> HIDE DEF n
  <2>1. n + 1 \in 1 .. k - 1 /\ n + 1 \in 1 .. Cardinality(P) /\ (n + 1) - 1 = n
    BY <1>0, <1>3
  <2> QED BY <2>1
<1>5. Nth(P, m) \in P /\ Cardinality(Ahead(Nth(P, m))) = m - 1
  BY <1>4, NthExists
<1>6. Nth(P, m) = q
  <2> DEFINE x == Nth(P, m)
  <2>1. x \in P /\ Cardinality(Ahead(x)) = n
    BY <1>4, <1>5
  <2> HIDE DEF x, Ahead
  <2>2. ~Before(x, q) /\ ~Before(q, x)
    BY <1>1, <1>3, <2>1
  <2>3. x = q
    BY <2>1, <2>2, BeforeOrders
  <2> QED BY <2>3 DEF x
<1> QED BY <1>4, <1>6

\* A batch is genuine when it is taken from the queue.
LEMMA PendingGenuine ==
    ASSUME PInv, pc = "net"
    PROVE  Genuine(Pending) /\ \A r \in Range(Pending) : r.seq <= cp.seq
<1>0. Base /\ Sound /\ Types /\ damage = {} /\ abandoned = {}
  BY DEF PInv, QInv, Intact, Base
<1> DEFINE P == Readable(ack, cp)
<1>1. P = Region(ack, cp) /\ P \subseteq Region(ackD, cp)
  BY <1>0, ReadableIsRegion, RegionsNest
<1>2. IsFiniteSet(P) /\ P \subseteq Nat \X Nat /\ Cardinality(P) \in Nat
  BY <1>0, ReadableFinite, ReadableCells DEF Types
<1>3. /\ Pending \in Seq(Rows) /\ Len(Pending) \in Nat /\ Len(Pending) <= Cardinality(P)
      /\ DOMAIN Pending = 1 .. Len(Pending)
      /\ \A k \in 1 .. Len(Pending) : Nth(P, k) \in P /\ Pending[k] = CellAt(Nth(P, k))
  <2>1. Len(Pending) = Min({BatchMax, Cardinality(P)}) /\ Pending \in Seq(Rows)
    BY <1>0, PendingRows
  <2>2. Len(Pending) \in Nat /\ Len(Pending) <= Cardinality(P)
    BY <1>2, <2>1, MinOfTwo, SizesArePositive
  <2>3. DOMAIN Pending = 1 .. Len(Pending)
    BY <2>1
  <2>4. \A k \in 1 .. Len(Pending) : Nth(P, k) \in P /\ Pending[k] = CellAt(Nth(P, k))
    BY <1>0, PendingRows
  <2> QED BY <2>1, <2>2, <2>3, <2>4
<1> HIDE DEF P
<1>4. ASSUME NEW r \in Range(Pending) PROVE r \in confirmed /\ r.seq <= cp.seq
  <2>1. PICK k \in 1 .. Len(Pending) : r = CellAt(Nth(P, k)) /\ Nth(P, k) \in P
    BY <1>3 DEF Range
  <2>2. r \in confirmed
    BY <1>0, <1>1, <2>1 DEF Sound, Ordered
  <2> QED BY <1>0, <2>2, PendingSeqs
<1>5. ASSUME NEW i \in DOMAIN Pending, NEW r \in confirmed,
             r.seq = Pending[i].seq, r.boot < Pending[i].boot
      PROVE  \E j \in DOMAIN Pending : j < i /\ Pending[j] = r
  <2> DEFINE p == Nth(P, i)
  <2>1. p \in P /\ Pending[i] = CellAt(p) /\ i \in 1 .. Cardinality(P) /\ i \in Nat
    BY <1>2, <1>3
  <2>2. CellAt(p).seq > ack.acked /\ p \in Region(ackD, cp)
    BY <1>0, <1>1, <2>1 DEF Sound, Ordered
  <2>3. PICK q \in P : CellAt(q) = r
    BY <1>0, <1>1, <1>5, <2>1, <2>2 DEF Sound, Kept
  <2>4. r \in Rows /\ CellAt(p) \in Rows
    BY <1>0, <2>2, RegionCells DEF Types
  <2>5. r.boot \in Nat /\ CellAt(p).boot \in Nat
    BY <2>4 DEF Rows, Row
  <2>6. p # q /\ ~Before(p, q)
    BY <1>0, <1>1, <1>5, <2>1, <2>2, <2>3, <2>5 DEF Sound, Ordered, Precedes
  <2>7. Before(q, p)
    BY <1>2, <2>1, <2>3, <2>6, BeforeOrders
  <2>8. PICK j \in 1 .. i - 1 : Nth(P, j) = q
    BY <1>2, <2>1, <2>3, <2>7, NthPrefix
  <2>9. j \in 1 .. Len(Pending) /\ j < i
    BY <1>3, <2>1, <2>8
  <2> QED BY <1>3, <2>3, <2>8, <2>9
<1> QED BY <1>3, <1>4, <1>5 DEF Genuine, Earliest

\* A commit keeps what is resolved and stored, and what it adds is the first
\* accepted row of the batch with its seq.
LEMMA StoreAdds ==
    ASSUME NEW b \in Seq(Rows), R!StoreBatch(b)
    PROVE  /\ R!Resolved \subseteq (R!Resolved)' /\ answer' = answer
           /\ \A s \in DOMAIN records : s \in DOMAIN records' /\ records'[s] = records[s]
           /\ \A s \in DOMAIN records' \ DOMAIN records : \E i \in DOMAIN b :
                 /\ b[i] \notin Refused /\ b[i].seq = s /\ records'[s] = b[i]
                 /\ \A j \in DOMAIN b : b[j] \notin Refused /\ b[j].seq = s => i <= j
<1>1. /\ records' = R!Insert(b) /\ quarantined' = R!Quarantine(b) /\ answer' = answer
  BY DEF R!StoreBatch, R!Store
<1>2. /\ DOMAIN records' = DOMAIN records \cup R!SeqsAt(b, R!Accepted(b))
      /\ \A s \in DOMAIN records' :
            records'[s] = IF s \in DOMAIN records THEN records[s] ELSE R!FirstWith(b, s)
  BY <1>1 DEF R!Insert
<1>3. quarantined \subseteq quarantined'
  BY <1>1 DEF R!Quarantine
<1>4. ASSUME NEW s \in DOMAIN records' \ DOMAIN records
      PROVE  \E i \in DOMAIN b :
                /\ b[i] \notin Refused /\ b[i].seq = s /\ records'[s] = b[i]
                /\ \A j \in DOMAIN b : b[j] \notin Refused /\ b[j].seq = s => i <= j
  <2> DEFINE I == {i \in R!Accepted(b) : b[i].seq = s}
  <2>1. I \subseteq Nat /\ I # {}
    BY <1>2 DEF R!SeqsAt, R!Accepted
  <2>2. PICK i \in I : \A j \in I : i <= j
    BY <2>1, LeastNatural
  <2>3. \E k \in R!Accepted(b) :
          b[k].seq = s /\ \A j \in R!Accepted(b) : b[j].seq = s => k <= j
    BY <2>2
  <2> DEFINE k == CHOOSE k \in R!Accepted(b) :
                     b[k].seq = s /\ \A j \in R!Accepted(b) : b[j].seq = s => k <= j
  <2>4. k \in R!Accepted(b) /\ b[k].seq = s /\ \A j \in R!Accepted(b) : b[j].seq = s => k <= j
    BY <2>3
  <2>5. records'[s] = b[k]
    BY <1>2 DEF R!FirstWith
  <2> HIDE DEF k
  <2> QED BY <2>4, <2>5 DEF R!Accepted
<1> QED BY <1>1, <1>2, <1>3, <1>4 DEF R!Resolved

\* A genuine batch leaves in the tables what was built first.
LEMMA StoreKeeps ==
    ASSUME PInv, NEW b, Genuine(b), R!StoreBatch(b), UNCHANGED <<ack, ackD, confirmed>>
    PROVE  Tables' /\ Acks'
<1>1. b \in Seq(Rows) /\ Range(b) \subseteq confirmed /\ Earliest(b)
  BY DEF Genuine
<1>2. /\ R!Resolved \subseteq (R!Resolved)' /\ answer' = answer
      /\ \A s \in DOMAIN records : s \in DOMAIN records' /\ records'[s] = records[s]
      /\ \A s \in DOMAIN records' \ DOMAIN records : \E i \in DOMAIN b :
            /\ b[i] \notin Refused /\ b[i].seq = s /\ records'[s] = b[i]
            /\ \A j \in DOMAIN b : b[j] \notin Refused /\ b[j].seq = s => i <= j
  BY <1>1, StoreAdds
<1>3. Acks'
  BY <1>2 DEF Acks, PInv
<1>4. \A r \in confirmed : r \in Rows /\ r.boot \in Nat
  BY DEF PInv, QInv, Base, Types, Rows, Row
<1>5. ASSUME NEW s \in DOMAIN records'
      PROVE  /\ records'[s] \in confirmed
             /\ \A r \in confirmed \ Refused : r.seq = s => records'[s].boot <= r.boot
  <2>1. CASE s \in DOMAIN records
    BY <1>2, <2>1 DEF PInv, Tables
  <2>2. CASE s \notin DOMAIN records
    <3>1. PICK i \in DOMAIN b :
            /\ b[i] \notin Refused /\ b[i].seq = s /\ records'[s] = b[i]
            /\ \A j \in DOMAIN b : b[j] \notin Refused /\ b[j].seq = s => i <= j
      BY <1>2, <2>2
    <3>2. b[i] \in confirmed /\ b[i].boot \in Nat /\ i \in Nat
      BY <1>1, <1>4 DEF Range
    <3>3. ASSUME NEW r \in confirmed \ Refused, r.seq = s PROVE b[i].boot <= r.boot
      <4>1. CASE r.boot < b[i].boot
        <5>1. PICK j \in DOMAIN b : j < i /\ b[j] = r
          BY <1>1, <3>1, <3>3, <4>1 DEF Earliest
        <5>2. i <= j /\ j \in Nat
          BY <1>1, <3>1, <3>3, <5>1
        <5> QED BY <3>2, <5>1, <5>2
      <4> QED BY <1>4, <3>2, <4>1
    <3> QED BY <3>1, <3>2, <3>3
  <2> QED BY <2>1, <2>2
<1> QED BY <1>3, <1>5 DEF Tables

\* A row that is newly confirmed was built last.
LEMMA ConfirmKeeps ==
    ASSUME PInv, ConfirmRow
    PROVE  /\ \A b : Genuine(b) => Genuine(b)'
           /\ UNCHANGED records => Tables'
<1> DEFINE row == Row(boot, seq)
<1>1. confirmed' = confirmed \cup {row}
  BY DEF ConfirmRow
<1>2. row.boot = boot /\ boot \in Nat
  BY NewRow DEF ConfirmRow, PInv, QInv, Base, Types, Handlers, AppendPcs
<1>3. \A r \in confirmed : r.boot \in Nat /\ r.boot <= boot
  BY DEF PInv, QInv, Base, Types, RowSeqs, ConfirmedSeqs, Rows, Row
<1> HIDE DEF row
<1>4. ASSUME NEW b, Genuine(b) PROVE Genuine(b)'
  <2>1. Range(b) \subseteq confirmed /\ Earliest(b) /\ b \in Seq(Rows)
    BY <1>4 DEF Genuine
  <2>2. \A i \in DOMAIN b : b[i].boot \in Nat /\ b[i].boot <= boot
    BY <1>3, <2>1 DEF Range
  <2>3. ASSUME NEW i \in DOMAIN b, NEW r \in confirmed', r.seq = b[i].seq, r.boot < b[i].boot
        PROVE  \E j \in DOMAIN b : j < i /\ b[j] = r
    <3>1. r # row
      BY <1>2, <2>2, <2>3
    <3> QED BY <1>1, <2>1, <2>3, <3>1 DEF Earliest
  <2>4. Range(b) \subseteq confirmed'
    BY <1>1, <2>1
  <2> QED BY <2>1, <2>3, <2>4 DEF Genuine, Earliest
<1>5. UNCHANGED records => Tables'
  BY <1>1, <1>2, <1>3 DEF PInv, Tables
<1> QED BY <1>4, <1>5

\* The steps of the device that concern neither a push nor the server.
DeviceAlone == DeviceStep \/ AppendFails \/ PowerCut \/ TornAppend \/ TornFailureRecord

LEMMA DeviceFacts ==
    ASSUME QInv, DeviceAlone
    PROVE  /\ QNext /\ UNCHANGED <<abandoned, damage>>
           /\ UNCHANGED confirmed \/ ConfirmRow
           /\ ack' \in {ack, ackD} /\ ackD' \in {ack, ackD}
           /\ pc' # "post" /\ (DeviceStep \/ AppendFails => pc # "post")
<1> USE DEF DeviceAlone, DeviceStep, AppendFails
<1>1. QNext
  BY DEF QNext, DeviceNext, AppendStep, AckStep, BootStep, AppendFault
<1> USE DEF TakeSample, SamplesDone, SegmentOpen, TruncateTail, WriteRow, ServiceCheckpoint, NoAck,
     PersistAck, RemoveSegment, BootSweep, BootDone, SweepSegment, RecordWriteFailure,
     SegmentOpenFails, TruncateFails, WriteShort, PersistFailFails, PowerCut, TornAppend,
     TornFailureRecord, LoseRam, flash, ghosts
<1>2. UNCHANGED <<abandoned, damage>> /\ (UNCHANGED confirmed \/ ConfirmRow)
  BY DEF ConfirmRow
<1>3. ack' \in {ack, ackD} /\ ackD' \in {ack, ackD}
  BY DEF ConfirmRow
<1>4. pc' # "post" /\ (DeviceStep \/ AppendFails => pc # "post")
  BY DEF ConfirmRow
<1> QED BY <1>1, <1>2, <1>3, <1>4

LEMMA IdleGenuine == Genuine(<<>>)
  BY DEF Genuine, Earliest, Range

\* The push that was in progress is over; nothing new is under way.
LEMMA PushOver ==
    ASSUME PInv, post' = Idle, pc' # "post", \A b : Genuine(b) => Genuine(b)',
           \A b \in late' : b \in late \/ b = post.batch
    PROVE  Pushes'
<1>1. post'.phase = "idle" /\ post'.batch = <<>>
        /\ post' \in [phase : {"idle", "sent", "stored", "answered"}, batch : Seq(Rows)]
  BY DEF Idle
<1>2. Genuine(<<>>)'
  BY IdleGenuine
<1>3. \A b \in late' : Genuine(b)'
  BY DEF PInv, Pushes
<1> QED BY <1>1, <1>2, <1>3 DEF Pushes

LEMMA PipelineStep == ASSUME PInv, PNext PROVE PInv'
<1>0. QInv /\ Base /\ Types /\ damage = {} /\ abandoned = {}
  BY DEF PInv, QInv, Base
<1>1. CASE Local(DeviceStep) \/ Local(AppendFails) \/ DeviceCut
  <2>1. DeviceAlone /\ UNCHANGED server
    BY <1>1 DEF DeviceCut, DeviceAlone, GiveUp, Local
  <2>2. /\ QNext /\ UNCHANGED <<abandoned, damage>> /\ (UNCHANGED confirmed \/ ConfirmRow)
        /\ ack' \in {ack, ackD} /\ ackD' \in {ack, ackD}
        /\ pc' # "post" /\ (DeviceStep \/ AppendFails => pc # "post")
    BY <1>0, <2>1, DeviceFacts
  <2>3. QInv'
    BY <1>0, <2>2, QueueStep
  <2>4. \A b : Genuine(b) => Genuine(b)'
    BY <2>2, ConfirmKeeps DEF Genuine, Earliest
  <2>5. Tables' /\ Acks'
    BY <2>1, <2>2, ConfirmKeeps DEF PInv, Tables, Acks, R!Resolved, server
  <2>6. Pushes'
    <3>1. CASE DeviceCut
      BY <2>2, <2>4, <3>1, PushOver DEF DeviceCut, GiveUp
    <3>2. CASE Local(DeviceStep) \/ Local(AppendFails)
      BY <2>2, <2>4, <3>2 DEF PInv, Pushes, net, Local
    <3> QED BY <1>1, <3>1, <3>2
  <2> QED BY <1>0, <2>2, <2>3, <2>5, <2>6 DEF PInv
<1>2. CASE PushSend
  <2>1. /\ pc = "net" /\ pc' = "post" /\ Pending # <<>>
        /\ post' = [phase |-> "sent", batch |-> Pending]
        /\ UNCHANGED <<flash, cp, ack, unacked, failed, seq, boot, w, del, ghosts, late, server>>
    BY <1>2 DEF PushSend
  <2>2. QInv'
    <3>1. QNext
      BY <2>1 DEF QNext, PushMoves
    <3> QED BY <1>0, <3>1, QueueStep
  <2>3. Genuine(Pending) /\ \A r \in Range(Pending) : r.seq <= cp.seq
    BY <2>1, PendingGenuine
  <2>4. \A b : Genuine(b) => Genuine(b)'
    BY <2>1 DEF Genuine, Earliest, ghosts
  <2>5. Pushes'
    <3> DEFINE b == Pending
    <3>1. b # <<>> /\ Genuine(b) /\ b \in Seq(Rows) /\ \A r \in Range(b) : r.seq <= cp.seq
      BY <2>1, <2>3 DEF Genuine
    <3>2. post' = [phase |-> "sent", batch |-> b]
      BY <2>1
    <3> HIDE DEF b
    <3>3. post'.phase = "sent" /\ post'.batch = b
            /\ post' \in [phase : {"idle", "sent", "stored", "answered"}, batch : Seq(Rows)]
      BY <3>1, <3>2
    <3>4. Genuine(post.batch)' /\ \A x \in late' : Genuine(x)'
      BY <2>1, <2>4, <3>1, <3>3 DEF PInv, Pushes
    <3> QED BY <2>1, <3>1, <3>3, <3>4 DEF Pushes
  <2>6. Tables' /\ Acks'
    BY <2>1 DEF PInv, Tables, Acks, R!Resolved, server, flash, ghosts
  <2> QED BY <1>0, <2>1, <2>2, <2>5, <2>6 DEF PInv, ghosts
<1>3. CASE PushResult
  <2> DEFINE n == BoundAckSeq(answer, post.batch)
  <2>1. /\ pc = "post" /\ AckThrough(n) /\ post' = Idle /\ UNCHANGED <<late, server>>
    BY <1>3 DEF PushResult
  <2>2. /\ post.batch \in Seq(Rows) /\ post.batch # <<>> /\ answer \in Nat
        /\ \A r \in Range(post.batch) : r.seq <= cp.seq
    BY <2>1 DEF PInv, Pushes, Acks
  <2>3. n \in 0 .. MaxSeq /\ n <= answer /\ n <= Last(post.batch).seq
          /\ Last(post.batch) \in Range(post.batch) /\ Last(post.batch) \in Rows
    BY <2>2, BoundedAnswer, LastOfRows
  <2> HIDE DEF n
  <2>4. n <= cp.seq
    <3>1. Last(post.batch).seq \in Nat /\ cp.seq \in Nat
      <4>1. \A r \in Rows : r.seq \in Nat
        BY DEF Rows, Row
      <4>2. cp.seq \in Nat
        BY <1>0, SizesArePositive DEF Types, Checkpoints
      <4> QED BY <2>3, <4>1, <4>2
    <3> QED BY <2>2, <2>3, <3>1, SizesArePositive
  <2>5. QInv'
    <3>1. QNext
      BY <2>1, <2>3, <2>4 DEF QNext, Answered
    <3> QED BY <1>0, <3>1, QueueStep
  <2>6. /\ UNCHANGED <<abandoned, damage, confirmed, ackD>> /\ pc' # "post"
        /\ ack'.acked = ack.acked \/ ack'.acked = n
    BY <2>1 DEF AckThrough, flash, ghosts
  <2>7. Pushes'
    BY <2>1, <2>6, PushOver DEF Genuine, Earliest
  <2>8. 1 .. n \subseteq R!Resolved
    BY <2>2, <2>3, SizesArePositive DEF PInv, Acks
  <2>9. Tables' /\ Acks'
    BY <2>1, <2>6, <2>8 DEF PInv, Tables, Acks, R!Resolved, server
  <2> QED BY <1>0, <2>5, <2>6, <2>7, <2>9 DEF PInv
<1>4. CASE PushFails
  <2>1. /\ pc = "post" /\ pc' = "top" /\ post' = Idle
        /\ late' = late \/ late' = late \cup {post.batch}
        /\ UNCHANGED <<flash, cp, ack, unacked, failed, seq, boot, w, del, ghosts, server>>
    BY <1>4 DEF PushFails, GiveUp
  <2>2. QInv'
    <3>1. QNext
      BY <2>1 DEF QNext, PushMoves
    <3> QED BY <1>0, <3>1, QueueStep
  <2>3. Pushes'
    BY <2>1, PushOver DEF Genuine, Earliest, ghosts
  <2>4. Tables' /\ Acks'
    BY <2>1 DEF PInv, Tables, Acks, R!Resolved, server, flash, ghosts
  <2> QED BY <1>0, <2>1, <2>2, <2>3, <2>4 DEF PInv, ghosts
<1>5. ASSUME UNCHANGED vars, Tables' /\ Acks', late' \subseteq late,
             post' = post \/ \E x \in {"stored", "answered"} :
                                post.phase # "idle" /\ post' = [post EXCEPT !.phase = x]
      PROVE  PInv'
  <2>1. QInv' /\ UNCHANGED <<abandoned, damage, confirmed, pc, cp>>
    BY <1>0, <1>5, QueueStep DEF vars
  <2>2. /\ post' \in [phase : {"idle", "sent", "stored", "answered"}, batch : Seq(Rows)]
        /\ post'.batch = post.batch /\ (post'.phase = "idle" <=> post.phase = "idle")
    BY <1>5 DEF PInv, Pushes
  <2>3. Pushes'
    BY <1>5, <2>1, <2>2 DEF PInv, Pushes, Genuine, Earliest
  <2> QED BY <1>0, <1>5, <2>1, <2>3 DEF PInv
<1>6. CASE ServerStore
  <2>1. Tables' /\ Acks'
    BY <1>6, StoreKeeps DEF ServerStore, vars, PInv, Pushes
  <2> QED BY <1>5, <1>6, <2>1 DEF ServerStore
<1>7. CASE ServerAnswer
  <2>1. PICK n \in Nat : 1 .. n \subseteq R!Resolved /\ answer' = n
    BY <1>7 DEF ServerAnswer, R!AnswerRequest, R!ComputeAck, R!IsContiguousEnd
  <2>2. UNCHANGED <<records, quarantined, ack, ackD, confirmed>>
    BY <1>7 DEF ServerAnswer, R!AnswerRequest, vars
  <2>3. Tables' /\ Acks'
    BY <2>1, <2>2 DEF PInv, Tables, Acks, R!Resolved
  <2> QED BY <1>5, <1>7, <2>3 DEF ServerAnswer
<1>8. ASSUME NEW b \in late, LateStore(b) PROVE PInv'
  <2>1. Tables' /\ Acks'
    BY <1>8, StoreKeeps DEF LateStore, vars, PInv, Pushes
  <2> QED BY <1>5, <1>8, <2>1 DEF LateStore
<1>9. ASSUME NEW b \in late, LateLost(b) PROVE PInv'
  <2>1. Tables' /\ Acks'
    BY <1>9 DEF LateLost, server, vars, PInv, Tables, Acks, R!Resolved
  <2> QED BY <1>5, <1>9, <2>1 DEF LateLost
<1> QED BY <1>1, <1>2, <1>3, <1>4, <1>6, <1>7, <1>8, <1>9 DEF PNext

LEMMA PipelineInit == ASSUME PInit PROVE PInv
<1>1. QInv /\ damage = {} /\ abandoned = {}
  BY QueueInit DEF PInit, Init
<1>2. Pushes
  BY IdleGenuine DEF PInit, Init, Idle, Pushes
<1>3. Tables /\ Acks
  BY DEF PInit, R!Init, Init, Tables, Acks
<1> QED BY <1>1, <1>2, <1>3 DEF PInv

LEMMA PipelineStutters == ASSUME PInv, UNCHANGED pvars PROVE PInv'
<1>1. QInv'
  BY QueueStep DEF PInv, pvars
<1>2. Pushes' /\ Tables' /\ Acks'
  BY DEF PInv, pvars, vars, net, server, Pushes, Genuine, Earliest, Tables, Acks, R!Resolved
<1> QED BY <1>1, <1>2 DEF PInv, pvars, vars

\* The inductive invariant of the pipeline: it holds initially and every step
\* of the device, the network and the server preserves it.
THEOREM PipelineInvariant == PSpec => []PInv
<1>1. PInit => PInv
  BY PipelineInit
<1>2. PInv /\ [PNext]_pvars => PInv'
  BY PipelineStep, PipelineStutters
<1> QED BY <1>1, <1>2, PTL DEF PSpec

\* What the device has pruned, or would prune after a power cut, is resolved at
\* the server, whatever answers are lost and whatever requests arrive late.
THEOREM PrunedIsResolvedAlways == PSpec => []PrunedIsResolved
<1>1. ASSUME PInv PROVE PrunedIsResolved
  <2>1. ack.acked \in Nat /\ ackD.acked \in Nat
    BY <1>1, SizesArePositive DEF PInv, QInv, Base, Types, AckRecs
  <2>2. Max({ack.acked, ackD.acked}) \in {ack.acked, ackD.acked}
    BY <2>1 DEF Max
  <2> QED BY <1>1, <2>2 DEF PInv, Acks, PrunedIsResolved
<1> QED BY <1>1, PipelineInvariant, PTL

\* Zero loss end to end: a confirmed row can still be sent after a power cut, or
\* its seq is resolved at the server.
THEOREM EndToEndAlways == PSpec => []EndToEnd
<1>1. ASSUME PInv PROVE EndToEnd
  <2>1. Base /\ Sound /\ cpD = cp
    BY <1>1 DEF PInv, QInv, Intact, Base, Types
  <2>2. ASSUME NEW r \in confirmed PROVE r \in Visible(ackD, cpD) \/ r.seq \in R!Resolved
    <3>1. r.seq \in Nat /\ r.seq >= 1 /\ ackD.acked \in Nat
      BY <2>1, SizesArePositive DEF Base, Types, Rows, Row, AckRecs
    <3>2. CASE r.seq > ackD.acked
      <4>1. PICK p \in Region(ackD, cp) : CellAt(p) = r
        BY <1>1, <2>1, <3>2 DEF Sound, Kept, PInv
      <4> QED BY <2>1, <4>1, ReadableIsRegion DEF Visible
    <3>3. CASE ~(r.seq > ackD.acked)
      BY <1>1, <3>1, <3>3 DEF PInv, Acks
    <3> QED BY <3>2, <3>3
  <2> QED BY <2>2 DEF EndToEnd
<1> QED BY <1>1, PipelineInvariant, PTL

\* Of the rows that were built under one seq, the server stores the one that was
\* built first, however requests are delayed and repeated.
THEOREM FirstBuiltWinsAlways == PSpec => []FirstBuiltWins
<1>1. PInv => FirstBuiltWins
  BY DEF PInv, Tables, FirstBuiltWins
<1> QED BY <1>1, PipelineInvariant, PTL

\* Unless an append failed, every committed seq has a row, so the cumulative ack
\* can reach it.
THEOREM NoBurntSeqAlways == PSpec => []NoBurntSeq
<1>1. ASSUME PInv, ~AppendFailed PROVE \A s \in 1 .. cpD.seq : \E r \in confirmed : r.seq = s
  <2>1. Types /\ cpD = cp /\ Cardinality(Lost) <= 0
    BY <1>1 DEF PInv, QInv, Base, Types, Losses, AppendFailed
  <2>2. IsFiniteSet(Lost) /\ Cardinality(Lost) = 0
    BY <2>1, LostFinite
  <2>3. Lost = {}
    BY <2>2, FS_EmptySet
  <2> QED BY <2>1, <2>3 DEF Lost, IsLost
<1>2. PInv => NoBurntSeq
  BY <1>1 DEF NoBurntSeq
<1> QED BY <1>2, PipelineInvariant, PTL
==============================================================================
