-------------------------- MODULE PulseCounterProofs --------------------------
(***************************************************************************)
(* The pulse count for every counter width, drain threshold and rate that  *)
(* satisfy DrainInTime, any number of pulses and any number of boots.      *)
(*                                                                         *)
(* Conservation is not inductive: a pulse that wraps the counter breaks it,*)
(* so HwBounded says how far the counter can be from the last read; the    *)
(* other parts say where the drained pulses are while both the counter and *)
(* the accumulator hold them, and how old the checkpoint is.               *)
(***************************************************************************)
EXTENDS PulseCounter, TLAPS

\* Between two reads at most Rate pulses; between read and clear WindowMax.
SinceBounded ==
    /\ since <= Rate
    /\ pc = "clear" => since <= WindowMax

\* The counter is at most the pulses since the last read above the threshold.
HwBounded ==
    /\ pc # "clear" => hw < Drain + since
    /\ pc = "clear" => /\ c <= hw /\ hw <= c + since /\ c < Drain + Rate
                       /\ c <= acc

\* Powered off, nothing of RAM is left; everything durable is in totalD.
OffIsEmpty ==
    pc = "off" => /\ hw = 0 /\ acc = 0 /\ row = 0 /\ since = 0
                  /\ totalD + window + cut = pulses

\* The checkpoint in RAM and the one in flash, by the step service() is at.
CheckpointAge ==
    /\ pc \in {"run", "append", "read"} =>
          totalD = total /\ total <= LiveTotal /\ LiveTotal - total <= since
    /\ pc = "clear" => totalD <= base + acc /\ base + acc - totalD <= Rate
    /\ pc = "sum" => totalD <= LiveTotal /\ LiveTotal - totalD <= Rate + since
    /\ pc = "persist" => /\ totalD <= total /\ total <= LiveTotal
                         /\ LiveTotal - totalD <= Rate + since
                         /\ LiveTotal - total <= since

\* The last row never claims more than service() still has.
RowBehind ==
    /\ pc = "clear" => row <= base + acc
    /\ pc # "clear" => row <= LiveTotal

\* The inductive invariant.
IInv ==
    /\ TypeOK
    /\ SinceBounded
    /\ HwBounded
    /\ OffIsEmpty
    /\ CheckpointAge
    /\ RowBehind
    /\ Conserved

-----------------------------------------------------------------------------
\* The hardware counter: below its limit, one more pulse is one more count.
LEMMA NoWrap ==
    ASSUME NEW n \in Nat, n + 1 < HLim
    PROVE  (n + 1) % HLim = n + 1
BY CountsAreNat

\* Every state of the specification starts inside the invariant.
LEMMA InitEstablishes == Init => IInv
BY CountsAreNat, DrainInTime
   DEF Init, IInv, TypeOK, SinceBounded, HwBounded, OffIsEmpty, CheckpointAge,
       RowBehind, Conserved, Counted, LiveTotal

\* The room DrainInTime leaves: no reachable count is within one of the limit
\* when another pulse may still come before the next read.
LEMMA RoomForPulse ==
    ASSUME IInv, Pulse
    PROVE  hw' = hw + 1
<1>1. hw + 1 < HLim
  BY CountsAreNat, DrainInTime DEF IInv, TypeOK, SinceBounded, HwBounded, Pulse
<1> QED
  BY <1>1, NoWrap DEF IInv, TypeOK, Pulse

LEMMA PulsePreserves == IInv /\ Pulse => IInv'
<1> SUFFICES ASSUME IInv, Pulse PROVE IInv'
  OBVIOUS
<1>1. hw' = hw + 1
  BY RoomForPulse
<1>2. hw + 1 < HLim
  BY CountsAreNat, DrainInTime DEF IInv, TypeOK, SinceBounded, HwBounded, Pulse
<1>3. TypeOK'
  BY <1>1, <1>2, CountsAreNat DEF IInv, TypeOK, Pulse, memory
<1>4. SinceBounded' /\ HwBounded' /\ OffIsEmpty'
  BY <1>1, CountsAreNat, DrainInTime
     DEF IInv, TypeOK, SinceBounded, HwBounded, OffIsEmpty, Pulse, memory
<1>5. CheckpointAge' /\ RowBehind' /\ Conserved'
  BY <1>1, CountsAreNat
     DEF IInv, TypeOK, HwBounded, CheckpointAge, RowBehind, Conserved, Counted, LiveTotal,
         Pulse, memory
<1> QED
  BY <1>3, <1>4, <1>5 DEF IInv

\* What loop() does outside service().
LEMMA LoopPreserves ==
    IInv /\ (BuildRow \/ SetQueueOffset \/ BackgroundService
             \/ \E n \in 1 .. Rate : InjectSoftPulses(n)) => IInv'
<1> USE CountsAreNat DEF IInv, TypeOK, SinceBounded, HwBounded, OffIsEmpty, CheckpointAge,
       RowBehind, Conserved, Counted, LiveTotal, memory
<1>1. IInv /\ BuildRow => IInv'
  BY DEF BuildRow
<1>2. IInv /\ SetQueueOffset => IInv'
  BY DEF SetQueueOffset
<1>3. IInv /\ BackgroundService => IInv'
  BY DEF BackgroundService
<1>4. ASSUME IInv, NEW n \in 1 .. Rate, InjectSoftPulses(n) PROVE IInv'
  BY <1>4 DEF InjectSoftPulses
<1> QED
  BY <1>1, <1>2, <1>3, <1>4

\* service(), statement by statement.
LEMMA ServicePreserves == IInv /\ Service => IInv'
<1> USE CountsAreNat DEF IInv, TypeOK, SinceBounded, HwBounded, OffIsEmpty, CheckpointAge,
       RowBehind, Conserved, Counted, LiveTotal, memory
<1>1. IInv /\ ReadCounter /\ hw >= Drain => IInv'
  BY DrainInTime DEF ReadCounter
<1>2. IInv /\ ReadCounter /\ ~(hw >= Drain) => IInv'
  BY DEF ReadCounter
<1>3. IInv /\ ClearCounter => IInv'
  BY DrainInTime DEF ClearCounter
<1>4. IInv /\ SumTotal => IInv'
  BY DEF SumTotal
<1>5. IInv /\ Persist => IInv'
  BY DEF Persist
<1> QED
  BY <1>1, <1>2, <1>3, <1>4, <1>5 DEF Service

\* Losing power and booting.
LEMMA PowerPreserves == IInv /\ (PowerCut \/ Boot) => IInv'
<1> USE CountsAreNat DEF IInv, TypeOK, SinceBounded, HwBounded, OffIsEmpty, CheckpointAge,
       RowBehind, Conserved, Counted, LiveTotal, memory
<1>1. IInv /\ PowerCut => IInv'
  BY DEF PowerCut
<1>2. IInv /\ Boot => IInv'
  BY DEF Boot
<1> QED
  BY <1>1, <1>2

-----------------------------------------------------------------------------
\* The invariant holds of every behaviour of the totalizer.
THEOREM Invariance == Spec => []IInv
<1>1. IInv /\ [Next]_vars => IInv'
  <2>1. IInv /\ Next => IInv'
    BY PulsePreserves, LoopPreserves, ServicePreserves, PowerPreserves DEF Next
  <2>2. IInv /\ UNCHANGED vars => IInv'
    BY DEF vars, IInv, TypeOK, SinceBounded, HwBounded, OffIsEmpty, CheckpointAge,
           RowBehind, Conserved, Counted, LiveTotal
  <2> QED
    BY <2>1, <2>2
<1> QED
  BY InitEstablishes, <1>1, PTL DEF Spec

\* total() counts every pulse that was not lost to a power cut or between
\* service()'s read and clear; in particular the counter never wraps.
THEOREM PulsesConserved == Spec => [](TypeOK /\ Conserved)
<1>1. IInv => TypeOK /\ Conserved
  BY DEF IInv
<1> QED
  BY Invariance, <1>1, PTL

\* The recovered total never exceeds the pulses that happened.
THEOREM NoOvercount == Spec => []NeverOvercounts
<1>1. IInv => NeverOvercounts
  BY CountsAreNat
     DEF IInv, TypeOK, HwBounded, OffIsEmpty, CheckpointAge, Conserved, Counted, LiveTotal,
         NeverOvercounts
<1> QED
  BY Invariance, <1>1, PTL

\* A power cut costs at most one service interval and the pulses since.
THEOREM CutLoss == Spec => []CutLossBounded
<1>1. IInv => CutLossBounded
  BY CountsAreNat
     DEF IInv, TypeOK, HwBounded, SinceBounded, CheckpointAge, Counted, LiveTotal, CutLossBounded
<1> QED
  BY Invariance, <1>1, PTL

\* Within a boot the totals sent to the server never go down.
THEOREM TotalsMonotone == Spec => RowsMonotone
<1>1. IInv /\ [Next]_vars => [boot' = boot /\ pc' # "off" => row' >= row]_vars
  <2>1. ASSUME IInv, Next, boot' = boot, pc' # "off" PROVE row' >= row
    BY <2>1 DEF IInv, TypeOK, RowBehind, LiveTotal, memory, Next, Service, Pulse, BuildRow,
        SetQueueOffset, BackgroundService, InjectSoftPulses, ReadCounter, ClearCounter,
        SumTotal, Persist, PowerCut, Boot
  <2> QED
    BY <2>1
<1> QED
  BY Invariance, <1>1, PTL DEF Spec, RowsMonotone
=============================================================================
