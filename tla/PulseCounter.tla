----------------------------- MODULE PulseCounter -----------------------------
(***************************************************************************)
(* The lifetime pulse count of totalizer.h: a hardware counter (PCNT) that *)
(* runs while the CPU does anything else, drained into a 64-bit            *)
(* accumulator and checkpointed by service(), which loop() calls after     *)
(* every telemetry row and covioBackgroundService() during downloads and   *)
(* provisioning.  A pulse may arrive between any two statements.           *)
(*                                                                         *)
(* The checkpoint is an atomic register (see DualSlot); it also carries    *)
(* the queue's write position, so setQueueOffset() writes the total too.   *)
(***************************************************************************)
EXTENDS Integers

CONSTANTS
    HLim,       \* counter_h_lim: the hardware counter restarts from 0 here
    Drain,      \* service() drains the counter from this value on
    Rate,       \* at most this many pulses between two reads of service()
    WindowMax,  \* at most this many between the read and the clear
    MaxPulses,  \* bound: pulses in all
    MaxBoot     \* bound: boots

ASSUME CountsAreNat ==
    /\ HLim \in Nat /\ Drain \in Nat \ {0} /\ Rate \in Nat /\ WindowMax \in Nat
    /\ MaxPulses \in Nat /\ MaxBoot \in Nat

\* The margin the drain threshold leaves: 32767 - 30000 on the device.
ASSUME DrainInTime == WindowMax <= Rate /\ Drain + Rate + WindowMax <= HLim

VARIABLES
    hw,         \* the PCNT counter
    c,          \* service()'s local copy
    acc,        \* accumulated_
    base,       \* base_
    total,      \* cp_.total in RAM
    totalD,     \* the total a boot would load
    row,        \* the total of the last telemetry row of this boot
    pc, boot,
    since,      \* history: pulses since service() last read the counter
    pulses,     \* history: pulses that arrived while the device was powered
    window,     \* history: pulses cleared without having been read
    cut         \* history: pulses lost with RAM

vars == <<hw, c, acc, base, total, totalD, row, pc, boot, since, pulses, window, cut>>

Init ==
    /\ hw = 0 /\ c = 0 /\ acc = 0 /\ base = 0
    /\ total = 0 /\ totalD = 0 /\ row = 0
    /\ pc = "run" /\ boot = 1
    /\ since = 0 /\ pulses = 0 /\ window = 0 /\ cut = 0

memory == <<c, acc, base, total, totalD, row>>

\* total(): the live value.
LiveTotal == base + acc + hw

-----------------------------------------------------------------------------
\* A pulse arrives; at its limit the counter starts again.
Pulse ==
    /\ pc # "off" /\ pulses < MaxPulses
    /\ since < IF pc = "clear" THEN WindowMax ELSE Rate
    /\ hw' = (hw + 1) % HLim
    /\ pulses' = pulses + 1 /\ since' = since + 1
    /\ UNCHANGED <<memory, pc, boot, window, cut>>

\* injectSoftPulses(): the CT build adds the pulses its sampler synthesized to
\* the accumulator, from loop().
InjectSoftPulses(n) ==
    /\ pc = "run" /\ pulses + n <= MaxPulses
    /\ since + n <= Rate
    /\ acc' = acc + n
    /\ pulses' = pulses + n /\ since' = since + n
    /\ UNCHANGED <<hw, c, base, total, totalD, row, pc, boot, window, cut>>

\* loop(): the row is built from total() and appended ...
BuildRow ==
    /\ pc = "run"
    /\ row' = LiveTotal
    /\ pc' = "append"
    /\ UNCHANGED <<hw, c, acc, base, total, totalD, boot, since, pulses, window, cut>>

\* ... append() ends in setQueueOffset(), unless it failed; then service().
SetQueueOffset ==
    /\ pc = "append"
    /\ totalD' \in {total, totalD}
    /\ pc' = "read"
    /\ UNCHANGED <<hw, c, acc, base, total, row, boot, since, pulses, window, cut>>

\* covioBackgroundService(): service() without a row.
BackgroundService ==
    /\ pc = "run"
    /\ pc' = "read"
    /\ UNCHANGED <<hw, memory, boot, since, pulses, window, cut>>

\* Mutant of ReadCounter: drains too late.
ReadDrainAtLimit ==
    /\ pc = "read"
    /\ c' = hw /\ since' = 0
    /\ IF hw >= HLim - 1 THEN acc' = acc + hw /\ pc' = "clear" ELSE pc' = "sum" /\ UNCHANGED acc
    /\ UNCHANGED <<hw, base, total, totalD, row, boot, pulses, window, cut>>

\* service(): the counter is read and, from Drain on, accumulated ...
ReadCounter ==
    /\ pc = "read"
    /\ c' = hw /\ since' = 0
    /\ IF hw >= Drain THEN acc' = acc + hw /\ pc' = "clear" ELSE pc' = "sum" /\ UNCHANGED acc
    /\ UNCHANGED <<hw, base, total, totalD, row, boot, pulses, window, cut>>

\* Mutant of ClearCounter: the counter keeps what was accumulated.
ClearForgotten ==
    /\ pc = "clear"
    /\ pc' = "sum"
    /\ UNCHANGED <<hw, memory, boot, since, pulses, window, cut>>

\* ... and cleared: what arrived since the read is gone.
ClearCounter ==
    /\ pc = "clear"
    /\ hw' = 0 /\ window' = window + (hw - c)
    /\ pc' = "sum"
    /\ UNCHANGED <<memory, boot, since, pulses, cut>>

\* The counter is read a second time for the checkpoint's total.
SumTotal ==
    /\ pc = "sum"
    /\ total' = base + acc + hw
    /\ pc' = "persist"
    /\ UNCHANGED <<hw, c, acc, base, totalD, row, boot, since, pulses, window, cut>>

\* Mutant of Persist: the record in RAM never reaches flash.
PersistSkipped ==
    /\ pc = "persist"
    /\ pc' = "run"
    /\ UNCHANGED <<hw, memory, boot, since, pulses, window, cut>>

\* persist_()
Persist ==
    /\ pc = "persist"
    /\ totalD' = total
    /\ pc' = "run"
    /\ UNCHANGED <<hw, c, acc, base, total, row, boot, since, pulses, window, cut>>

\* RAM and the hardware counter are lost.
PowerCut ==
    /\ pc # "off" /\ boot < MaxBoot
    /\ pc' = "off"
    /\ cut' = pulses - window - totalD
    /\ hw' = 0 /\ c' = 0 /\ acc' = 0 /\ total' = 0 /\ base' = 0 /\ row' = 0 /\ since' = 0
    /\ UNCHANGED <<totalD, boot, pulses, window>>

\* begin(): the counter is set up cleared, the total is the checkpoint's.
Boot ==
    /\ pc = "off"
    /\ base' = totalD /\ total' = totalD
    /\ pc' = "run" /\ boot' = boot + 1
    /\ UNCHANGED <<hw, c, acc, totalD, row, since, pulses, window, cut>>

\* service(), statement by statement.
Service == ReadCounter \/ ClearCounter \/ SumTotal \/ Persist

Next ==
    \/ Pulse
    \/ \E n \in 1 .. Rate : InjectSoftPulses(n)
    \/ BuildRow \/ SetQueueOffset \/ BackgroundService
    \/ Service
    \/ PowerCut \/ Boot

Spec == Init /\ [][Next]_vars

-----------------------------------------------------------------------------
(***************************************************************************)
(* Properties                                                              *)
(***************************************************************************)
\* Every variable has its type.
TypeOK ==
    /\ hw \in 0 .. HLim - 1 /\ c \in Nat
    /\ acc \in Nat /\ base \in Nat /\ total \in Nat /\ totalD \in Nat /\ row \in Nat
    /\ pc \in {"run", "append", "read", "clear", "sum", "persist", "off"}
    /\ boot \in Nat
    /\ since \in Nat /\ pulses \in Nat /\ window \in Nat /\ cut \in Nat

\* What total() would return, except between the accumulation and the clear,
\* when the drained pulses are in both places.
Counted == IF pc = "clear" THEN base + acc + hw - c ELSE LiveTotal

\* Conservation: every pulse is counted, or was lost to a power cut, or came
\* between service()'s read and its clear.  In particular the 16-bit counter
\* never runs over its limit unnoticed, at the rate DrainInTime allows.
Conserved == pc # "off" => Counted + window + cut = pulses

\* The checkpoint never claims a pulse that did not happen ("it never yields a
\* garbage number", totalizer.h:12-13), although service() reads the counter
\* twice with a clear in between, and a cut may follow any of these steps.
NeverOvercounts == totalD + window <= pulses

\* A power cut loses at most the pulses of the interval before service()'s last
\* read and those since ("<= ~1 s of pulses lost", ARCHITECTURE.md:202), also
\* when it hits between the two checkpoint writes of one loop iteration.
CutLossBounded == pc # "off" => Counted - totalD <= Rate + since

\* The totals of one boot's telemetry rows never go down, drains included.
RowsMonotone == [][boot' = boot /\ pc' # "off" => row' >= row]_vars
=============================================================================
