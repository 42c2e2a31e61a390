------------------------------ MODULE DualSlot ------------------------------
(***************************************************************************)
(* The ping-pong checkpoint shared by totalizer.h (Checkpoint, /totA.bin   *)
(* and /totB.bin), queue.h (AckRec, /queue/ackA.bin and ackB.bin) and      *)
(* queue.h (FailureState, failA.bin and failB.bin).  A record carries a    *)
(* write counter and a CRC.  Persisting increments the counter and         *)
(* rewrites slot A when it is odd and slot B when it is even; booting takes*)
(* the CRC-valid slot with the larger counter.                             *)
(*                                                                         *)
(* A slot is [ok, writes, val]: ok is "size, magic and CRC check out".     *)
(* The counter is 32 bits wide in the code; at two writes a second it      *)
(* wraps after 68 years, so it is a natural number here.                   *)
(***************************************************************************)
EXTENDS Naturals

CONSTANTS
    Value,      \* payloads a record can carry
    Zero,       \* the payload of a zeroed record
    MaxWrites,  \* bound: largest write counter explored
    MaxFails    \* bound: how many times a slot may fail to open or write

ASSUME ZeroIsValue == Zero \in Value
ASSUME BoundsAreNat == MaxWrites \in Nat /\ MaxFails \in Nat

VARIABLES
    slot,   \* slot["A"], slot["B"]: the two files
    ram,    \* [writes, val]: cp_ / ack_ / fail_
    pc,     \* "run", "persist" (inside persist_, slot not yet written), "off"
    fails   \* how many persist_ calls could not write their slot

vars == <<slot, ram, pc, fails>>

Slots == {"A", "B"}
Record == [ok : BOOLEAN, writes : Nat, val : Value]
Bad == [ok |-> FALSE, writes |-> 0, val |-> Zero]

\* Every variable has its type: a boot that finds no valid slot starts from a
\* zeroed record (totalizer.h:98), never from what was on the stack.
TypeOK ==
    /\ slot \in [Slots -> Record]
    /\ ram \in [writes : Nat, val : Value]
    /\ pc \in {"run", "persist", "off"}
    /\ fails \in Nat

\* Mutant: every write goes to the same file.
PathOfOneSlot(w) == "A"

\* (writes & 1) ? PATH_A : PATH_B
PathOf(w) == IF w % 2 = 1 THEN "A" ELSE "B"

\* Mutant: slot A wins whenever it is valid.
LoadIgnoringWrites(s) ==
    IF s["A"].ok THEN [writes |-> s["A"].writes, val |-> s["A"].val]
    ELSE IF s["B"].ok THEN [writes |-> s["B"].writes, val |-> s["B"].val]
    ELSE [writes |-> 0, val |-> Zero]

\* begin(): the newest slot that passes its checks, the zeroed record if none.
Load(s) ==
    IF s["A"].ok /\ (s["B"].ok => s["A"].writes >= s["B"].writes)
    THEN [writes |-> s["A"].writes, val |-> s["A"].val]
    ELSE IF s["B"].ok
         THEN [writes |-> s["B"].writes, val |-> s["B"].val]
         ELSE [writes |-> 0, val |-> Zero]

Init ==
    /\ slot = [s \in Slots |-> Bad]      \* neither file exists yet
    /\ ram = Load(slot)
    /\ pc = "run"
    /\ fails = 0

\* A caller stores new fields and enters persist_(), which bumps the counter.
Store(v) ==
    /\ pc = "run"
    /\ ram.writes < MaxWrites
    /\ ram' = [writes |-> ram.writes + 1, val |-> v]
    /\ pc' = "persist"
    /\ UNCHANGED <<slot, fails>>

\* The slot's file is rewritten, flushed and closed.
Commit ==
    /\ pc = "persist"
    /\ slot' = [slot EXCEPT ![PathOf(ram.writes)] =
                   [ok |-> TRUE, writes |-> ram.writes, val |-> ram.val]]
    /\ pc' = "run"
    /\ UNCHANGED <<ram, fails>>

\* The file cannot be opened: persist_ logs (or ignores) it and returns.
OpenFails ==
    /\ pc = "persist"
    /\ fails < MaxFails
    /\ fails' = fails + 1
    /\ pc' = "run"
    /\ UNCHANGED <<slot, ram>>

\* The file is opened, which empties it, and the write comes up short: the
\* result of f.write() is not looked at, and the device runs on.
ShortWrite ==
    /\ pc = "persist"
    /\ fails < MaxFails
    /\ fails' = fails + 1
    /\ slot' = [slot EXCEPT ![PathOf(ram.writes)] = Bad]
    /\ pc' = "run"
    /\ UNCHANGED ram

\* Power is lost between two calls, or in persist_ before the slot changed.
PowerCut ==
    /\ pc # "off"
    /\ pc' = "off"
    /\ UNCHANGED <<slot, ram, fails>>

\* Power is lost while the slot is being rewritten: its CRC no longer holds.
TornWrite ==
    /\ pc = "persist"
    /\ slot' = [slot EXCEPT ![PathOf(ram.writes)] = Bad]
    /\ pc' = "off"
    /\ UNCHANGED <<ram, fails>>

Boot ==
    /\ pc = "off"
    /\ ram' = Load(slot)
    /\ pc' = "run"
    /\ UNCHANGED <<slot, fails>>

Next ==
    \/ \E v \in Value : Store(v)
    \/ Commit
    \/ OpenFails
    \/ ShortWrite
    \/ PowerCut
    \/ TornWrite
    \/ Boot

Spec == Init /\ [][Next]_vars

-----------------------------------------------------------------------------
(***************************************************************************)
(* Properties                                                              *)
(***************************************************************************)

\* totalizer.h:9-13 promises that a power cut in the middle of a write costs at
\* most the record being written, since the other slot still holds the previous
\* good one: what a boot would load never goes backwards.  persist_ bumps the
\* counter before it tries to open the file, so after a failed open the next
\* write goes over the newest good slot and a cut there loses it too.
NeverRegresses == [][Load(slot').writes >= Load(slot).writes]_slot

\* What does hold when opens fail: the harm ends with the next write that is
\* completed.  Whenever RAM is one generation ahead of flash, as it is again
\* after a completed write, a cut does not lose the newest good record
\* (totalizer.h:255-260).
HarmEnds ==
    [][ram.writes = Load(slot).writes + 1 => Load(slot').writes >= Load(slot).writes]_slot

\* While a caller is not inside persist_ and no write has ever failed, a power
\* cut at that instant costs nothing: boot recovers exactly the record in RAM.
RecoversLatest ==
    (pc = "run" /\ fails = 0) => Load(slot) = ram

\* The register this implements: what a boot would load is the durable copy.
Register == INSTANCE DurableRegister WITH
    durable <- Load(slot).val, ram <- ram.val, up <- (pc # "off")

\* As long as no write has failed, every step of the two-slot scheme, torn
\* writes included, is a step of an atomic register (or changes nothing of it).
ImplementsRegister ==
    Register!Init /\ [][fails' = 0 => [Register!Next]_(Register!vars)]_vars
==============================================================================
