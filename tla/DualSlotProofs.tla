--------------------------- MODULE DualSlotProofs ---------------------------
(***************************************************************************)
(* Machine-checked proofs about the two-slot checkpoint, for every set of  *)
(* payloads, every number of writes and every number of power cuts.        *)
(*                                                                         *)
(* RecoversLatest is not inductive by itself: that a write never lands on  *)
(* the newest good slot follows from the parity of the counters (odd in A, *)
(* even in B) and from RAM being at most one generation ahead.  IInv adds  *)
(* those two facts.                                                        *)
(***************************************************************************)
EXTENDS DualSlot, TLAPS

\* Slot A only ever holds odd generations and slot B even ones.
SlotParity ==
    /\ slot["A"].ok => slot["A"].writes % 2 = 1
    /\ slot["B"].ok => slot["B"].writes % 2 = 0

\* Inside persist_ the record in RAM is the generation right after the newest
\* one on flash, as long as no write has failed.
OneAhead ==
    (pc = "persist" /\ fails = 0) => ram.writes = Load(slot).writes + 1

IInv == TypeOK /\ SlotParity /\ OneAhead /\ RecoversLatest

-----------------------------------------------------------------------------

\* Parity alternates (the file chosen alternates with it).
LEMMA Alternates ==
    ASSUME NEW n \in Nat
    PROVE  /\ n % 2 \in {0, 1}
           /\ n % 2 = 1 <=> (n + 1) % 2 = 0
           /\ 0 % 2 = 0 /\ 1 % 2 = 1
  BY SMT

\* What a boot loads has the type of a RAM record.
LEMMA LoadType ==
    ASSUME NEW s \in [Slots -> Record]
    PROVE  Load(s) \in [writes : Nat, val : Value]
  BY ZeroIsValue DEF Load, Slots, Record

\* Writing generation n + 1 over slot PathOf(n + 1), where n is the newest good
\* generation: a complete write is what the next boot loads, a torn one leaves
\* what the boot would have loaded before.
LEMMA WriteOver ==
    ASSUME NEW s \in [Slots -> Record], NEW w \in Nat, NEW v \in Value,
           s["A"].ok => s["A"].writes % 2 = 1,
           s["B"].ok => s["B"].writes % 2 = 0,
           w = Load(s).writes + 1
    PROVE  /\ Load([s EXCEPT ![PathOf(w)] = [ok |-> TRUE, writes |-> w, val |-> v]])
                = [writes |-> w, val |-> v]
           /\ Load([s EXCEPT ![PathOf(w)] = Bad]) = Load(s)
  <1>1. Load(s).writes \in Nat
    BY LoadType
  <1>2. CASE s["A"].ok /\ (s["B"].ok => s["A"].writes >= s["B"].writes)
    <2>1. Load(s).writes = s["A"].writes
      BY <1>2 DEF Load
    <2>2. PathOf(w) = "B"
      BY <1>1, <1>2, <2>1, Alternates DEF PathOf
    <2>3. QED
      BY <1>1, <1>2, <2>1, <2>2 DEF Load, Slots, Record, Bad
  <1>3. CASE /\ ~(s["A"].ok /\ (s["B"].ok => s["A"].writes >= s["B"].writes))
             /\ s["B"].ok
    <2>1. Load(s).writes = s["B"].writes
      BY <1>3 DEF Load
    <2>2. PathOf(w) = "A"
      BY <1>1, <1>3, <2>1, Alternates DEF PathOf
    <2>3. QED
      BY <1>1, <1>3, <2>1, <2>2 DEF Load, Slots, Record, Bad
  <1>4. CASE ~s["A"].ok /\ ~s["B"].ok
    <2>1. Load(s) = [writes |-> 0, val |-> Zero]
      BY <1>4 DEF Load
    <2>2. PathOf(w) = "A"
      BY <2>1, Alternates DEF PathOf
    <2>3. QED
      BY <1>4, <2>1, <2>2 DEF Load, Slots, Record, Bad
  <1>5. s["A"].ok \in BOOLEAN /\ s["B"].ok \in BOOLEAN
    BY DEF Slots, Record
  <1>6. QED
    BY <1>2, <1>3, <1>4, <1>5

-----------------------------------------------------------------------------

LEMMA InitIInv == Init => IInv
  <1> SUFFICES ASSUME Init PROVE IInv
    OBVIOUS
  <1>1. Load(slot) = [writes |-> 0, val |-> Zero]
    BY DEF Init, Load, Bad, Slots
  <1>2. QED
    BY <1>1, ZeroIsValue
    DEF Init, IInv, TypeOK, SlotParity, OneAhead, RecoversLatest, Bad, Slots, Record

LEMMA NextIInv == IInv /\ [Next]_vars => IInv'
  <1> SUFFICES ASSUME IInv, [Next]_vars PROVE IInv'
    OBVIOUS
  <1> USE DEF IInv
  <1>1. ASSUME NEW v \in Value, Store(v) PROVE IInv'
    BY <1>1, LoadType
    DEF Store, TypeOK, SlotParity, OneAhead, RecoversLatest
  <1>2. CASE Commit
    <2>1. TypeOK'
      BY <1>2 DEF Commit, TypeOK, Slots, Record, PathOf
    <2>2. SlotParity'
      BY <1>2, Alternates DEF Commit, TypeOK, SlotParity, Slots, Record, PathOf
    <2>3. OneAhead'
      BY <1>2 DEF Commit, OneAhead
    <2>4. RecoversLatest'
      <3> SUFFICES ASSUME fails' = 0 PROVE Load(slot') = ram'
        BY DEF RecoversLatest
      <3>1. ram.writes = Load(slot).writes + 1
        BY <1>2 DEF Commit, OneAhead
      <3>2. Load([slot EXCEPT ![PathOf(ram.writes)] =
                    [ok |-> TRUE, writes |-> ram.writes, val |-> ram.val]])
              = [writes |-> ram.writes, val |-> ram.val]
        BY <3>1, WriteOver DEF TypeOK, SlotParity
      <3>3. [writes |-> ram.writes, val |-> ram.val] = ram
        BY DEF TypeOK
      <3>4. QED
        BY <1>2, <3>2, <3>3 DEF Commit
    <2>5. QED
      BY <2>1, <2>2, <2>3, <2>4
  <1>3. CASE OpenFails
    BY <1>3 DEF OpenFails, TypeOK, SlotParity, OneAhead, RecoversLatest
  <1>8. CASE ShortWrite
    <2>1. TypeOK'
      BY <1>8, ZeroIsValue DEF ShortWrite, TypeOK, Slots, Record, PathOf, Bad
    <2>2. SlotParity'
      BY <1>8 DEF ShortWrite, TypeOK, SlotParity, Slots, Record, PathOf, Bad
    <2>3. QED
      BY <1>8, <2>1, <2>2 DEF ShortWrite, TypeOK, OneAhead, RecoversLatest
  <1>4. CASE PowerCut
    BY <1>4 DEF PowerCut, TypeOK, SlotParity, OneAhead, RecoversLatest
  <1>5. CASE TornWrite
    <2>1. TypeOK'
      BY <1>5, ZeroIsValue DEF TornWrite, TypeOK, Slots, Record, PathOf, Bad
    <2>2. SlotParity'
      BY <1>5 DEF TornWrite, TypeOK, SlotParity, Slots, Record, PathOf, Bad
    <2>3. QED
      BY <1>5, <2>1, <2>2 DEF TornWrite, OneAhead, RecoversLatest
  <1>6. CASE Boot
    BY <1>6, LoadType DEF Boot, TypeOK, SlotParity, OneAhead, RecoversLatest
  <1>7. CASE UNCHANGED vars
    BY <1>7 DEF vars, TypeOK, SlotParity, OneAhead, RecoversLatest
  <1>9. QED
    BY <1>1, <1>2, <1>3, <1>4, <1>5, <1>6, <1>7, <1>8 DEF Next

\* The strengthened invariant holds in every reachable state.
THEOREM Invariance == Spec => []IInv
  BY InitIInv, NextIInv, PTL DEF Spec

\* Records on flash and in RAM keep their types through cuts and torn writes.
THEOREM TypeCorrect == Spec => []TypeOK
  BY Invariance, PTL DEF IInv

\* Outside persist_, and while no write has failed, a power cut costs nothing:
\* totalizer.h's begin() and queue.h's begin() reload the record in RAM.
THEOREM RecoveryExact == Spec => []RecoversLatest
  BY Invariance, PTL DEF IInv

-----------------------------------------------------------------------------

\* One step of the two-slot scheme is a step of the atomic register.
LEMMA StepSimulation ==
    IInv /\ [Next]_vars /\ fails' = 0 => [Register!Next]_(Register!vars)
  <1> SUFFICES ASSUME IInv, [Next]_vars, fails' = 0
               PROVE  [Register!Next]_(Register!vars)
    OBVIOUS
  <1> USE DEF Register!Next, Register!vars, Register!Update, Register!Persist,
              Register!Cut, Register!Boot
  <1>1. ASSUME NEW v \in Value, Store(v) PROVE [Register!Next]_(Register!vars)
    BY <1>1 DEF Store
  <1>2. CASE Commit
    <2>1. ram.writes = Load(slot).writes + 1
      BY <1>2 DEF Commit, IInv, OneAhead
    <2>2. Load([slot EXCEPT ![PathOf(ram.writes)] =
                  [ok |-> TRUE, writes |-> ram.writes, val |-> ram.val]])
            = [writes |-> ram.writes, val |-> ram.val]
      BY <2>1, WriteOver DEF IInv, TypeOK, SlotParity
    <2>3. Load(slot').val = ram.val
      BY <1>2, <2>2 DEF Commit
    <2>4. QED
      BY <1>2, <2>3 DEF Commit
  <1>3. CASE OpenFails \/ ShortWrite
    BY <1>3 DEF OpenFails, ShortWrite, IInv, TypeOK
  <1>4. CASE PowerCut
    BY <1>4 DEF PowerCut
  <1>5. CASE TornWrite
    <2>1. ram.writes = Load(slot).writes + 1
      BY <1>5 DEF TornWrite, IInv, OneAhead
    <2>2. Load(slot') = Load(slot)
      BY <1>5, <2>1, WriteOver DEF TornWrite, IInv, TypeOK, SlotParity
    <2>3. QED
      BY <1>5, <2>2 DEF TornWrite
  <1>6. CASE Boot
    BY <1>6 DEF Boot
  <1>7. CASE UNCHANGED vars
    BY <1>7 DEF vars
  <1>8. QED
    BY <1>1, <1>2, <1>3, <1>4, <1>5, <1>6, <1>7 DEF Next

\* A freshly formatted device is a register that holds the zeroed record.
LEMMA InitSimulation == Init => Register!Init
  BY DEF Init, Register!Init, Load, Bad, Slots

\* As long as no slot write has failed, ping-pong with CRC is an atomic durable
\* register, torn writes included (totalizer.h:9-13, queue.h:64-69).
THEOREM Refinement == Spec => ImplementsRegister
  <1>1. IInv /\ [Next]_vars
          => [fails' = 0 => [Register!Next]_(Register!vars)]_vars
    BY StepSimulation
  <1>2. QED
    BY <1>1, Invariance, InitSimulation, PTL DEF Spec, ImplementsRegister

-----------------------------------------------------------------------------

\* A write that starts one generation ahead of flash, whatever failed before,
\* never costs the newest good record.
LEMMA StepKeepsNewest ==
    ASSUME IInv, [Next]_vars, ram.writes = Load(slot).writes + 1
    PROVE  slot' = slot \/ Load(slot').writes >= Load(slot).writes
  <1>1. Load(slot).writes \in Nat
    BY LoadType DEF IInv, TypeOK
  <1>2. CASE Commit
    <2>1. Load([slot EXCEPT ![PathOf(ram.writes)] =
                  [ok |-> TRUE, writes |-> ram.writes, val |-> ram.val]])
            = [writes |-> ram.writes, val |-> ram.val]
      BY WriteOver DEF IInv, TypeOK, SlotParity
    <2>2. Load(slot').writes = ram.writes
      BY <1>2, <2>1 DEF Commit
    <2>3. QED
      BY <1>1, <2>2
  <1>3. CASE TornWrite \/ ShortWrite
    <2>1. Load([slot EXCEPT ![PathOf(ram.writes)] = Bad]) = Load(slot)
      BY WriteOver DEF IInv, TypeOK, SlotParity
    <2>2. Load(slot') = Load(slot)
      BY <1>3, <2>1 DEF TornWrite, ShortWrite
    <2>3. QED
      BY <1>1, <2>2
  <1>4. CASE ~Commit /\ ~TornWrite /\ ~ShortWrite
    BY <1>4 DEF Next, vars, Store, OpenFails, PowerCut, Boot
  <1>5. QED
    BY <1>2, <1>3, <1>4

\* A failed open or a short write endangers the newest record only until the next completed
\* write: from then on RAM is one generation ahead of flash inside persist_().
THEOREM FailureHeals == Spec => HarmEnds
  <1>1. IInv /\ [Next]_vars
          => [ram.writes = Load(slot).writes + 1
                => Load(slot').writes >= Load(slot).writes]_slot
    BY StepKeepsNewest
  <1>2. QED
    BY <1>1, Invariance, PTL DEF Spec, HarmEnds
==============================================================================
