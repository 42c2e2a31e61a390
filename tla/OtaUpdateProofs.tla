--------------------------- MODULE OtaUpdateProofs ---------------------------
(***************************************************************************)
(* Proofs about firmware update and rollback, for any set of builds, any   *)
(* manifests and any streak limit: which image the device may end up       *)
(* running, and that it always has one.                                    *)
(***************************************************************************)
EXTENDS OtaUpdate, TLAPS

ConfirmPcs == {"recordVer", "recordSec", "clearStreak", "floor"}
UpdatePcs == {"begin", "stream", "verify", "end"}
BootPcs == {"boot", "trial", "note"}
Up == pc \notin {"off", "halt"}

Other == OtherSlot(sel)
Signed(i) == i = Baseline \/ \E x \in Manifests : x.authentic /\ x.img = i

\* The selected image is the one recorded as healthy, and no trial is open.
Settled ==
    /\ okVer = slots[sel].img.ver /\ okSec = slots[sel].img.sec
    /\ slots[sel].state = "valid"

\* What the RAM flags say in each phase of a boot.
FlagsInv ==
    /\ pc \in {"off"} \cup BootPcs => ~signalled /\ ~haveTime
    /\ haveTime => signalled
    /\ pc = "confirm" => signalled /\ ~confirmed
    /\ pc \in ConfirmPcs => confirmed
    /\ pc \in UpdatePcs => haveTime
    /\ signalled /\ pc # "confirm" => confirmed \/ markFailed

\* The image that is running is the selected one, and what its slot's state says of its trial.
SlotsInv ==
    /\ Up => run = sel /\ slots[run].state # "new"
    /\ pc # "halt" => Bootable(sel)
    /\ confirmed => slots[run].state # "pending"
    /\ pc \in {"run", "confirm"} \cup UpdatePcs /\ ~confirmed =>
            (pendingVerify <=> slots[run].state = "pending")

\* Only signed images are ever in a slot, and an update that has come to its
\* end holds the bytes its manifest names.
SignedInv ==
    /\ \A s \in Slots : Signed(slots[s].img)
    /\ pc \in UpdatePcs => m \in Manifests /\ m.authentic
    /\ pc = "end" => got = m.img

\* While no mark-valid call has failed, an image on trial has a fallback that is not.
FallbackInv ==
    ~markFailed =>
        /\ slots[Other].state \notin {"new", "pending"}
        /\ pc # "halt" /\ slots[sel].state \in {"new", "pending"} => Bootable(Other)
        /\ pc # "halt"

\* No image below the highest one proven can be reached, unless an update was
\* accepted in a boot that could not store the floor.
SecurityInv ==
    /\ pc = "trial" => IsBootOnTrial(Running.ver, Running.sec)
    /\ pc \in {"recordSec", "clearStreak", "floor"} => okVer = Running.ver
    /\ floorWrite # "exposed" =>
        /\ pc # "halt" =>
            /\ slots[sel].img.sec >= proven
            /\ Settled \/ ~Bootable(Other) \/ slots[Other].img.sec >= proven
        /\ pc # "halt" /\ floor < proven =>
            /\ Settled
            /\ pc \in {"confirm"} \cup ConfirmPcs \/ ~signalled \/ floorWrite = "failed"
        /\ pc \in UpdatePcs => m.sec >= proven /\ floorWrite # "failed"
    /\ floorWrite = "failed" => confirmed

\* The streak counts boots of the image installed last only.
StreakInv ==
    /\ ~markFailed => streak <= tries
    /\ confirmed /\ pc \notin {"recordVer", "recordSec", "clearStreak"} => streak = 0

IInv == TypeOK /\ FlagsInv /\ SlotsInv /\ SignedInv /\ FallbackInv /\ SecurityInv /\ StreakInv

-----------------------------------------------------------------------------
(***************************************************************************)
(* One lemma for each group of actions, one step for each action.  Where a *)
(* step rewrites a slot, the type of the slots comes first.                *)
(***************************************************************************)
SlotStates == {"new", "pending", "valid", "invalid", "aborted"}
Contents == [img : Images, whole : BOOLEAN, state : SlotStates]
Flags == {pendingVerify, confirmed, signalled, haveTime, contact, markFailed}

\* After a reset what RAM held is lost, and still typed.
LEMMA LostRamTyped == ASSUME IInv, LoseRam, UNCHANGED markFailed
                      PROVE  /\ Flags' \subseteq BOOLEAN /\ ~confirmed'
                             /\ m' = NoManifest /\ got' \in Images
                             /\ floorWrite' \in {"ok", "exposed"}
<1>1. markFailed \in BOOLEAN
  BY DEF IInv, TypeOK
<1>2. Flags' \subseteq BOOLEAN
  BY <1>1 DEF LoseRam, Flags
<1> QED BY <1>2, ImagesTyped DEF LoseRam, IInv, TypeOK

LEMMA InitHolds == Init => IInv
<1> SUFFICES ASSUME Init PROVE IInv
  OBVIOUS
<1>1. slots \in [Slots -> Contents]
  <2>1. \A s \in Slots : [img |-> Baseline, whole |-> s = 0, state |-> "valid"] \in Contents
    BY ImagesTyped DEF Contents, SlotStates
  <2> QED BY <2>1 DEF Init
<1>2. TypeOK
  <2>1. Flags \subseteq BOOLEAN
    BY DEF Init, Flags
  <2>2. got \in Images /\ ~confirmed
    BY ImagesTyped DEF Init
  <2> QED
    BY <1>1, <2>1, <2>2, ImagesTyped DEF Init, TypeOK, Contents, SlotStates, Slots, NoVer, Flags
<1>3. slots[0].whole = TRUE /\ slots[0].state = "valid" /\ slots[1].state = "valid"
  BY DEF Init, Slots
<1>4. slots[0].img = Baseline /\ slots[1].img = Baseline
  BY DEF Init, Slots
<1>5. QED
  BY <1>2, <1>3, <1>4, ImagesTyped
  DEF Init, IInv, FlagsInv, SlotsInv, SignedInv, FallbackInv, SecurityInv, StreakInv,
      ConfirmPcs, UpdatePcs, BootPcs, Up, Other, OtherSlot, Slots, Bootable, Signed, Settled,
      NoVer

\* Resets, the bootloader and the trial check.  An image is only left (BootAborts,
\* RollBack) when it is not Settled: so the slot behind it is not below what is proven.
LEMMA BootingKeeps == ASSUME IInv, Reset \/ Booting PROVE IInv'
<1> USE ImagesTyped
    DEF IInv, TypeOK, FlagsInv, SlotsInv, SignedInv, FallbackInv, SecurityInv, StreakInv,
        ConfirmPcs, UpdatePcs, BootPcs, Up, Other, OtherSlot, Slots, Bootable, Running, Signed,
        Settled, IsBootOnTrial, LoseRam, flash, nvs, ram, dl, hist
<1>1. CASE Reset
  BY <1>1 DEF Reset
<1>2. CASE BootSelected
  <2>1. TypeOK'
    BY <1>2 DEF BootSelected
  <2>2. FlagsInv' /\ SlotsInv' /\ StreakInv'
    BY <1>2, <2>1 DEF BootSelected
  <2>3. SignedInv' /\ FallbackInv'
    BY <1>2, <2>1 DEF BootSelected
  <2>4. SecurityInv'
    BY <1>2, <2>1 DEF BootSelected
  <2> QED BY <2>1, <2>2, <2>3, <2>4
<1>3. CASE BootAborts
  <2>1. TypeOK'
    BY <1>3 DEF BootAborts
  <2>2. FlagsInv' /\ SlotsInv' /\ StreakInv'
    BY <1>3, <2>1 DEF BootAborts
  <2>3. SignedInv' /\ FallbackInv'
    BY <1>3, <2>1 DEF BootAborts
  <2>4. SecurityInv'
    BY <1>3, <2>1 DEF BootAborts
  <2> QED BY <2>1, <2>2, <2>3, <2>4
<1>4. CASE CountBoot
  BY <1>4 DEF CountBoot
<1>5. CASE RollBack
  <2>1. slots' \in [Slots -> Contents]
    BY <1>5 DEF RollBack, Contents, SlotStates
  <2>2. TypeOK'
    <3>1. /\ Flags' \subseteq BOOLEAN /\ ~confirmed' /\ m' = NoManifest /\ got' \in Images
          /\ floorWrite' \in {"ok", "exposed"}
      BY <1>5, LostRamTyped DEF RollBack
    <3> HIDE DEF LoseRam
    <3> QED BY <1>5, <2>1, <3>1 DEF RollBack, Contents, SlotStates, Flags
  <2>3. FlagsInv' /\ SlotsInv' /\ StreakInv'
    BY <1>5, <2>2 DEF RollBack
  <2>4. SignedInv' /\ FallbackInv'
    BY <1>5, <2>2 DEF RollBack
  <2>5. SecurityInv'
    BY <1>5, <2>2 DEF RollBack
  <2> QED BY <2>2, <2>3, <2>4, <2>5
<1>6. CASE ContinueBoot
  BY <1>6 DEF ContinueBoot
<1>7. CASE NoteBoot
  BY <1>7 DEF NoteBoot
<1> QED BY <1>1, <1>2, <1>3, <1>4, <1>5, <1>6, <1>7 DEF Booting

\* loop()'s two health signals, and the writes of confirmHealthyBoot().  The
\* image becomes Settled at RecordSec, the step that may raise what is proven.
LEMMA ConfirmingKeeps == ASSUME IInv, PushAcked \/ ConfigPolled \/ Confirming PROVE IInv'
<1> USE ImagesTyped
    DEF IInv, TypeOK, FlagsInv, SlotsInv, SignedInv, FallbackInv, SecurityInv, StreakInv,
        ConfirmPcs, UpdatePcs, BootPcs, Up, Other, OtherSlot, Slots, Bootable, Running, Signed,
        Settled, IsBootOnTrial, flash, nvs, ram, dl, hist
<1>1. CASE PushAcked
  <2>1. TypeOK'
    BY <1>1 DEF PushAcked, Signal
  <2>2. FlagsInv' /\ SlotsInv' /\ StreakInv'
    BY <1>1 DEF PushAcked, Signal
  <2>3. SignedInv' /\ FallbackInv' /\ SecurityInv'
    BY <1>1 DEF PushAcked, Signal
  <2> QED BY <2>1, <2>2, <2>3
<1>2. CASE ConfigPolled
  <2>1. TypeOK'
    BY <1>2 DEF ConfigPolled, Signal
  <2>2. FlagsInv' /\ SlotsInv' /\ StreakInv'
    BY <1>2 DEF ConfigPolled, Signal
  <2>3. SignedInv' /\ FallbackInv' /\ SecurityInv'
    BY <1>2 DEF ConfigPolled, Signal
  <2> QED BY <2>1, <2>2, <2>3
<1>3. CASE Confirm
  <2>1. TypeOK'
    BY <1>3 DEF Confirm
  <2>2. FlagsInv' /\ SlotsInv' /\ StreakInv'
    BY <1>3, <2>1 DEF Confirm
  <2>3. SignedInv' /\ FallbackInv'
    BY <1>3, <2>1 DEF Confirm
  <2>4. SecurityInv'
    BY <1>3, <2>1 DEF Confirm
  <2> QED BY <2>1, <2>2, <2>3, <2>4
<1>4. CASE ConfirmFails
  BY <1>4 DEF ConfirmFails
<1>5. CASE RecordVer
  BY <1>5 DEF RecordVer
<1>6. CASE RecordSec
  BY <1>6 DEF RecordSec
<1>7. CASE ClearStreak
  BY <1>7 DEF ClearStreak
<1>8. CASE AdvanceFloor
  BY <1>8 DEF AdvanceFloor
<1>9. CASE FloorWriteFails
  BY <1>9 DEF FloorWriteFails
<1> QED BY <1>1, <1>2, <1>3, <1>4, <1>5, <1>6, <1>7, <1>8, <1>9 DEF Confirming

\* poll() and doVerifiedUpdate_().  A download starts only in a boot that has the
\* time, so after it was confirmed: the floor has caught up with what is proven.
LEMMA UpdatingKeeps == ASSUME IInv, Updating PROVE IInv'
<1> USE ImagesTyped, SignedIsTrue
    DEF IInv, TypeOK, FlagsInv, SlotsInv, SignedInv, FallbackInv, SecurityInv, StreakInv,
        ConfirmPcs, UpdatePcs, BootPcs, Up, Other, OtherSlot, Slots, Bootable, Running, Signed,
        Settled, IsBootOnTrial, LoseRam, flash, nvs, ram, dl, hist
<1>1. ASSUME NEW x \in Manifests, PollAccepts(x) PROVE IInv'
  <2>1. TypeOK' /\ FlagsInv' /\ SlotsInv' /\ StreakInv'
    BY <1>1 DEF PollAccepts, VerifyManifestAuthenticity
  <2>2. SignedInv' /\ FallbackInv'
    BY <1>1 DEF PollAccepts, VerifyManifestAuthenticity
  <2>3. SecurityInv'
    BY <1>1 DEF PollAccepts, VerifyManifestAuthenticity, EvaluateOtaCandidate, ManifestFields
  <2> QED BY <2>1, <2>2, <2>3
<1>2. CASE UpdateBegin
  <2>1. slots' \in [Slots -> Contents]
    <3>1. slots \in [Slots -> Contents] /\ OtherSlot(run) \in Slots
      BY DEF Contents, SlotStates
    <3>2. \A c \in Contents : [c EXCEPT !.whole = FALSE] \in Contents
      BY DEF Contents
    <3> QED BY <1>2, <3>1, <3>2 DEF UpdateBegin
  <2>2. TypeOK'
    BY <1>2, <2>1 DEF UpdateBegin, Contents, SlotStates
  <2>3. FlagsInv' /\ SlotsInv' /\ StreakInv'
    BY <1>2, <2>2 DEF UpdateBegin
  <2>4. SignedInv' /\ FallbackInv'
    BY <1>2, <2>2 DEF UpdateBegin
  <2>5. SecurityInv'
    BY <1>2, <2>2 DEF UpdateBegin
  <2> QED BY <2>2, <2>3, <2>4, <2>5
<1>3. ASSUME NEW i \in Images, StreamDone(i) PROVE IInv'
  BY <1>3 DEF StreamDone
<1>4. CASE VerifyHash
  BY <1>4 DEF VerifyHash, HashMatches
<1>5. CASE UpdateEnd
  <2>1. PICK st \in Arming : slots' = [slots EXCEPT ![OtherSlot(run)] =
                                          [img |-> got, whole |-> TRUE, state |-> st]]
    BY <1>5 DEF UpdateEnd
  <2>2. slots' \in [Slots -> Contents]
    BY <1>5, <2>1 DEF Contents, SlotStates
  <2>3. TypeOK'
    <3>1. /\ Flags' \subseteq BOOLEAN /\ ~confirmed' /\ m' = NoManifest /\ got' \in Images
          /\ floorWrite' \in {"ok", "exposed"}
      BY <1>5, LostRamTyped DEF UpdateEnd
    <3> HIDE DEF LoseRam
    <3> QED BY <1>5, <2>2, <3>1 DEF UpdateEnd, Contents, SlotStates, Flags
  <2>4. FlagsInv' /\ SlotsInv' /\ StreakInv'
    BY <1>5, <2>1, <2>3 DEF UpdateEnd
  <2>5. SignedInv' /\ FallbackInv'
    BY <1>5, <2>1, <2>3 DEF UpdateEnd
  <2>6. SecurityInv'
    BY <1>5, <2>1, <2>3 DEF UpdateEnd, ManifestFields
  <2> QED BY <2>3, <2>4, <2>5, <2>6
<1>6. CASE UpdateFails
  <2>1. TypeOK' /\ FlagsInv' /\ SlotsInv' /\ StreakInv'
    BY <1>6 DEF UpdateFails
  <2>2. SignedInv' /\ FallbackInv' /\ SecurityInv'
    BY <1>6 DEF UpdateFails
  <2> QED BY <2>1, <2>2
<1> QED BY <1>1, <1>2, <1>3, <1>4, <1>5, <1>6 DEF Updating

LEMMA StepHolds == IInv /\ [Next]_vars => IInv'
<1> SUFFICES ASSUME IInv, [Next]_vars PROVE IInv'
  OBVIOUS
<1>1. CASE UNCHANGED vars
  BY <1>1 DEF IInv, TypeOK, FlagsInv, SlotsInv, SignedInv, FallbackInv, SecurityInv, StreakInv,
     ConfirmPcs, UpdatePcs, BootPcs, Up, Other, OtherSlot, Slots, Bootable, Running, Signed,
     Settled, IsBootOnTrial, vars, flash, nvs, ram, dl, hist
<1>2. CASE Next
  BY <1>1, <1>2, BootingKeeps, ConfirmingKeeps, UpdatingKeeps DEF Next, Halted
<1> QED BY <1>1, <1>2

-----------------------------------------------------------------------------
\* IInv is inductive, so it holds in every state: the form the theorems below use it in.
THEOREM Invariance == Spec => []IInv
  BY InitHolds, StepHolds, PTL DEF Spec

\* Every variable of the update and of the boot trial has its type.
THEOREM TypeCorrect == Spec => []TypeOK
<1>1. IInv => TypeOK
  BY DEF IInv
<1> QED BY <1>1, Invariance, PTL

\* The device never runs an image below the highest security version recorded as
\* healthy, and never starts to install one, whichever of confirmHealthyBoot()'s
\* writes a reset has cut off.
THEOREM NeverDowngradesAlways == Spec => []NeverDowngrades
<1>1. IInv => NeverDowngrades
  BY DEF IInv, SlotsInv, SecurityInv, NeverDowngrades, Running, Up, UpdatePcs
<1> QED BY <1>1, Invariance, PTL

\* otadata selects a whole image that a signed manifest names, or the baseline.
THEOREM SelectedIsVerifiedAlways == Spec => []SelectedIsVerified
<1>1. IInv => SelectedIsVerified
  BY DEF IInv, TypeOK, SlotsInv, SignedInv, SelectedIsVerified, Signed, Bootable
<1> QED BY <1>1, Invariance, PTL

\* The bootloader always finds an image to start, unless a mark-valid call has failed.
THEOREM NeverBrickedAlways == Spec => []NeverBricked
<1>1. IInv => NeverBricked
  BY DEF IInv, FallbackInv, NeverBricked
<1> QED BY <1>1, Invariance, PTL

\* setup() rolls back only an image that has had all its boots.
THEOREM FullTrialAlways == Spec => FullTrial
<1>1. IInv /\ RollBack /\ ~markFailed => tries >= Limit
  BY ImagesTyped DEF IInv, TypeOK, StreakInv, RollBack
<1> QED BY <1>1, Invariance, PTL DEF Spec, FullTrial
==============================================================================
