------------------------------ MODULE OtaUpdate ------------------------------
(***************************************************************************)
(* Firmware update and rollback: ota.h with its two policies               *)
(* (ota_version_policy.h, ota_manifest_auth.h), the trial of a new image   *)
(* (boot_health.h, setup() and loop() in covio_firmware.ino), its records  *)
(* in NVS (store.h) and, as external parts, the bootloader and the update  *)
(* library.  A reset (crash, watchdog, power cut) may come between any two *)
(* writes to flash.                                                        *)
(*                                                                         *)
(* Left out: what is only reported (failed_, the reject reasons, the       *)
(* ota_debug fields) and when polls happen (periods and backoff): a poll   *)
(* may happen at any time.                                                 *)
(***************************************************************************)
EXTENDS Naturals

CONSTANTS
    Images,     \* firmware builds: records with ver, sec (FW_SECURITY_VERSION)
    Baseline,   \* the build flashed over USB
    Bad,        \* builds that crash before they have been up long enough to prove healthy
    Manifests,  \* what the server may serve: see ManifestFields
    Limit,      \* UNHEALTHY_BOOT_STREAK_LIMIT
    Arming      \* states Update.end() may leave the new slot in: the toolchain's
                \* bootloader does not always arm a trial (ota.h:228-240)

ASSUME ImagesTyped ==
    /\ \A i \in Images : i.ver \in Nat \ {0} /\ i.sec \in Nat
    /\ Baseline \in Images \ Bad /\ Bad \subseteq Images
    /\ Limit \in Nat \ {0} /\ Arming \subseteq {"new", "valid"}

\* A manifest's claims.  hw and schema may be missing; complete: every other
\* field that poll() asks for is there; authentic: key id and signature check out; fresh:
\* neither expired nor issued in the future; img: the build whose hash it has.
ManifestFields ==
    [ver : Nat, sec : Nat, hw : {"this", "other", "none"}, schema : {"this", "other", "none"},
     complete : BOOLEAN, authentic : BOOLEAN, fresh : BOOLEAN, img : Images]

\* The release process signs only what is true of a build.
ASSUME SignedIsTrue ==
    /\ Manifests \subseteq ManifestFields
    /\ \A m \in Manifests : m.authentic => m.ver = m.img.ver /\ m.sec = m.img.sec

VARIABLES
    slots,      \* slot -> [img, whole, state]: the two app partitions and otadata
    sel,        \* the slot otadata selects for the next boot
    run,        \* the slot that is running
    okVer, okSec, streak, floor,    \* NVS namespace p_sec_
    pc,
    pendingVerify, confirmed, signalled, haveTime,    \* RAM
    m,          \* the manifest poll() is acting on, and what was downloaded for it
    got,
    contact,    \* history: the server has answered with a 200 in this boot
    floorWrite, \* history: "failed": the floor was not stored in this boot;
                \* "exposed": an update was accepted in such a boot; else "ok"
    tries,      \* history: counted boots of the image installed last
    proven,     \* history: highest security version ever recorded as healthy
    markFailed  \* history: esp_ota_mark_app_valid_cancel_rollback() has failed

flash == <<slots, sel>>
nvs == <<okVer, okSec, streak, floor>>
ram == <<pendingVerify, confirmed, signalled, haveTime, contact, floorWrite>>
dl == <<m, got>>
hist == <<tries, proven, markFailed>>
vars == <<flash, run, nvs, pc, ram, dl, hist>>

Slots == {0, 1}
Running == slots[run].img
NoVer == 0      \* lastConfirmedFwVersion() == ""
NoManifest == [ver |-> NoVer, img |-> Baseline]

\* esp_ota_get_next_update_partition()
OtherSlot(s) == 1 - s

Init ==
    /\ slots = [s \in Slots |-> [img |-> Baseline, whole |-> s = 0, state |-> "valid"]]
    /\ sel = 0 /\ run = 0
    /\ okVer = NoVer /\ okSec = 0 /\ streak = 0 /\ floor = 0
    /\ pc = "off"
    /\ pendingVerify = FALSE /\ confirmed = FALSE /\ signalled = FALSE
    /\ haveTime = FALSE /\ contact = FALSE /\ floorWrite = "ok"
    /\ m = NoManifest /\ got = Baseline
    /\ tries = 0 /\ proven = 0 /\ markFailed = FALSE

-----------------------------------------------------------------------------
(***************************************************************************)
(* Resets, the bootloader (external) and the trial check of setup().       *)
(***************************************************************************)
LoseRam ==
    /\ pendingVerify' = FALSE /\ confirmed' = FALSE /\ signalled' = FALSE
    /\ haveTime' = FALSE /\ contact' = FALSE
    /\ floorWrite' = IF floorWrite = "failed" THEN "ok" ELSE floorWrite
    /\ m' = NoManifest /\ got' = Baseline

Reset ==
    /\ pc \notin {"off", "halt"}
    /\ pc' = "off"
    /\ LoseRam
    /\ UNCHANGED <<flash, run, nvs, hist>>

Bootable(s) == slots[s].whole /\ slots[s].state \notin {"invalid", "aborted"}

\* The selected image starts; a new one goes on trial.
BootSelected ==
    /\ pc = "off"
    /\ Bootable(sel) /\ slots[sel].state # "pending"
    /\ slots' = IF slots[sel].state = "new" THEN [slots EXCEPT ![sel].state = "pending"] ELSE slots
    /\ run' = sel
    /\ pc' = "boot"
    /\ UNCHANGED <<sel, nvs, ram, dl, hist>>

\* An image that comes up a second time without being confirmed is given up.
BootAborts ==
    /\ pc = "off"
    /\ slots[sel].state = "pending"
    /\ slots' = [slots EXCEPT ![sel].state = "aborted"]
    /\ sel' = OtherSlot(sel)
    /\ pc' = IF Bootable(OtherSlot(sel)) THEN "off" ELSE "halt"
    /\ UNCHANGED <<run, nvs, ram, dl, hist>>

\* Mutant of IsBootOnTrial: compares the security version only.
IsSecOnTrial(ver, sec) == okSec # sec

\* isBootOnTrial()
IsBootOnTrial(ver, sec) == okVer # ver \/ okSec # sec

\* setup(): a boot of an image never confirmed counts against it.  (The streak
\* stops at Limit here; the code counts on and only compares with Limit.)
CountBoot ==
    /\ pc = "boot"
    /\ IF IsBootOnTrial(Running.ver, Running.sec)
       THEN /\ streak' = IF streak < Limit THEN streak + 1 ELSE streak
            /\ tries' = IF tries < Limit THEN tries + 1 ELSE tries
            /\ pc' = "trial"
       ELSE pc' = "note" /\ UNCHANGED <<streak, tries>>
    /\ UNCHANGED <<flash, run, okVer, okSec, floor, ram, dl, proven, markFailed>>

RollBack ==
    /\ pc = "trial" /\ streak >= Limit
    /\ Bootable(OtherSlot(run))
    /\ slots' = [slots EXCEPT ![run].state = "invalid"]
    /\ sel' = OtherSlot(run)
    /\ pc' = "off"
    /\ LoseRam
    /\ UNCHANGED <<run, nvs, hist>>

\* The limit is not reached, or there is nothing to roll back to.
ContinueBoot ==
    /\ pc = "trial"
    /\ streak < Limit \/ ~Bootable(OtherSlot(run))
    /\ pc' = "note"
    /\ UNCHANGED <<flash, run, nvs, ram, dl, hist>>

\* noteBoot(); loop() starts.
NoteBoot ==
    /\ pc = "note"
    /\ pendingVerify' = (slots[run].state = "pending")
    /\ pc' = "run"
    /\ UNCHANGED <<flash, run, nvs, confirmed, signalled, haveTime, contact, floorWrite, dl, hist>>

-----------------------------------------------------------------------------
(***************************************************************************)
(* Health: the two places in loop() that call confirmHealthyBoot(), and    *)
(* its writes in order.                                                    *)
(***************************************************************************)
\* if (!healthySignalled) { confirmHealthyBoot(); healthySignalled = true; }
Signal ==
    /\ signalled' = TRUE
    /\ pc' = IF signalled THEN "run" ELSE "confirm"

\* pushOnce() returned true; its answer carries the time, as a rule.
PushAcked ==
    /\ pc = "run" /\ Running \notin Bad
    /\ haveTime' \in {haveTime, TRUE}
    /\ contact' = TRUE
    /\ Signal
    /\ UNCHANGED <<flash, run, nvs, pendingVerify, confirmed, floorWrite, dl, hist>>

\* pollConfig() returned, with a 200 or not; WiFi is up.
ConfigPolled ==
    /\ pc = "run" /\ Running \notin Bad
    /\ contact' \in {contact, TRUE}
    /\ Signal
    /\ UNCHANGED <<flash, run, nvs, pendingVerify, confirmed, haveTime, floorWrite, dl, hist>>

\* confirmHealthyBoot(): a trial the bootloader armed is cancelled first.
Confirm ==
    /\ pc = "confirm"
    /\ slots' = IF pendingVerify THEN [slots EXCEPT ![run].state = "valid"] ELSE slots
    /\ confirmed' = TRUE
    /\ pc' = "recordVer"
    /\ UNCHANGED <<sel, run, nvs, pendingVerify, signalled, haveTime, contact, floorWrite, dl, hist>>

ConfirmFails ==
    /\ pc = "confirm" /\ pendingVerify
    /\ markFailed' = TRUE
    /\ pc' = "run"
    /\ UNCHANGED <<flash, run, nvs, ram, dl, tries, proven>>

\* recordHealthyBoot(): three keys, one after the other.
RecordVer ==
    /\ pc = "recordVer"
    /\ okVer' = Running.ver
    /\ pc' = "recordSec"
    /\ UNCHANGED <<flash, run, okSec, streak, floor, ram, dl, hist>>

RecordSec ==
    /\ pc = "recordSec"
    /\ okSec' = Running.sec
    /\ proven' = IF Running.sec > proven THEN Running.sec ELSE proven
    /\ pc' = "clearStreak"
    /\ UNCHANGED <<flash, run, okVer, streak, floor, ram, dl, tries, markFailed>>

\* Mutant of ClearStreak: the image is recorded, the streak stays.
ClearStreakSkipped ==
    /\ pc = "clearStreak"
    /\ pc' = "floor"
    /\ UNCHANGED <<flash, run, nvs, ram, dl, hist>>

ClearStreak ==
    /\ pc = "clearStreak"
    /\ streak' = 0
    /\ pc' = "floor"
    /\ UNCHANGED <<flash, run, okVer, okSec, floor, ram, dl, hist>>

\* The anti-downgrade floor.
AdvanceFloor ==
    /\ pc = "floor"
    /\ floor' = IF Running.sec > floor THEN Running.sec ELSE floor
    /\ pc' = "run"
    /\ UNCHANGED <<flash, run, okVer, okSec, streak, ram, dl, hist>>

\* What is read back is not what was put: it is logged, and tried again when the
\* next boot is confirmed.
FloorWriteFails ==
    /\ pc = "floor" /\ Running.sec > floor
    /\ floorWrite' = IF floorWrite = "ok" THEN "failed" ELSE floorWrite
    /\ pc' = "run"
    /\ UNCHANGED <<flash, run, nvs, pendingVerify, confirmed, signalled, haveTime, contact, dl, hist>>

-----------------------------------------------------------------------------
(***************************************************************************)
(* poll() and doVerifiedUpdate_().                                         *)
(***************************************************************************)
\* Mutant of EvaluateOtaCandidate: no anti-downgrade rule.
EvaluateWithoutFloor(x) == x.hw \in {"this", "none"} /\ x.schema \in {"this", "none"}

\* evaluateOtaCandidate() = OTA_ACCEPT
EvaluateOtaCandidate(x) ==
    /\ x.sec >= floor
    /\ x.hw \in {"this", "none"}
    /\ x.schema \in {"this", "none"}

\* Mutant of VerifyManifestAuthenticity: no time source needed.
VerifyWithoutTime(x) == x.authentic /\ x.fresh

\* verifyManifestAuthenticity_() = OTA_AUTH_OK
VerifyManifestAuthenticity(x) == haveTime /\ x.fresh /\ x.authentic

\* A manifest that passes every gate: the download starts.  Any other poll
\* returns without a change of state.
PollAccepts(x) ==
    /\ pc = "run"
    /\ x.ver # Running.ver
    /\ EvaluateOtaCandidate(x)
    /\ x.complete /\ x.hw # "none"
    /\ VerifyManifestAuthenticity(x)
    /\ m' = x
    /\ pc' = "begin"
    /\ floorWrite' = IF floorWrite = "failed" THEN "exposed" ELSE floorWrite
    /\ UNCHANGED <<flash, run, nvs, pendingVerify, confirmed, signalled, haveTime, contact, got, hist>>

\* Connecting, the size check or Update.begin() fails, or later the transfer,
\* the hash check or Update.end(): back to loop(), otadata untouched.
UpdateFails ==
    /\ pc \in {"begin", "stream", "verify", "end"}
    /\ pc' = "run"
    /\ m' = NoManifest /\ got' = Baseline
    /\ UNCHANGED <<flash, run, nvs, ram, hist>>

\* Update.begin() and the first write: what the other slot held is gone.
UpdateBegin ==
    /\ pc = "begin"
    /\ slots' = [slots EXCEPT ![OtherSlot(run)].whole = FALSE]
    /\ pc' = "stream"
    /\ UNCHANGED <<sel, run, nvs, ram, dl, hist>>

\* As many bytes as the manifest says have arrived, of this build or of another.
StreamDone(i) ==
    /\ pc = "stream"
    /\ got' = i
    /\ pc' = "verify"
    /\ UNCHANGED <<flash, run, nvs, ram, m, hist>>

\* Mutant of HashMatches: the version string is compared instead.
HashIgnored == m.ver # NoVer

HashMatches == got = m.img

VerifyHash ==
    /\ pc = "verify"
    /\ HashMatches
    /\ pc' = "end"
    /\ UNCHANGED <<flash, run, nvs, ram, dl, hist>>

\* Update.end(true) and ESP.restart(): the new slot is selected.
UpdateEnd ==
    /\ pc = "end"
    /\ \E st \in Arming :
          slots' = [slots EXCEPT ![OtherSlot(run)] = [img |-> got, whole |-> TRUE, state |-> st]]
    /\ sel' = OtherSlot(run)
    /\ tries' = 0
    /\ pc' = "off"
    /\ LoseRam
    /\ UNCHANGED <<run, nvs, proven, markFailed>>

-----------------------------------------------------------------------------
Booting == BootSelected \/ BootAborts \/ CountBoot \/ RollBack \/ ContinueBoot \/ NoteBoot
Confirming ==
    Confirm \/ ConfirmFails \/ RecordVer \/ RecordSec \/ ClearStreak \/ AdvanceFloor
    \/ FloorWriteFails
Updating ==
    \/ \E x \in Manifests : PollAccepts(x)
    \/ UpdateBegin
    \/ \E i \in Images : StreamDone(i)
    \/ VerifyHash
    \/ UpdateEnd
    \/ UpdateFails

\* No image on the device can be started: it stays so.
Halted == pc = "halt" /\ UNCHANGED vars

Next ==
    \/ Reset
    \/ Booting
    \/ PushAcked \/ ConfigPolled
    \/ Confirming
    \/ Updating
    \/ Halted

\* Booting goes on by itself, and a bad image resets before it is healthy.  The
\* trial check is the first thing setup() does, a few milliseconds after the
\* start: a reset may come before it, but not every time.
Fairness ==
    /\ WF_vars(Booting) /\ SF_vars(CountBoot) /\ SF_vars(RollBack)
    /\ WF_vars(Reset /\ pc = "run" /\ Running \in Bad)

Spec == Init /\ [][Next]_vars /\ Fairness

-----------------------------------------------------------------------------
(***************************************************************************)
(* Properties                                                              *)
(***************************************************************************)
\* Every variable has its type, and confirmHealthyBoot() has run to its end only
\* in a boot whose loop has noted that it called it.
TypeOK ==
    /\ slots \in [Slots -> [img : Images, whole : BOOLEAN,
                            state : {"new", "pending", "valid", "invalid", "aborted"}]]
    /\ sel \in Slots /\ run \in Slots
    /\ okVer \in Nat /\ okSec \in Nat /\ streak \in 0 .. Limit /\ floor \in Nat
    /\ pc \in {"off", "halt", "boot", "trial", "note", "run", "confirm", "recordVer", "recordSec",
               "clearStreak", "floor", "begin", "stream", "verify", "end"}
    /\ {pendingVerify, confirmed, signalled, haveTime, contact, markFailed} \subseteq BOOLEAN
    /\ floorWrite \in {"ok", "failed", "exposed"}
    /\ m \in Manifests \cup {NoManifest} /\ got \in Images
    /\ tries \in 0 .. Limit /\ proven \in Nat
    /\ confirmed => signalled

\* "The highest FW_SECURITY_VERSION any firmware image has ever been CONFIRMED
\* healthy" (store.h:110-111) is never undercut: an image below it is neither
\* installed nor rolled back to, although the floor is written three writes
\* after the image is recorded as healthy and a reset may come in between, and
\* although that write may fail (ota.h:314-316): the next boot makes up for it
\* before it can update.  Only an update accepted in the boot in which it failed
\* may be an older one.
NeverDowngrades == floorWrite # "exposed" /\ pc \in {"begin", "end", "run"} =>
    /\ Running.sec >= proven
    /\ pc # "run" => m.sec >= proven

\* otadata only ever selects a whole image whose hash a signed manifest names:
\* "nothing ever points the bootloader at" partial or wrong bytes (ota.h:584-585).
SelectedIsVerified ==
    pc # "halt" =>
        /\ slots[sel].whole
        /\ slots[sel].img = Baseline \/ \E x \in Manifests : x.authentic /\ x.img = slots[sel].img

\* A device is never left without an image to start, whatever is reset when:
\* an update only overwrites the fallback of an image that is confirmed.  (Not
\* so once cancelling an armed trial has failed: the loop does not try again
\* in that boot, and polls for updates all the same.)
NeverBricked == ~markFailed => pc # "halt"

\* A new image is not rolled back before its own UNHEALTHY_BOOT_STREAK_LIMIT-th
\* counted boot: the streak of an earlier image is never charged to it.
FullTrial == [][(RollBack /\ ~markFailed) => tries >= Limit]_vars

\* A build that keeps crashing before it is confirmed does not stay (boot_health.h
\* header), whether or not the bootloader armed its own trial.  (Once cancelling
\* an armed trial has failed the image behind it may be one to be given up too.)
BadImageLeaves == (Running \in Bad) ~> (Running \notin Bad \/ markFailed)

\* confirmHealthyBoot() is for a device that has "WiFi connected AND at least one
\* successful server ack or config fetch" (ota.h:225-226).
ConfirmedMeansContact == confirmed => contact
=============================================================================
