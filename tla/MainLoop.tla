------------------------------ MODULE MainLoop ------------------------------
(***************************************************************************)
(* The schedule of loop() in covio_firmware.ino: one cooperative task that *)
(* feeds the task watchdog once per iteration, builds a row every          *)
(* TELEMETRY_PERIOD_MS and makes at most one of its three kinds of HTTPS   *)
(* call (push, config poll, update poll) per iteration, each when its      *)
(* timer is due, with the retry windows of sync.h and ota.h.               *)
(*                                                                         *)
(* A timer is the time since it was last set, seen from `now', which       *)
(* loop() reads at its top and nowhere else.  Times are only compared      *)
(* with >=, so every one of them stops growing at what it is compared      *)
(* with; that keeps the model finite without a bound on time.  millis()    *)
(* differences are wrap-safe in the code and the times here are far below  *)
(* a wrap.  What the calls do to the queue, the settings and the           *)
(* partitions is in Pipeline, WifiProvision and OtaUpdate.                 *)
(***************************************************************************)
EXTENDS Integers, FiniteSetsExt

CONSTANTS
    TelemetryPeriod, PushPeriod, ConfigPoll, OtaPoll,  \* the timers of config.h
    Step,        \* an iteration that makes no call: its work and delay(5)
    Txn,         \* HTTPS_WORST_CASE_TXN_MS
    Wdt,         \* WATCHDOG_TIMEOUT_S
    Stream,      \* how long an image may stream before it fails or is complete
    PushCap,     \* the cap of pushBackoffMs_ before jitter
    OtaCap,      \* the cap of otaBackoffMs_
    Jitter       \* esp_random() % 1000

ASSUME TimesAreNat ==
    /\ {TelemetryPeriod, PushPeriod, ConfigPoll, OtaPoll, Step, Txn, Wdt, Stream,
        PushCap, OtaCap, Jitter} \subseteq Nat
    /\ Step > 0

\* The static_assert of config.h:524, and an idle iteration (some 5 ms) that is
\* shorter than every period.
ASSUME WatchdogExceedsTxn ==
    /\ Wdt > Txn
    /\ Step < TelemetryPeriod /\ TelemetryPeriod <= PushPeriod
    /\ PushPeriod <= ConfigPoll /\ ConfigPoll <= OtaPoll

\* notePushFailureBackoff_(): the first window is below the cap of the later ones.
ASSUME FirstWindowBelowCap == 2 * PushPeriod <= PushCap

VARIABLES
    pc,          \* the next part of the iteration; "ap" in the provisioning branch
    timer,       \* now - tTelemetry, now - tPush, now - tConfig, now - tOta
    sinceFeed,   \* time since esp_task_wdt_reset()
    netSlotUsed, \* this iteration has had its call
    push,        \* Sync: [backoff |-> pushBackoffMs_, since |-> millis() - lastPushFailMs_]
    ota,         \* Ota: [backoff |-> otaBackoffMs_, since |-> millis() - lastOtaFailMs_]
    online,      \* WiFi.status() == WL_CONNECTED
    rows,        \* the queue holds rows to send
    pollWait,    \* history: time since loop() last ran pollConfig()
    tryWait,     \* history: time rows have waited, online, for a POST
    slow         \* history: since then a push was acknowledged, after PushPeriod or more

vars == <<pc, timer, sinceFeed, netSlotUsed, push, ota, online, rows, pollWait, tryWait, slow>>

Timers == {"telemetry", "push", "config", "ota"}
Period == [telemetry |-> TelemetryPeriod, push |-> PushPeriod, config |-> ConfigPoll,
           ota |-> OtaPoll]

UpTo(n, cap) == Min({n, cap})
Due(t) == timer[t] >= Period[t]
Set(t) == [timer EXCEPT ![t] = 0]
Later(d) == [t \in Timers |-> UpTo(timer[t] + d, Period[t])]
Older(retry, d) == [retry EXCEPT !.since = UpTo(@ + d, retry.backoff)]
NoRetry == [backoff |-> 0, since |-> 0]

\* Bounds of the two waits, see PollsOnTime and RetriesOnTime.  Both are the
\* sum of the iterations that may come between: the poll falls due just after
\* the start of one that tries an update, then a push fails, then the push timer
\* is due again and takes the slot without a call.
Updating == Wdt + Stream + Step
PollBound == (ConfigPoll - 1) + Updating + (Txn + Step) + Step

\* The push timer is due just before the retry window ends, and the next time
\* just after the start of an iteration that tries an update.
TryBound == (PushCap + Jitter - 1) + (PushPeriod - 1) + Updating

\* d passes inside the iteration, after which rows have waited for w.
Passes(d, w) ==
    /\ sinceFeed' = sinceFeed + d
    /\ pollWait' = UpTo(pollWait + d, PollBound + 1)
    /\ tryWait' = IF rows' /\ online THEN UpTo(w, TryBound + 1) ELSE 0

-----------------------------------------------------------------------------
\* setup(), which took d up to the arming of the watchdog.  The timers are 0 at
\* reset.  Without a station connection it enters the provisioning branch.
Boot(d) ==
    /\ online' \in BOOLEAN
    /\ pc' = IF online' THEN "top" ELSE "ap"
    /\ timer' = [t \in Timers |-> UpTo(d, Period[t])]
    /\ sinceFeed' = 0 /\ netSlotUsed' = FALSE
    /\ push' = NoRetry /\ ota' = NoRetry
    /\ pollWait' = 0 /\ tryWait' = 0 /\ slow' = FALSE
    /\ UNCHANGED rows

\* A power cut, a panic, the `reboot' command.
Reset == \E d \in {0, PushPeriod} : Boot(d)

\* loop() while the portal is up: the timers go on, nothing else runs.
ApIteration ==
    /\ pc = "ap"
    /\ timer' = Later(Step)
    /\ UNCHANGED <<pc, sinceFeed, netSlotUsed, push, ota, online, rows, pollWait, tryWait, slow>>

\* wifiProvision.service() reports that the station is connected.
ApEnds ==
    /\ pc = "ap"
    /\ pc' = "top" /\ online' = TRUE
    /\ UNCHANGED <<timer, sinceFeed, netSlotUsed, push, ota, rows, pollWait, tryWait, slow>>

\* The WiFi driver's task runs beside loop() and may change the status anywhere.
LinkChanges ==
    /\ pc # "ap"
    /\ online' = ~online /\ tryWait' = 0
    /\ UNCHANGED <<pc, timer, sinceFeed, netSlotUsed, push, ota, rows, pollWait, slow>>

\* The top of loop(): feed the watchdog, read `now', build a row when due.
Top ==
    /\ pc = "top"
    /\ pc' = "push"
    /\ sinceFeed' = 0 /\ netSlotUsed' = FALSE
    /\ rows' = (rows \/ Due("telemetry"))
    /\ timer' = IF Due("telemetry") THEN Set("telemetry") ELSE timer
    /\ UNCHANGED <<push, ota, online, pollWait, tryWait, slow>>

-----------------------------------------------------------------------------
\* Can this part of the iteration start a transaction?  Mutant of SlotFree: a
\* call does not wait for an iteration of its own.
SlotFreeAlways == TRUE
SlotFree == ~netSlotUsed
InWindow(retry) == retry.since < retry.backoff
Posts == pc = "push" /\ Due("push") /\ online /\ ~InWindow(push) /\ rows
Polls == pc = "config" /\ Due("config") /\ SlotFree /\ online
Asks == pc = "ota" /\ Due("ota") /\ SlotFree /\ online /\ ~InWindow(ota)
Fetches == pc = "image"
Calls == Posts \/ Polls \/ Asks \/ Fetches

\* A call that takes d ends before the watchdog fires.
Ends(d) == d \in 0..Txn /\ sinceFeed + d <= Wdt

\* One that does not: a task watchdog reset in the middle of it.
WatchdogFires ==
    /\ Calls /\ sinceFeed + Txn > Wdt
    /\ Reset

-----------------------------------------------------------------------------
PushNotDue ==
    /\ pc = "push" /\ ~Due("push")
    /\ pc' = "config"
    /\ UNCHANGED <<timer, sinceFeed, netSlotUsed, push, ota, online, rows, pollWait, tryWait, slow>>

\* The timer is due and pushOnce() returns at once: offline, in its retry
\* window, or nothing to send.  The iteration's slot is spent all the same.
PushHeldBack ==
    /\ pc = "push" /\ Due("push") /\ ~Posts
    /\ pc' = "config"
    /\ timer' = Set("push") /\ netSlotUsed' = TRUE
    /\ UNCHANGED <<sinceFeed, push, ota, online, rows, pollWait, tryWait, slow>>

\* pushOnce() with an ack_seq in the answer: the retry window is closed.
PushAcked(d) ==
    /\ Posts /\ Ends(d)
    /\ pc' = "config"
    /\ timer' = Set("push") /\ netSlotUsed' = TRUE
    /\ rows' \in BOOLEAN
    /\ Passes(d, 0)
    /\ push' = NoRetry /\ ota' = Older(ota, d)
    /\ slow' = (slow \/ d + Step >= PushPeriod)
    /\ UNCHANGED online

\* notePushFailureBackoff_().  Mutants: the window is not capped; it is not set.
NextPushUncapped(b, j) == [backoff |-> (IF b = 0 THEN 2 * PushPeriod ELSE 2 * b) + j, since |-> 0]
NextPushNone(b, j) == NoRetry
NextPush(b, j) ==
    [backoff |-> (IF b = 0 THEN 2 * PushPeriod ELSE Min({2 * b, PushCap})) + j, since |-> 0]

\* pushOnce() without one: an error, a time-out, or a 200 with no ack_seq.
PushFails(d, j) ==
    /\ Posts /\ Ends(d)
    /\ pc' = "config"
    /\ timer' = Set("push") /\ netSlotUsed' = TRUE
    /\ UNCHANGED <<online, rows, slow>>
    /\ Passes(d, 0)
    /\ push' = NextPush(push.backoff, j) /\ ota' = Older(ota, d)

ConfigSkipped ==
    /\ pc = "config" /\ ~(SlotFree /\ Due("config"))
    /\ pc' = "ota"
    /\ UNCHANGED <<timer, sinceFeed, netSlotUsed, push, ota, online, rows, pollWait, tryWait, slow>>

\* pollConfig(), which returns at once when offline.
PollConfig(d) ==
    /\ pc = "config" /\ SlotFree /\ Due("config")
    /\ Ends(d) /\ (~online => d = 0)
    /\ pc' = "ota"
    /\ timer' = Set("config") /\ netSlotUsed' = TRUE
    /\ sinceFeed' = sinceFeed + d
    /\ pollWait' = 0 /\ slow' = FALSE
    /\ tryWait' = IF rows /\ online THEN UpTo(tryWait + d, TryBound + 1) ELSE 0
    /\ push' = Older(push, d) /\ ota' = Older(ota, d)
    /\ UNCHANGED <<online, rows>>

OtaSkipped ==
    /\ pc = "ota" /\ ~(SlotFree /\ Due("ota"))
    /\ pc' = "end"
    /\ UNCHANGED <<timer, sinceFeed, netSlotUsed, push, ota, online, rows, pollWait, tryWait, slow>>

\* ota.poll() offline or in its retry window.
OtaHeldBack ==
    /\ pc = "ota" /\ SlotFree /\ Due("ota") /\ ~Asks
    /\ pc' = "end"
    /\ timer' = Set("ota")
    /\ UNCHANGED <<sinceFeed, netSlotUsed, push, ota, online, rows, pollWait, tryWait, slow>>

\* ota.poll() gets the manifest.  An acceptable one is followed by
\* doVerifiedUpdate_() in the same call.
AskManifest(d, offered) ==
    /\ Asks /\ Ends(d)
    /\ pc' = IF offered THEN "image" ELSE "end"
    /\ timer' = Set("ota")
    /\ UNCHANGED <<netSlotUsed, online, rows, slow>>
    /\ Passes(d, tryWait + d)
    /\ push' = Older(push, d) /\ ota' = Older(ota, d)

NextOta(b) == [backoff |-> IF b = 0 THEN 2 * OtaPoll ELSE Min({2 * b, OtaCap}), since |-> 0]

\* doVerifiedUpdate_() fails before a byte is streamed.
ImageRefused(d) ==
    /\ Fetches /\ Ends(d)
    /\ pc' = "end"
    /\ UNCHANGED <<timer, netSlotUsed, online, rows, slow>>
    /\ Passes(d, tryWait + d)
    /\ push' = Older(push, d) /\ ota' = NextOta(ota.backoff)

\* The end of the iteration, in which all passed and d more goes by.
IterationEnds(all, d) ==
    /\ pc' = "top"
    /\ timer' = Later(all + d)
    /\ UNCHANGED <<netSlotUsed, online, rows, slow>>
    /\ Passes(d, tryWait + d)

\* The image streams for s, the callback feeding the watchdog all the time,
\* and then fails; or it is complete and the device restarts.
ImageFails(d, s) ==
    /\ Fetches /\ Ends(d)
    /\ IterationEnds(sinceFeed, d + s + Step)
    /\ push' = Older(push, d + s + Step) /\ ota' = NextOta(ota.backoff)

ImageInstalled(d) == Fetches /\ Ends(d) /\ Reset

End ==
    /\ pc = "end"
    /\ IterationEnds(sinceFeed, Step)
    /\ push' = Older(push, Step) /\ ota' = Older(ota, Step)

-----------------------------------------------------------------------------
Init ==
    /\ pc = "top"
    /\ timer = [t \in Timers |-> 0]
    /\ sinceFeed = 0 /\ netSlotUsed = FALSE
    /\ push = NoRetry /\ ota = NoRetry
    /\ online = TRUE /\ rows = FALSE
    /\ pollWait = 0 /\ tryWait = 0 /\ slow = FALSE

Next ==
    \/ Reset \/ ApIteration \/ ApEnds \/ LinkChanges \/ WatchdogFires
    \/ Top
    \/ PushNotDue \/ PushHeldBack
    \/ \E d \in 0..Txn : PushAcked(d)
    \/ \E d \in 0..Txn, j \in 0..Jitter : PushFails(d, j)
    \/ ConfigSkipped
    \/ \E d \in 0..Txn : PollConfig(d)
    \/ OtaSkipped \/ OtaHeldBack
    \/ \E d \in 0..Txn, offered \in BOOLEAN : AskManifest(d, offered)
    \/ \E d \in 0..Txn : ImageRefused(d) \/ ImageInstalled(d)
    \/ \E d \in 0..Txn, s \in 0..Stream : ImageFails(d, s)
    \/ End

Spec == Init /\ [][Next]_vars

-----------------------------------------------------------------------------
(***************************************************************************)
(* Properties                                                              *)
(***************************************************************************)

TypeOK ==
    /\ pc \in {"top", "push", "config", "ota", "image", "end", "ap"}
    /\ \A t \in Timers : timer[t] \in 0..Period[t]
    /\ sinceFeed \in Nat
    /\ push.since \in 0..push.backoff /\ ota.since \in 0..ota.backoff
    /\ {netSlotUsed, online, rows, slow} \subseteq BOOLEAN

\* What config.h:295 says the watchdog time-out rests on ("loop() now runs AT
\* MOST ONE such transaction per watchdog feed"): whenever a transaction
\* starts, its worst case still fits before the watchdog fires.
EveryCallFits == Calls => sinceFeed + Txn <= Wdt

\* That much does hold for pushes, config polls and manifest requests, in
\* whatever order their timers fall due and however long the calls before
\* them took: covio_firmware.ino:427-436 gives each an iteration of its own.
\* The image request after a manifest is the exception.
PollsFit == Calls /\ ~Fetches => sinceFeed + Txn <= Wdt

\* A call that is due is put off by the slot rule, by longer calls and by
\* retry windows, never for good: loop() runs pollConfig() at least once every
\* PollBound, unless pushes succeed so slowly that the push timer is due again
\* whenever one ends and takes every slot.
PollsOnTime == ~slow => pollWait <= PollBound

\* However many pushes have failed, rows that wait while the station is
\* connected are tried again within the capped window, one push period and one
\* iteration of other calls.
RetriesOnTime == tryWait <= TryBound
=============================================================================
