# Covio pulse logger: formal models

The firmware in this repository counts pulses of a flow or energy meter on an
ESP32, writes one telemetry row a second to a queue on flash, and pushes the
rows to a server that stores them and acknowledges them cumulatively. Its
promise is that no counted pulse and no confirmed row is lost, through power
cuts, network outages, server restarts and firmware updates. The modules here
state that promise piece by piece, TLC checks the pieces on small instances, and
TLAPS proves the central ones for every instance.

`PROJECT.json` lists the runs, the source lines every definition stands for, the
hazards, the findings and the theorems.

## 1. The system

| Part | State | Operations | Talks to |
|---|---|---|---|
| Totalizer (`totalizer.h`) | PCNT counter, accumulator, `Checkpoint` in two files | `service`, `total`, `setQueueOffset`, `injectSoftPulses`, `begin` | loop; holds the queue's write position |
| Event queue (`queue.h`, `storage_backend.h`, `ack_validation.h`) | segment files, `AckRec` and `FailureState` in two files each, backlog counter | `append`, `pending`, `ackThrough`, boot reconciliation, `reset_ack`, `recover_queue` | totalizer (write position), sync |
| Sync (`sync.h`) | push backoff, last-contact stamps, WiFi authority | `pushOnce`, `pollConfig`, WiFi upkeep | queue, server, settings |
| Main loop (`covio_firmware.ino`) | four timers, `seq`, `healthySignalled`, the watchdog | `setup`, `loop`, background service | everything on the device |
| Settings (`store.h`) | NVS keys, one commit each | first-boot seeding, setters, factory reset | everything on the device |
| WiFi and setup portal (`wifi_provision.h`, `sync.h`) | radio authority, access point, RTC flag | station upkeep, form with live test, JSON twin, way out | WiFi driver, settings |
| Console (`provision.h`) | none of its own | set url/key/wifi/maxhz/suspects, reboot, factory, provision, reset_ack, recover_queue | settings, queue |
| CT sampler (`sensor_ct.h`) | debouncer, milli-pulse remainder | `service` | loop, totalizer |
| Server push (`server/server.py`) | `records`, `quarantined_records` | `push` | device |
| Server registry and calibration (`server/server.py`) | `devices`, `id_counters`, `calibration`, `device_events` | provision, revoke, rotate, set K, `init_db` | device keys, config |
| Firmware update (`ota.h`, `ota_version_policy.h`, `ota_manifest_auth.h`, `boot_health.h`, `store.h`) | two app slots, otadata, health record, floor | poll, download, confirm, trial check | bootloader, server |
| Monitors (`sensor_stuck.h`, `sensor_health.h`, `pulse_plausibility.h`) | last-change stamps, streaks | one update per telemetry cycle | loop, console, local API |
| Local API, dashboards, desktop application, plant kit | see PROJECT.json | | |

What is hard about it:

- *Power cuts between any two flash operations.* One telemetry cycle writes a
  segment file and two generations of the checkpoint, an acknowledgement writes
  the ack record and then removes files. Four durable objects have to agree
  after a cut anywhere, and the flash that refuses a row may refuse the record that
  counts the refusal.
- *A cumulative acknowledgement.* One seq without a row stops pruning for ever.
- *A network that loses and delays.* A request may be stored with its answer
  lost, or stored after the device has given it up and sent others.
- *Hardware that does not wait.* Pulses arrive between two statements.
- *Threads and restarts of the server* between the transactions of a handler.
- *A firmware trial* that is spread over resets, four NVS keys and a bootloader
  that may or may not arm its own rollback.
- *One task for everything.* HTTPS calls of up to 80 s block the loop that feeds
  a 90 s watchdog, samples the CT clamp and runs the other timers.
- *Two owners of the radio*, Sync and the portal, over a driver that connects
  whenever it can, with whatever credentials it was last given.

## 2. Modules

    DurableRegister <-refines- DualSlot            two-file record
    PulseCounter                                   the count itself
    EventQueue <-extends- Pipeline -instance-> Receiver
                          Server   -extends->  Receiver
    Settings   <-extends- WifiProvision            what is stored, and the way online
    MainLoop         OtaUpdate        Monitors        CtSampler

Definitions carry the names of the functions they stand for. A handler that
touches flash more than once is cut at each flash operation, with `pc` naming
the next one. *History* variables record facts that properties need and no
action reads, except where a bound is stated on them.

**DualSlot** models the scheme that `Checkpoint`, `AckRec` and `FailureState`
share. `Store` is the bump of the generation counter at the head of `persist_()`,
`Commit` the rewrite, `OpenFails` the early return, `ShortWrite` a write that leaves a
bad record on a device that runs on, `TornWrite` a cut that leaves one, `Boot` the choice of the newer valid slot. **DurableRegister** is
what callers believe they have: a value in RAM and one durable copy, replaced
atomically.

**PulseCounter** takes `service()` statement by statement: read, conditional
accumulate, clear, second read, persist, with a pulse possible between any two.
The checkpoint's atomicity comes from DualSlot. Background service and the CT
build's soft pulses are actions. The assumption `DrainInTime` (threshold plus one
interval's pulses plus those of the read-clear window fit below the counter's
limit) is the margin 30000 of 32767 leaves: 2,767 pulses per interval, which is
one second in an idle loop, thirty seconds (some 92 Hz) while only the background
service runs, and up to eighty (some 34 Hz) around an HTTPS call that blocks the loop.

**EventQueue** is the queue as `loop()` drives it. Files hold cells: rows, a
full-size cell with a bad CRC, or a partial tail. `cp`/`cpD` and `ack`/`ackD` are
the checkpoint and the ack record in RAM and on flash (atomic, by DualSlot). The third
record, the count of failed appends (`failed`/`failedD`), has its two slots in the
model, because its own write may fail or tear: `RecordWriteFailure`,
`PersistFailFails`, `TornFailureRecord`. Append is
`SegmentOpen`, `TruncateTail`, `WriteRow`, `ConfirmRow` and `ServiceCheckpoint`;
acknowledging is `AckThrough` (the walk, in RAM), `PersistAck`, `RemoveSegment`; a
boot is `BootSweep` or `BootAdopt`, `SweepSegment`, `BootDone`. `PushAcked(n)` lets the
server answer anything, since `boundAckSeq` exists because it might. Faults:
failing opens, truncations and writes; a lost checkpoint; an ack record that
cannot be written; the operator's `reset_ack` and `recover_queue`.

**Receiver** is `push()` for one device: the transaction that stores or
quarantines the rows, and the ack query after it.

**Pipeline** composes EventQueue and Receiver over a network that may lose the
request or the answer and may deliver a given-up request later (`late`). Rows of
`BadBoots` fail the acceptance rule and are quarantined.

**Server** puts Receiver among the other handlers, in threads, one action per
transaction or lone SELECT, with `Restart` at any point. Provisioning has five
actions because the commit inside `allocate_logical_device_id()` splits it.

**OtaUpdate** has the manifest gates, the download over the fallback slot, the
hash check, the trial streak of `setup()`, the two places that confirm a boot,
and the writes of confirmation one by one, the one of the security floor with the
read-back that finds it failed (`FloorWriteFails`). The bootloader and the Update library
are external and modelled from how the code uses them, including that the trial
is not always armed (`Arming`).

**Monitors** has a clock that wraps, late cycles, settings that change, and a first
cycle that waits for as long as the setup portal is open.

**MainLoop** is the schedule of `loop()`: `Top` feeds the watchdog and reads `now`,
then the push, config and update parts run in the order of the code, each skipped,
held back or making a call that takes any time up to the transaction bound. Timers
are kept as elapsed times that stop at the period they are compared with, so the
model is finite without a bound on time. The retry windows of `sync.h` and `ota.h`,
the portal's branch, resets and the link status, which changes at any point, are
part of it. `WatchdogFires` is possible wherever a call does not fit.

**Settings** is the NVS namespace: handlers leave a list of puts in `todo`, one key is
committed per step, a cut drops the rest. Values are named by the configuration or
the calibration version they belong to, which is what mixtures show up as.
**WifiProvision** adds everything that writes and uses them: the wait of `setup()`,
`wifiService()`, the portal with its live test and its untested JSON twin, the
forced re-entry through RTC memory, the console, and `pollConfig()`. The driver
(external) connects with its last credentials whenever their network is up.

**CtSampler** is `SensorCt::service()` with irregular calls. `owed` compares the
pulses injected with the true active time, which no test of the class can see.

## 3. Runs

| Run | Question | Bounds | Distinct states |
|---|---|---|---|
| `dual_slot` | Does the two-file record behave as an atomic register, and recover from failed writes? | 3 values, 8 generations, 2 failures | 4,917 |
| `event_queue` | Is anything owed ever lost, out of order or miscounted? | 4 samples, 3 boots, segments and batches of 2, 2 failures or 1 damage | 1,661,786 |
| `pulse_counter` | Where does each pulse go? | counter of 8 drained from 5, 12 pulses, 3 boots | 925,291 |
| `pipeline` | Is every confirmed row stored, once, and does the backlog drain? | 3 samples, 3 boots, 1 late request, 1 failure | 132,745 |
| `server` | Do concurrent handlers keep rows, keys, serials and versions right? | 2 threads, 3 requests, 3 keys, 3 devices | 422,984 |
| `ota_update` | Is a device ever downgraded, bricked or stuck on a bad image? | 5 builds, every single manifest fault, streak limit 2 | 69,699 |
| `monitors` | Are alarms justified and raised across a clock wrap? | wrap 16, period 2, lag 1, thresholds 5 and 8 | 130,560 |
| `main_loop` | Does every call fit the watchdog, and is any poll or retry put off for good? | periods 2, 3, 4, 6, transaction 4, watchdog 5, windows up to 8 and 13 | 644,294 |
| `wifi_provision` | Are settings whole after cuts, and does a device get online and out of setup? | 3 configurations (one wrong), 2 versions (one with K <= 0), 3 commands, 1 cut | 596,092 |
| `ct_sampler` | How far do synthesized pulses stray from active time? | debounce 2, gaps up to 3, 4 edges, 2 milli-pulses a tick, 5 to a pulse | 51,036 |

Why the bounds are enough to be interesting: with segments of two rows, four
samples roll over twice, so a cut can strand segments on both sides of the
cursor; three boots allow a cut in the recovery from a cut; two failed appends
write both slots of the failure record, so the second can tear or fail over the first; a counter of 8 is
drained twice by 12 pulses; three requests in two threads cover a pair that
interleaves and one more that sees the result; the security versions of the
builds contain a newer one, an equal bad one and an older one. In `main_loop` the
periods keep the order of `config.h`, every timer can fall due within one call, and
three failures reach the cap of the push window; its two bounds are met exactly, so
none of the cases they are the sum of is missing. Three commands and a cut in
`wifi_provision` allow a store, a change that is cut, and a repair. In `ct_sampler` a
gap is longer than the debounce, as a blocking call is, and `Late` is met exactly.
Thread symmetry
is used in `server` only, which checks no liveness. Deadlock is checked in every
run: the bounds limit samples, cuts and requests, and never stop the loop.

What the properties say:

- *dual_slot*: `RecoversLatest`, `ImplementsRegister` (until a write has failed) and
  `HarmEnds` (after failed writes, one completed write is enough to be safe again).
- *event_queue*: `NoLoss` (whatever is owed is what a boot would send, at every
  instant), `Fifo`, `BacklogExact`, `NewRowsDeliverable`, `LostSamplesCounted`
  (each committed seq without a row is counted, unless a cut came after a failed write
  of the count and before a completed one), `BootReclaims`, `AdoptionExposes`.
- *pulse_counter*: `Conserved`, `NeverOvercounts`, `CutLossBounded`.
- *pipeline*: `PrunedIsResolved`, `EndToEnd`, `FirstBuiltWins`, `NoBurntSeq`,
  and the liveness property `BacklogDrains`.
- *server*: `AckCoversResolved`, `RecordsImmutable`, `AckNeverRegresses`,
  `SerialsUnique`, `RevokedStaysDead`, `VersionIdentifiesK`.
- *ota_update*: `NeverDowngrades` (unless an update is accepted in a boot that could
  not store the floor), `SelectedIsVerified`, `NeverBricked`, `FullTrial`,
  and the liveness property `BadImageLeaves`.
- *monitors*: `AlarmsJustified`, `AlarmsRaised`.
- *main_loop*: `PollsFit` (a push, config poll or manifest request that starts can end
  before the watchdog fires), `PollsOnTime` and `RetriesOnTime` (response times, with
  the bound as a formula over the constants).
- *wifi_provision*: `CalibrationSettles` (after any completed poll, K, density, T_ref
  and version belong together, whatever was cut before), `SavedWhole`, `ProvenStored`
  (the form never stores credentials that do not work), and the liveness property
  `SetupEnds`.
- *ct_sampler*: `ErrorBounded` (error per edge, never accumulating otherwise),
  `HeldIsSeen`.

Each has a mutant of the code model that breaks it, listed in PROJECT.json and
defined next to the definition it replaces.

### Where code and text disagree

Two runs end in a counterexample:

- `pipeline_gap` (`StreamContinues`): a failed append still commits its seq. The
  server's contiguous ack never passes it (`ARCHITECTURE.md:204`).
- `main_loop_watchdog` (`EveryCallFits`): an update poll that finds an update requests
  the image in the same call, without a feed of the watchdog in between: up to 160 s
  against 90 s (`config.h:295`).

Five more properties are stated in the modules and refuted by TLC when they are put
into the configuration of their module's run:

- `NeverRegresses` (DualSlot): `persist_()` bumps the generation before it opens the
  slot. After one failed open the next write goes over the newest good slot, and a cut
  there loses two records (`totalizer.h:10-12`); a second torn write before any
  completed one loses both slots and the total starts from 0. `HarmEnds` says how
  long that danger lasts.
- `OwedIsReadable` (EventQueue): the result of writing the ack record is ignored and
  the segments are removed regardless (`queue.h:601-602`, `:833`).
- `ConfirmedMeansContact` (OtaUpdate): a failed config poll confirms the boot while
  WiFi is up (`ota.h:225-226`, `covio_firmware.ino:456`).
- `SustainedOverRateFlagged` (Monitors): the loop resets the streak before every
  update, so the flag never comes up (`pulse_plausibility.h:32`).
- `SetupAlwaysEnds` (WifiProvision): a failed live test leaves the driver on the
  credentials that failed. A device with good stored credentials then stays in the
  portal until it is restarted ("AP mode is a FALLBACK STATE, never a permanent mode",
  `wifi_provision.h:16`; `:66-70` on reconnecting by itself).

Smaller disagreements met on the way: the comment at
`server.py:383` says the quarantine table is never used for the ack, and the ack
query at `server.py:938-944` reads it; the count is called exact
(`totalizer.h:5-6`) and pulses between the read and the clear of a drain are lost
(the `window` of PulseCounter); when the checkpoint is lost, seq resumes
at the watermark while older un-acked rows with higher seqs are still queued;
once those are acknowledged, the next new rows fall under the watermark
(`NewRowsDeliverable` excludes that damage); the failure count that must survive a
reboot (`queue.h:215-218`) does not when its own write failed, which `queue.h:757-762`
accepts (`tally` of EventQueue); a floor that could not be stored is logged
(`ota.h:310-316`) and the same boot may accept an update that the floor would have
refused (`floorWrite` of OtaUpdate); a sensor that is silent for a whole
wrap of `millis()` looks fresh again (`AlarmsRaised` says "shorter than the wrap");
polls that lose the slot are said to run "a few ms later -- their timers stay due"
(`covio_firmware.ino:433-434`), and pushes that take `PUSH_PERIOD_MS` each take every
slot (`slow` of MainLoop); credentials that connect only after their live test gave
up end the portal although nobody stored them; a cut between the portal's puts can
leave the WiFi of one configuration with the URL and key of another, and a device
that is then online opens no portal; a version whose K is not positive is stored
without its values (`sync.h:274`), and after a cut in an earlier adoption the values
it stands for are a mixture; a batch is stamped with the calibration version at push
time (`telemetry.h:91`), not with the one its rows were counted under
(`ARCHITECTURE.md:104-106`, "stamp future records"); the error of the CT sampler is
called "<=0.1s per edge" (`sensor_ct.h:33`), which holds between blocking calls and
becomes two gaps and a debounce around one.

### Fairness

*Pipeline*: weak fairness of the loop's own steps, because `loop()` runs for ever
under a watchdog. Strong fairness of sending, storing, answering and reading the
answer: the push timer recurs, the backoff is at most two minutes, and an outage
that never ends is the one case in which a backlog cannot drain. No fairness is
given to failures, cuts or late requests, and cuts are bounded by `MaxBoot`.

*OtaUpdate*: weak fairness of booting; strong fairness of the trial check and the
rollback, which come first in `setup()`, so that resets do not always come
before them; weak fairness of the reset of a bad image, which is what "bad" means.
Confirming and updating have none.

*WifiProvision*: weak fairness of the task's own steps (puts, the end of bounded
waits, reconnecting when the interval is over, leaving the portal), because `setup()`
and `loop()` run for ever; and of the driver's connecting, which retries by itself.
Networks, operators, cuts and the server have none.

## 4. Proofs

| Module | Result | Argument |
|---|---|---|
| `DualSlotProofs` | `TypeCorrect`, `RecoveryExact`, `Refinement`, `FailureHeals` | `IInv`: odd generations live in A and even ones in B, and inside `persist_()` RAM is one generation ahead of flash. Hence a write never lands on the newest good slot; `RecoversLatest` alone does not say so. `FailureHeals` (`HarmEnds`) is free of the history of failures: by `StepKeepsNewest`, a write that starts one generation ahead of flash, as every write after a completed one does, cannot cost the newest good record. |
| `PulseCounterProofs` | `PulsesConserved`, `NoOvercount`, `CutLoss`, `TotalsMonotone` | `IInv`: the counter exceeds the threshold by at most the pulses since the last read (`HwBounded`), and how old each copy of the total is at each step (`CheckpointAge`). From `DrainInTime`, the counter never wraps. |
| `ServerProofs` | `AckSound`, `AckMonotone`, `StoredForever`; `ImplementsReceiver`, `ServerAckSound`, `SerialsStayUnique`, `RevocationHolds`, `VersionsUnambiguous` | For Receiver: the resolved set only grows, and the end of its initial run is unique. For Server: `BatchInv` for the refinement; `RegistryInv`: keys in rows are distinct, keys waiting to be stored are in no row and not revoked, dead keys sit in revoked rows only; `VersionInv`: the calibration in effect is the newest published. |
| `SensorProofs` | of CtSampler: `HeldLevelSeen`, `ErrorStaysBounded`; of Monitors: `AlarmsAlwaysJustified`, `AlarmsAlwaysRaised` | `Recent`: how long ago an uncommitted change can have happened, by which of the three copies of the level disagree; `Balanced`: the missing time lies between bounds that leave an unsampled or uncommitted edge the rest of what it may cost. `ErrorBounded` alone is not kept by a call that commits. `MonInv` for the monitors: `Unseen` (a pulse no cycle has seen is more recent than the last cycle), `Silence` (what the monitors see of the silence, an unsigned difference of stamps, is never longer than the real one and, below the wrap, shorter by at most the lag of the cycle that saw the last pulse) and `LastRow` (the bits of a row just stamped). The alarms alone say nothing of the stamp the next cycle subtracts from. Uses `ThresholdsBelowWrap` (48 h and 7 days against 49.7 days). |
| `MainLoopProofs` | `CallsFit`, `PollsAlwaysOnTime`, `RetriesAlwaysOnTime`, `TypeCorrect` | `TimeInv`. `Iteration`: the slot is free only while nothing has been waited for since the feed, and a part that has been passed has dealt with its timer. `PollAge`: a poll that is due is put off by a push that may be sent, then by one its window holds back (a window is longer than an idle iteration), and by no third. `TryAge`: inside its window a batch has waited no longer than the window is old, after it no longer than the window and the push timer. Uses `Wdt > Txn`, the static_assert, the order of the periods in `config.h`, and that the first retry window is below the cap (10 s against 120 s). |
| `OtaUpdateProofs` | `NeverDowngradesAlways`, `SelectedIsVerifiedAlways`, `NeverBrickedAlways`, `FullTrialAlways`, `TypeCorrect` | `FlagsInv`, `SlotsInv`, `SignedInv`: what the flags in RAM and the states of the two slots say in each phase; `FallbackInv`: an image on trial has a fallback that is not; `SecurityInv`: the version record, the floor and the fallback while the three writes after a confirmation are under way, or when the last has failed. `NeverDowngrades` alone is lost when a reset comes between those writes and the next boot decides on them. From `SignedIsTrue`: an authentic manifest describes its image. |
| `PipelineProofs` | of EventQueue: `NoLossAlways`, `FifoAlways`, `BacklogExactAlways`, `NewRowsDeliverableAlways`, `LostSamplesCountedAlways`; of Pipeline: `PrunedIsResolvedAlways`, `EndToEndAlways`, `FirstBuiltWinsAlways`, `NoBurntSeqAlways` | `QInv` for the queue: `Base` holds whatever is damaged (`Watermarks`: the order of seq, committed seq and ack in each handler; `RowSeqs`; `Losses`: which committed seqs may lack a row); `FailRecord`: a slot of the failure record holds counts of its own parity and none ahead of RAM, so a write that tears or fails does not hit the one a boot needs; `Sound` holds while nothing is (`Layout`: segments from the cursor to the writer are there and the closed ones full; `Appending`: what the row being appended finds; `Cursors`; `Ordered`: rows ascend with their places; `Kept`: what either ack record, in RAM or on flash, would not send is acknowledged; `Counted`). `NoLoss` alone says nothing of the cursor in RAM, which a push is about to make durable. `PInv` adds `Pushes` (what the device is waiting for and what is still under way was read from the queue), `Tables` and `Acks` (an answer, however late, covers resolved seqs only). |
| `WifiProvisionProofs` | `SavedWholeAlways`, `ProvenStoredAlways`, `CalibrationSettlesAlways` | `WInv`. `Seeding`: a namespace without its mark holds no calibration and nothing reported; `Saving`: the keys of the form are stored or still to be put; `Polling`: the version is put last and is newer than the one stored; `Trusted`: the stored version says what calibration is stored until the server has a newer one, after which some of its values may be there already; `Proving`: the link is one to the network the driver was given. `CalibrationSettles` alone does not survive a poll that finds the version it has. |

The bounds (`MaxPulses`, `MaxKey`, ...) are constants and the proofs hold for each
of their values; sizes of sets of devices, threads and batches are arbitrary. The
assumptions are those the modules declare, and TLC evaluates them in every run.

The queue's proof is about sets of places in files and about cardinalities, so
`EventQueue` says what `pending()` and `ackThrough()` read as a set of places in an
order (`Readable`, `Before`, `Nth`), not as a sequence built by a recursion.

Only model-checked: `AdoptionExposes` and `BootReclaims` of EventQueue (`BootReclaims`
holds only while no more segments are stranded than one sweep looks at, `MaxOrphan`,
which is true of the bounds of the run and not of every value of the constants). And for
good, because the prover has no rule for it: the liveness properties (`BacklogDrains`,
`BadImageLeaves`, `SetupEnds`) and what needs ENABLED.

## 5. What is not modelled

- Timing outside MainLoop and CtSampler: elsewhere a push or poll may happen, or not,
  whenever the loop gets there, which includes every schedule of MainLoop's.
- In MainLoop a call that `http.begin()` refuses for a malformed URL. In WifiProvision
  `WiFi.disconnect()` takes the link down before it returns, a factory reset clears the
  namespace in one step, there is one server, and the halts of `setup()` (no file
  system; the default key in a release build) are left out.
- A second server: one that publishes an equal calibration version is never asked for
  its values, and one that has not seen the device's first seqs never acknowledges.
- The totals inside rows (PulseCounter has them) and the text of JSON and logs.
- Offsets that are no whole number of rows after a file shrank below its
  checkpoint (`Debris` says where), and the single-file layout from before the
  segments, unreachable in this build (`covio_firmware.ino:231-233`).
- Failing writes of the checkpoint and of the ack record outside DualSlot and
  `PersistAckFails`. Failing NVS puts other than the floor's: the code ignores their
  results, and OtaUpdate, Settings and WifiProvision take them to succeed.
- On the server the last-seen columns, and audit events beyond which key or
  version they name.
- Peak rate and violation counts of the monitors.
- The crash-reset streak and diagnostic counters of `store.h`, which decide nothing, and
  the factory endpoint that writes the logical id once.
- Components marked `not_modelled` in PROJECT.json, with reasons.
- `src/images/` (board vendor's examples, ArduinoJson, PubSubClient), which the
  build excludes (`platformio.ini:109`) and which is most of the repository's lines and none of the system's own.

## 6. Plan

Done: sections 2 to 4, in the order DualSlot, PulseCounter, EventQueue, Receiver,
Pipeline, OtaUpdate, Server, Monitors, MainLoop, Settings, WifiProvision, CtSampler.
Next, in this order:

1. *Proofs*: `AdoptionExposes`, and a bound on stranded segments under which
   `BootReclaims` holds for every value of the constants.
2. *Server*: a provisioned key is always traceable to its event, and a device's
   logical id is permanent; both fail under interleavings that `Server` already has.
   The admin login limiter.
3. *A change of server*, for the calibration version and the cumulative ack.
