------------------------------- MODULE Monitors -------------------------------
(***************************************************************************)
(* The advisory monitors loop() feeds once per telemetry cycle with the    *)
(* lifetime total and a 32-bit millis() stamp: the stuck detector of       *)
(* sensor_stuck.h and, in the MIKI_WIRE_PROFILE build, the sensor health   *)
(* model of sensor_health.h and the pulse rate monitor of                  *)
(* pulse_plausibility.h.  Their thresholds are console settings kept in    *)
(* NVS and reapplied before every update.                                  *)
(*                                                                         *)
(* Time advances in ticks, millis() modulo Wrap, and pulses arrive at any  *)
(* tick.  A cycle may come late: a push, a config poll or an OTA poll      *)
(* blocks loop() for up to MaxLag; the first cycle of a boot waits for the *)
(* end of the setup portal, however long that takes.  All three monitors   *)
(* see the same total in every cycle, so what they compare is the number   *)
(* of pulses counted since the cycle before.  History variables measure    *)
(* real time.                                                              *)
(***************************************************************************)
EXTENDS Integers, FiniteSetsExt

CONSTANTS
    Wrap,       \* millis() counts modulo this (2^32)
    Period,     \* TELEMETRY_PERIOD_MS
    MaxLag,     \* the longest loop() blocks past the period
    Second,     \* ticks in a second
    ActiveHold, \* ACTIVE_HOLD_MS
    StuckThreshold,  \* SENSOR_STUCK_THRESHOLD_MS
    MaxHzs,     \* the ceilings `set maxhz' accepts, 0 for none
    Gaps,       \* the longest plausible idle times `set suspects' accepts, 0 for none
    MaxBurst    \* bound: pulses between two cycles

ASSUME MonitorConstants ==
    /\ {Wrap, Period, MaxLag, Second, ActiveHold, StuckThreshold, MaxBurst} \subseteq Nat
    /\ 0 \in MaxHzs /\ MaxHzs \subseteq Nat
    /\ 0 \in Gaps /\ Gaps \subseteq Nat

\* A cycle always comes before millis() wraps, and every threshold with the
\* lag of one cycle lies below the wrap (48 h and 7 days against 49.7 days).
ASSUME ThresholdsBelowWrap ==
    /\ Period > 0 /\ Period + MaxLag < Wrap
    /\ \A t \in {ActiveHold, StuckThreshold} \cup Gaps : t + Period + MaxLag < Wrap

VARIABLES
    millis,     \* millis()
    tTelemetry, \* the stamp of the last cycle
    pend,       \* pulses counted since the last cycle
    nvs,        \* the stored settings [maxHz, gap]
    started,    \* initialized_ of the three monitors, set by the same cycle
    rate,       \* PulsePlausibilityMonitor: [maxHz, lastMs, over, normal, suspect]
    health,     \* SensorHealthMonitor: [threshold, lastPulseMs, state]
    lastChangeMs,    \* SensorStuckDetector
    quality,    \* the advisory bits of the last row
    quiet,      \* history: time since the last pulse, or since the first cycle of the
                \* boot if that came later, at most Wrap
    overRun     \* history: consecutive cycles over an unchanged ceiling, at most 3

vars == <<millis, tTelemetry, pend, nvs, started, rate, health, lastChangeMs,
          quality, quiet, overRun>>

Lag == Period + MaxLag

\* nowMs - thenMs in uint32_t: wrap-safe unsigned math.  Mutant: the distance
\* of the two stamps.
ElapsedDistance(now, then) == IF now >= then THEN now - then ELSE then - now
Elapsed(now, then) == (now - then) % Wrap

-----------------------------------------------------------------------------
\* PulsePlausibilityMonitor::setMaxHz().
SetMaxHz(r, hz) ==
    [r EXCEPT !.maxHz = hz, !.over = 0, !.normal = 0,
              !.suspect = IF hz = 0 THEN FALSE ELSE @]

Hz(delta, dt) == (delta * Second) \div dt

\* PulsePlausibilityMonitor::update(), after its first call.
RateUpdate(r, delta, now) ==
    LET dt   == Elapsed(now, r.lastMs)
        seen == [r EXCEPT !.lastMs = now]
        over == [seen EXCEPT !.normal = 0, !.over = Min({3, @ + 1}),
                             !.suspect = @ \/ r.over + 1 >= 3]
        okay == [seen EXCEPT !.over = 0,
                             !.normal = IF r.suspect THEN Min({5, @ + 1}) ELSE @,
                             !.suspect = @ /\ r.normal + 1 < 5]
    IN  CASE dt = 0 -> r
          [] dt # 0 /\ r.maxHz = 0 -> seen
          [] dt # 0 /\ r.maxHz # 0 -> IF Hz(delta, dt) > r.maxHz THEN over ELSE okay

\* SensorHealthMonitor::setSuspectThresholdMs(): the gap clock keeps running.
\* Mutant: it starts again.
SetThresholdResetting(h, gap) == [h EXCEPT !.threshold = gap, !.lastPulseMs = millis]
SetThreshold(h, gap) == [h EXCEPT !.threshold = gap]

\* SensorHealthMonitor::update(), after its first call.
HealthUpdate(h, delta, now) ==
    LET gap == Elapsed(now, h.lastPulseMs) IN
    CASE delta # 0 -> [h EXCEPT !.lastPulseMs = now, !.state = "active"]
      [] delta = 0 /\ h.threshold # 0 /\ gap >= h.threshold -> [h EXCEPT !.state = "suspect"]
      [] delta = 0 /\ ~(h.threshold # 0 /\ gap >= h.threshold) /\ gap >= ActiveHold ->
            [h EXCEPT !.state = "idle"]
      [] OTHER -> [h EXCEPT !.state = IF @ = "starting" THEN @ ELSE "active"]

\* SensorStuckDetector::update() and isStuck(), which the local API calls at
\* any time between two cycles.
StuckUpdate(changed, delta, now) == IF delta # 0 THEN now ELSE changed
IsStuck == started /\ Elapsed(millis, lastChangeMs) >= StuckThreshold

-----------------------------------------------------------------------------
\* The globals as setup() leaves them, with the stored settings applied.
Fresh(settings) ==
    /\ millis' = 0 /\ tTelemetry' = 0 /\ pend' = 0 /\ started' = FALSE
    /\ rate' = [maxHz |-> settings.maxHz, lastMs |-> 0, over |-> 0, normal |-> 0, suspect |-> FALSE]
    /\ health' = [threshold |-> settings.gap, lastPulseMs |-> 0, state |-> "starting"]
    /\ lastChangeMs' = 0
    /\ quality' = {}
    /\ quiet' = 0 /\ overRun' = 0

Init ==
    /\ nvs \in [maxHz : MaxHzs, gap : Gaps]
    /\ millis = 0 /\ tTelemetry = 0 /\ pend = 0 /\ started = FALSE
    /\ rate = [maxHz |-> nvs.maxHz, lastMs |-> 0, over |-> 0, normal |-> 0, suspect |-> FALSE]
    /\ health = [threshold |-> nvs.gap, lastPulseMs |-> 0, state |-> "starting"]
    /\ lastChangeMs = 0
    /\ quality = {}
    /\ quiet = 0 /\ overRun = 0

\* A tick of the clock, with n pulses.  Once cycles have begun, the next one
\* comes within Lag; while the portal is open, loop() returns before them.
Tick(n) ==
    /\ started => Elapsed(millis, tTelemetry) < Lag
    /\ pend + n <= MaxBurst
    /\ millis' = (millis + 1) % Wrap
    /\ pend' = pend + n
    /\ quiet' = IF n > 0 THEN 0 ELSE Min({Wrap, quiet + 1})
    /\ UNCHANGED <<tTelemetry, nvs, started, rate, health, lastChangeMs, quality, overRun>>

\* The telemetry block of loop() is due.
Due == Elapsed(millis, tTelemetry) >= Period

Bits(r, h) ==
    (IF r.suspect THEN {"SUSPECT_RATE"} ELSE {})
        \cup (IF h.state = "suspect" THEN {"SENSOR_SUSPECT"} ELSE {})

\* The first cycle of a boot only takes the baselines.
FirstCycle ==
    /\ Due /\ ~started
    /\ tTelemetry' = millis /\ started' = TRUE /\ pend' = 0
    /\ LET r == SetMaxHz(rate, nvs.maxHz)
           h == SetThreshold(health, nvs.gap)
       IN  /\ rate' = [r EXCEPT !.lastMs = millis]
           /\ health' = [h EXCEPT !.lastPulseMs = millis]
           /\ quality' = Bits(rate', health')
    /\ lastChangeMs' = millis
    /\ quiet' = 0
    /\ UNCHANGED <<millis, nvs, overRun>>

Cycle ==
    /\ Due /\ started
    /\ tTelemetry' = millis /\ pend' = 0
    /\ rate' = RateUpdate(SetMaxHz(rate, nvs.maxHz), pend, millis)
    /\ health' = HealthUpdate(SetThreshold(health, nvs.gap), pend, millis)
    /\ quality' = Bits(rate', health')
    /\ lastChangeMs' = StuckUpdate(lastChangeMs, pend, millis)
    /\ overRun' = IF /\ nvs.maxHz # 0 /\ nvs.maxHz = rate.maxHz
                     /\ Hz(pend, Elapsed(millis, tTelemetry)) > nvs.maxHz
                  THEN Min({3, overRun + 1}) ELSE 0
    /\ UNCHANGED <<millis, nvs, started, quiet>>

\* The console's `set maxhz' and `set suspects': validated, then stored.
SetMikiMaxPulseHz(hz) ==
    /\ nvs' = [nvs EXCEPT !.maxHz = hz]
    /\ UNCHANGED <<millis, tTelemetry, pend, started, rate, health, lastChangeMs,
                   quality, quiet, overRun>>

SetMikiSuspectGapS(gap) ==
    /\ nvs' = [nvs EXCEPT !.gap = gap]
    /\ UNCHANGED <<millis, tTelemetry, pend, started, rate, health, lastChangeMs,
                   quality, quiet, overRun>>

Reboot == Fresh(nvs) /\ UNCHANGED nvs

Next ==
    \/ \E n \in 0..MaxBurst : Tick(n)
    \/ FirstCycle
    \/ Cycle
    \/ \E hz \in MaxHzs \ {nvs.maxHz} : SetMikiMaxPulseHz(hz)
    \/ \E gap \in Gaps \ {nvs.gap} : SetMikiSuspectGapS(gap)
    \/ Reboot

Spec == Init /\ [][Next]_vars

-----------------------------------------------------------------------------
\* Every variable has its type.
TypeOK ==
    /\ {millis, tTelemetry, lastChangeMs} \subseteq 0..(Wrap - 1)
    /\ pend \in 0..MaxBurst
    /\ nvs \in [maxHz : MaxHzs, gap : Gaps]
    /\ started \in BOOLEAN
    /\ rate \in [maxHz : MaxHzs, lastMs : 0..(Wrap - 1), over : 0..3, normal : 0..5,
                 suspect : BOOLEAN]
    /\ health \in [threshold : Gaps, lastPulseMs : 0..(Wrap - 1),
                   state : {"starting", "active", "idle", "suspect"}]
    /\ quality \subseteq {"SUSPECT_RATE", "SENSOR_SUSPECT"}
    /\ quiet \in 0..Wrap /\ overRun \in 0..3

\* A row has just been stamped.
Stamped == started /\ tTelemetry = millis

\* No false alarm, whenever millis() wraps and however late the cycles come:
\* a row is stamped QUALITY_SENSOR_SUSPECT, and the local API reports a stuck
\* sensor, only after real silence of at least the threshold (the API may miss
\* pulses no cycle has looked at yet), and a sensor is never called IDLE while
\* it pulses.
AlarmsJustified ==
    /\ Stamped /\ "SENSOR_SUSPECT" \in quality =>
          health.threshold # 0 /\ quiet >= health.threshold
    /\ Stamped /\ health.state = "idle" => quiet >= ActiveHold
    /\ IsStuck /\ pend = 0 => quiet >= StuckThreshold

\* No silence since the first cycle is missed while it is shorter than the wrap
\* of millis(): one cycle's lag after the threshold at the latest the row
\* carries the bit and the local API reports the sensor, also when the operator
\* changed settings in between, and ACTIVE ends with the ACTIVE_HOLD window
\* (sensor_health.h).
AlarmsRaised ==
    /\ Stamped /\ health.threshold # 0 /\ quiet < Wrap
          /\ quiet >= health.threshold + Lag => "SENSOR_SUSPECT" \in quality
    /\ started /\ quiet < Wrap /\ quiet >= StuckThreshold + Lag => IsStuck
    /\ Stamped /\ health.state = "active" /\ quiet < Wrap => quiet < ActiveHold + Lag

\* pulse_plausibility.h: "3 consecutive over-ceiling cycles raise the flag".
\* loop() calls setMaxHz() before every update, and setMaxHz() clears the
\* streak, so the flag is never raised.
SustainedOverRateFlagged == overRun >= 3 => rate.suspect

=============================================================================
