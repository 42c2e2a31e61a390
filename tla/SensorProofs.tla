----------------------------- MODULE SensorProofs -----------------------------
(***************************************************************************)
(* Proofs for the two components that judge a sensor by time: the sampler  *)
(* of the current clamp (CtSampler) and the advisory monitors (Monitors).  *)
(*                                                                         *)
(* CtSampler: how far the three copies of the level (the input, the        *)
(* candidate, the committed one) can be apart.  Of a change that is not    *)
(* yet committed, at most one gap passed before it was sampled, then age   *)
(* up to the last call and gap since.                                      *)
(*                                                                         *)
(* Monitors: how far the silence the monitors see, the unsigned difference *)
(* of two stamps, can be from the real one.  It is shorter by the time the *)
(* last pulse waited for its cycle, which is less than Lag, and by whole   *)
(* wraps of millis().                                                      *)
(***************************************************************************)
EXTENDS CtSampler, Monitors, TLAPS

-----------------------------------------------------------------------------
\* Arithmetic.
LEMMA MinOfTwo ==
    ASSUME NEW a \in Int, NEW b \in Int
    PROVE  Min({a, b}) = IF a <= b THEN a ELSE b
  BY DEF Min

LEMMA DivMod ==
    ASSUME NEW t \in Nat, NEW u \in Nat \ {0}
    PROVE  /\ t \div u \in Nat /\ t % u \in 0..(u - 1)
           /\ t = u * (t \div u) + (t % u)
  OBVIOUS

LEMMA Scaled ==
    ASSUME NEW a \in Int, NEW b \in Int, NEW p \in Nat, a <= b
    PROVE  a * p <= b * p
  OBVIOUS

LEMMA NextMultiple ==
    ASSUME NEW a \in Int, NEW p \in Int
    PROVE  /\ a * p \in Int
           /\ (a + 1) * p = a * p + p /\ (a - 1) * p = a * p - p
  OBVIOUS

-----------------------------------------------------------------------------
\* Of a change that is not committed: how long ago it can have happened.
Recent ==
    begun =>
    /\ candidate # raw => held <= gap
    /\ candidate # stable => age < Debounce
    /\ candidate = raw /\ raw # stable => held <= MaxGap + age + gap

\* True active time less the time counted, in milli-pulses; and the most that
\* one change of the level can do to it.
Missing == owed - frac
PerEdge == Late * PulseHz

\* The most that can be missing.  A rise that is not sampled or not committed
\* has not used up what it may cost.
MissingMost ==
    CASE ~candidate /\ ~raw -> rises * PerEdge
      [] ~candidate /\ raw -> (rises - 1) * PerEdge + gap * PulseHz
      [] candidate /\ ~stable -> (rises - 1) * PerEdge + (MaxGap + age + gap) * PulseHz
      [] candidate /\ stable -> rises * PerEdge + gap * PulseHz

\* The least, in the same way, for falls.
MissingLeast ==
    CASE candidate /\ raw -> gap * PulseHz - falls * PerEdge
      [] candidate /\ ~raw -> -((falls - 1) * PerEdge)
      [] ~candidate /\ stable -> -((falls - 1) * PerEdge) - (MaxGap + age) * PulseHz
      [] ~candidate /\ ~stable -> -(falls * PerEdge)

Balanced ==
    IF begun THEN MissingLeast <= Missing /\ Missing <= MissingMost
    ELSE owed = 0 /\ frac = 0 /\ rises = 0 /\ falls = 0

-----------------------------------------------------------------------------
\* The sampler's variables keep their types.
THEOREM CtTypeCorrect == CtSpec => []CtTypeOK
  <1>1. CtInit => CtTypeOK
    <2> SUFFICES ASSUME CtInit PROVE CtTypeOK
      OBVIOUS
    <2>1. {raw, begun, stable, candidate} \subseteq BOOLEAN
      BY Zenon DEF CtInit
    <2> QED
      BY <2>1, CtConstants DEF CtInit, CtTypeOK, Late
  <1>2. CtTypeOK /\ [CtNext]_ctVars => CtTypeOK'
    <2> SUFFICES ASSUME CtTypeOK, [CtNext]_ctVars
                 PROVE  CtTypeOK'
      OBVIOUS
    <2> USE CtConstants DEF CtTypeOK, Late
    <2>1. CASE CtTick
      BY <2>1, MinOfTwo DEF CtTick
    <2>2. CASE Edge
      BY <2>2 DEF Edge
    <2>3. CASE FirstService
      BY <2>3 DEF FirstService
    <2>4. CASE Service
      <3> DEFINE t == frac + (IF Level THEN gap * PulseHz ELSE 0)
      <3>1. gap * PulseHz \in Nat
        OBVIOUS
      <3>2. t \in Nat
        BY <3>1
      <3>3. /\ t \div Unit \in Nat /\ t % Unit \in 0..(Unit - 1)
        BY <3>2, DivMod
      <3>4. frac' \in 0..(Unit - 1) /\ owed' \in Int
        BY <2>4, <3>3 DEF Service, Inject
      <3>5. Age \in 0..Debounce
        BY MinOfTwo DEF Age
      <3>6. Level \in BOOLEAN
        BY DEF Level
      <3> QED
        BY <2>4, <3>4, <3>5, <3>6 DEF Service
    <2>5. CASE UNCHANGED ctVars
      BY <2>5 DEF ctVars
    <2> QED
      BY <2>1, <2>2, <2>3, <2>4, <2>5 DEF CtNext
  <1> QED
    BY <1>1, <1>2, PTL DEF CtSpec

\* An uncommitted change is as recent as Recent says.
LEMMA RecentHolds == CtSpec => []Recent
  <1>1. CtInit => Recent
    BY DEF CtInit, Recent
  <1>2. CtTypeOK /\ CtTypeOK' /\ Recent /\ [CtNext]_ctVars => Recent'
    <2> SUFFICES ASSUME CtTypeOK, Recent, [CtNext]_ctVars
                 PROVE  Recent'
      OBVIOUS
    <2> USE CtConstants DEF CtTypeOK, Recent, Late
    <2>1. CASE CtTick
      BY <2>1, MinOfTwo DEF CtTick
    <2>2. CASE Edge
      BY <2>2 DEF Edge
    <2>3. CASE FirstService
      BY <2>3 DEF FirstService
    <2>4. CASE Service
      BY <2>4, MinOfTwo DEF Service, Age, Level
    <2>5. CASE UNCHANGED ctVars
      BY <2>5 DEF ctVars
    <2> QED
      BY <2>1, <2>2, <2>3, <2>4, <2>5 DEF CtNext
  <1> QED
    BY <1>1, <1>2, CtTypeCorrect, PTL DEF CtSpec

\* No pattern of calls keeps SensorCt from committing a level that holds for
\* longer than Late, whatever its debounce time and however long the gaps.
THEOREM HeldLevelSeen == CtSpec => []HeldIsSeen
  <1>1. CtTypeOK /\ Recent => HeldIsSeen
    BY CtConstants DEF CtTypeOK, Recent, HeldIsSeen, Late
  <1> QED
    BY <1>1, CtTypeCorrect, RecentHolds, PTL

-----------------------------------------------------------------------------
\* The products of the bounds, which the steps below only compare.
LEMMA Products ==
    ASSUME CtTypeOK
    PROVE  /\ PulseHz \in Nat /\ PerEdge \in Nat /\ gap * PulseHz \in Nat
           /\ gap * PulseHz <= MaxGap * PulseHz
           /\ rises * PerEdge \in Nat /\ falls * PerEdge \in Nat
           /\ (rises - 1) * PerEdge = rises * PerEdge - PerEdge
           /\ (falls - 1) * PerEdge = falls * PerEdge - PerEdge
           /\ (MaxGap + age) * PulseHz = MaxGap * PulseHz + age * PulseHz
           /\ (MaxGap + age + gap) * PulseHz
                = MaxGap * PulseHz + age * PulseHz + gap * PulseHz
           /\ MaxGap * PulseHz \in Nat /\ age * PulseHz \in Nat
           /\ MaxGap * PulseHz <= PerEdge
           /\ age < Debounce => MaxGap * PulseHz + age * PulseHz + MaxGap * PulseHz <= PerEdge
  <1> USE CtConstants DEF CtTypeOK
  <1>1. Late \in Nat /\ MaxGap <= Late /\ (age < Debounce => MaxGap + age + MaxGap <= Late)
    BY DEF Late
  <1>2. /\ PulseHz \in Nat /\ gap \in Nat /\ gap <= MaxGap /\ MaxGap \in Nat
        /\ age \in Nat /\ rises \in Nat /\ falls \in Nat
    OBVIOUS
  <1>3. PerEdge \in Nat
    BY <1>1, <1>2 DEF PerEdge
  <1>4. gap * PulseHz <= MaxGap * PulseHz
    BY <1>2, Scaled
  <1>5. MaxGap * PulseHz <= PerEdge
    BY <1>1, <1>2, Scaled DEF PerEdge
  <1>6. age < Debounce => (MaxGap + age + MaxGap) * PulseHz <= PerEdge
    BY <1>1, <1>2, Scaled DEF PerEdge
  <1>7. (MaxGap + age + MaxGap) * PulseHz
          = MaxGap * PulseHz + age * PulseHz + MaxGap * PulseHz
    BY <1>2
  <1> HIDE DEF CtTypeOK
  <1> QED
    BY <1>2, <1>3, <1>4, <1>5, <1>6, <1>7

\* The missing time stays between its two bounds.
LEMMA BalancedHolds == CtSpec => []Balanced
  <1>1. CtInit => Balanced
    BY DEF CtInit, Balanced
  <1>2. CtTypeOK /\ CtTypeOK' /\ Recent /\ Balanced /\ [CtNext]_ctVars => Balanced'
    <2> SUFFICES ASSUME CtTypeOK, CtTypeOK', Recent, Balanced, [CtNext]_ctVars
                 PROVE  Balanced'
      OBVIOUS
    <2> USE DEF Balanced, Missing
    <2>1. CASE CtTick
      <3>1. /\ gap' * PulseHz = gap * PulseHz + PulseHz
            /\ (MaxGap + age + gap') * PulseHz = (MaxGap + age + gap) * PulseHz + PulseHz
        <4>1. gap' = gap + 1 /\ gap \in Int /\ age \in Int /\ MaxGap \in Int /\ PulseHz \in Int
          BY <2>1, CtConstants DEF CtTick, CtTypeOK
        <4> HIDE DEF Balanced
        <4> QED
          BY <4>1, NextMultiple
      <3>2. UNCHANGED <<raw, begun, stable, candidate, age, frac, rises, falls>>
        BY <2>1 DEF CtTick
      <3>3. owed' = IF raw /\ begun THEN owed + PulseHz ELSE owed
        BY <2>1 DEF CtTick
      <3>4. PerEdge' = PerEdge
        BY DEF PerEdge, Late
      <3> QED
        BY <3>1, <3>2, <3>3, <3>4, Products DEF MissingMost, MissingLeast, CtTypeOK
    <2>2. CASE Edge
      BY <2>2, Products DEF Edge, MissingMost, MissingLeast, CtTypeOK
    <2>3. CASE FirstService
      BY <2>3, Products DEF FirstService, MissingMost, MissingLeast, CtTypeOK
    <2>4. CASE Service
      <3> DEFINE t == frac + (IF Level THEN gap * PulseHz ELSE 0)
      <3>1. t \in Nat
        BY Products DEF CtTypeOK
      <3>2. Missing' = owed - t
        <4> HIDE DEF t
        <4>0. Unit \in Nat \ {0}
          BY CtConstants
        <4>1. t = Unit * (t \div Unit) + (t % Unit) /\ t \div Unit \in Nat /\ t % Unit \in Nat
          <5>1. t % Unit \in 0..(Unit - 1) /\ t \div Unit \in Nat
            BY <3>1, <4>0, DivMod
          <5>2. t = Unit * (t \div Unit) + (t % Unit)
            BY <3>1, <4>0, DivMod
          <5> QED
            BY <4>0, <5>1, <5>2
        <4>2. frac' = t % Unit /\ owed' = owed - Unit * (t \div Unit)
          BY <2>4 DEF Service, Inject, t
        <4>3. Unit * (t \div Unit) \in Int /\ owed \in Int
          BY <4>1, CtConstants DEF CtTypeOK
        <4> QED
          BY <3>1, <4>1, <4>2, <4>3
      <3>3. Missing' = Missing - (IF Level THEN gap * PulseHz ELSE 0)
        BY <3>1, <3>2, Products DEF CtTypeOK
      <3>4. /\ begun /\ candidate' = raw /\ stable' = Level /\ age' = Age /\ gap' = 0
            /\ UNCHANGED <<raw, begun, rises, falls>>
        BY <2>4 DEF Service
      <3>5. PerEdge' = PerEdge
        BY DEF PerEdge, Late
      <3>6. Age = IF raw # candidate THEN 0
                  ELSE IF age + gap <= Debounce THEN age + gap ELSE Debounce
        <4>1. age + gap \in Int /\ Debounce \in Int
          BY CtConstants DEF CtTypeOK
        <4> QED
          BY <4>1, MinOfTwo DEF Age
      <3> DEFINE r == rises * PerEdge
                 f == falls * PerEdge
                 g == gap * PulseHz
                 m == MaxGap * PulseHz
                 a == age * PulseHz
      <3>7. /\ r \in Nat /\ f \in Nat /\ g \in Nat /\ m \in Nat /\ a \in Nat /\ PerEdge \in Nat
            /\ g <= m /\ m <= PerEdge /\ (age < Debounce => m + a + m <= PerEdge)
            /\ Missing \in Int
        BY Products DEF CtTypeOK
      <3>8. /\ ~candidate /\ ~raw => Missing <= r
            /\ ~candidate /\ raw => Missing <= r - PerEdge + g
            /\ candidate /\ ~stable => Missing <= r - PerEdge + m + a + g
            /\ candidate /\ stable => Missing <= r + g
        BY <3>4, Products DEF MissingMost, CtTypeOK
      <3>9. /\ candidate /\ raw => Missing >= g - f
            /\ candidate /\ ~raw => Missing >= PerEdge - f
            /\ ~candidate /\ stable => Missing >= PerEdge - f - m - a
            /\ ~candidate /\ ~stable => Missing >= -f
        BY <3>4, Products DEF MissingLeast, CtTypeOK
      <3>10. candidate # stable => age < Debounce
        BY <3>4 DEF Recent
      <3>11. /\ raw = stable => Level = raw
             /\ raw # stable /\ raw # candidate => Level = stable /\ Age = 0
             /\ raw # stable /\ raw = candidate /\ age + gap < Debounce
                    => Level = stable /\ Age = age + gap
             /\ raw # stable /\ raw = candidate /\ age + gap >= Debounce => Level = raw
        <4>1. /\ raw # candidate => Age = 0 /\ ~(Age >= Debounce)
              /\ raw = candidate /\ age + gap < Debounce => Age = age + gap /\ ~(Age >= Debounce)
              /\ raw = candidate /\ age + gap >= Debounce => Age >= Debounce
          <5>1. /\ raw # candidate => Age = 0
                /\ raw = candidate => Age = IF age + gap <= Debounce THEN age + gap ELSE Debounce
            BY <3>6, Zenon
          <5>2. age \in Nat /\ gap \in Nat /\ Debounce \in Nat \ {0}
            BY CtConstants DEF CtTypeOK
          <5> QED
            BY <5>1, <5>2
        <4> QED
          BY <4>1, Zenon DEF Level
      <3> DEFINE b == Age * PulseHz
      <3>12. (Age = 0 => b = 0) /\ (Age = age + gap => b = a + g)
        BY CtConstants DEF CtTypeOK
      <3>13. Age \in Nat /\ b \in Nat
        <4>1. Age \in Nat
          BY <3>6, CtConstants DEF CtTypeOK
        <4> QED
          BY <4>1, Products
      <3>14. /\ MissingMost' = IF ~raw THEN r
                               ELSE IF ~Level THEN r - PerEdge + m + b ELSE r
             /\ MissingLeast' = IF raw THEN -f ELSE IF Level THEN PerEdge - f - m - b ELSE -f
        <4>1. /\ 0 * PulseHz = 0
              /\ (MaxGap + Age + 0) * PulseHz = m + b /\ (MaxGap + Age) * PulseHz = m + b
              /\ (rises - 1) * PerEdge = r - PerEdge /\ (falls - 1) * PerEdge = f - PerEdge
          BY <3>13, Products, CtConstants
        <4>2. MissingMost' = CASE ~raw /\ ~raw -> r
                               [] ~raw /\ raw -> (rises - 1) * PerEdge + 0 * PulseHz
                               [] raw /\ ~Level -> (rises - 1) * PerEdge
                                                     + (MaxGap + Age + 0) * PulseHz
                               [] raw /\ Level -> r + 0 * PulseHz
          BY <3>4, <3>5 DEF MissingMost
        <4>3. MissingLeast' = CASE raw /\ raw -> 0 * PulseHz - f
                                [] raw /\ ~raw -> -((falls - 1) * PerEdge)
                                [] ~raw /\ Level -> -((falls - 1) * PerEdge)
                                                      - (MaxGap + Age) * PulseHz
                                [] ~raw /\ ~Level -> -f
          BY <3>4, <3>5 DEF MissingLeast
        <4> HIDE DEF r, f, g, m, a, b
        <4>4. Level \in BOOLEAN /\ raw \in BOOLEAN
          BY DEF Level, CtTypeOK
        <4> QED
          BY <3>7, <3>13, <4>1, <4>2, <4>3, <4>4
      <3>15. MissingLeast' <= Missing' /\ Missing' <= MissingMost'
        <4>1. Missing' = Missing - (IF Level THEN g ELSE 0)
          BY <3>3
        <4>2. {raw, candidate, stable} \subseteq BOOLEAN
          BY DEF CtTypeOK
        <4> HIDE DEF r, f, g, m, a, b, Missing
        <4>3. CASE raw = stable /\ candidate = raw
          BY <4>1, <4>2, <4>3, <3>7, <3>8, <3>9, <3>11, <3>14
        <4>4. CASE raw = stable /\ candidate # raw
          BY <4>1, <4>2, <4>4, <3>7, <3>8, <3>9, <3>10, <3>11, <3>14
        <4>5. CASE raw # stable /\ raw # candidate
          BY <4>1, <4>2, <4>5, <3>7, <3>8, <3>9, <3>11, <3>12, <3>14
        <4>6. CASE raw # stable /\ raw = candidate
          <5>1. age + gap < Debounce \/ age + gap >= Debounce
            BY CtConstants DEF CtTypeOK
          <5>2. CASE age + gap < Debounce
            BY <4>1, <4>2, <4>6, <5>2, <3>7, <3>8, <3>9, <3>11, <3>12, <3>14
          <5>3. CASE age + gap >= Debounce
            BY <4>1, <4>2, <4>6, <5>3, <3>7, <3>8, <3>9, <3>10, <3>11, <3>14
          <5> QED
            BY <5>1, <5>2, <5>3
        <4> QED
          BY <4>3, <4>4, <4>5, <4>6
      <3> QED
        BY <3>4, <3>15
    <2>5. CASE UNCHANGED ctVars
      BY <2>5 DEF ctVars, MissingMost, MissingLeast, PerEdge, Late
    <2> QED
      BY <2>1, <2>2, <2>3, <2>4, <2>5 DEF CtNext
  <1> QED
    BY <1>1, <1>2, CtTypeCorrect, RecentHolds, PTL DEF CtSpec

\* However the calls of SensorCt::service() fall, the pulses it has returned
\* differ from the true active time by at most Late per edge, the last gap and
\* the fraction it carries.
THEOREM ErrorStaysBounded == CtSpec => []ErrorBounded
  <1>1. CtTypeOK /\ Recent /\ Balanced => ErrorBounded
    <2> SUFFICES ASSUME CtTypeOK, Recent, Balanced
                 PROVE  ErrorBounded
      OBVIOUS
    <2>1. rises * Late * PulseHz = rises * PerEdge /\ falls * Late * PulseHz = falls * PerEdge
      BY CtConstants DEF PerEdge, Late, CtTypeOK
    <2>2. -(falls * PerEdge) <= Missing /\ Missing <= rises * PerEdge + MaxGap * PulseHz
      BY Products, CtConstants DEF Recent, Balanced, MissingMost, MissingLeast, Missing, CtTypeOK
    <2> QED
      BY <2>1, <2>2, Products, CtConstants DEF ErrorBounded, Missing, CtTypeOK
  <1> QED
    BY <1>1, CtTypeCorrect, RecentHolds, BalancedHolds, PTL

-----------------------------------------------------------------------------
\* The stamps are below the wrap, and after the first cycle none comes later than
\* Lag after the last.
Stamps ==
    /\ millis \in 0..(Wrap - 1) /\ tTelemetry \in 0..(Wrap - 1)
    /\ lastChangeMs \in 0..(Wrap - 1)
    /\ started => Elapsed(millis, tTelemetry) <= Lag
    /\ pend \in Nat /\ quiet \in 0..Wrap
    /\ nvs \in [maxHz : MaxHzs, gap : Gaps]
    /\ health \in [threshold : Gaps, lastPulseMs : 0..(Wrap - 1),
                   state : {"starting", "active", "idle", "suspect"}]

\* The two monitors that time a silence time the same one.
SameClock ==
    /\ started => health.lastPulseMs = lastChangeMs
    /\ ~started => health.state = "starting"

\* A pulse no cycle has seen is more recent than the last cycle.
Unseen == started /\ pend > 0 => quiet < Elapsed(millis, tTelemetry)

\* The silence the monitors see is the real one, less the time the pulse waited
\* for its cycle, and less whole wraps.
Silence ==
    started /\ pend = 0 =>
        /\ Elapsed(millis, lastChangeMs) <= quiet
        /\ quiet < Wrap => quiet <= Elapsed(millis, lastChangeMs) + Lag

\* What the last row says.
LastRow ==
    Stamped =>
        /\ pend = 0
        /\ "SENSOR_SUSPECT" \in quality <=> health.state = "suspect"
        /\ health.state = "suspect" => health.threshold # 0 /\ quiet >= health.threshold
        /\ health.state = "idle" => quiet >= ActiveHold
        /\ health.threshold # 0 /\ quiet < Wrap /\ quiet >= health.threshold + Lag
              => health.state = "suspect"
        /\ health.state = "active" /\ quiet < Wrap => quiet < ActiveHold + Lag

MonInv == Stamps /\ SameClock /\ Unseen /\ Silence /\ LastRow

-----------------------------------------------------------------------------
\* The constants, as the assumptions have them.
LEMMA MonitorSizes ==
    /\ Wrap \in Nat \ {0} /\ Period \in Nat /\ MaxLag \in Nat /\ Lag \in Nat /\ Lag < Wrap
    /\ ActiveHold \in Nat /\ StuckThreshold \in Nat /\ Gaps \subseteq Nat
  BY MonitorConstants, ThresholdsBelowWrap DEF Lag

\* Unsigned subtraction gives the distance forward from then to now.
LEMMA ElapsedIs ==
    ASSUME NEW now \in 0..(Wrap - 1), NEW then \in 0..(Wrap - 1)
    PROVE  /\ Elapsed(now, then) = IF now >= then THEN now - then ELSE now - then + Wrap
           /\ Elapsed(now, then) \in 0..(Wrap - 1)
           /\ Elapsed(now, then) = 0 <=> now = then
  <1>1. CASE now >= then
    <2>1. now - then \in 0..(Wrap - 1)
      BY <1>1, MonitorSizes
    <2>2. (now - then) % Wrap = now - then
      BY <2>1, MonitorSizes
    <2> QED
      BY <1>1, <2>1, <2>2, MonitorSizes DEF Elapsed
  <1>2. CASE ~(now >= then)
    <2>1. now - then \in Int /\ now - then < 0 /\ (now - then) + Wrap >= 0
      BY <1>2, MonitorSizes
    <2>2. (now - then) % Wrap = (now - then) + Wrap
      BY <2>1, MonitorSizes
    <2> QED
      BY <1>2, <2>1, <2>2, MonitorSizes DEF Elapsed
  <1> QED
    BY <1>1, <1>2

\* So it is a natural number, whatever the stamps.
LEMMA ElapsedNat ==
    ASSUME NEW now \in 0..(Wrap - 1), NEW then \in 0..(Wrap - 1)
    PROVE  Elapsed(now, then) \in Nat
  <1>1. Elapsed(now, then) \in 0..(Wrap - 1)
    BY ElapsedIs
  <1> QED
    BY <1>1, MonitorSizes

\* A tick adds one to it, until it wraps.
LEMMA ElapsedTicks ==
    ASSUME NEW now \in 0..(Wrap - 1), NEW then \in 0..(Wrap - 1), NEW next,
           next = (now + 1) % Wrap
    PROVE  /\ next \in 0..(Wrap - 1)
           /\ Elapsed(next, then) = IF Elapsed(now, then) + 1 = Wrap THEN 0
                                    ELSE Elapsed(now, then) + 1
  <1>1. next = IF now + 1 = Wrap THEN 0 ELSE now + 1
    <2>1. CASE now + 1 = Wrap
      BY <2>1, MonitorSizes
    <2>2. CASE now + 1 # Wrap
      <3>1. now + 1 \in 0..(Wrap - 1)
        BY <2>2, MonitorSizes
      <3> QED
        BY <2>2, <3>1, MonitorSizes
    <2> QED
      BY <2>1, <2>2
  <1>2. next \in 0..(Wrap - 1)
    BY <1>1, MonitorSizes
  <1>3. /\ Elapsed(now, then) = IF now >= then THEN now - then ELSE now - then + Wrap
        /\ Elapsed(next, then) = IF next >= then THEN next - then ELSE next - then + Wrap
    BY <1>2, ElapsedIs
  <1> QED
    BY <1>1, <1>2, <1>3, MonitorSizes

\* The bit of the row is the state of the health monitor.
LEMMA SuspectBit ==
    ASSUME NEW r, NEW h
    PROVE  "SENSOR_SUSPECT" \in Bits(r, h) <=> h.state = "suspect"
  BY DEF Bits

\* What a SensorHealthMonitor may hold.
HealthRecords == [threshold : Gaps, lastPulseMs : 0..(Wrap - 1),
                  state : {"starting", "active", "idle", "suspect"}]

\* What SensorHealthMonitor::update() makes of a cycle.
LEMMA HealthUpdated ==
    ASSUME NEW h \in HealthRecords, NEW delta \in Nat, NEW now \in 0..(Wrap - 1)
    PROVE  LET u == HealthUpdate(h, delta, now)
               g == Elapsed(now, h.lastPulseMs)
           IN  /\ u \in HealthRecords /\ u.threshold = h.threshold
               /\ delta # 0 => u.state = "active" /\ u.lastPulseMs = now
               /\ delta = 0 =>
                    /\ u.lastPulseMs = h.lastPulseMs
                    /\ u.state = "suspect" => h.threshold # 0 /\ g >= h.threshold
                    /\ h.threshold # 0 /\ g >= h.threshold => u.state = "suspect"
                    /\ u.state = "idle" => g >= ActiveHold
                    /\ u.state = "active" => g < ActiveHold
  <1> DEFINE g == Elapsed(now, h.lastPulseMs)
  <1>0. h.lastPulseMs \in 0..(Wrap - 1) /\ h.threshold \in Gaps
    BY DEF HealthRecords
  <1>1. h.threshold \in Nat /\ g \in Nat
    BY <1>0, ElapsedNat, MonitorSizes
  <1>2. CASE delta # 0
    <2>1. HealthUpdate(h, delta, now) = [h EXCEPT !.lastPulseMs = now, !.state = "active"]
      BY <1>2 DEF HealthUpdate
    <2> QED
      BY <1>2, <2>1 DEF HealthRecords
  <1>3. CASE delta = 0 /\ h.threshold # 0 /\ g >= h.threshold
    <2>1. HealthUpdate(h, delta, now) = [h EXCEPT !.state = "suspect"]
      BY <1>3 DEF HealthUpdate
    <2> QED
      BY <1>3, <2>1 DEF HealthRecords
  <1>4. CASE delta = 0 /\ ~(h.threshold # 0 /\ g >= h.threshold) /\ g >= ActiveHold
    <2>1. HealthUpdate(h, delta, now) = [h EXCEPT !.state = "idle"]
      BY <1>4 DEF HealthUpdate
    <2> QED
      BY <1>4, <2>1 DEF HealthRecords
  <1>5. CASE delta = 0 /\ ~(h.threshold # 0 /\ g >= h.threshold) /\ ~(g >= ActiveHold)
    <2>1. HealthUpdate(h, delta, now) =
            [h EXCEPT !.state = IF h.state = "starting" THEN h.state ELSE "active"]
      BY <1>5 DEF HealthUpdate
    <2>2. g < ActiveHold
      BY <1>1, <1>5, MonitorSizes
    <2> QED
      BY <1>5, <2>1, <2>2 DEF HealthRecords
  <1> QED
    BY <1>2, <1>3, <1>4, <1>5

-----------------------------------------------------------------------------
\* A tick: every clock goes on, a pulse ends the silence, and the last row is past.
LEMMA TickKeeps == ASSUME MonInv, NEW n \in 0..MaxBurst, Tick(n) PROVE MonInv'
  <1> DEFINE et == Elapsed(millis, tTelemetry)
             ec == Elapsed(millis, lastChangeMs)
  <1>1. /\ millis \in 0..(Wrap - 1) /\ tTelemetry \in 0..(Wrap - 1) /\ lastChangeMs \in 0..(Wrap - 1)
        /\ pend \in Nat /\ quiet \in 0..Wrap
    BY DEF MonInv, Stamps
  <1>2. /\ started => et < Lag
        /\ millis' = (millis + 1) % Wrap /\ pend' = pend + n /\ n \in Nat
        /\ quiet' = IF n > 0 THEN 0 ELSE Min({Wrap, quiet + 1})
        /\ UNCHANGED <<tTelemetry, nvs, started, health, lastChangeMs, quality>>
    BY MonitorConstants DEF Tick
  <1>3. /\ millis' \in 0..(Wrap - 1)
        /\ Elapsed(millis', tTelemetry) = IF et + 1 = Wrap THEN 0 ELSE et + 1
        /\ Elapsed(millis', lastChangeMs) = IF ec + 1 = Wrap THEN 0 ELSE ec + 1
    BY <1>1, <1>2, ElapsedTicks
  <1>4. et \in 0..(Wrap - 1) /\ ec \in 0..(Wrap - 1)
    BY <1>1, ElapsedIs
  <1>5. Min({Wrap, quiet + 1}) = IF Wrap <= quiet + 1 THEN Wrap ELSE quiet + 1
    BY <1>1, MinOfTwo, MonitorSizes
  <1>6. /\ started => Elapsed(millis', tTelemetry') = et + 1
        /\ Elapsed(millis', lastChangeMs') = IF ec + 1 = Wrap THEN 0 ELSE ec + 1
    BY <1>2, <1>3, <1>4, MonitorSizes
  <1>7. pend' \in Nat /\ quiet' \in 0..Wrap
    BY <1>1, <1>2, <1>5, MonitorSizes
  <1>8. started /\ pend > 0 => quiet < et
    BY DEF MonInv, Unseen
  <1>9. started /\ pend = 0 => ec <= quiet /\ (quiet < Wrap => quiet <= ec + Lag)
    BY DEF MonInv, Silence
  <1> HIDE DEF et, ec
  <1>10. Stamps'
    BY <1>1, <1>2, <1>3, <1>4, <1>6, <1>7, MonitorSizes DEF MonInv, Stamps
  <1>11. SameClock'
    BY <1>2 DEF MonInv, SameClock
  <1>12. Unseen'
    <2>1. quiet' <= quiet + 1 /\ (n > 0 => quiet' = 0)
      BY <1>1, <1>2, <1>5, MonitorSizes
    <2>2. pend' > 0 => n > 0 \/ pend > 0
      BY <1>1, <1>2
    <2> QED
      BY <1>1, <1>2, <1>4, <1>6, <1>7, <1>8, <2>1, <2>2, MonitorSizes DEF Unseen
  <1>13. Silence'
    <2> SUFFICES ASSUME started, pend' = 0
                 PROVE  /\ Elapsed(millis', lastChangeMs') <= quiet'
                        /\ quiet' < Wrap => quiet' <= Elapsed(millis', lastChangeMs') + Lag
      BY <1>2 DEF Silence
    <2>1. pend = 0 /\ n = 0
      BY <1>1, <1>2
    <2>2. quiet' = IF Wrap <= quiet + 1 THEN Wrap ELSE quiet + 1
      BY <1>2, <1>5, <2>1
    <2> QED
      BY <1>1, <1>4, <1>6, <1>9, <2>1, <2>2, MonitorSizes
  <1>14. LastRow'
    <2>1. started => millis' # tTelemetry'
      <3>1. started => Elapsed(millis', tTelemetry') # 0
        BY <1>4, <1>6
      <3> QED
        BY <1>1, <1>2, <1>3, <3>1, ElapsedIs
    <2> QED
      BY <1>2, <2>1 DEF LastRow, Stamped
  <1> QED
    BY <1>10, <1>11, <1>12, <1>13, <1>14 DEF MonInv

\* The first cycle takes the time of its baselines as the start of the silence.
LEMMA FirstCycleKeeps == MonInv /\ FirstCycle => MonInv'
  <1> SUFFICES ASSUME MonInv, FirstCycle
               PROVE  MonInv'
    OBVIOUS
  <1>1. /\ millis \in 0..(Wrap - 1) /\ nvs.gap \in Gaps
        /\ health \in HealthRecords /\ health.state = "starting"
    BY DEF MonInv, Stamps, SameClock, FirstCycle, HealthRecords
  <1>2. /\ tTelemetry' = millis /\ started' = TRUE /\ pend' = 0 /\ lastChangeMs' = millis
        /\ health' = [SetThreshold(health, nvs.gap) EXCEPT !.lastPulseMs = millis]
        /\ quality' = Bits(rate', health') /\ quiet' = 0
        /\ UNCHANGED <<millis, nvs>>
    BY DEF FirstCycle
  <1>3. /\ health' \in HealthRecords /\ health'.lastPulseMs = millis
        /\ health'.state = "starting" /\ health'.threshold = nvs.gap
    BY <1>1, <1>2 DEF SetThreshold, HealthRecords
  <1>4. Elapsed(millis', tTelemetry') = 0 /\ Elapsed(millis', lastChangeMs') = 0
    BY <1>1, <1>2, ElapsedIs
  <1>5. 0 \in 0..Wrap
    BY MonitorSizes
  <1>6. Stamps'
    BY <1>1, <1>2, <1>3, <1>4, <1>5, MonitorSizes DEF MonInv, Stamps, HealthRecords
  <1>7. SameClock' /\ Unseen' /\ Silence'
    BY <1>2, <1>3, <1>4, MonitorSizes DEF SameClock, Unseen, Silence
  <1>8. LastRow'
    <2>1. health'.threshold \in Nat
      BY <1>1, <1>3, MonitorSizes
    <2>2. "SENSOR_SUSPECT" \in quality' <=> health'.state = "suspect"
      BY <1>2, SuspectBit
    <2> QED
      BY <1>2, <1>3, <2>1, <2>2, MonitorSizes DEF LastRow
  <1> QED
    BY <1>6, <1>7, <1>8 DEF MonInv

\* A later cycle: what it sees of the silence decides.
LEMMA CycleKeeps == MonInv /\ Cycle => MonInv'
  <1> SUFFICES ASSUME MonInv, Cycle
               PROVE  MonInv'
    OBVIOUS
  <1> DEFINE h == SetThreshold(health, nvs.gap)
             g == Elapsed(millis, lastChangeMs)
  <1>1. /\ millis \in 0..(Wrap - 1) /\ quiet \in 0..Wrap /\ nvs.gap \in Gaps /\ pend \in Nat
        /\ tTelemetry \in 0..(Wrap - 1) /\ lastChangeMs \in 0..(Wrap - 1)
        /\ Elapsed(millis, tTelemetry) <= Lag
        /\ health \in HealthRecords /\ health.lastPulseMs = lastChangeMs /\ started
    BY DEF MonInv, Stamps, SameClock, Cycle, HealthRecords
  <1>2. /\ tTelemetry' = millis /\ started' = started /\ pend' = 0
        /\ health' = HealthUpdate(h, pend, millis)
        /\ lastChangeMs' = IF pend # 0 THEN millis ELSE lastChangeMs
        /\ quality' = Bits(rate', health')
        /\ UNCHANGED <<millis, nvs, quiet>>
    BY DEF Cycle, StuckUpdate
  <1>3. h \in HealthRecords /\ h.lastPulseMs = lastChangeMs /\ h.threshold = nvs.gap
    BY <1>1 DEF SetThreshold, HealthRecords
  <1> HIDE DEF h
  <1>4. /\ health' \in HealthRecords /\ health'.threshold = nvs.gap
        /\ pend # 0 => health'.state = "active" /\ health'.lastPulseMs = millis
        /\ pend = 0 =>
              /\ health'.lastPulseMs = lastChangeMs
              /\ health'.state = "suspect" => nvs.gap # 0 /\ g >= nvs.gap
              /\ nvs.gap # 0 /\ g >= nvs.gap => health'.state = "suspect"
              /\ health'.state = "idle" => g >= ActiveHold
              /\ health'.state = "active" => g < ActiveHold
    <2> DEFINE u == HealthUpdate(h, pend, millis)
    <2>1. /\ u \in HealthRecords /\ u.threshold = h.threshold
          /\ pend # 0 => u.state = "active" /\ u.lastPulseMs = millis
          /\ pend = 0 =>
                /\ u.lastPulseMs = h.lastPulseMs
                /\ u.state = "suspect" =>
                      h.threshold # 0 /\ Elapsed(millis, h.lastPulseMs) >= h.threshold
                /\ h.threshold # 0 /\ Elapsed(millis, h.lastPulseMs) >= h.threshold
                      => u.state = "suspect"
                /\ u.state = "idle" => Elapsed(millis, h.lastPulseMs) >= ActiveHold
                /\ u.state = "active" => Elapsed(millis, h.lastPulseMs) < ActiveHold
      BY <1>1, <1>3, HealthUpdated
    <2> HIDE DEF u
    <2>2. health' = u
      BY <1>2 DEF u
    <2> QED
      BY <1>3, <2>1, <2>2
  <1>5. g \in Nat /\ Elapsed(millis, tTelemetry) \in Nat /\ nvs.gap \in Nat
    BY <1>1, ElapsedNat, MonitorSizes
  <1>6. /\ pend # 0 => quiet < Lag
        /\ pend = 0 => g <= quiet /\ (quiet < Wrap => quiet <= g + Lag)
    <2>1. pend # 0 => quiet < Elapsed(millis, tTelemetry)
      BY <1>1 DEF MonInv, Unseen
    <2> QED
      BY <1>1, <1>5, <2>1, MonitorSizes DEF MonInv, Silence
  <1>7. /\ Elapsed(millis', tTelemetry') = 0
        /\ Elapsed(millis', lastChangeMs') = IF pend # 0 THEN 0 ELSE g
    BY <1>1, <1>2, ElapsedIs
  <1> HIDE DEF g
  <1>8. Stamps'
    <2>1. lastChangeMs' \in 0..(Wrap - 1)
      BY <1>1, <1>2
    <2> QED
      BY <1>1, <1>2, <1>4, <1>7, <2>1, MonitorSizes DEF MonInv, Stamps, HealthRecords
  <1>9. SameClock' /\ Unseen' /\ Silence'
    BY <1>1, <1>2, <1>4, <1>5, <1>6, <1>7, MonitorSizes DEF SameClock, Unseen, Silence
  <1>10. LastRow'
    <2>1. "SENSOR_SUSPECT" \in quality' <=> health'.state = "suspect"
      BY <1>2, SuspectBit
    <2>2. CASE pend # 0
      BY <1>1, <1>2, <1>4, <1>5, <1>6, <2>1, <2>2, MonitorSizes DEF LastRow
    <2>3. CASE pend = 0
      BY <1>1, <1>2, <1>4, <1>5, <1>6, <2>1, <2>3, MonitorSizes DEF LastRow
    <2> QED
      BY <2>2, <2>3
  <1> QED
    BY <1>8, <1>9, <1>10 DEF MonInv

\* The console changes what is stored, not what the monitors hold.
LEMMA SettingsKeep ==
    ASSUME MonInv, nvs' \in [maxHz : MaxHzs, gap : Gaps],
           UNCHANGED <<millis, tTelemetry, pend, started, health, lastChangeMs, quality, quiet>>
    PROVE  MonInv'
  BY DEF MonInv, Stamps, SameClock, Unseen, Silence, LastRow, Stamped, Elapsed

\* A boot starts with a silence of no length.
LEMMA RebootKeepsMonitors == MonInv /\ Reboot => MonInv'
  <1> SUFFICES ASSUME MonInv, Reboot
               PROVE  MonInv'
    OBVIOUS
  <1>1. /\ millis' = 0 /\ tTelemetry' = 0 /\ pend' = 0 /\ started' = FALSE
        /\ health' = [threshold |-> nvs.gap, lastPulseMs |-> 0, state |-> "starting"]
        /\ lastChangeMs' = 0 /\ quiet' = 0 /\ nvs' = nvs
        /\ nvs \in [maxHz : MaxHzs, gap : Gaps]
    BY DEF MonInv, Stamps, Reboot, Fresh
  <1>2. 0 \in 0..(Wrap - 1) /\ 0 \in 0..Wrap
    BY MonitorSizes
  <1>3. Elapsed(millis', tTelemetry') = 0
    BY <1>1, <1>2, ElapsedIs
  <1>4. Stamps'
    BY <1>1, <1>2, <1>3, MonitorSizes DEF Stamps
  <1>5. SameClock' /\ Unseen' /\ Silence' /\ LastRow'
    BY <1>1, <1>3 DEF SameClock, Unseen, Silence, LastRow, Stamped
  <1> QED
    BY <1>4, <1>5 DEF MonInv

\* The first boot starts the same way.
LEMMA InitMonInv == Init => MonInv
  <1> SUFFICES ASSUME Init
               PROVE  MonInv
    OBVIOUS
  <1>1. 0 \in 0..(Wrap - 1) /\ 0 \in 0..Wrap
    BY MonitorSizes
  <1>2. Elapsed(millis, tTelemetry) = 0
    BY <1>1, ElapsedIs DEF Init
  <1>3. Stamps
    BY <1>1, <1>2, MonitorSizes DEF Init, Stamps
  <1>4. SameClock /\ Unseen /\ Silence /\ LastRow
    BY <1>2 DEF Init, SameClock, Unseen, Silence, LastRow, Stamped
  <1> QED
    BY <1>3, <1>4 DEF MonInv

\* The invariant holds throughout.
LEMMA SilenceMeasured == Spec => []MonInv
  <1>1. MonInv /\ [Next]_vars => MonInv'
    <2> SUFFICES ASSUME MonInv, [Next]_vars
                 PROVE  MonInv'
      OBVIOUS
    <2>1. ASSUME NEW n \in 0..MaxBurst, Tick(n)
          PROVE  MonInv'
      BY <2>1, TickKeeps
    <2>2. CASE FirstCycle
      BY <2>2, FirstCycleKeeps
    <2>3. CASE Cycle
      BY <2>3, CycleKeeps
    <2>4. ASSUME NEW hz \in MaxHzs, SetMikiMaxPulseHz(hz)
          PROVE  MonInv'
      <3>1. nvs' \in [maxHz : MaxHzs, gap : Gaps]
        BY <2>4 DEF MonInv, Stamps, SetMikiMaxPulseHz
      <3> QED
        BY <2>4, <3>1, SettingsKeep DEF SetMikiMaxPulseHz
    <2>5. ASSUME NEW s \in Gaps, SetMikiSuspectGapS(s)
          PROVE  MonInv'
      <3>1. nvs' \in [maxHz : MaxHzs, gap : Gaps]
        BY <2>5 DEF MonInv, Stamps, SetMikiSuspectGapS
      <3> QED
        BY <2>5, <3>1, SettingsKeep DEF SetMikiSuspectGapS
    <2>6. CASE Reboot
      BY <2>6, RebootKeepsMonitors
    <2>7. CASE UNCHANGED vars
      <3>1. nvs' \in [maxHz : MaxHzs, gap : Gaps]
        BY <2>7 DEF MonInv, Stamps, vars
      <3> QED
        BY <2>7, <3>1, SettingsKeep DEF vars
    <2> QED
      BY <2>1, <2>2, <2>3, <2>4, <2>5, <2>6, <2>7 DEF Next
  <1> QED
    BY <1>1, InitMonInv, PTL DEF Spec

\* For every wrap of millis(), every threshold below it and cycles as late as
\* MaxLag allows: no alarm without real silence of at least the threshold.
THEOREM AlarmsAlwaysJustified == Spec => []AlarmsJustified
  <1>1. MonInv => AlarmsJustified
    <2> SUFFICES ASSUME MonInv
                 PROVE  AlarmsJustified
      OBVIOUS
    <2>1. IsStuck /\ pend = 0 => quiet >= StuckThreshold
      <3>0. millis \in 0..(Wrap - 1) /\ lastChangeMs \in 0..(Wrap - 1) /\ quiet \in 0..Wrap
        BY DEF MonInv, Stamps
      <3>1. Elapsed(millis, lastChangeMs) \in Nat /\ quiet \in Nat
        BY <3>0, ElapsedNat, MonitorSizes
      <3> QED
        BY <3>1, MonitorSizes DEF MonInv, Silence, IsStuck
    <2> QED
      BY <2>1 DEF MonInv, LastRow, AlarmsJustified
  <1> QED
    BY <1>1, SilenceMeasured, PTL

\* For all of them: no silence shorter than the wrap is missed for longer than
\* one cycle's lag.
THEOREM AlarmsAlwaysRaised == Spec => []AlarmsRaised
  <1>1. MonInv => AlarmsRaised
    <2> SUFFICES ASSUME MonInv
                 PROVE  AlarmsRaised
      OBVIOUS
    <2>1. started /\ quiet < Wrap /\ quiet >= StuckThreshold + Lag => IsStuck
      <3>1. /\ Elapsed(millis, lastChangeMs) \in Nat /\ Elapsed(millis, tTelemetry) \in Nat
            /\ quiet \in Nat /\ pend \in Nat
            /\ started => Elapsed(millis, tTelemetry) <= Lag
        <4>1. /\ millis \in 0..(Wrap - 1) /\ lastChangeMs \in 0..(Wrap - 1)
              /\ tTelemetry \in 0..(Wrap - 1) /\ quiet \in 0..Wrap /\ pend \in Nat
              /\ started => Elapsed(millis, tTelemetry) <= Lag
          BY DEF MonInv, Stamps
        <4> QED
          BY <4>1, ElapsedNat, MonitorSizes
      <3>2. CASE pend = 0
        BY <3>1, <3>2, MonitorSizes DEF MonInv, Silence, IsStuck
      <3>3. CASE pend > 0
        BY <3>1, <3>3, MonitorSizes DEF MonInv, Unseen, IsStuck
      <3> QED
        BY <3>1, <3>2, <3>3
    <2> QED
      BY <2>1 DEF MonInv, LastRow, AlarmsRaised
  <1> QED
    BY <1>1, SilenceMeasured, PTL
==============================================================================
