------------------------------ MODULE CtSampler ------------------------------
(***************************************************************************)
(* SensorCt::service() (sensor_ct.h): pulses synthesized from the level of *)
(* a current clamp, which loop() samples once per iteration and not while  *)
(* an HTTPS call or an image download blocks it.                           *)
(*                                                                         *)
(* Time passes in ticks.  The level may change at any of them, the sampler *)
(* is called after at most MaxGap of them.  Of the timestamps the model    *)
(* keeps the differences the code takes, which are wrap-safe; the age of   *)
(* the candidate stops at the debounce time it is compared with.           *)
(***************************************************************************)
EXTENDS Integers, FiniteSetsExt

CONSTANTS
    PulseHz,    \* milli-pulses per tick of active time
    Unit,       \* milli-pulses in a pulse: 1000
    Debounce,   \* debounceMs_
    MaxGap,     \* the longest time between two calls
    MaxEdges    \* bound: changes of the level

ASSUME CtConstants ==
    /\ {PulseHz, Unit, Debounce, MaxGap} \subseteq Nat \ {0}
    /\ MaxEdges \in Nat

VARIABLES
    raw,       \* the level of the input
    begun,     \* initialized_
    stable,    \* stable_
    candidate, \* candidate_
    age,       \* nowMs - candidateSinceMs_ at the last call
    gap,       \* time since that call
    frac,      \* fracMilliPulses_
    owed,      \* history: milli-pulses of true active time less those injected
    rises, falls, \* history: changes of the level since the first call
    held       \* history: how long the level has been what it is

ctVars == <<raw, begun, stable, candidate, age, gap, frac, owed, rises, falls, held>>

\* What the sampler may see late of one change: it falls just after a call, the
\* next one starts the debounce, and the call before the one that would commit
\* comes just too early.
Late == 2 * MaxGap + Debounce - 1

CtInit ==
    /\ raw \in BOOLEAN /\ begun = FALSE
    /\ stable = FALSE /\ candidate = FALSE /\ age = 0
    /\ gap = 0 /\ frac = 0 /\ owed = 0 /\ rises = 0 /\ falls = 0 /\ held = 0

CtTick ==
    /\ gap < MaxGap
    /\ gap' = gap + 1
    /\ owed' = IF raw /\ begun THEN owed + PulseHz ELSE owed
    /\ held' = Min({held + 1, Late + 1})
    /\ UNCHANGED <<raw, begun, stable, candidate, age, frac, rises, falls>>

Edge ==
    /\ begun /\ rises + falls < MaxEdges
    /\ raw' = ~raw /\ held' = 0
    /\ rises' = IF raw THEN rises ELSE rises + 1
    /\ falls' = IF raw THEN falls + 1 ELSE falls
    /\ UNCHANGED <<begun, stable, candidate, age, gap, frac, owed>>

\* The first call takes the level as it is.
FirstService ==
    /\ ~begun
    /\ begun' = TRUE
    /\ stable' = raw /\ candidate' = raw /\ age' = 0
    /\ gap' = 0
    /\ UNCHANGED <<raw, frac, owed, rises, falls, held>>

\* The debounce clock after a call, and the level that is then committed.
Age == IF raw # candidate THEN 0 ELSE Min({age + gap, Debounce})
Level == IF raw # stable /\ Age >= Debounce THEN raw ELSE stable

\* totalizer.injectSoftPulses() of the whole pulses in total milli-pulses; the
\* rest is carried.  Mutant: the rest is dropped.
InjectDropping(total) ==
    /\ frac' = IF total < Unit THEN total ELSE 0
    /\ owed' = owed - Unit * (total \div Unit)
Inject(total) ==
    /\ frac' = total % Unit
    /\ owed' = owed - Unit * (total \div Unit)

\* Mutant of Service: the debounce clock starts again at every call.
ServiceRestarting ==
    /\ begun
    /\ candidate' = raw /\ age' = 0 /\ stable' = Level
    /\ gap' = 0
    /\ Inject(frac + (IF Level THEN gap * PulseHz ELSE 0))
    /\ UNCHANGED <<raw, begun, rises, falls, held>>
Service ==
    /\ begun
    /\ candidate' = raw /\ age' = Age /\ stable' = Level
    /\ gap' = 0
    /\ Inject(frac + (IF Level THEN gap * PulseHz ELSE 0))
    /\ UNCHANGED <<raw, begun, rises, falls, held>>

CtNext == CtTick \/ Edge \/ FirstService \/ Service

CtSpec == CtInit /\ [][CtNext]_ctVars

-----------------------------------------------------------------------------
CtTypeOK ==
    /\ {raw, begun, stable, candidate} \subseteq BOOLEAN
    /\ age \in 0..Debounce /\ gap \in 0..MaxGap /\ frac \in 0..(Unit - 1)
    /\ owed \in Int /\ rises \in Nat /\ falls \in Nat /\ held \in 0..(Late + 1)

\* The injected pulses follow the true active time for good: time goes missing
\* only after a rise and is counted in excess only after a fall, at most Late
\* per change, however the calls fall and whatever was carried over
\* (sensor_ct.h:29-36).  At any moment the last gap and a fraction of a pulse
\* are still to come.
ErrorBounded ==
    /\ owed <= rises * Late * PulseHz + MaxGap * PulseHz + Unit - 1
    /\ owed >= -(falls * Late * PulseHz)

\* A level that holds for longer than Late is the debounced one at the latest
\* then: no pattern of calls keeps the commit from happening.
HeldIsSeen == begun /\ held > Late => stable = raw
=============================================================================
