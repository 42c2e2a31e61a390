---------------------------- MODULE MainLoopProofs ----------------------------
(***************************************************************************)
(* Proofs for MainLoop, for all periods, windows and durations: a          *)
(* transaction other than the image request always fits before the         *)
(* watchdog, and the config poll and the retry of a push come in time.     *)
(***************************************************************************)
EXTENDS MainLoop, TLAPS

\* Times are natural numbers and no timer runs past its period.
Times ==
    /\ timer \in [Timers -> Nat]
    /\ \A t \in Timers : timer[t] <= Period[t]
    /\ sinceFeed \in Nat /\ pollWait \in Nat /\ tryWait \in Nat
    /\ push \in [backoff : Nat, since : Nat] /\ push.since <= push.backoff
    /\ ota \in [backoff : Nat, since : Nat] /\ ota.since <= ota.backoff
    /\ pc \in {"top", "push", "config", "ota", "image", "end", "ap"}
    /\ {netSlotUsed, online, rows, slow} \subseteq BOOLEAN

InIteration == pc \in {"config", "ota", "image", "end"}

\* Where the iteration stands: what it has waited for since the feed, and which
\* timers its earlier parts have already dealt with.
Iteration ==
    /\ pc = "push" => sinceFeed = 0 /\ ~netSlotUsed
    /\ pc = "config" /\ ~netSlotUsed => sinceFeed = 0
    /\ pc = "ota" /\ ~netSlotUsed => sinceFeed = 0
    /\ InIteration => sinceFeed <= Wdt /\ timer["push"] < PushPeriod
    /\ pc = "image" => ~netSlotUsed
    /\ pc \in {"ota", "image", "end"} /\ ~netSlotUsed => timer["config"] < ConfigPoll

\* A retry window is no longer than its cap, and longer than an idle iteration.
Windows ==
    /\ push.backoff # 0 => push.backoff > Step
    /\ push.backoff <= PushCap + Jitter

\* The longest the poll may have waited when an iteration finds it due.
PollDue == (ConfigPoll - 1) + Updating

\* Until it is due the poll has waited no longer than its timer says.  Once due
\* it is put off by a push that may be sent, and then by one its retry window
\* holds back, and by no third.
PollAge ==
    ~slow =>
    /\ pc = "ap" => pollWait = 0
    /\ timer["config"] < ConfigPoll =>
          pollWait <= timer["config"] + (IF InIteration THEN sinceFeed ELSE 0)
    /\ timer["config"] = ConfigPoll => pollWait <= PollBound
    /\ timer["config"] = ConfigPoll /\ pc \in {"top", "push"} /\ timer["push"] = PushPeriod =>
          pollWait <= PollDue + (IF InWindow(push) THEN Txn + Step ELSE 0)
    /\ timer["config"] = ConfigPoll /\ InIteration /\ netSlotUsed =>
          \/ timer["push"] = 0 /\ sinceFeed = 0 /\ pollWait <= PollDue + Txn + Step
          \/ /\ timer["push"] = 0 /\ sinceFeed <= Txn /\ pollWait <= PollDue + sinceFeed
             /\ sinceFeed + Step < PushPeriod \/ (push.since = 0 /\ push.backoff > Step)

\* Inside its window a batch has waited no longer than the window is old, and
\* after it no longer than the window and the push timer.
TryAge ==
    /\ tryWait > 0 => rows /\ online
    /\ pc = "ap" => tryWait = 0
    /\ InWindow(push) => tryWait <= push.since
    /\ timer["push"] < PushPeriod =>
          tryWait <= (PushCap + Jitter - 1) + timer["push"] + (IF InIteration THEN sinceFeed ELSE 0)
    /\ tryWait <= TryBound

TimeInv == Times /\ Iteration /\ Windows /\ PollAge /\ TryAge

-----------------------------------------------------------------------------
\* The constants, as the assumptions have them.
LEMMA Sizes ==
    /\ TelemetryPeriod \in Nat /\ PushPeriod \in Nat /\ ConfigPoll \in Nat /\ OtaPoll \in Nat
    /\ Step \in Nat /\ Txn \in Nat /\ Wdt \in Nat /\ Stream \in Nat
    /\ PushCap \in Nat /\ OtaCap \in Nat /\ Jitter \in Nat
    /\ Step > 0 /\ Wdt > Txn /\ Step < PushPeriod /\ PushPeriod <= ConfigPoll
    /\ TelemetryPeriod > 0 /\ OtaPoll > 0
    /\ 2 * PushPeriod <= PushCap
  BY TimesAreNat, WatchdogExceedsTxn, FirstWindowBelowCap

\* The period of each timer.
LEMMA Periods ==
    /\ Period["telemetry"] = TelemetryPeriod /\ Period["push"] = PushPeriod
    /\ Period["config"] = ConfigPoll /\ Period["ota"] = OtaPoll
    /\ \A t \in Timers : Period[t] \in Nat
    /\ {"telemetry", "push", "config", "ota"} = Timers
  BY Sizes DEF Period, Timers

\* The smaller of two integers.
LEMMA MinOfTwo ==
    ASSUME NEW a \in Int, NEW b \in Int
    PROVE  Min({a, b}) = IF a <= b THEN a ELSE b
  <1> DEFINE m == IF a <= b THEN a ELSE b
  <1>1. m \in {a, b} /\ \A y \in {a, b} : m <= y
    OBVIOUS
  <1>2. \A x \in {a, b} : (\A y \in {a, b} : x <= y) => x = m
    OBVIOUS
  <1> QED
    BY <1>1, <1>2 DEF Min

\* A time stops growing at what it is compared with.
LEMMA Capped ==
    ASSUME NEW n \in Nat, NEW cap \in Nat
    PROVE  UpTo(n, cap) = IF n <= cap THEN n ELSE cap
  BY MinOfTwo DEF UpTo

\* It is still a time, and no later than before.
LEMMA CappedNat ==
    ASSUME NEW n \in Nat, NEW cap \in Nat
    PROVE  UpTo(n, cap) \in Nat /\ UpTo(n, cap) <= cap /\ UpTo(n, cap) <= n
  BY Capped

\* The bounds are times.
LEMMA Bounds == PollBound \in Nat /\ TryBound \in Nat /\ Updating \in Nat /\ PollDue \in Nat
  BY Sizes DEF PollBound, TryBound, Updating, PollDue

\* What the two operators on times do to the variables that hold them.
LEMMA LaterTimer ==
    ASSUME Times, NEW d \in Nat
    PROVE  /\ Later(d) \in [Timers -> Nat]
           /\ \A t \in Timers : /\ Later(d)[t] <= Period[t]
                                /\ Later(d)[t] = IF timer[t] + d <= Period[t] THEN timer[t] + d
                                                 ELSE Period[t]
  <1>1. ASSUME NEW t \in Timers
        PROVE  /\ UpTo(timer[t] + d, Period[t]) \in Nat
               /\ UpTo(timer[t] + d, Period[t]) <= Period[t]
               /\ UpTo(timer[t] + d, Period[t]) =
                    IF timer[t] + d <= Period[t] THEN timer[t] + d ELSE Period[t]
    <2>1. timer[t] \in Nat /\ timer[t] + d \in Nat /\ Period[t] \in Nat
      BY Periods DEF Times
    <2> QED
      BY <2>1, Capped
  <1> QED
    BY <1>1 DEF Later

\* A timer that is set leaves the others alone.
LEMMA SetTimer ==
    ASSUME Times, NEW t \in Timers
    PROVE  /\ Set(t) \in [Timers -> Nat] /\ Set(t)[t] = 0
           /\ \A u \in Timers : Set(t)[u] <= Period[u] /\ (u # t => Set(t)[u] = timer[u])
  BY Periods DEF Times, Set

\* A retry clock that d has passed for; its window is the same.
LEMMA OlderRetry ==
    ASSUME NEW r \in [backoff : Nat, since : Nat], r.since <= r.backoff, NEW d \in Nat
    PROVE  /\ Older(r, d) \in [backoff : Nat, since : Nat]
           /\ Older(r, d).backoff = r.backoff
           /\ Older(r, d).since <= r.backoff
           /\ Older(r, d).since = IF r.since + d <= r.backoff THEN r.since + d ELSE r.backoff
  <1>1. r.since \in Nat /\ r.backoff \in Nat /\ r.since + d \in Nat
    OBVIOUS
  <1>2. UpTo(r.since + d, r.backoff) = IF r.since + d <= r.backoff THEN r.since + d ELSE r.backoff
    BY <1>1, Capped
  <1> QED
    BY <1>1, <1>2 DEF Older

\* A closed window.
LEMMA NoRetryTyped ==
    NoRetry \in [backoff : Nat, since : Nat] /\ NoRetry.backoff = 0 /\ NoRetry.since = 0
  BY DEF NoRetry

\* notePushFailureBackoff_() opens a window between an idle iteration and the cap.
LEMMA NextPushWindow ==
    ASSUME NEW b \in Nat, b # 0 => b > Step, NEW j \in 0..Jitter
    PROVE  /\ NextPush(b, j) \in [backoff : Nat, since : Nat]
           /\ NextPush(b, j).since = 0
           /\ NextPush(b, j).backoff > Step /\ NextPush(b, j).backoff <= PushCap + Jitter
  <1>1. 2 * b \in Nat /\ j \in Nat /\ j <= Jitter
    BY Sizes
  <1>2. Min({2 * b, PushCap}) = IF 2 * b <= PushCap THEN 2 * b ELSE PushCap
    BY <1>1, Sizes, MinOfTwo
  <1> DEFINE w == IF b = 0 THEN 2 * PushPeriod ELSE Min({2 * b, PushCap})
  <1>3. w \in Nat /\ w > Step /\ w <= PushCap
    BY <1>1, <1>2, Sizes
  <1>4. NextPush(b, j) = [backoff |-> w + j, since |-> 0]
    BY DEF NextPush
  <1> HIDE DEF w
  <1> QED
    BY <1>1, <1>3, <1>4, Sizes

\* The window after a failed update starts now.
LEMMA NextOtaWindow ==
    ASSUME NEW b \in Nat
    PROVE  /\ NextOta(b) \in [backoff : Nat, since : Nat]
           /\ NextOta(b).since = 0
  <1>1. 2 * b \in Nat /\ 2 * OtaPoll \in Nat
    BY Sizes
  <1>2. Min({2 * b, OtaCap}) \in Nat
    BY <1>1, Sizes, MinOfTwo
  <1> QED
    BY <1>1, <1>2 DEF NextOta

-----------------------------------------------------------------------------
\* setup() starts every wait afresh.
LEMMA BootStarts == \A d \in Nat : Times /\ Boot(d) => TimeInv'
  <1> SUFFICES ASSUME NEW d \in Nat, Times, Boot(d)
               PROVE  TimeInv'
    OBVIOUS
  <1>1. timer' \in [Timers -> Nat] /\ \A t \in Timers : timer'[t] <= Period[t]
    <2>1. \A t \in Timers : UpTo(d, Period[t]) \in Nat /\ UpTo(d, Period[t]) <= Period[t]
      BY Periods, CappedNat
    <2> QED
      BY <2>1 DEF Boot
  <1>2. /\ online' \in BOOLEAN /\ pc' \in {"top", "ap"}
        /\ sinceFeed' = 0 /\ netSlotUsed' = FALSE /\ push' = NoRetry /\ ota' = NoRetry
        /\ pollWait' = 0 /\ tryWait' = 0 /\ slow' = FALSE /\ rows' = rows
    BY DEF Boot
  <1>3. Times'
    <2>1. {netSlotUsed', online', rows', slow'} \subseteq BOOLEAN
      BY <1>2 DEF Times
    <2>2. /\ push' \in [backoff : Nat, since : Nat] /\ push'.since <= push'.backoff
          /\ ota' \in [backoff : Nat, since : Nat] /\ ota'.since <= ota'.backoff
      BY <1>2, NoRetryTyped
    <2> QED
      BY <1>1, <1>2, <2>1, <2>2 DEF Times
  <1>4. Iteration' /\ Windows'
    BY <1>2, NoRetryTyped, Sizes DEF Iteration, Windows, InIteration
  <1>5. timer'["push"] \in Nat /\ timer'["config"] \in Nat
    BY <1>1, Periods
  <1>6. PollAge' /\ TryAge'
    BY <1>2, <1>5, NoRetryTyped, Sizes, Bounds DEF PollAge, TryAge, InIteration, InWindow
  <1> QED
    BY <1>3, <1>4, <1>6 DEF TimeInv

\* So does every reset.
LEMMA ResetStarts == Times /\ Reset => TimeInv'
  BY BootStarts, Sizes DEF Reset

\* The scalars that the invariant is about.
LEMMA Scalars ==
    ASSUME Times
    PROVE  /\ timer["push"] \in Nat /\ timer["config"] \in Nat
           /\ timer["push"] <= PushPeriod /\ timer["config"] <= ConfigPoll
           /\ push.backoff \in Nat /\ push.since \in Nat /\ push.since <= push.backoff
           /\ sinceFeed \in Nat /\ pollWait \in Nat /\ tryWait \in Nat
  BY Periods DEF Times

\* The provisioning branch: only the timers go on.
LEMMA ApKeeps == TimeInv /\ (ApIteration \/ ApEnds) => TimeInv'
  <1> SUFFICES ASSUME TimeInv, ApIteration \/ ApEnds
               PROVE  TimeInv'
    OBVIOUS
  <1>1. /\ Times
        /\ pc = "ap" /\ pc' \in {"ap", "top"} /\ online' \in BOOLEAN
        /\ UNCHANGED <<sinceFeed, netSlotUsed, push, ota, rows, pollWait, tryWait, slow>>
    BY DEF TimeInv, Times, ApIteration, ApEnds
  <1>2. timer' \in [Timers -> Nat] /\ \A t \in Timers : timer'[t] <= Period[t]
    BY <1>1, LaterTimer, Sizes DEF Times, ApIteration, ApEnds
  <1>3. Times'
    BY <1>1, <1>2 DEF Times
  <1>4. timer'["push"] \in Nat /\ timer'["config"] \in Nat
    BY <1>2, Periods
  <1>5. Iteration' /\ Windows'
    BY <1>1 DEF TimeInv, Iteration, Windows, InIteration
  <1>6. PollAge' /\ TryAge'
    BY <1>1, <1>4, Scalars, Sizes, Bounds DEF TimeInv, PollAge, TryAge, InIteration, InWindow
  <1> QED
    BY <1>3, <1>5, <1>6 DEF TimeInv

\* Steps in which no time passes and no timer is set.
LEMMA LinkKeeps == TimeInv /\ LinkChanges => TimeInv'
  <1> SUFFICES ASSUME TimeInv, LinkChanges
               PROVE  TimeInv'
    OBVIOUS
  <1>1. /\ Times /\ pc # "ap" /\ online' \in BOOLEAN /\ tryWait' = 0
        /\ UNCHANGED <<pc, timer, sinceFeed, netSlotUsed, push, ota, rows, pollWait, slow>>
    BY DEF TimeInv, LinkChanges
  <1>2. Times'
    BY <1>1 DEF Times
  <1>3. Iteration' /\ Windows' /\ PollAge'
    BY <1>1 DEF TimeInv, Iteration, Windows, PollAge, InIteration, InWindow
  <1>4. TryAge'
    BY <1>1, Scalars, Sizes, Bounds DEF TryAge, InIteration, InWindow
  <1> QED
    BY <1>2, <1>3, <1>4 DEF TimeInv

\* The top of loop() sets no timer but telemetry's.
LEMMA TopKeeps == TimeInv /\ Top => TimeInv'
  <1> SUFFICES ASSUME TimeInv, Top
               PROVE  TimeInv'
    OBVIOUS
  <1>1. /\ Times /\ pc = "top" /\ pc' = "push" /\ sinceFeed' = 0 /\ netSlotUsed' = FALSE
        /\ rows' = (rows \/ Due("telemetry"))
        /\ UNCHANGED <<push, ota, online, pollWait, tryWait, slow>>
    BY DEF TimeInv, Top
  <1>2. /\ timer' \in [Timers -> Nat] /\ \A t \in Timers : timer'[t] <= Period[t]
        /\ timer'["push"] = timer["push"] /\ timer'["config"] = timer["config"]
    BY <1>1, SetTimer, Periods DEF Times, Top
  <1>3. rows' \in BOOLEAN /\ (rows => rows')
    BY <1>1 DEF Times
  <1>4. Times'
    BY <1>1, <1>2, <1>3 DEF Times
  <1>5. Iteration' /\ Windows'
    BY <1>1, <1>2 DEF TimeInv, Iteration, Windows, InIteration
  <1>6. PollAge'
    BY <1>1, <1>2, Scalars DEF TimeInv, PollAge, InIteration, InWindow
  <1>7. TryAge'
    BY <1>1, <1>2, <1>3, Scalars, Sizes DEF TimeInv, TryAge, InIteration, InWindow
  <1> QED
    BY <1>4, <1>5, <1>6, <1>7 DEF TimeInv

\* The slot stays free, and nothing has been waited for.
LEMMA PushNotDueKeeps == TimeInv /\ PushNotDue => TimeInv'
  <1> SUFFICES ASSUME TimeInv, PushNotDue
               PROVE  TimeInv'
    OBVIOUS
  <1>1. /\ Times /\ pc = "push" /\ pc' = "config" /\ timer["push"] < PushPeriod
        /\ UNCHANGED <<timer, sinceFeed, netSlotUsed, push, ota, online, rows,
                       pollWait, tryWait, slow>>
    BY Scalars, Sizes, Periods DEF TimeInv, PushNotDue, Due
  <1>2. Times'
    BY <1>1 DEF Times
  <1>3. sinceFeed = 0 /\ ~netSlotUsed
    BY <1>1 DEF TimeInv, Iteration
  <1>4. Iteration' /\ Windows'
    BY <1>1, <1>3, Scalars, Sizes DEF TimeInv, Iteration, Windows, InIteration
  <1>6. PollAge'
    BY <1>1, <1>3, Scalars DEF TimeInv, PollAge, InIteration, InWindow
  <1>7. TryAge'
    BY <1>1, <1>3, Scalars, Sizes DEF TimeInv, TryAge, InIteration, InWindow
  <1> QED
    BY <1>2, <1>4, <1>6, <1>7 DEF TimeInv

\* A free slot and no poll: the poll is not due.
LEMMA ConfigSkippedKeeps == TimeInv /\ ConfigSkipped => TimeInv'
  <1> SUFFICES ASSUME TimeInv, ConfigSkipped
               PROVE  TimeInv'
    OBVIOUS
  <1>1. /\ Times /\ pc = "config" /\ pc' = "ota" /\ (~netSlotUsed => timer["config"] < ConfigPoll)
        /\ UNCHANGED <<timer, sinceFeed, netSlotUsed, push, ota, online, rows,
                       pollWait, tryWait, slow>>
    BY Scalars, Sizes, Periods DEF TimeInv, ConfigSkipped, Due, SlotFree
  <1>2. Times'
    BY <1>1 DEF Times
  <1>3. Iteration' /\ Windows'
    BY <1>1 DEF TimeInv, Iteration, Windows, InIteration
  <1>4. PollAge' /\ TryAge'
    BY <1>1 DEF TimeInv, PollAge, TryAge, InIteration, InWindow
  <1> QED
    BY <1>2, <1>3, <1>4 DEF TimeInv

\* Nothing happens.
LEMMA OtaSkippedKeeps == TimeInv /\ OtaSkipped => TimeInv'
  <1> SUFFICES ASSUME TimeInv, OtaSkipped
               PROVE  TimeInv'
    OBVIOUS
  <1>1. /\ Times /\ pc = "ota" /\ pc' = "end"
        /\ UNCHANGED <<timer, sinceFeed, netSlotUsed, push, ota, online, rows,
                       pollWait, tryWait, slow>>
    BY DEF TimeInv, OtaSkipped
  <1>2. Times'
    BY <1>1 DEF Times
  <1>3. Iteration' /\ Windows'
    BY <1>1 DEF TimeInv, Iteration, Windows, InIteration
  <1>4. PollAge' /\ TryAge'
    BY <1>1 DEF TimeInv, PollAge, TryAge, InIteration, InWindow
  <1> QED
    BY <1>2, <1>3, <1>4 DEF TimeInv

\* Only the update's timer is set.
LEMMA OtaHeldBackKeeps == TimeInv /\ OtaHeldBack => TimeInv'
  <1> SUFFICES ASSUME TimeInv, OtaHeldBack
               PROVE  TimeInv'
    OBVIOUS
  <1>1. /\ Times /\ pc = "ota" /\ pc' = "end" /\ timer' = Set("ota")
        /\ UNCHANGED <<sinceFeed, netSlotUsed, push, ota, online, rows, pollWait, tryWait, slow>>
    BY DEF TimeInv, OtaHeldBack
  <1>2. /\ timer' \in [Timers -> Nat] /\ \A t \in Timers : timer'[t] <= Period[t]
        /\ timer'["push"] = timer["push"] /\ timer'["config"] = timer["config"]
    BY <1>1, SetTimer, Periods
  <1>3. Times'
    BY <1>1, <1>2 DEF Times
  <1>4. Iteration' /\ Windows'
    BY <1>1, <1>2 DEF TimeInv, Iteration, Windows, InIteration
  <1>5. PollAge' /\ TryAge'
    BY <1>1, <1>2 DEF TimeInv, PollAge, TryAge, InIteration, InWindow
  <1> QED
    BY <1>3, <1>4, <1>5 DEF TimeInv

\* The slot is spent without a call: either the window holds the push back, or
\* no batch is waiting.
LEMMA PushHeldBackKeeps == TimeInv /\ PushHeldBack => TimeInv'
  <1> SUFFICES ASSUME TimeInv, PushHeldBack
               PROVE  TimeInv'
    OBVIOUS
  <1>1. /\ Times /\ pc = "push" /\ pc' = "config" /\ timer["push"] = PushPeriod
        /\ timer' = Set("push") /\ netSlotUsed' = TRUE
        /\ InWindow(push) \/ ~(rows /\ online)
        /\ UNCHANGED <<sinceFeed, push, ota, online, rows, pollWait, tryWait, slow>>
    BY Scalars, Sizes, Periods DEF TimeInv, PushHeldBack, Due, Posts
  <1>2. /\ timer' \in [Timers -> Nat] /\ \A t \in Timers : timer'[t] <= Period[t]
        /\ timer'["push"] = 0 /\ timer'["config"] = timer["config"]
    BY <1>1, SetTimer, Periods
  <1>3. Times'
    BY <1>1, <1>2 DEF Times
  <1>4. sinceFeed = 0
    BY <1>1 DEF TimeInv, Iteration
  <1>5. Iteration' /\ Windows'
    BY <1>1, <1>2, <1>4, Sizes DEF TimeInv, Iteration, Windows, InIteration
  <1>6. PollAge'
    <2>1. timer["config"] = ConfigPoll /\ ~slow => pollWait <= PollDue + Txn + Step
      BY <1>1, Scalars, Sizes, Bounds DEF TimeInv, PollAge, InIteration
    <2> QED
      BY <1>1, <1>2, <1>4, <2>1, Scalars DEF TimeInv, PollAge, InIteration
  <1>7. TryAge'
    <2>1. tryWait <= PushCap + Jitter - 1
      BY <1>1, Scalars, Sizes DEF TimeInv, TryAge, InWindow, Windows
    <2> QED
      BY <1>1, <1>2, <1>4, <2>1, Scalars, Sizes DEF TimeInv, TryAge, InIteration, InWindow
  <1> QED
    BY <1>3, <1>5, <1>6, <1>7 DEF TimeInv

-----------------------------------------------------------------------------
\* What a part of the iteration that takes d does to the two waits.
LEMMA PassingTime ==
    ASSUME Times, NEW d \in Nat, NEW w \in Nat, Passes(d, w)
    PROVE  /\ sinceFeed' = sinceFeed + d
           /\ pollWait' \in Nat /\ pollWait' <= pollWait + d
           /\ tryWait' \in Nat /\ tryWait' <= w
           /\ tryWait' > 0 => rows' /\ online
  <1>1. pollWait + d \in Nat /\ PollBound + 1 \in Nat /\ TryBound + 1 \in Nat
    BY Scalars, Bounds
  <1> QED
    BY <1>1, CappedNat DEF Passes

\* pushOnce() with an answer: the waits are counted from here.  Only a slow
\* success, which the history variable records, leaves the push timer due again
\* and its window open.
LEMMA PushAnsweredKeeps ==
    ASSUME TimeInv, NEW d \in 0..Txn, Posts, Ends(d), pc' = "config",
           timer' = Set("push"), netSlotUsed' = TRUE, rows' \in BOOLEAN, Passes(d, 0),
           push' \in [backoff : Nat, since : Nat], push'.since = 0,
           push'.backoff # 0 => push'.backoff > Step, push'.backoff <= PushCap + Jitter,
           ota' = Older(ota, d), slow' \in BOOLEAN, slow => slow',
           ~slow' => push'.backoff > Step \/ d + Step < PushPeriod,
           UNCHANGED online
    PROVE  TimeInv'
  <1>1. /\ Times /\ d \in Nat /\ d <= Txn /\ sinceFeed = 0
        /\ pc = "push" /\ timer["push"] = PushPeriod /\ ~InWindow(push)
    BY Sizes, Scalars, Periods DEF TimeInv, Posts, Due, Iteration
  <1>2. /\ timer' \in [Timers -> Nat] /\ \A t \in Timers : timer'[t] <= Period[t]
        /\ timer'["push"] = 0 /\ timer'["config"] = timer["config"]
    BY <1>1, SetTimer, Periods
  <1>3. /\ sinceFeed' = d /\ pollWait' \in Nat /\ pollWait' <= pollWait + d /\ tryWait' = 0
    BY <1>1, PassingTime, Scalars
  <1>4. ota' \in [backoff : Nat, since : Nat] /\ ota'.since <= ota'.backoff
    BY <1>1, OlderRetry DEF Times
  <1>5. Times'
    BY <1>1, <1>2, <1>3, <1>4 DEF Times
  <1>6. Iteration' /\ Windows'
    BY <1>1, <1>2, <1>3, Sizes DEF Iteration, Windows, InIteration
  <1>7. PollAge'
    <2>1. ~slow /\ timer["config"] = ConfigPoll => pollWait <= PollDue
      BY <1>1, Bounds, Scalars DEF TimeInv, PollAge
    <2>2. ~slow /\ timer["config"] < ConfigPoll => pollWait <= timer["config"]
      BY <1>1, Scalars DEF TimeInv, PollAge, InIteration
    <2>3. PollDue + Txn <= PollBound
      BY Sizes DEF PollBound, PollDue, Updating
    <2> QED
      BY <1>1, <1>2, <1>3, <2>1, <2>2, <2>3, Scalars, Sizes, Bounds DEF PollAge, InIteration
  <1>8. TryAge'
    BY <1>1, <1>2, <1>3, Sizes, Bounds DEF TryAge, InIteration, InWindow
  <1> QED
    BY <1>5, <1>6, <1>7, <1>8 DEF TimeInv

\* A success closes the window; one that took PushPeriod is slow.
LEMMA PushAckedKeeps == ASSUME TimeInv, NEW d \in 0..Txn, PushAcked(d) PROVE TimeInv'
  <1>1. slow \in BOOLEAN /\ d \in Nat
    BY Sizes DEF TimeInv, Times
  <1>2. /\ slow' \in BOOLEAN /\ (slow => slow')
        /\ ~slow' => d + Step < PushPeriod
    <2>1. slow' = (slow \/ d + Step >= PushPeriod)
      BY DEF PushAcked
    <2>2. slow' \in BOOLEAN /\ (slow => slow') /\ (~slow' => ~(d + Step >= PushPeriod))
      BY <2>1, Zenon
    <2>3. ~(d + Step >= PushPeriod) => d + Step < PushPeriod
      BY <1>1, Sizes
    <2> QED
      BY <2>2, <2>3
  <1>3. /\ push' \in [backoff : Nat, since : Nat] /\ push'.since = 0 /\ push'.backoff = 0
    BY NoRetryTyped DEF PushAcked
  <1> QED
    BY <1>2, <1>3, PushAnsweredKeeps, Sizes DEF PushAcked

\* A failure opens one that outlasts the next idle iteration.
LEMMA PushFailsKeeps ==
    ASSUME TimeInv, NEW d \in 0..Txn, NEW j \in 0..Jitter, PushFails(d, j)
    PROVE  TimeInv'
  <1>1. /\ push.backoff \in Nat /\ (push.backoff # 0 => push.backoff > Step)
        /\ slow \in BOOLEAN /\ rows \in BOOLEAN
    BY DEF TimeInv, Times, Windows
  <1>2. /\ push' \in [backoff : Nat, since : Nat] /\ push'.since = 0
        /\ push'.backoff > Step /\ push'.backoff <= PushCap + Jitter
    BY <1>1, NextPushWindow DEF PushFails
  <1> QED
    BY <1>1, <1>2, PushAnsweredKeeps DEF PushFails

\* Calls outside the push: the push timer and its window go on.
LEMMA OtherCallKeeps ==
    ASSUME TimeInv, NEW d \in 0..Txn, pc \in {"config", "ota", "image"}, Ends(d),
           pc' \in {"ota", "image", "end"},
           timer' \in [Timers -> Nat], \A t \in Timers : timer'[t] <= Period[t],
           timer'["push"] = timer["push"], timer'["config"] < ConfigPoll,
           netSlotUsed' \in BOOLEAN, pc' = "image" => ~netSlotUsed',
           pc' = "ota" => netSlotUsed',
           sinceFeed' = sinceFeed + d,
           pollWait' \in Nat, ~slow' => pollWait' <= timer'["config"] + sinceFeed + d,
           tryWait' \in Nat, tryWait' <= tryWait + d, tryWait' > 0 => rows /\ online,
           push' = Older(push, d),
           ota' \in [backoff : Nat, since : Nat], ota'.since <= ota'.backoff,
           slow' \in BOOLEAN,
           UNCHANGED <<online, rows>>
    PROVE  TimeInv'
  <1>1. Times /\ InIteration /\ d \in Nat /\ d <= Txn /\ sinceFeed + d <= Wdt
    BY Sizes, Scalars DEF TimeInv, InIteration, Ends
  <1>2. /\ push' \in [backoff : Nat, since : Nat] /\ push'.backoff = push.backoff
        /\ push'.since <= push'.backoff
        /\ push'.since = IF push.since + d <= push.backoff THEN push.since + d ELSE push.backoff
    BY <1>1, OlderRetry DEF Times
  <1>3. Times'
    BY <1>1, <1>2 DEF Times
  <1>4. Iteration' /\ Windows'
    BY <1>1, <1>2 DEF TimeInv, Iteration, Windows, InIteration
  <1>5. InIteration' /\ pc' # "ap" /\ pc' \notin {"top", "push"}
    BY DEF InIteration
  <1>6. timer'["config"] \in Nat /\ timer'["config"] # ConfigPoll
    BY Periods, Sizes
  <1>7. PollAge'
    BY <1>1, <1>5, <1>6, Scalars DEF PollAge
  <1>8. timer["push"] < PushPeriod
    BY <1>1 DEF TimeInv, Iteration
  <1>9. tryWait + d <= (PushCap + Jitter - 1) + timer["push"] + sinceFeed + d
    BY <1>1, <1>8, Scalars, Sizes DEF TimeInv, TryAge
  <1>10. tryWait + d <= TryBound
    BY <1>1, <1>8, <1>9, Scalars, Sizes DEF TryBound, Updating
  <1>11. InWindow(push)' => tryWait' <= push'.since
    <2>1. InWindow(push)' => push.since + d < push.backoff
      BY <1>1, <1>2, Scalars DEF InWindow
    <2> QED
      BY <1>1, <1>2, <2>1, Scalars DEF TimeInv, TryAge, InWindow
  <1>12. TryAge'
    BY <1>1, <1>5, <1>8, <1>9, <1>10, <1>11, Scalars, Sizes, Bounds DEF TryAge
  <1> QED
    BY <1>3, <1>4, <1>7, <1>12 DEF TimeInv

\* The poll's own wait starts again.
LEMMA PollConfigKeeps == ASSUME TimeInv, NEW d \in 0..Txn, PollConfig(d) PROVE TimeInv'
  <1>1. /\ Times /\ d \in Nat /\ pc = "config" /\ pc' = "ota" /\ Ends(d) /\ timer' = Set("config")
        /\ netSlotUsed' = TRUE /\ sinceFeed' = sinceFeed + d /\ pollWait' = 0 /\ slow' = FALSE
        /\ push' = Older(push, d) /\ ota' = Older(ota, d) /\ UNCHANGED <<online, rows>>
    BY Sizes DEF TimeInv, PollConfig
  <1>2. /\ timer' \in [Timers -> Nat] /\ \A t \in Timers : timer'[t] <= Period[t]
        /\ timer'["push"] = timer["push"] /\ timer'["config"] = 0
    BY <1>1, SetTimer, Periods
  <1>3. ota' \in [backoff : Nat, since : Nat] /\ ota'.since <= ota'.backoff
    BY <1>1, OlderRetry DEF Times
  <1>4. /\ tryWait' \in Nat /\ tryWait' <= tryWait + d /\ (tryWait' > 0 => rows /\ online)
    <2>1. tryWait + d \in Nat /\ TryBound + 1 \in Nat
      BY <1>1, Scalars, Bounds
    <2> DEFINE w == UpTo(tryWait + d, TryBound + 1)
    <2>2. w \in Nat /\ w <= tryWait + d
      BY <2>1, CappedNat
    <2>3. tryWait' = IF rows /\ online THEN w ELSE 0
      BY DEF PollConfig
    <2> HIDE DEF w
    <2> QED
      BY <2>1, <2>2, <2>3
  <1>5. timer'["config"] < ConfigPoll /\ 0 <= timer'["config"] + sinceFeed + d
    BY <1>1, <1>2, Scalars, Sizes
  <1>6. slow' \in BOOLEAN /\ netSlotUsed' \in BOOLEAN
    BY <1>1
  <1> QED
    BY <1>1, <1>2, <1>3, <1>4, <1>5, <1>6, OtherCallKeeps

\* The manifest is asked for in an iteration in which no poll was due.
LEMMA AskManifestKeeps ==
    ASSUME TimeInv, NEW d \in 0..Txn, NEW offered \in BOOLEAN, AskManifest(d, offered)
    PROVE  TimeInv'
  <1>1. /\ Times /\ d \in Nat /\ pc = "ota" /\ pc' \in {"image", "end"} /\ Ends(d)
        /\ timer' = Set("ota") /\ ~netSlotUsed
        /\ Passes(d, tryWait + d)
        /\ push' = Older(push, d) /\ ota' = Older(ota, d)
        /\ UNCHANGED <<netSlotUsed, online, rows, slow>>
    BY Sizes DEF TimeInv, AskManifest, Asks, SlotFree
  <1>2. /\ timer' \in [Timers -> Nat] /\ \A t \in Timers : timer'[t] <= Period[t]
        /\ timer'["push"] = timer["push"] /\ timer'["config"] = timer["config"]
    BY <1>1, SetTimer, Periods
  <1>3. ota' \in [backoff : Nat, since : Nat] /\ ota'.since <= ota'.backoff
    BY <1>1, OlderRetry DEF Times
  <1>4. /\ sinceFeed' = sinceFeed + d /\ pollWait' \in Nat /\ pollWait' <= pollWait + d
        /\ tryWait' \in Nat /\ tryWait' <= tryWait + d /\ (tryWait' > 0 => rows /\ online)
    BY <1>1, PassingTime, Scalars
  <1>5. timer["config"] < ConfigPoll
    BY <1>1 DEF TimeInv, Iteration
  <1>6. ~slow => pollWait <= timer["config"] + sinceFeed
    BY <1>1, <1>5 DEF TimeInv, PollAge, InIteration
  <1>7. ~slow' => pollWait' <= timer'["config"] + sinceFeed + d
    BY <1>1, <1>2, <1>4, <1>6, Scalars
  <1>8. slow' \in BOOLEAN /\ netSlotUsed' \in BOOLEAN
    BY <1>1 DEF Times
  <1> QED
    BY <1>1, <1>2, <1>3, <1>4, <1>5, <1>7, <1>8, OtherCallKeeps

\* So is the image.
LEMMA ImageRefusedKeeps == ASSUME TimeInv, NEW d \in 0..Txn, ImageRefused(d) PROVE TimeInv'
  <1>1. /\ Times /\ d \in Nat /\ pc = "image" /\ pc' = "end" /\ Ends(d) /\ ~netSlotUsed
        /\ Passes(d, tryWait + d)
        /\ push' = Older(push, d) /\ ota' = NextOta(ota.backoff)
        /\ UNCHANGED <<timer, netSlotUsed, online, rows, slow>>
    BY Sizes DEF TimeInv, ImageRefused, Fetches, Iteration
  <1>2. /\ timer' \in [Timers -> Nat] /\ \A t \in Timers : timer'[t] <= Period[t]
    BY <1>1 DEF Times
  <1>3. ota' \in [backoff : Nat, since : Nat] /\ ota'.since <= ota'.backoff
    BY <1>1, NextOtaWindow DEF Times
  <1>4. /\ sinceFeed' = sinceFeed + d /\ pollWait' \in Nat /\ pollWait' <= pollWait + d
        /\ tryWait' \in Nat /\ tryWait' <= tryWait + d /\ (tryWait' > 0 => rows /\ online)
    BY <1>1, PassingTime, Scalars
  <1>5. timer["config"] < ConfigPoll
    BY <1>1 DEF TimeInv, Iteration
  <1>6. ~slow => pollWait <= timer["config"] + sinceFeed
    BY <1>1, <1>5 DEF TimeInv, PollAge, InIteration
  <1>7. ~slow' => pollWait' <= timer'["config"] + sinceFeed + d
    BY <1>1, <1>4, <1>6, Scalars
  <1>8. slow' \in BOOLEAN /\ netSlotUsed' \in BOOLEAN
    BY <1>1 DEF Times
  <1> QED
    BY <1>1, <1>2, <1>3, <1>4, <1>5, <1>7, <1>8, OtherCallKeeps

-----------------------------------------------------------------------------
\* The end of an iteration, all of which fits in Updating: what was in step with
\* sinceFeed is now in step with the timers.
LEMMA IterationEndsKeeps ==
    ASSUME TimeInv, NEW d \in Nat, pc \in {"image", "end"}, netSlotUsed => d = Step,
           d >= Step, sinceFeed + d <= Updating,
           IterationEnds(sinceFeed, d), push' = Older(push, d),
           ota' \in [backoff : Nat, since : Nat], ota'.since <= ota'.backoff
    PROVE  TimeInv'
  <1>0. InIteration
    BY DEF InIteration
  <1>1. /\ Times /\ sinceFeed \in Nat /\ sinceFeed + d \in Nat /\ pc' = "top"
        /\ timer' = Later(sinceFeed + d) /\ Passes(d, tryWait + d)
        /\ UNCHANGED <<netSlotUsed, online, rows, slow>>
    BY Scalars DEF TimeInv, IterationEnds
  <1>2. /\ timer' \in [Timers -> Nat] /\ \A t \in Timers : timer'[t] <= Period[t]
        /\ timer'["push"] = IF timer["push"] + (sinceFeed + d) <= PushPeriod
                            THEN timer["push"] + (sinceFeed + d) ELSE PushPeriod
        /\ timer'["config"] = IF timer["config"] + (sinceFeed + d) <= ConfigPoll
                              THEN timer["config"] + (sinceFeed + d) ELSE ConfigPoll
    BY <1>1, LaterTimer, Periods
  <1>3. /\ sinceFeed' = sinceFeed + d /\ pollWait' \in Nat /\ pollWait' <= pollWait + d
        /\ tryWait' \in Nat /\ tryWait' <= tryWait + d /\ (tryWait' > 0 => rows' /\ online)
    BY <1>1, PassingTime, Scalars
  <1>4. /\ push' \in [backoff : Nat, since : Nat] /\ push'.backoff = push.backoff
        /\ push'.since <= push'.backoff
        /\ push'.since = IF push.since + d <= push.backoff THEN push.since + d ELSE push.backoff
    BY <1>1, OlderRetry DEF Times
  <1>5. Times'
    BY <1>1, <1>2, <1>3, <1>4 DEF Times
  <1>6. Iteration' /\ Windows' /\ ~InIteration'
    BY <1>1, <1>4 DEF TimeInv, Iteration, Windows, InIteration
  <1>7. PollAge'
    <2> SUFFICES ASSUME ~slow
                 PROVE  PollAge'
      BY <1>1 DEF PollAge
    <2>1. CASE timer["config"] < ConfigPoll
      <3>1. pollWait <= timer["config"] + sinceFeed
        BY <1>0, <2>1 DEF TimeInv, PollAge
      <3>2. timer'["config"] < ConfigPoll => pollWait' <= timer'["config"]
        BY <1>1, <1>2, <1>3, <3>1, Scalars, Sizes
      <3>3. pollWait' <= PollDue
        BY <1>1, <1>3, <2>1, <3>1, Scalars, Sizes, Bounds DEF PollDue
      <3>4. PollDue <= PollBound
        BY Sizes DEF PollBound, PollDue, Updating
      <3> QED
        <4>1. /\ pollWait' <= PollBound /\ pollWait' <= PollDue + 0
              /\ pollWait' <= PollDue + (Txn + Step)
          BY <1>3, <3>3, <3>4, Sizes, Bounds
        <4>2. timer'["config"] \in Nat
          BY <1>2, Periods
        <4> QED
          BY <1>1, <1>3, <1>6, <3>2, <4>1, <4>2, Sizes, Bounds DEF PollAge
    <2>2. CASE timer["config"] = ConfigPoll
      <3>1. netSlotUsed /\ d = Step
        BY <2>2, Sizes DEF TimeInv, Iteration
      <3>2. timer["push"] = 0 /\ sinceFeed <= Txn /\ pollWait <= PollDue + Txn + Step
        BY <1>0, <1>1, <2>2, <3>1, Scalars, Sizes, Bounds DEF TimeInv, PollAge
      <3>3. timer'["config"] = ConfigPoll
        BY <1>1, <1>2, <2>2, Sizes
      <3>4. pollWait' <= PollBound
        <4>1. PollBound = PollDue + Txn + Step + Step
          BY Sizes, Bounds DEF PollBound, PollDue
        <4> QED
          BY <1>1, <1>3, <3>1, <3>2, <4>1, Scalars, Sizes, Bounds
      <3>5. timer'["push"] = PushPeriod => InWindow(push)' /\ pollWait' <= PollDue + Txn + Step
        BY <1>0, <1>1, <1>2, <1>3, <1>4, <2>2, <3>1, <3>2, Scalars, Sizes, Bounds
           DEF TimeInv, PollAge, InWindow
      <3> QED
        BY <1>1, <1>6, <3>3, <3>4, <3>5, Sizes, Bounds DEF PollAge
    <2> QED
      BY <1>1, <2>1, <2>2, Scalars, Sizes
  <1>8. TryAge'
    <2>1. timer["push"] < PushPeriod
      BY <1>0 DEF TimeInv, Iteration
    <2>2. tryWait <= (PushCap + Jitter - 1) + timer["push"] + sinceFeed
      BY <1>0, <2>1 DEF TimeInv, TryAge
    <2>3. tryWait' <= TryBound
      BY <1>1, <1>3, <2>1, <2>2, Scalars, Sizes, Bounds DEF TryBound
    <2>4. timer'["push"] < PushPeriod => tryWait' <= (PushCap + Jitter - 1) + timer'["push"]
      BY <1>1, <1>2, <1>3, <2>2, Scalars, Sizes
    <2>5. InWindow(push)' => tryWait' <= push'.since
      <3>1. InWindow(push)' => push.since + d < push.backoff
        BY <1>1, <1>4, Scalars DEF InWindow
      <3> QED
        BY <1>1, <1>3, <1>4, <3>1, Scalars DEF TimeInv, TryAge, InWindow
    <2> QED
      BY <1>1, <1>2, <1>3, <1>6, <2>3, <2>4, <2>5, Scalars, Sizes, Bounds DEF TryAge
  <1> QED
    BY <1>5, <1>6, <1>7, <1>8 DEF TimeInv

\* An iteration that streams an image is the longest there is.
LEMMA ImageFailsKeeps ==
    ASSUME TimeInv, NEW d \in 0..Txn, NEW s \in 0..Stream, ImageFails(d, s)
    PROVE  TimeInv'
  <1>1. /\ Times /\ pc = "image" /\ ~netSlotUsed /\ d \in Nat /\ s \in Nat /\ s <= Stream
        /\ sinceFeed \in Nat /\ sinceFeed + d <= Wdt
    BY Sizes, Scalars DEF TimeInv, ImageFails, Fetches, Iteration, Ends
  <1>2. ota' \in [backoff : Nat, since : Nat] /\ ota'.since <= ota'.backoff
    BY <1>1, NextOtaWindow DEF Times, ImageFails
  <1>3. d + s + Step \in Nat /\ d + s + Step >= Step /\ sinceFeed + (d + s + Step) <= Updating
    BY <1>1, Sizes DEF Updating
  <1>4. IterationEnds(sinceFeed, d + s + Step) /\ push' = Older(push, d + s + Step)
    BY DEF ImageFails
  <1> QED
    BY <1>1, <1>2, <1>3, <1>4, IterationEndsKeeps

\* The end of any other iteration.
LEMMA EndKeeps == TimeInv /\ End => TimeInv'
  <1> SUFFICES ASSUME TimeInv, End
               PROVE  TimeInv'
    OBVIOUS
  <1>1. Times /\ pc = "end" /\ sinceFeed \in Nat /\ sinceFeed <= Wdt
    BY Scalars DEF TimeInv, End, InIteration, Iteration
  <1>2. ota' \in [backoff : Nat, since : Nat] /\ ota'.since <= ota'.backoff
    BY <1>1, OlderRetry, Sizes DEF Times, End
  <1>3. sinceFeed + Step <= Updating /\ Step >= Step
    BY <1>1, Sizes DEF Updating
  <1> QED
    BY <1>1, <1>2, <1>3, Sizes, IterationEndsKeeps DEF End

-----------------------------------------------------------------------------
\* At power-on nothing has waited.
LEMMA InitTimes == Init => TimeInv
  <1> SUFFICES ASSUME Init
               PROVE  TimeInv
    OBVIOUS
  <1>1. timer \in [Timers -> Nat] /\ \A t \in Timers : timer[t] = 0 /\ timer[t] <= Period[t]
    BY Periods DEF Init
  <1>2. timer["push"] = 0 /\ timer["config"] = 0
    BY <1>1, Periods
  <1>3. Times
    <2>1. {netSlotUsed, online, rows, slow} \subseteq BOOLEAN
      BY DEF Init
    <2>2. /\ push \in [backoff : Nat, since : Nat] /\ push.since <= push.backoff
          /\ ota \in [backoff : Nat, since : Nat] /\ ota.since <= ota.backoff
      BY NoRetryTyped DEF Init
    <2> QED
      BY <1>1, <2>1, <2>2 DEF Times, Init
  <1>4. Iteration /\ Windows
    BY NoRetryTyped, Sizes DEF Init, Iteration, Windows, InIteration
  <1>5. PollAge /\ TryAge
    BY <1>2, NoRetryTyped, Sizes, Bounds DEF Init, PollAge, TryAge, InIteration, InWindow
  <1> QED
    BY <1>3, <1>4, <1>5 DEF TimeInv

\* The invariant holds throughout.
LEMMA WaitsMeasured == Spec => []TimeInv
  <1>1. TimeInv /\ [Next]_vars => TimeInv'
    <2> SUFFICES ASSUME TimeInv, [Next]_vars
                 PROVE  TimeInv'
      OBVIOUS
    <2>0. Times
      BY DEF TimeInv
    <2>1. CASE Reset
      BY <2>0, <2>1, ResetStarts
    <2>2. CASE ApIteration \/ ApEnds
      BY <2>2, ApKeeps
    <2>3. CASE LinkChanges \/ Top
      BY <2>3, LinkKeeps, TopKeeps
    <2>4. CASE WatchdogFires
      BY <2>0, <2>4, ResetStarts DEF WatchdogFires
    <2>5. CASE PushNotDue \/ PushHeldBack
      BY <2>5, PushNotDueKeeps, PushHeldBackKeeps
    <2>6. ASSUME NEW d \in 0..Txn, PushAcked(d)
          PROVE  TimeInv'
      BY <2>6, PushAckedKeeps
    <2>7. ASSUME NEW d \in 0..Txn, NEW j \in 0..Jitter, PushFails(d, j)
          PROVE  TimeInv'
      BY <2>7, PushFailsKeeps
    <2>8. CASE ConfigSkipped \/ OtaSkipped \/ OtaHeldBack
      BY <2>8, ConfigSkippedKeeps, OtaSkippedKeeps, OtaHeldBackKeeps
    <2>9. ASSUME NEW d \in 0..Txn, PollConfig(d)
          PROVE  TimeInv'
      BY <2>9, PollConfigKeeps
    <2>10. ASSUME NEW d \in 0..Txn, NEW offered \in BOOLEAN, AskManifest(d, offered)
           PROVE  TimeInv'
      BY <2>10, AskManifestKeeps
    <2>11. ASSUME NEW d \in 0..Txn, ImageRefused(d) \/ ImageInstalled(d)
           PROVE  TimeInv'
      BY <2>0, <2>11, ImageRefusedKeeps, ResetStarts DEF ImageInstalled
    <2>12. ASSUME NEW d \in 0..Txn, NEW s \in 0..Stream, ImageFails(d, s)
           PROVE  TimeInv'
      BY <2>12, ImageFailsKeeps
    <2>13. CASE End
      BY <2>13, EndKeeps
    <2>14. CASE UNCHANGED vars
      BY <2>14 DEF vars, TimeInv, Times, Iteration, Windows, PollAge, TryAge, InIteration, InWindow
    <2> QED
      BY <2>1, <2>2, <2>3, <2>4, <2>5, <2>6, <2>7, <2>8, <2>9, <2>10, <2>11, <2>12, <2>13, <2>14
         DEF Next
  <1> QED
    BY <1>1, InitTimes, PTL DEF Spec

\* For all periods, windows and durations with the order of config.h, loop()
\* gets to pollConfig() within PollBound unless pushes succeed too slowly: the
\* slot rule of covio_firmware.ino:427-436 puts a due poll off by at most one
\* push that is sent and one that its retry window holds back.
THEOREM PollsAlwaysOnTime == Spec => []PollsOnTime
  <1>1. TimeInv => PollsOnTime
    <2> SUFFICES ASSUME TimeInv, ~slow
                 PROVE  pollWait <= PollBound
      BY DEF PollsOnTime
    <2>1. CASE timer["config"] = ConfigPoll
      BY <2>1 DEF TimeInv, PollAge
    <2>2. CASE timer["config"] < ConfigPoll
      <3>1. Times /\ (InIteration => sinceFeed <= Wdt)
        BY DEF TimeInv, Iteration
      <3>2. pollWait <= timer["config"] + (IF InIteration THEN sinceFeed ELSE 0)
        BY <2>2 DEF TimeInv, PollAge
      <3> QED
        BY <2>2, <3>1, <3>2, Scalars, Sizes DEF PollBound, Updating
    <2> QED
      BY <2>1, <2>2, Scalars, Sizes DEF TimeInv
  <1> QED
    BY <1>1, WaitsMeasured, PTL

\* For all of them, rows that wait while the station is connected are tried
\* again within TryBound, however many pushes have failed: the window of
\* notePushFailureBackoff_() is capped and the push timer runs on inside it.
THEOREM RetriesAlwaysOnTime == Spec => []RetriesOnTime
  <1>1. TimeInv => RetriesOnTime
    BY DEF TimeInv, TryAge, RetriesOnTime
  <1> QED
    BY <1>1, WaitsMeasured, PTL

\* Every time of loop() keeps its type, and no timer and no retry clock runs
\* past what it is compared with.
THEOREM TypeCorrect == Spec => []TypeOK
  <1>1. Times => TypeOK
    <2> SUFFICES ASSUME Times
                 PROVE  TypeOK
      OBVIOUS
    <2>1. \A t \in Timers : timer[t] \in 0..Period[t]
      BY Periods DEF Times
    <2>2. push.since \in 0..push.backoff /\ ota.since \in 0..ota.backoff
      BY DEF Times
    <2> QED
      BY <2>1, <2>2 DEF Times, TypeOK
  <1>2. TimeInv => TypeOK
    BY <1>1 DEF TimeInv
  <1> QED
    BY <1>2, WaitsMeasured, PTL

\* Whatever the periods and however long the calls take, loop() starts a push,
\* a config poll or a manifest request only where its worst case ends before
\* the watchdog fires: the static_assert of config.h:524 is enough for these.
THEOREM CallsFit == Spec => []PollsFit
  <1>1. Iteration => PollsFit
    BY Sizes DEF Iteration, PollsFit, Calls, Posts, Polls, Asks, SlotFree
  <1>2. TimeInv => PollsFit
    BY <1>1 DEF TimeInv
  <1> QED
    BY <1>2, WaitsMeasured, PTL
=============================================================================
