------------------------ MODULE MetricsCollectProofs ------------------------
(***************************************************************************)
(* MetricsCollect for counters of any width and any durations that, with    *)
(* the longest delay, stay below half of it.                               *)
(***************************************************************************)
EXTENDS MetricsCollect, TLAPS

(* The arithmetic of the counter. *)

LEMMA PlusIsATick ==
    \A a \in Ticks : \A b \in 0..Half : Plus(a, b) \in Ticks
BY ConstAssumption DEF Plus, Ticks, Wrap

LEMMA MinusIsADistance ==
    \A a, b \in Ticks : Minus(a, b) \in Ticks /\ Minus(a, a) = 0
BY ConstAssumption DEF Minus, Ticks, Wrap

\* A distance grows by one with the counter, until it has gone all the way round.
LEMMA DistanceGrows ==
    \A a, b \in Ticks : Minus(a, b) < Wrap - 1 => Minus(Plus(a, 1), b) = Minus(a, b) + 1
BY ConstAssumption DEF Minus, Plus, Ticks, Wrap

\* From a tick before its target, the counter first reaches the target.
LEMMA DistanceWraps ==
    \A a, b \in Ticks : Minus(a, b) = Wrap - 1 => Minus(Plus(a, 1), b) = 0
BY ConstAssumption DEF Minus, Plus, Ticks, Wrap

LEMMA DistanceToTheNext ==
    \A a \in Ticks : \A d \in 1..Half : Minus(a, Plus(a, d)) = Wrap - d
BY ConstAssumption DEF Minus, Plus, Ticks, Wrap

LEMMA AgeIsBounded ==
    \A running \in BOOLEAN : \A age, most \in Nat :
        /\ Age(running, age, most) \in 0..most
        /\ running /\ age < most => Age(running, age, most) = age + 1
        /\ ~running => Age(running, age, most) = 0
BY DEF Age, Min2

LEMMA DurationsAreNumbers ==
    /\ Half \in Nat /\ 2 * MaxDelay < Wrap /\ 0 \in Ticks /\ 1 \in Ticks
    /\ Default \in Nat \ {0} /\ \A p \in Intervals : p \in Nat \ {0}
BY ConstAssumption DEF Wrap, Ticks

LEMMA LoadedIsClamped == setting \in Intervals => LoadedIntervals \subseteq 1..Longest
BY ConstAssumption DEF LoadedIntervals, Min2

-----------------------------------------------------------------------------
(* Types.  The part of the state that the window can change, and the part that *)
(* the loop of the service can change, are kept apart.                        *)

LoopTypeOK ==
    /\ able \in BOOLEAN /\ interval \in 0..Longest
    /\ next \in Ticks /\ lastSettings \in Ticks /\ lastFlush \in Ticks
    /\ buffered \in 0..Capacity - 1
    /\ sincePass \in 0..MaxDelay
    /\ sinceSample \in 0..Half /\ wait \in 0..Longest /\ oldest \in 0..Half
    /\ runningFor \in 0..CacheTime + 1

WindowTypeOK ==
    /\ open \in BOOLEAN /\ ready \in BOOLEAN /\ period \in Intervals \cup {0}
    /\ lastPoll \in Ticks /\ lastCheck \in Ticks
    /\ cached \in BOOLEAN /\ waiting \in BOOLEAN
    /\ sinceFrame \in 0..MaxDelay

SharedTypeOK ==
    /\ tick \in Ticks /\ setting \in Intervals
    /\ svc \in {"stopped", "starting", "running", "stopping"}

LEMMA TypeParts ==
    TypeOK <=> LoopTypeOK /\ WindowTypeOK /\ SharedTypeOK /\ uncovered \in 0..Uncounted
BY DEF TypeOK, LoopTypeOK, WindowTypeOK, SharedTypeOK

LEMMA EndedType == Ended => LoopTypeOK' /\ svc' = "stopped"
<1> SUFFICES ASSUME Ended PROVE LoopTypeOK' /\ svc' = "stopped"
  OBVIOUS
<1>1. able' \in BOOLEAN /\ svc' = "stopped"
  BY DEF Ended
<1>2. /\ interval' = 0 /\ next' = 0 /\ lastSettings' = 0 /\ lastFlush' = 0 /\ buffered' = 0
      /\ sincePass' = 0 /\ sinceSample' = 0 /\ wait' = 0 /\ oldest' = 0 /\ runningFor' = 0
  BY DEF Ended
<1>3. QED
  BY <1>1, <1>2, ConstAssumption, DurationsAreNumbers DEF LoopTypeOK

LEMMA PassType == TypeOK /\ Pass => LoopTypeOK'
<1> SUFFICES ASSUME TypeOK, Pass PROVE LoopTypeOK'
  OBVIOUS
<1> USE ConstAssumption DEF TypeOK
<1>1. interval' \in 0..Longest /\ lastSettings' \in Ticks
  BY LoadedIsClamped DEF Pass, RereadSettings
<1>2. /\ next' \in Ticks /\ sinceSample' \in 0..Half /\ wait' \in 0..Longest
  <2>1. interval' \in 0..Half
    BY <1>1
  <2>2. CASE SampleIsDue
    BY <2>1, <2>2, <1>1, PlusIsATick DEF Pass, Sample
  <2>3. CASE ~SampleIsDue
    BY <2>3 DEF Pass
  <2>4. QED
    BY <2>2, <2>3
<1>3. \A n \in {buffered, buffered + 1} : FlushOrKeep(n) =>
        buffered' \in 0..Capacity - 1 /\ oldest' \in 0..Half /\ lastFlush' \in Ticks
  <2> SUFFICES ASSUME NEW n \in {buffered, buffered + 1}, FlushOrKeep(n)
               PROVE  buffered' \in 0..Capacity - 1 /\ oldest' \in 0..Half /\ lastFlush' \in Ticks
    OBVIOUS
  <2>1. CASE Full(n) \/ ShouldFlush(lastFlush, n)
    BY <2>1 DEF FlushOrKeep
  <2>2. CASE ~(Full(n) \/ ShouldFlush(lastFlush, n))
    BY <2>2 DEF FlushOrKeep, Full
  <2>3. QED
    BY <2>1, <2>2
<1>4. \E n \in {buffered, buffered + 1} : FlushOrKeep(n)
  BY DEF Pass
<1>5. able' = able /\ sincePass' = 0 /\ runningFor' = runningFor
  BY DEF Pass, pace
<1>6. QED
  BY <1>1, <1>2, <1>3, <1>4, <1>5 DEF LoopTypeOK

LEMMA FrameType == TypeOK /\ Frame => WindowTypeOK'
<1> SUFFICES ASSUME TypeOK, Frame PROVE WindowTypeOK'
  OBVIOUS
<1> USE ConstAssumption, DurationsAreNumbers DEF TypeOK
<1>1. /\ open' = open /\ period' = period /\ waiting' = waiting /\ sinceFrame' = 0
      /\ ready' \in BOOLEAN
  BY DEF Frame
<1>2. cached' \in BOOLEAN /\ lastCheck' \in Ticks /\ lastPoll' \in Ticks
  <2>1. CASE ready'
    <3>1. RefreshScmCacheIfStale /\ lastPoll' \in {lastPoll, tick}
      BY <2>1 DEF Frame
    <3>2. IsRunningCached \in BOOLEAN
      BY DEF IsRunningCached, QueryScmFresh
    <3>3. QED
      BY <3>1, <3>2 DEF RefreshScmCacheIfStale
  <2>2. CASE ~ready'
    BY <2>2 DEF Frame
  <2>3. QED
    BY <2>1, <2>2
<1>3. QED
  BY <1>1, <1>2 DEF WindowTypeOK

LEMMA GapIsANumber ==
    \A p \in Intervals \cup {0} : Longest + MaxDelay + CacheTime + p + MaxDelay + 1 \in Nat
BY ConstAssumption

LEMMA UncountedIsANumber == period \in Intervals \cup {0} => Uncounted \in Nat
BY GapIsANumber DEF Uncounted, Gap

LEMMA UncountedNext == ASSUME period' \in Intervals \cup {0} PROVE Uncounted' \in Nat
BY GapIsANumber DEF Uncounted, Gap

LEMMA TypeStep == TypeOK /\ [Next]_vars => TypeOK'
<1> SUFFICES ASSUME TypeOK, [Next]_vars PROVE TypeOK'
  OBVIOUS
<1> USE DEF TypeOK
<1>0. LoopTypeOK /\ WindowTypeOK /\ SharedTypeOK /\ uncovered \in 0..Uncounted /\ Uncounted \in Nat
  BY TypeParts, UncountedIsANumber
<1> DEFINE SameLoop == UNCHANGED <<loop, pace>>
           SameWindow == UNCHANGED <<window, sinceFrame>>
<1>a. SameLoop => LoopTypeOK'
  BY <1>0 DEF LoopTypeOK, loop, pace
<1>b. SameWindow => WindowTypeOK'
  BY <1>0 DEF WindowTypeOK, window
<1>c. period' = period /\ uncovered' \in {uncovered, 0} => uncovered' \in 0..Uncounted'
  BY <1>0 DEF Uncounted, Gap
<1>1. CASE BeginLoop
  <2>1. LoopTypeOK'
    <3>1. interval' \in 0..Longest
      BY <1>1, LoadedIsClamped DEF BeginLoop
    <3>2. able' \in BOOLEAN /\ next' = tick /\ lastSettings' = tick /\ lastFlush' = tick
      BY <1>1 DEF BeginLoop
    <3>3. buffered' = 0 /\ sincePass' = 0 /\ sinceSample' = 0 /\ wait' = 0 /\ oldest' = 0
          /\ runningFor' = 0
      BY <1>1 DEF BeginLoop
    <3>4. QED
      BY <3>1, <3>2, <3>3, ConstAssumption DEF LoopTypeOK
  <2>2. SameWindow /\ period' = period /\ SharedTypeOK' /\ uncovered' = 0
    BY <1>1, <1>0 DEF BeginLoop, SharedTypeOK, window
  <2>3. QED
    BY <2>1, <2>2, <1>b, <1>c DEF LoopTypeOK, WindowTypeOK, SharedTypeOK
<1>2. CASE Pass
  <2>1. SameWindow /\ period' = period /\ SharedTypeOK' /\ uncovered' \in {uncovered, 0}
    BY <1>2, <1>0 DEF Pass, Sample, SharedTypeOK, window
  <2>2. QED
    BY <1>2, <2>1, <1>b, <1>c, PassType DEF LoopTypeOK, WindowTypeOK, SharedTypeOK
<1>3. CASE LeaveLoop \/ Crash
  <2>1. SameWindow /\ period' = period /\ uncovered' = uncovered /\ UNCHANGED <<tick, setting>>
    BY <1>3 DEF LeaveLoop, Crash, window
  <2>2. LoopTypeOK' /\ SharedTypeOK'
    BY <1>0, <1>3, <2>1, EndedType DEF LeaveLoop, Crash, SharedTypeOK
  <2>3. QED
    BY <2>1, <2>2, <1>b, <1>c DEF LoopTypeOK, WindowTypeOK, SharedTypeOK
<1>4. CASE ControlElsewhere
  <2>1. SameWindow /\ period' = period /\ uncovered' = uncovered
    BY <1>4 DEF ControlElsewhere, window
  <2>2. SharedTypeOK'
    BY <1>0, <1>4 DEF ControlElsewhere, Started, Stopped, SharedTypeOK
  <2>3. LoopTypeOK'
    BY <1>0, <1>4, ConstAssumption DEF ControlElsewhere, LoopTypeOK, loop
  <2>4. QED
    BY <2>1, <2>2, <2>3, <1>b, <1>c DEF LoopTypeOK, WindowTypeOK, SharedTypeOK
<1>5. CASE Open \/ Close
  <2>1. SameLoop /\ SharedTypeOK'
    BY <1>5, <1>0 DEF Open, Close, SharedTypeOK
  <2>2. open' \in BOOLEAN /\ ready' \in BOOLEAN /\ cached' \in BOOLEAN /\ waiting' \in BOOLEAN
    BY <1>5 DEF Open, Close
  <2>3. lastPoll' = 0 /\ lastCheck' = 0 /\ sinceFrame' = 0 /\ period' \in Intervals \cup {0}
        /\ uncovered' = 0
    BY <1>5 DEF Open, Close
  <2>4. WindowTypeOK' /\ uncovered' \in 0..Uncounted'
    <3>1. Uncounted' \in Nat
      BY <2>3, UncountedNext
    <3>2. WindowTypeOK'
      BY <2>2, <2>3, ConstAssumption, DurationsAreNumbers DEF WindowTypeOK
    <3>3. QED
      BY <2>3, <3>1, <3>2
  <2>5. QED
    BY <2>1, <2>4, <1>a DEF LoopTypeOK, WindowTypeOK, SharedTypeOK
<1>6. CASE ControlHere
  <2>1. UNCHANGED <<open, ready, period, lastPoll, lastCheck, cached, sinceFrame, uncovered>>
        /\ waiting' \in BOOLEAN
    BY <1>6 DEF ControlHere
  <2>2. SharedTypeOK'
    BY <1>0, <1>6 DEF ControlHere, Started, Stopped, SharedTypeOK
  <2>3. LoopTypeOK'
    BY <1>0, <1>6, ConstAssumption DEF ControlHere, LoopTypeOK, loop
  <2>4. WindowTypeOK'
    BY <1>0, <2>1 DEF WindowTypeOK
  <2>5. QED
    BY <2>1, <2>2, <2>3, <2>4, <1>c DEF LoopTypeOK, WindowTypeOK, SharedTypeOK
<1>7. CASE DropCache
  <2>1. SameLoop /\ SharedTypeOK' /\ uncovered' = uncovered
    BY <1>7, <1>0 DEF DropCache, SharedTypeOK
  <2>2. UNCHANGED <<open, ready, period, lastPoll, cached, sinceFrame>>
        /\ waiting' \in BOOLEAN /\ lastCheck' = 0
    BY <1>7 DEF DropCache
  <2>3. WindowTypeOK'
    BY <1>0, <2>2, DurationsAreNumbers DEF WindowTypeOK
  <2>4. QED
    BY <2>1, <2>2, <2>3, <1>a, <1>c DEF LoopTypeOK, WindowTypeOK, SharedTypeOK
<1>8. CASE Frame
  <2>1. SameLoop /\ SharedTypeOK' /\ period' = period /\ uncovered' \in {uncovered, 0}
    BY <1>8, <1>0 DEF Frame, SharedTypeOK
  <2>2. QED
    BY <1>8, <2>1, <1>a, <1>c, FrameType DEF LoopTypeOK, WindowTypeOK, SharedTypeOK
<1>9. CASE SetInterval
  <2>1. SameLoop /\ SameWindow /\ SharedTypeOK' /\ uncovered' = uncovered /\ period' = period
    BY <1>9, <1>0 DEF SetInterval, SharedTypeOK, window
  <2>2. QED
    BY <2>1, <1>a, <1>b, <1>c DEF LoopTypeOK, WindowTypeOK, SharedTypeOK
<1>10. CASE Clock
  <2>1. UNCHANGED <<setting, svc, loop, window, wait>> /\ tick' \in Ticks
    BY <1>10, PlusIsATick, ConstAssumption, DurationsAreNumbers DEF Clock
  <2>2. /\ sincePass' \in 0..MaxDelay /\ sinceFrame' \in 0..MaxDelay
        /\ sinceSample' \in 0..Half /\ oldest' \in 0..Half
        /\ runningFor' \in 0..CacheTime + 1
    <3>1. /\ sincePass' = Age(svc = "running", sincePass, MaxDelay)
          /\ sinceFrame' = Age(open, sinceFrame, MaxDelay)
          /\ sinceSample' = Age(svc = "running", sinceSample, Half)
          /\ oldest' = Age(buffered > 0, oldest, Half)
          /\ runningFor' = Age(svc = "running", runningFor, CacheTime + 1)
      BY <1>10 DEF Clock
    <3>2. CacheTime + 1 \in Nat /\ Half \in Nat /\ MaxDelay \in Nat
      BY ConstAssumption
    <3>3. QED
      BY <3>1, <3>2 DEF Age, Min2
  <2>3. uncovered' \in 0..Uncounted
    <3>1. Counts \in BOOLEAN
      BY DEF Counts
    <3>2. QED
      BY <1>10, <1>0, <3>1, AgeIsBounded DEF Clock
  <2>4. LoopTypeOK' /\ SharedTypeOK'
    BY <1>0, <2>1, <2>2 DEF LoopTypeOK, SharedTypeOK, loop
  <2>5. WindowTypeOK' /\ Uncounted' = Uncounted
    BY <1>0, <2>1, <2>2 DEF WindowTypeOK, window, Uncounted, Gap
  <2>6. QED
    BY <2>3, <2>4, <2>5 DEF LoopTypeOK, WindowTypeOK, SharedTypeOK
<1>11. CASE UNCHANGED vars
  <2>1. SameLoop /\ SameWindow /\ period' = period /\ uncovered' = uncovered
        /\ UNCHANGED <<tick, setting, svc>>
    BY <1>11 DEF vars, window
  <2>2. SharedTypeOK'
    BY <1>0, <2>1 DEF SharedTypeOK
  <2>3. QED
    BY <2>1, <2>2, <1>a, <1>b, <1>c DEF LoopTypeOK, WindowTypeOK, SharedTypeOK
<1>12. QED
  BY <1>1, <1>2, <1>3, <1>4, <1>5, <1>6, <1>7, <1>8, <1>9, <1>10, <1>11 DEF Next

\* All variables keep their ranges; in particular the buffer of the service is
\* never as large as its capacity after a pass (MetricsService.cpp, ServiceMain).
THEOREM TypeCorrect == Spec => []TypeOK
<1>1. Init => TypeOK
  <2> SUFFICES ASSUME Init PROVE TypeOK
    OBVIOUS
  <2>0. /\ able \in BOOLEAN /\ open \in BOOLEAN /\ ready \in BOOLEAN
        /\ cached \in BOOLEAN /\ waiting \in BOOLEAN
    BY DEF Init
  <2>1. LoopTypeOK
    <3>1. /\ interval = 0 /\ next = 0 /\ lastSettings = 0 /\ lastFlush = 0 /\ buffered = 0
          /\ sincePass = 0 /\ sinceSample = 0 /\ wait = 0 /\ oldest = 0 /\ runningFor = 0
      BY DEF Init
    <3>2. QED
      BY <2>0, <3>1, ConstAssumption, DurationsAreNumbers DEF LoopTypeOK
  <2>2. WindowTypeOK
    <3>1. period = 0 /\ lastPoll = 0 /\ lastCheck = 0 /\ sinceFrame = 0
      BY DEF Init
    <3>2. QED
      BY <2>0, <3>1, ConstAssumption, DurationsAreNumbers DEF WindowTypeOK
  <2>3. SharedTypeOK
    BY DEF Init, SharedTypeOK
  <2>4. uncovered = 0 /\ period = 0
    BY DEF Init
  <2>5. QED
    BY <2>1, <2>2, <2>3, <2>4, TypeParts, UncountedIsANumber
<1>2. QED
  BY <1>1, TypeStep, PTL DEF Spec

-----------------------------------------------------------------------------
(* The schedule.  As long as the service samples, the counter's distance to    *)
(* nextSampleTick is the time since the last sample less the interval fixed     *)
(* then, and both are too short for the cast to take one sign for the other.    *)

Scheduled ==
    svc = "running" /\ able =>
        /\ sincePass <= sinceSample
        /\ sinceSample = sincePass \/ sinceSample < wait + sincePass
        /\ Minus(tick, next) = IF sinceSample >= wait THEN sinceSample - wait
                               ELSE sinceSample - wait + Wrap

LEMMA DueWhenIntervalIsOver ==
    ASSUME TypeOK, Scheduled, svc = "running", able
    PROVE  SampleIsDue <=> sinceSample >= wait
<1> USE ConstAssumption DEF TypeOK
<1>1. sinceSample < Half
  BY DEF Scheduled
<1>2. CASE sinceSample >= wait
  <2>1. Minus(tick, next) = sinceSample - wait
    BY <1>2 DEF Scheduled
  <2>2. QED
    BY <1>1, <1>2, <2>1 DEF SampleIsDue, Signed
<1>3. CASE sinceSample < wait
  <2>1. Minus(tick, next) = sinceSample - wait + Wrap
    BY <1>3 DEF Scheduled
  <2>2. QED
    BY <1>3, <2>1 DEF SampleIsDue, Signed, Wrap
<1>4. QED
  BY <1>2, <1>3

LEMMA ScheduleStep == TypeOK /\ Scheduled /\ [Next]_vars => Scheduled'
<1> SUFFICES ASSUME TypeOK, Scheduled, [Next]_vars, svc' = "running", able'
             PROVE  Scheduled'
  BY DEF Scheduled
<1> USE ConstAssumption DEF TypeOK
<1>1. CASE BeginLoop
  <2>1. /\ tick' = tick /\ next' = tick
        /\ sincePass' = 0 /\ sinceSample' = 0 /\ wait' = 0
    BY <1>1 DEF BeginLoop
  <2>2. Minus(tick', next') = 0
    BY <2>1, MinusIsADistance
  <2>3. QED
    BY <2>1, <2>2 DEF Scheduled
<1>2. CASE Pass
  <2>1. svc = "running" /\ able /\ tick' = tick /\ sincePass' = 0
    BY <1>2 DEF Pass
  <2>2. CASE SampleIsDue
    <3>1. sinceSample' = 0 /\ wait' = interval' /\ next' = Plus(tick, interval')
      BY <1>2, <2>2 DEF Pass, Sample
    <3>2. interval' \in 0..Longest
      BY <1>2, LoadedIsClamped DEF Pass, RereadSettings
    <3>3. \A d \in 0..Half :
             Minus(tick, Plus(tick, d)) = IF 0 >= d THEN 0 - d ELSE 0 - d + Wrap
      BY DEF Minus, Plus, Ticks, Wrap
    <3>4. QED
      BY <2>1, <3>1, <3>2, <3>3 DEF Scheduled
  <2>3. CASE ~SampleIsDue
    <3>1. sinceSample' = sinceSample /\ wait' = wait /\ next' = next
      BY <1>2, <2>3 DEF Pass
    <3>2. sinceSample < wait
      BY <2>1, <2>3, DueWhenIntervalIsOver
    <3>3. QED
      BY <2>1, <3>1, <3>2 DEF Scheduled
  <2>4. QED
    BY <2>2, <2>3
<1>3. CASE Clock
  <2>1. svc = "running" /\ able /\ sincePass < MaxDelay
        /\ next' = next /\ wait' = wait /\ tick' = Plus(tick, 1)
    BY <1>3 DEF Clock, loop
  <2>2. sincePass' = sincePass + 1 /\ sinceSample' = sinceSample + 1
    BY <1>3, <2>1 DEF Clock, Age, Min2, Scheduled
  <2>3. Minus(tick', next) = IF sinceSample + 1 >= wait THEN sinceSample + 1 - wait
                             ELSE sinceSample + 1 - wait + Wrap
    <3>1. sinceSample < Half
      BY <2>1 DEF Scheduled
    <3>2. CASE sinceSample >= wait
      <4>1. Minus(tick, next) = sinceSample - wait /\ sinceSample - wait < Wrap - 1
        BY <2>1, <3>1, <3>2 DEF Scheduled, Wrap
      <4>2. QED
        BY <2>1, <3>2, <4>1, DistanceGrows
    <3>3. CASE sinceSample < wait - 1
      <4>1. Minus(tick, next) = sinceSample - wait + Wrap
        BY <2>1, <3>3 DEF Scheduled
      <4>2. sinceSample - wait + Wrap < Wrap - 1
        BY <3>3 DEF Wrap
      <4>3. Minus(tick', next) = sinceSample - wait + Wrap + 1
        BY <2>1, <4>1, <4>2, DistanceGrows
      <4>4. QED
        BY <3>3, <4>3 DEF Wrap
    <3>4. CASE sinceSample = wait - 1
      <4>1. Minus(tick, next) = Wrap - 1
        BY <2>1, <3>4 DEF Scheduled, Wrap
      <4>2. QED
        BY <2>1, <3>4, <4>1, DistanceWraps
    <3>5. QED
      BY <3>2, <3>3, <3>4
  <2>4. QED
    BY <2>1, <2>2, <2>3 DEF Scheduled
<1>4. CASE LeaveLoop \/ Crash
  BY <1>4 DEF LeaveLoop, Crash, Ended
<1>5. CASE UNCHANGED <<tick, loop, sincePass, sinceSample, wait>> /\ svc = "running"
  BY <1>5 DEF Scheduled, loop
<1>6. ASSUME Started \/ Stopped PROVE svc = "running"
  BY <1>6 DEF Started, Stopped
<1>7. CASE ControlElsewhere \/ ControlHere
  BY <1>5, <1>6, <1>7 DEF ControlElsewhere, ControlHere
<1>8. CASE Open \/ Close \/ DropCache \/ Frame \/ SetInterval
  BY <1>5, <1>8 DEF Open, Close, DropCache, Frame, SetInterval, pace
<1>9. CASE UNCHANGED vars
  BY <1>5, <1>9 DEF vars, pace
<1>10. QED
  BY <1>1, <1>2, <1>3, <1>4, <1>7, <1>8, <1>9 DEF Next

\* The service samples in the first pass after its interval and not before
\* (MetricsService.cpp, ServiceMain), for counters of any width: neither the wrap
\* of the tick counter nor a change of the interval moves a sample.
THEOREM SamplesAreOnSchedule == Spec => OnSchedule
<1> DEFINE Late == svc = "running" /\ able =>
                     sinceSample = sincePass \/ sinceSample < wait + sincePass
           Early == svc = "running" /\ svc' = "running" /\ next' # next => sinceSample >= wait
<1>1. Init => Scheduled
  BY DEF Init, Scheduled
<1>2. Scheduled => Late
  BY DEF Scheduled
<1>3. TypeOK /\ Scheduled /\ [Next]_vars => Early
  <2> SUFFICES ASSUME TypeOK, Scheduled, [Next]_vars, svc = "running", svc' = "running", next' # next
               PROVE  sinceSample >= wait
    OBVIOUS
  <2>1. CASE Pass
    <3>1. SampleIsDue
      BY <2>1 DEF Pass
    <3>2. able
      BY <3>1 DEF SampleIsDue
    <3>3. QED
      BY <3>1, <3>2, DueWhenIntervalIsOver
  <2>2. CASE BeginLoop
    BY <2>2 DEF BeginLoop
  <2>3. CASE LeaveLoop \/ Crash
    BY <2>3 DEF LeaveLoop, Crash, Ended
  <2>4. CASE ControlElsewhere \/ Open \/ Close \/ ControlHere \/ DropCache \/ Frame
             \/ SetInterval \/ Clock
    BY <2>4 DEF ControlElsewhere, Open, Close, ControlHere, DropCache, Frame, SetInterval,
                Clock, loop
  <2>5. CASE UNCHANGED vars
    BY <2>5 DEF vars, loop
  <2>6. QED
    BY <2>1, <2>2, <2>3, <2>4, <2>5 DEF Next
<1>4. QED
  BY <1>1, <1>2, <1>3, ScheduleStep, TypeCorrect, PTL DEF Spec, OnSchedule

-----------------------------------------------------------------------------
(* The buffer.  What is in it has been put there since the last flush.         *)

Saved ==
    svc = "running" =>
        /\ buffered = 0 => oldest = 0
        /\ buffered > 0 => /\ oldest <= Minus(tick, lastFlush)
                           /\ Minus(tick, lastFlush) < Flushes + sincePass

LEMMA KeptIsYoung ==
    ASSUME TypeOK, Saved, svc = "running", NEW n \in {buffered, buffered + 1},
           tick' = tick, sincePass' = 0, FlushOrKeep(n)
    PROVE  Saved'
<1> USE ConstAssumption DEF TypeOK
<1>1. CASE Full(n) \/ ShouldFlush(lastFlush, n)
  <2>1. buffered' = 0 /\ oldest' = 0
    BY <1>1 DEF FlushOrKeep
  <2>2. QED
    BY <2>1 DEF Saved
<1>2. CASE ~(Full(n) \/ ShouldFlush(lastFlush, n))
  <2>1. buffered' = n /\ oldest' = oldest /\ lastFlush' = lastFlush
    BY <1>2 DEF FlushOrKeep
  <2>2. Minus(tick, lastFlush) \in Ticks
    BY MinusIsADistance
  <2>3. n > 0 => Minus(tick, lastFlush) < Flushes
    BY <1>2, <2>2 DEF ShouldFlush, Ticks, Wrap
  <2>4. n > 0 => oldest <= Minus(tick, lastFlush)
    BY <2>2 DEF Saved, Ticks, Wrap
  <2>5. n = 0 => oldest = 0
    BY DEF Saved
  <2>6. QED
    BY <2>1, <2>3, <2>4, <2>5 DEF Saved
<1>3. QED
  BY <1>1, <1>2

LEMMA SavedStep == TypeOK /\ Saved /\ [Next]_vars => Saved'
<1> SUFFICES ASSUME TypeOK, Saved, [Next]_vars, svc' = "running"
             PROVE  Saved'
  BY DEF Saved
<1> USE ConstAssumption DEF TypeOK
<1>1. CASE BeginLoop
  BY <1>1 DEF BeginLoop, Saved
<1>2. CASE Pass
  <2>1. svc = "running" /\ tick' = tick /\ sincePass' = 0
    BY <1>2 DEF Pass
  <2>2. PICK n \in {buffered, buffered + 1} : FlushOrKeep(n)
    BY <1>2 DEF Pass
  <2>3. QED
    BY <2>1, <2>2, KeptIsYoung
<1>3. CASE Clock
  <2>1. /\ svc = "running" /\ sincePass < MaxDelay
        /\ buffered' = buffered /\ lastFlush' = lastFlush /\ tick' = Plus(tick, 1)
    BY <1>3 DEF Clock, loop
  <2>2. sincePass' = sincePass + 1
    BY <1>3, <2>1 DEF Clock, Age, Min2
  <2>3. CASE buffered = 0
    <3>1. oldest' = 0
      BY <1>3, <2>3 DEF Clock, Age
    <3>2. QED
      BY <2>1, <2>3, <3>1 DEF Saved
  <2>4. CASE buffered > 0
    <3>1. /\ oldest <= Minus(tick, lastFlush)
          /\ Minus(tick, lastFlush) < Flushes + sincePass
      BY <2>1, <2>4 DEF Saved
    <3>2. Minus(tick, lastFlush) \in Ticks
      BY MinusIsADistance
    <3>3. Minus(tick, lastFlush) < Half
      BY <2>1, <3>1, <3>2 DEF Ticks, Wrap
    <3>4. Minus(tick', lastFlush) = Minus(tick, lastFlush) + 1
      BY <2>1, <3>2, <3>3, DistanceGrows DEF Ticks, Wrap
    <3>5. oldest' = oldest + 1
      BY <1>3, <2>4, <3>1, <3>2, <3>3 DEF Clock, Age, Min2, Ticks, Wrap
    <3>6. QED
      BY <2>1, <2>2, <2>4, <3>1, <3>2, <3>4, <3>5 DEF Saved, Ticks, Wrap
  <2>5. QED
    BY <2>3, <2>4
<1>4. CASE LeaveLoop \/ Crash
  BY <1>4 DEF LeaveLoop, Crash, Ended
<1>5. CASE UNCHANGED <<tick, loop, sincePass, oldest>> /\ svc = "running"
  BY <1>5 DEF Saved, loop
<1>6. ASSUME Started \/ Stopped PROVE svc = "running"
  BY <1>6 DEF Started, Stopped
<1>7. CASE ControlElsewhere \/ ControlHere
  BY <1>5, <1>6, <1>7 DEF ControlElsewhere, ControlHere
<1>8. CASE Open \/ Close \/ DropCache \/ Frame \/ SetInterval
  BY <1>5, <1>8 DEF Open, Close, DropCache, Frame, SetInterval, pace
<1>9. CASE UNCHANGED vars
  BY <1>5, <1>9 DEF vars, pace
<1>10. QED
  BY <1>1, <1>2, <1>3, <1>4, <1>7, <1>8, <1>9 DEF Next

\* What a killed service takes with it is no older than the period of the flushes
\* and one delay (MetricsWriteBuffer.cpp, MetricsService.cpp).
THEOREM LittleIsUnsaved == Spec => []UnsavedIsYoung
<1>1. Init => Saved
  BY DEF Init, Saved
<1>2. TypeOK /\ Saved => UnsavedIsYoung
  <2> SUFFICES ASSUME TypeOK, Saved, svc = "running", buffered > 0
               PROVE  oldest < Flushes + sincePass
    BY DEF UnsavedIsYoung
  <2>1. Minus(tick, lastFlush) \in Ticks
    BY MinusIsADistance DEF TypeOK
  <2>2. QED
    BY <2>1, ConstAssumption DEF TypeOK, Saved, Ticks, Wrap
<1>3. QED
  BY <1>1, <1>2, SavedStep, TypeCorrect, PTL DEF Spec

-----------------------------------------------------------------------------
(* The cache.  A service that the kept answer does not know of has been running *)
(* for no longer than the answer is old.  At tick 0 the answer is marked 1.      *)

KnownFor == IF tick = 0 /\ lastCheck = 1 THEN 0 ELSE Minus(tick, lastCheck) + 1

CacheTells ==
    /\ svc # "running" => runningFor = 0
    /\ open /\ lastCheck # 0 =>
         /\ ready
         /\ KnownFor <= CacheTime + sinceFrame + 1
         /\ ~cached => runningFor <= KnownFor

LEMMA FreshAnswer ==
    ASSUME TypeOK, CacheTells, open, ~IsRunningCached
    PROVE  /\ runningFor <= CacheTime
           /\ ~CacheIsFresh => runningFor = 0
           /\ CacheIsFresh => KnownFor <= CacheTime
<1> USE ConstAssumption DEF TypeOK
<1>1. Minus(tick, lastCheck) \in Ticks
  BY MinusIsADistance
<1>2. CASE CacheIsFresh
  <2>1. ~cached /\ lastCheck # 0 /\ Minus(tick, lastCheck) < CacheTime
    BY <1>2 DEF IsRunningCached, CacheIsFresh
  <2>2. ~(tick = 0 /\ lastCheck = 1)
    BY <2>1 DEF Minus, Wrap
  <2>3. KnownFor <= CacheTime
    BY <1>1, <2>1, <2>2 DEF KnownFor, Ticks, Wrap
  <2>4. KnownFor \in Int
    BY <1>1 DEF KnownFor, Ticks
  <2>5. runningFor <= KnownFor
    BY <2>1 DEF CacheTells
  <2>6. QED
    BY <1>2, <2>3, <2>4, <2>5
<1>3. CASE ~CacheIsFresh
  <2>1. svc # "running"
    BY <1>3 DEF IsRunningCached, QueryScmFresh
  <2>2. QED
    BY <1>3, <2>1 DEF CacheTells
<1>4. QED
  BY <1>2, <1>3

LEMMA FrameKeepsCache ==
    ASSUME TypeOK, CacheTells, Frame
    PROVE  CacheTells'
<1> USE ConstAssumption DEF TypeOK
<1>1. open /\ svc' = svc /\ runningFor' = runningFor /\ tick' = tick /\ sinceFrame' = 0
  BY DEF Frame, pace
<1>2. CASE ~ready'
  <2>1. ~ready /\ lastCheck' = lastCheck
    BY <1>2 DEF Frame
  <2>2. QED
    BY <1>1, <2>1 DEF CacheTells
<1>3. CASE ready' /\ CacheIsFresh
  <2>1. lastCheck' = lastCheck /\ cached' = cached
    BY <1>3 DEF Frame, RefreshScmCacheIfStale, IsRunningCached
  <2>2. Minus(tick, lastCheck) \in Ticks
    BY MinusIsADistance
  <2>3. KnownFor <= CacheTime
    BY <1>3, <2>2 DEF KnownFor, CacheIsFresh, Ticks, Wrap
  <2>4. KnownFor' = KnownFor /\ KnownFor \in Int
    BY <1>1, <2>1, <2>2 DEF KnownFor, Ticks
  <2>5. QED
    BY <1>1, <1>3, <2>1, <2>3, <2>4 DEF CacheTells
<1>4. CASE ready' /\ ~CacheIsFresh
  <2>1. lastCheck' = (IF tick = 0 THEN 1 ELSE tick) /\ (cached' <=> svc = "running")
    BY <1>4 DEF Frame, RefreshScmCacheIfStale, IsRunningCached, QueryScmFresh
  <2>2. KnownFor' \in {0, 1}
    BY <1>1, <2>1 DEF KnownFor, Minus, Ticks
  <2>3. ~cached' => runningFor = 0
    BY <2>1 DEF CacheTells
  <2>4. QED
    BY <1>1, <1>4, <2>2, <2>3 DEF CacheTells
<1>5. QED
  BY <1>2, <1>3, <1>4

LEMMA AnswerGrowsOld ==
    ASSUME TypeOK, CacheTells, Clock, open, lastCheck # 0
    PROVE  KnownFor \in Nat /\ KnownFor' = KnownFor + 1
<1> USE ConstAssumption DEF TypeOK
<1>1. lastCheck' = lastCheck /\ tick' = Plus(tick, 1)
  BY DEF Clock, window
<1>2. KnownFor <= CacheTime + sinceFrame + 1 /\ sinceFrame < MaxDelay
  BY DEF CacheTells, Clock
<1>3. Minus(tick, lastCheck) \in Ticks
  BY MinusIsADistance
<1>4. KnownFor \in Nat
  BY <1>3 DEF KnownFor, Ticks
<1>5. CASE tick = 0 /\ lastCheck = 1
  BY <1>1, <1>4, <1>5 DEF KnownFor, Plus, Minus, Wrap
<1>6. CASE ~(tick = 0 /\ lastCheck = 1)
  <2>1. KnownFor = Minus(tick, lastCheck) + 1
    BY <1>6 DEF KnownFor
  <2>2. Minus(tick, lastCheck) < Half
    BY <1>2, <1>3, <2>1 DEF Ticks, Wrap
  <2>3. Minus(tick', lastCheck) = Minus(tick, lastCheck) + 1
    BY <1>1, <1>3, <2>2, DistanceGrows DEF Ticks, Wrap
  <2>4. ~(tick' = 0 /\ lastCheck = 1)
    BY <1>1, <1>3, <2>2 DEF Plus, Minus, Ticks, Wrap
  <2>5. QED
    BY <1>1, <1>4, <2>1, <2>3, <2>4 DEF KnownFor
<1>7. QED
  BY <1>5, <1>6

LEMMA ClockKeepsCache ==
    ASSUME TypeOK, CacheTells, Clock
    PROVE  CacheTells'
<1> USE ConstAssumption DEF TypeOK
<1>1. /\ svc' = svc /\ open' = open /\ ready' = ready /\ lastCheck' = lastCheck /\ cached' = cached
      /\ tick' = Plus(tick, 1) /\ runningFor' = Age(svc = "running", runningFor, CacheTime + 1)
  BY DEF Clock, window
<1>2. svc # "running" => runningFor' = 0
  BY <1>1 DEF Age
<1>3. runningFor' <= runningFor + 1
  BY <1>1 DEF Age, Min2
<1>4. ASSUME open, lastCheck # 0
      PROVE  /\ KnownFor' <= CacheTime + sinceFrame' + 1
             /\ ~cached => runningFor' <= KnownFor'
  <2>1. /\ KnownFor <= CacheTime + sinceFrame + 1
        /\ ~cached => runningFor <= KnownFor
    BY <1>4 DEF CacheTells
  <2>2. sinceFrame < MaxDelay
    BY <1>4 DEF Clock
  <2>3. sinceFrame' = sinceFrame + 1
    BY <1>4, <2>2 DEF Clock, Age, Min2
  <2>4. KnownFor \in Nat /\ KnownFor' = KnownFor + 1
    BY <1>4, AnswerGrowsOld
  <2>5. runningFor' \in Int
    BY <1>1 DEF Age, Min2
  <2>6. QED
    BY <1>3, <2>1, <2>2, <2>3, <2>4, <2>5
<1>5. QED
  BY <1>1, <1>2, <1>4 DEF CacheTells

LEMMA CacheStep == TypeOK /\ CacheTells /\ [Next]_vars => CacheTells'
<1> SUFFICES ASSUME TypeOK, CacheTells, [Next]_vars
             PROVE  CacheTells'
  OBVIOUS
<1> USE ConstAssumption DEF TypeOK
<1> DEFINE Same == UNCHANGED <<tick, open, ready, lastCheck, cached, sinceFrame>>
<1>a. Same => KnownFor' = KnownFor /\ KnownFor \in Int
  <2>1. Minus(tick, lastCheck) \in Ticks
    BY MinusIsADistance
  <2>2. QED
    BY <2>1 DEF KnownFor, Ticks
<1>b. Same /\ svc' = svc /\ runningFor' = runningFor => CacheTells'
  BY <1>a DEF CacheTells
\* A service that starts to run, or stops, has run for no time at all.
<1>c. Same /\ runningFor' = 0 => CacheTells'
  <2> SUFFICES ASSUME Same, runningFor' = 0 PROVE CacheTells'
    OBVIOUS
  <2>1. Minus(tick, lastCheck) >= 0
    BY MinusIsADistance DEF Ticks
  <2>2. KnownFor >= 0
    BY <2>1, MinusIsADistance DEF KnownFor, Ticks
  <2>3. QED
    BY <1>a, <2>2 DEF CacheTells
<1>1. CASE BeginLoop
  BY <1>1, <1>c DEF BeginLoop, window
<1>2. CASE LeaveLoop \/ Crash
  BY <1>2, <1>c DEF LeaveLoop, Crash, Ended, window
<1>3. CASE ControlElsewhere
  BY <1>3, <1>c DEF ControlElsewhere, window
<1>4. CASE ControlHere
  <2>1. Same
    BY <1>4 DEF ControlHere
  <2>2. (svc' = svc /\ runningFor' = runningFor) \/ runningFor' = 0
    BY <1>4 DEF ControlHere
  <2>3. QED
    BY <2>1, <2>2, <1>b, <1>c
<1>5. CASE Open \/ Close \/ DropCache
  BY <1>5 DEF Open, Close, DropCache, CacheTells, pace
<1>6. CASE Pass
  BY <1>6, <1>b DEF Pass, window
<1>7. CASE SetInterval
  BY <1>7, <1>b DEF SetInterval, window, pace
<1>8. CASE UNCHANGED vars
  BY <1>8, <1>b DEF vars, window, pace
<1>9. QED
  BY <1>1, <1>2, <1>3, <1>4, <1>5, <1>6, <1>7, <1>8, FrameKeepsCache, ClockKeepsCache DEF Next

\* The window samples beside a running service only for as long as it keeps an answer
\* of the service manager (MetricsBackground.cpp, Tick), for counters of any width.
THEOREM WindowYields == Spec => OneCollector
<1> DEFINE Yields == open /\ open' /\ lastPoll' # lastPoll /\ runningFor > CacheTime => cached'
<1>1. Init => CacheTells
  BY DEF Init, CacheTells
<1>2. TypeOK /\ CacheTells /\ [Next]_vars => Yields
  <2> SUFFICES ASSUME TypeOK, CacheTells, [Next]_vars, open, open', lastPoll' # lastPoll, ~cached'
               PROVE  ~(runningFor > CacheTime)
    OBVIOUS
  <2>1. CASE Frame
    <3>1. ready'
      BY <2>1 DEF Frame
    <3>2. ~IsRunningCached
      BY <2>1, <3>1 DEF Frame, RefreshScmCacheIfStale
    <3>3. runningFor <= CacheTime
      BY <3>2, FreshAnswer
    <3>4. QED
      BY <3>3, ConstAssumption DEF TypeOK
  <2>2. CASE Open \/ Close
    BY <2>2 DEF Open, Close
  <2>3. CASE BeginLoop \/ Pass \/ LeaveLoop \/ Crash \/ ControlElsewhere \/ ControlHere
             \/ DropCache \/ SetInterval \/ Clock
    BY <2>3 DEF BeginLoop, Pass, LeaveLoop, Crash, ControlElsewhere, ControlHere, DropCache,
                SetInterval, Clock, window
  <2>4. CASE UNCHANGED vars
    BY <2>4 DEF vars, window
  <2>5. QED
    BY <2>1, <2>2, <2>3, <2>4 DEF Next
<1>3. QED
  BY <1>1, <1>2, CacheStep, TypeCorrect, PTL DEF Spec, OneCollector
-----------------------------------------------------------------------------
(* The hole in the history.  While the service runs it is as old as the last     *)
(* sample at most.  Once it has stopped, the window goes on to read the database *)
(* for as long as it keeps the answer, and then for the rest of its period.      *)

Longer(a, b) == IF a > b THEN a ELSE b

\* The window's counter of its polls neither jumps nor wraps around.
PollTells ==
    /\ ~open => ~ready
    /\ ~ready => uncovered = 0 /\ lastPoll = 0
    /\ lastPoll # 0 =>
         /\ sinceFrame <= Minus(tick, lastPoll)
         /\ Minus(tick, lastPoll) < Longer(Poll, period) + sinceFrame

\* What the window may read of a service that no longer runs.
Unnoticed == Longest + MaxDelay + CacheTime

HoleInv ==
    /\ svc = "running" => IF able THEN uncovered <= sinceSample ELSE uncovered = 0
    /\ svc # "running" =>
         /\ open /\ cached /\ lastCheck # 0 => uncovered < Longest + MaxDelay + KnownFor
         /\ \/ uncovered < Unnoticed + sinceFrame
            \/ /\ lastPoll # 0
               /\ Minus(tick, lastPoll) < period + sinceFrame
               /\ uncovered < Unnoticed + Minus(tick, lastPoll)

\* No period is as long as the counter needs to wrap around.
PeriodsFit == \A p \in Intervals : p + MaxDelay < Wrap

LEMMA WindowNumbers ==
    ASSUME TypeOK
    PROVE  /\ period \in Nat /\ uncovered \in Nat /\ Gap \in Nat
           /\ Minus(tick, lastPoll) \in Nat /\ KnownFor \in Nat /\ Unnoticed \in Nat
           /\ Longer(Poll, period) \in Nat \ {0}
           /\ Poll <= Longer(Poll, period) /\ period <= Longer(Poll, period)
<1>1. period \in Nat
  BY ConstAssumption DEF TypeOK
<1>2. Gap \in Nat
  BY <1>1, ConstAssumption DEF Gap
<1>3. uncovered \in Nat
  BY <1>2 DEF TypeOK, Uncounted
<1>4. Minus(tick, lastPoll) \in Nat /\ Minus(tick, lastCheck) \in Nat
  BY MinusIsADistance DEF TypeOK, Ticks
<1>5. KnownFor \in Nat /\ Unnoticed \in Nat
  BY <1>4, ConstAssumption DEF KnownFor, Unnoticed
<1>6. QED
  BY <1>1, <1>2, <1>3, <1>4, <1>5, ConstAssumption DEF Longer

\* While the service runs, it is its own sample that counts.
LEMMA RunningCovers ==
    ASSUME TypeOK, Scheduled, HoleInv, svc = "running"
    PROVE  uncovered < Longest + MaxDelay
<1>1. CASE able
  BY <1>1, ConstAssumption, WindowNumbers DEF TypeOK, Scheduled, HoleInv
<1>2. CASE ~able
  BY <1>2, ConstAssumption DEF HoleInv
<1>3. QED
  BY <1>1, <1>2

LEMMA PollDistance ==
    ASSUME PeriodsFit, TypeOK, PollTells, Clock, lastPoll # 0
    PROVE  /\ Minus(tick', lastPoll) = Minus(tick, lastPoll) + 1
           /\ sinceFrame' = sinceFrame + 1
<1> USE ConstAssumption DEF TypeOK
<1>1. open /\ sinceFrame < MaxDelay
  BY DEF PollTells, Clock
<1>2. Longer(Poll, period) + MaxDelay < Wrap
  BY DEF Longer, PeriodsFit, Wrap
<1>3. Minus(tick, lastPoll) < Wrap - 1
  BY <1>1, <1>2, WindowNumbers DEF PollTells, Wrap
<1>4. tick' = Plus(tick, 1)
  BY DEF Clock
<1>5. Minus(tick', lastPoll) = Minus(tick, lastPoll) + 1
  BY <1>3, <1>4, DistanceGrows
<1>6. sinceFrame' = sinceFrame + 1
  BY <1>1 DEF Clock, Age, Min2
<1>7. QED
  BY <1>5, <1>6

LEMMA FrameKeepsHole ==
    ASSUME TypeOK, CacheTells, Scheduled, PollTells, HoleInv, Frame
    PROVE  PollTells' /\ HoleInv'
<1> USE ConstAssumption, WindowNumbers DEF TypeOK
<1>1. /\ open /\ open' = open /\ period' = period /\ tick' = tick /\ sinceFrame' = 0
      /\ svc' = svc /\ able' = able /\ sinceSample' = sinceSample /\ (ready => ready')
  BY DEF Frame, loop, pace
<1>2. CASE ~ready'
  <2>1. UNCHANGED <<lastPoll, lastCheck, cached, uncovered>> /\ uncovered = 0 /\ lastPoll = 0
    BY <1>1, <1>2 DEF Frame, PollTells
  <2>2. PollTells'
    BY <1>1, <1>2, <2>1 DEF PollTells
  <2>3. lastCheck = 0
    BY <1>1, <1>2 DEF CacheTells
  <2>4. Unnoticed > 0
    BY DEF Unnoticed
  <2>5. QED
    BY <1>1, <2>1, <2>2, <2>3, <2>4 DEF HoleInv
<1>3. CASE ready'
  <2>1. /\ RefreshScmCacheIfStale
        /\ \E refresh \in Refreshes :
             IF Rests(refresh)
             THEN UNCHANGED <<lastPoll, uncovered>>
             ELSE lastPoll' = tick /\ uncovered' = IF IsRunningCached THEN uncovered ELSE 0
    BY <1>3 DEF Frame
  <2>2. PICK refresh \in Refreshes :
             IF Rests(refresh)
             THEN UNCHANGED <<lastPoll, uncovered>>
             ELSE lastPoll' = tick /\ uncovered' = IF IsRunningCached THEN uncovered ELSE 0
    BY <2>1
  <2>3. Rate(refresh) <= (IF IsRunningCached THEN Poll ELSE period)
    BY DEF Rate, Min2
  <2>4. Rate(refresh) <= Longer(Poll, period) /\ Rate(refresh) \in Nat
    BY <2>3 DEF Rate, Min2
  <2>5. Minus(tick, tick) = 0
    BY MinusIsADistance
  <2>6. PollTells'
    <3>1. CASE Rests(refresh)
      BY <1>1, <1>3, <2>2, <2>4, <3>1 DEF PollTells, Rests
    <3>2. CASE ~Rests(refresh)
      BY <1>1, <1>3, <2>2, <2>5, <3>2 DEF PollTells
    <3>3. QED
      BY <3>1, <3>2
  <2>7. CASE svc = "running"
    <3>1. uncovered' \in {uncovered, 0}
      BY <2>2
    <3>2. QED
      BY <1>1, <2>6, <2>7, <3>1 DEF HoleInv
  <2>8. CASE svc # "running" /\ IsRunningCached
    <3>1. CacheIsFresh /\ cached /\ lastCheck # 0 /\ Minus(tick, lastCheck) < CacheTime
      BY <2>8 DEF IsRunningCached, QueryScmFresh, CacheIsFresh
    <3>2. KnownFor <= CacheTime
      BY <3>1, MinusIsADistance DEF KnownFor, Ticks
    <3>3. uncovered < Longest + MaxDelay + KnownFor /\ uncovered' = uncovered
      BY <1>1, <2>2, <2>8, <3>1 DEF HoleInv
    <3>4. lastCheck' = lastCheck /\ KnownFor' = KnownFor
      BY <1>1, <2>1, <3>1 DEF RefreshScmCacheIfStale, KnownFor
    <3>5. uncovered' < Unnoticed + sinceFrame'
      BY <1>1, <3>2, <3>3 DEF Unnoticed
    <3>6. QED
      BY <1>1, <2>6, <2>8, <3>3, <3>4, <3>5 DEF HoleInv
  <2>9. CASE svc # "running" /\ ~IsRunningCached
    <3>1. ~cached'
      BY <2>1, <2>9 DEF RefreshScmCacheIfStale
    <3>2. CASE Rests(refresh)
      <4>1. lastPoll # 0 /\ Minus(tick, lastPoll) < period
        BY <2>3, <2>4, <2>9, <3>2 DEF Rests
      <4>2. sinceFrame <= Minus(tick, lastPoll)
        BY <4>1 DEF PollTells
      <4>3. uncovered < Unnoticed + Minus(tick, lastPoll)
        BY <2>9, <4>1, <4>2 DEF HoleInv
      <4>4. lastPoll' = lastPoll /\ uncovered' = uncovered
        BY <2>2, <3>2
      <4>5. QED
        BY <1>1, <2>6, <2>9, <3>1, <4>1, <4>3, <4>4 DEF HoleInv
    <3>3. CASE ~Rests(refresh)
      <4>1. uncovered' = 0
        BY <2>2, <2>9, <3>3
      <4>2. uncovered' < Unnoticed + sinceFrame'
        BY <1>1, <4>1 DEF Unnoticed
      <4>3. QED
        BY <1>1, <2>6, <2>9, <3>1, <4>2 DEF HoleInv
    <3>4. QED
      BY <3>2, <3>3
  <2>10. QED
    BY <2>7, <2>8, <2>9
<1>4. QED
  BY <1>2, <1>3

LEMMA ClockKeepsHole ==
    ASSUME PeriodsFit, TypeOK, CacheTells, Scheduled, Scheduled', PollTells, HoleInv, Clock
    PROVE  PollTells' /\ HoleInv'
<1> USE ConstAssumption, WindowNumbers DEF TypeOK
<1>1. UNCHANGED <<svc, able, open, ready, period, lastPoll, lastCheck, cached, wait>>
  BY DEF Clock, loop, window
<1>2. uncovered' = Age(Counts, uncovered, Uncounted) /\ Counts \in BOOLEAN
      /\ Uncounted \in Nat
  BY DEF Clock, Counts, Uncounted
<1>3. uncovered' <= uncovered + 1 /\ uncovered' \in Nat /\ (~Counts => uncovered' = 0)
  BY <1>2 DEF Age, Min2
<1>4. PollTells'
  <2>1. ~ready => uncovered' = 0
    BY <1>3 DEF Counts
  <2>2. CASE lastPoll = 0
    BY <1>1, <2>1, <2>2 DEF PollTells
  <2>3. CASE lastPoll # 0
    <3>1. Minus(tick', lastPoll) = Minus(tick, lastPoll) + 1 /\ sinceFrame' = sinceFrame + 1
      BY <2>3, PollDistance
    <3>2. sinceFrame' <= Minus(tick', lastPoll)
          /\ Minus(tick', lastPoll) < Longer(Poll, period) + sinceFrame'
      BY <2>3, <3>1 DEF PollTells
    <3>3. QED
      BY <1>1, <2>1, <3>2 DEF PollTells
  <2>4. QED
    BY <2>2, <2>3
<1>5. CASE svc = "running" /\ able
  <2>1. sinceSample < Half
    BY <1>5 DEF Scheduled
  <2>2. sinceSample' = sinceSample + 1
    BY <1>5, <2>1 DEF Clock, Age, Min2
  <2>3. uncovered <= sinceSample
    BY <1>5 DEF HoleInv
  <2>4. uncovered' <= sinceSample'
    BY <1>3, <2>2, <2>3
  <2>5. QED
    BY <1>1, <1>4, <1>5, <2>4 DEF HoleInv
<1>6. CASE svc = "running" /\ ~able
  <2>1. uncovered' = 0
    BY <1>3, <1>6 DEF Counts
  <2>2. QED
    BY <1>1, <1>4, <1>6, <2>1 DEF HoleInv
<1>7. CASE svc # "running"
  <2>1. open /\ cached /\ lastCheck # 0 => uncovered' < Longest + MaxDelay + KnownFor'
    <3>1. SUFFICES ASSUME open, cached, lastCheck # 0
                   PROVE  uncovered' < Longest + MaxDelay + KnownFor'
      OBVIOUS
    <3>2. uncovered < Longest + MaxDelay + KnownFor
      BY <1>7, <3>1 DEF HoleInv
    <3>3. KnownFor' = KnownFor + 1
      BY <3>1, AnswerGrowsOld
    <3>4. QED
      BY <1>3, <3>2, <3>3
  <2>2. CASE ~open
    <3>1. uncovered' = 0 /\ sinceFrame' = 0
      BY <1>3, <2>2 DEF Counts, Clock, Age
    <3>2. uncovered' < Unnoticed + sinceFrame'
      BY <3>1 DEF Unnoticed
    <3>3. QED
      BY <1>1, <1>4, <1>7, <2>1, <3>2 DEF HoleInv
  <2>3. CASE open /\ uncovered < Unnoticed + sinceFrame
    <3>1. sinceFrame < MaxDelay
      BY <2>3 DEF Clock
    <3>2. sinceFrame' = sinceFrame + 1
      BY <2>3, <3>1 DEF Clock, Age, Min2
    <3>3. uncovered' < Unnoticed + sinceFrame'
      BY <1>3, <2>3, <3>2
    <3>4. QED
      BY <1>1, <1>4, <1>7, <2>1, <3>3 DEF HoleInv
  <2>4. CASE /\ lastPoll # 0
             /\ Minus(tick, lastPoll) < period + sinceFrame
             /\ uncovered < Unnoticed + Minus(tick, lastPoll)
    <3>1. Minus(tick', lastPoll) = Minus(tick, lastPoll) + 1 /\ sinceFrame' = sinceFrame + 1
      BY <2>4, PollDistance
    <3>2. Minus(tick', lastPoll) < period + sinceFrame'
          /\ uncovered' < Unnoticed + Minus(tick', lastPoll)
      BY <1>3, <2>4, <3>1
    <3>3. QED
      BY <1>1, <1>4, <1>7, <2>1, <2>4, <3>2 DEF HoleInv
  <2>5. QED
    BY <1>7, <2>2, <2>3, <2>4 DEF HoleInv
<1>8. QED
  BY <1>5, <1>6, <1>7

LEMMA HoleStep ==
    ASSUME PeriodsFit, TypeOK, CacheTells, Scheduled, Scheduled', PollTells, HoleInv,
           [Next]_vars
    PROVE  PollTells' /\ HoleInv'
<1> USE ConstAssumption, WindowNumbers DEF TypeOK
<1> DEFINE Same == UNCHANGED <<tick, open, ready, period, lastPoll, lastCheck, cached,
                               sinceFrame>>
<1>a. Same /\ uncovered' \in {uncovered, 0} => PollTells'
  BY DEF PollTells
<1>b. Same => KnownFor' = KnownFor
  BY DEF KnownFor
\* The service stops, or stays stopped, or goes on running.
<1>c. ASSUME Same, uncovered' = uncovered, svc' = "running" => svc = "running",
             svc' = "running" => able' = able /\ sinceSample' = sinceSample
      PROVE  HoleInv'
  <2>1. CASE svc' = "running"
    BY <1>c, <2>1 DEF HoleInv
  <2>2. CASE svc = "running" /\ svc' # "running"
    <3>1. uncovered < Longest + MaxDelay
      BY <2>2, RunningCovers
    <3>2. uncovered < Longest + MaxDelay + KnownFor /\ uncovered < Unnoticed + sinceFrame
      BY <3>1 DEF Unnoticed
    <3>3. QED
      BY <1>b, <1>c, <2>2, <3>2 DEF HoleInv
  <2>3. CASE svc # "running" /\ svc' # "running"
    BY <1>b, <1>c, <2>3 DEF HoleInv
  <2>4. QED
    BY <1>c, <2>1, <2>2, <2>3
<1>1. CASE BeginLoop
  <2>1. Same /\ uncovered' = 0 /\ svc' = "running" /\ sinceSample' = 0
    BY <1>1 DEF BeginLoop, window
  <2>2. QED
    BY <1>a, <2>1 DEF HoleInv
<1>2. CASE Pass
  <2>1. Same /\ svc = "running" /\ svc' = "running" /\ able' = able
    BY <1>2 DEF Pass, window
  <2>2. CASE SampleIsDue
    <3>1. uncovered' = 0 /\ sinceSample' = 0
      BY <1>2, <2>2 DEF Pass, Sample
    <3>2. QED
      BY <1>a, <2>1, <3>1 DEF HoleInv
  <2>3. CASE ~SampleIsDue
    <3>1. uncovered' = uncovered /\ sinceSample' = sinceSample
      BY <1>2, <2>3 DEF Pass
    <3>2. QED
      BY <1>a, <1>c, <2>1, <3>1
  <2>4. QED
    BY <2>2, <2>3
<1>3. CASE LeaveLoop \/ Crash
  <2>1. Same /\ uncovered' = uncovered /\ svc' # "running"
    BY <1>3 DEF LeaveLoop, Crash, Ended, window
  <2>2. QED
    BY <1>a, <1>c, <2>1
<1>4. CASE ControlElsewhere \/ ControlHere
  <2>1. Same /\ uncovered' = uncovered /\ able' = able /\ sinceSample' = sinceSample
    BY <1>4 DEF ControlElsewhere, ControlHere, loop, window
  <2>2. svc' = "running" => svc = "running"
    BY <1>4 DEF ControlElsewhere, ControlHere, Started, Stopped
  <2>3. QED
    BY <1>a, <1>c, <2>1, <2>2
<1>5. CASE Open \/ Close
  <2>1. /\ lastPoll' = 0 /\ lastCheck' = 0 /\ uncovered' = 0 /\ sinceFrame' = 0
        /\ ready' = FALSE
        /\ svc' = svc /\ able' = able /\ sinceSample' = sinceSample
    BY <1>5 DEF Open, Close, loop, pace
  <2>2. uncovered' < Unnoticed + sinceFrame'
    BY <2>1 DEF Unnoticed
  <2>3. QED
    BY <2>1, <2>2 DEF PollTells, HoleInv
<1>6. CASE DropCache
  <2>1. /\ UNCHANGED <<tick, open, ready, period, lastPoll, cached, sinceFrame, uncovered>>
        /\ UNCHANGED <<svc, able, sinceSample>> /\ lastCheck' = 0
    BY <1>6 DEF DropCache, loop, pace
  <2>2. QED
    BY <2>1 DEF PollTells, HoleInv
<1>7. CASE SetInterval \/ UNCHANGED vars
  <2>1. Same /\ UNCHANGED <<svc, able, sinceSample, uncovered>>
    BY <1>7 DEF SetInterval, vars, loop, window, pace
  <2>2. QED
    BY <1>a, <1>c, <2>1
<1>8. QED
  BY <1>1, <1>2, <1>3, <1>4, <1>5, <1>6, <1>7, FrameKeepsHole, ClockKeepsHole DEF Next

\* The hole in the history is bounded, however the service stops and whatever the
\* window believes of it (MetricsBackground.cpp, Tick), as long as no period needs
\* the whole range of the counter.
THEOREM HistoryIsCovered ==
    ASSUME PeriodsFit
    PROVE  Spec => []Covered
<1>1. Init => CacheTells /\ Scheduled /\ PollTells /\ HoleInv
  <2> SUFFICES ASSUME Init PROVE CacheTells /\ Scheduled /\ PollTells /\ HoleInv
    OBVIOUS
  <2>1. 0 < Unnoticed + 0
    BY ConstAssumption DEF Unnoticed
  <2>2. QED
    BY <2>1 DEF Init, CacheTells, Scheduled, PollTells, HoleInv
<1>2. TypeOK /\ CacheTells /\ Scheduled /\ Scheduled' /\ PollTells /\ HoleInv /\ [Next]_vars
        => PollTells' /\ HoleInv'
  BY HoleStep
<1>3. TypeOK /\ CacheTells /\ Scheduled /\ PollTells /\ HoleInv => Covered
  <2> SUFFICES ASSUME TypeOK, Scheduled, PollTells, HoleInv
               PROVE  uncovered < Gap
    BY DEF Covered
  <2> USE ConstAssumption, WindowNumbers
  <2>1. CASE svc = "running"
    <3>1. uncovered < Longest + MaxDelay
      BY <2>1, RunningCovers
    <3>2. QED
      BY <3>1 DEF Gap
  <2>2. CASE svc # "running"
    <3>1. sinceFrame \in Nat /\ sinceFrame <= MaxDelay
      BY DEF TypeOK
    <3>2. QED
      BY <2>2, <3>1 DEF HoleInv, Gap, Unnoticed
  <2>3. QED
    BY <2>1, <2>2
<1>4. QED
  BY <1>1, <1>2, <1>3, ScheduleStep, CacheStep, TypeCorrect, PTL DEF Spec
=============================================================================
