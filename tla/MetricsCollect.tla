--------------------------- MODULE MetricsCollect ---------------------------
(***************************************************************************)
(* Who samples, and when: the loop of the metrics service                  *)
(* (platform/MetricsService.cpp, ServiceMain) and the window, which samples *)
(* on its own while it believes that the service does not run              *)
(* (core/MetricsBackground.cpp, Tick).                                     *)
(*                                                                         *)
(* Both measure time with GetTickCount, an unsigned counter that wraps      *)
(* around: ticks are the numbers below Wrap = 2 * Half, of which the upper  *)
(* half is negative when it is cast to a signed one.  The constants are     *)
(* durations in one unit of time.  A frame or a pass of the loop may come  *)
(* late by any delay up to MaxDelay, which is also the longest the machine  *)
(* may be suspended for.  What the database does with the samples is        *)
(* MetricsRetention's; a sampler that returns nothing counts as having     *)
(* been asked.                                                             *)
(***************************************************************************)
EXTENDS Integers

CONSTANTS
    Half,      \* 2^31
    Poll,      \* kMetricsServicePollMs
    Rereads,   \* kSettingsRefreshMs
    Flushes,   \* kFlushIntervalMs
    Capacity,  \* kMaxBytes, in samples
    CacheTime, \* 1000: how long an answer of the service manager is kept
    Intervals, \* what metricsIntervalSec may be
    Default,   \* what it is when the file cannot be read
    Longest,   \* kMetricsMaxIntervalSec, to which the service clamps it
    Refreshes, \* what monitoringRefreshMs may be; 0 off the Monitor page
    MaxDelay   \* bound: the longest time between two frames or two passes

ASSUME ConstAssumption ==
    /\ Poll \in Nat \ {0} /\ Rereads \in Nat /\ Flushes \in Nat
    /\ Capacity \in Nat \ {0} /\ CacheTime \in Nat \ {0}
    /\ Intervals \subseteq Nat \ {0} /\ Default \in Intervals
    /\ Longest \in Nat \ {0}
    /\ Refreshes \subseteq Nat
    /\ MaxDelay \in Nat /\ Poll <= MaxDelay
    /\ Half \in Nat /\ Longest + MaxDelay < Half
    /\ Flushes + MaxDelay < Half /\ CacheTime + MaxDelay < Half

VARIABLES
    tick,         \* GetTickCount()
    setting,      \* metricsIntervalSec in the file
    svc,          \* the state the service manager reports
    able,         \* samplerOk && dbOk
    interval,     \* intervalSec
    next,         \* nextSampleTick
    lastSettings, \* lastSettingsTick
    lastFlush,    \* MetricsWriteBuffer::lastFlushTick_
    buffered,     \* number of samples in the buffer
    open,         \* whether there is a window
    ready,        \* MetricsBackground::dbReady_ and samplerReady_
    period,       \* its copy of metricsIntervalSec
    lastPoll,     \* lastPollMs_, 0 for never
    lastCheck,    \* g_scmCache.lastCheckTick of the window, 0 for never
    cached,       \* g_scmCache.running
    waiting,      \* whether it waits in Start or Stop
    sincePass,    \* history: time since the last pass of the loop
    sinceFrame,   \* history: time since the last frame of the window
    sinceSample,  \* history: time since the service has sampled
    wait,         \* history: the interval it has fixed then
    oldest,       \* history: age of the oldest sample in the buffer
    runningFor,   \* history: time the service is reported running
    uncovered     \* history: time without a sample of either

loop == <<able, interval, next, lastSettings, lastFlush, buffered>>
window == <<open, ready, period, lastPoll, lastCheck, cached, waiting>>
pace == <<sincePass, sinceSample, wait, oldest, runningFor>>
vars == <<tick, setting, svc, loop, window, pace, sinceFrame, uncovered>>

Wrap == 2 * Half
Ticks == 0..Wrap - 1
Min2(a, b) == IF a < b THEN a ELSE b

\* DWORD arithmetic, and the cast to int32_t.
Plus(a, b) == IF a + b < Wrap THEN a + b ELSE a + b - Wrap
Minus(a, b) == IF a >= b THEN a - b ELSE a - b + Wrap
SignedAsUnsigned(d) == d
Signed(d) == IF d < Half THEN d ELSE d - Wrap

\* The longest time without a sample while a window is open: the service stops
\* when its sample is due, the window learns of it late, and then waits for its
\* own period.
Gap == Longest + MaxDelay + CacheTime + period + MaxDelay
Uncounted == Gap + 1 \* where uncovered stops counting

Init ==
    /\ tick \in Ticks /\ setting \in Intervals
    /\ svc = "stopped" /\ able = FALSE
    /\ interval = 0 /\ next = 0 /\ lastSettings = 0 /\ lastFlush = 0 /\ buffered = 0
    /\ open = FALSE /\ ready = FALSE /\ period = 0
    /\ lastPoll = 0 /\ lastCheck = 0 /\ cached = FALSE /\ waiting = FALSE
    /\ sincePass = 0 /\ sinceFrame = 0 /\ sinceSample = 0 /\ wait = 0
    /\ oldest = 0 /\ runningFor = 0 /\ uncovered = 0

-----------------------------------------------------------------------------
(* The service *)

\* LoadSampleIntervalSec: a file that is being rewritten reads as the defaults.
LoadedIntervals == {Min2(s, Longest) : s \in {setting, Default}}

\* ServiceMain as far as its loop.
BeginLoop ==
    /\ svc = "starting"
    /\ svc' = "running"
    /\ able' \in BOOLEAN
    /\ interval' \in LoadedIntervals
    /\ next' = tick /\ lastSettings' = tick /\ lastFlush' = tick
    /\ buffered' = 0
    /\ sincePass' = 0 /\ sinceSample' = 0 /\ wait' = 0 /\ oldest' = 0
    /\ runningFor' = 0 /\ uncovered' = 0
    /\ UNCHANGED <<tick, setting, window, sinceFrame>>

RereadSettings ==
    IF Minus(tick, lastSettings) >= Rereads
    THEN lastSettings' = tick /\ interval' \in LoadedIntervals
    ELSE UNCHANGED <<lastSettings, interval>>

SampleIsDue == able /\ Signed(Minus(tick, next)) >= 0

\* With n samples in the buffer, after the one of this pass.
Full(n) == n >= Capacity
ShouldFlushWhenFull(last, n) == n > 0 /\ last # tick /\ Full(n)
ShouldFlush(last, n) == n > 0 /\ Minus(tick, last) >= Flushes

\* A sampler that fails returns nothing to push.
Sample ==
    /\ next' = Plus(tick, interval')
    /\ sinceSample' = 0 /\ wait' = interval' /\ uncovered' = 0

FlushOrKeep(n) ==
    IF Full(n) \/ ShouldFlush(lastFlush, n)
    THEN buffered' = 0 /\ oldest' = 0 /\ lastFlush' = tick
    ELSE buffered' = n /\ UNCHANGED <<oldest, lastFlush>>

\* One pass of the loop.
Pass ==
    /\ svc = "running" /\ sincePass >= Poll
    /\ RereadSettings
    /\ IF SampleIsDue
       THEN Sample /\ \E n \in {buffered, buffered + 1} : FlushOrKeep(n)
       ELSE FlushOrKeep(buffered) /\ UNCHANGED <<next, sinceSample, wait, uncovered>>
    /\ sincePass' = 0
    /\ UNCHANGED <<tick, setting, svc, able, window, sinceFrame, runningFor>>

\* The service has ended; what is in its memory goes with it.
Ended ==
    /\ svc' = "stopped" /\ able' = FALSE
    /\ interval' = 0 /\ next' = 0 /\ lastSettings' = 0 /\ lastFlush' = 0 /\ buffered' = 0
    /\ sincePass' = 0 /\ sinceSample' = 0 /\ wait' = 0 /\ oldest' = 0 /\ runningFor' = 0

\* The loop finds the stop event set, flushes and leaves.
LeaveLoop ==
    /\ svc = "stopping" /\ Ended
    /\ UNCHANGED <<tick, setting, window, sinceFrame, uncovered>>

Crash ==
    /\ svc # "stopped" /\ Ended
    /\ UNCHANGED <<tick, setting, window, sinceFrame, uncovered>>

\* The service manager starts a stopped service and stops a running one.
Started == svc' = IF svc = "stopped" THEN "starting" ELSE svc
Stopped == svc' = IF svc = "running" THEN "stopping" ELSE svc

\* From the tray, another window, or the service manager after a crash.
ControlElsewhere ==
    /\ Started \/ Stopped
    /\ svc' # svc
    /\ runningFor' = 0
    /\ UNCHANGED <<tick, setting, loop, window, sincePass, sinceSample, wait, oldest,
                   sinceFrame, uncovered>>

-----------------------------------------------------------------------------
(* The window *)

Open ==
    /\ ~open
    /\ open' = TRUE /\ period' = setting
    /\ ready' = FALSE /\ lastPoll' = 0 /\ lastCheck' = 0 /\ cached' = FALSE /\ waiting' = FALSE
    /\ sinceFrame' = 0 /\ uncovered' = 0
    /\ UNCHANGED <<tick, setting, svc, loop, pace>>

Close ==
    /\ open
    /\ open' = FALSE /\ ready' = FALSE /\ period' = 0
    /\ lastPoll' = 0 /\ lastCheck' = 0 /\ cached' = FALSE /\ waiting' = FALSE
    /\ sinceFrame' = 0 /\ uncovered' = 0
    /\ UNCHANGED <<tick, setting, svc, loop, pace>>

\* Start and Stop of MetricsService.cpp, called on the Monitor page or in Init:
\* they wait for the service for a while, and then drop the cached state.
ControlHere ==
    /\ open /\ ~waiting
    /\ Started \/ Stopped
    /\ waiting' = TRUE
    /\ runningFor' = IF svc' = svc THEN runningFor ELSE 0
    /\ UNCHANGED <<tick, setting, loop, open, ready, period, lastPoll, lastCheck, cached,
                   sincePass, sinceSample, wait, oldest, sinceFrame, uncovered>>

DropCache ==
    /\ waiting
    /\ waiting' = FALSE /\ lastCheck' = 0
    /\ UNCHANGED <<tick, setting, svc, loop, open, ready, period, lastPoll, cached,
                   pace, sinceFrame, uncovered>>

CacheIsKept == lastCheck # 0
CacheIsFresh == lastCheck # 0 /\ Minus(tick, lastCheck) < CacheTime

QueryScmPending == svc # "stopped"
QueryScmFresh == svc = "running"

IsRunningCached == IF CacheIsFresh THEN cached ELSE QueryScmFresh

RefreshScmCacheIfStale ==
    /\ cached' = IsRunningCached
    /\ lastCheck' = IF CacheIsFresh THEN lastCheck ELSE IF tick = 0 THEN 1 ELSE tick

\* pollMs, with the refresh time of the Monitor page if it is shown.
Rate(refresh) ==
    LET rate == IF IsRunningCached THEN Poll ELSE period
    IN  IF refresh = 0 THEN rate ELSE Min2(rate, refresh)

Rests(refresh) == lastPoll # 0 /\ Minus(tick, lastPoll) < Rate(refresh)

\* MetricsBackground::Tick in a frame: the database is tried again until it opens.
Frame ==
    /\ open /\ ~waiting
    /\ ready' \in BOOLEAN /\ (ready => ready')
    /\ IF ready'
       THEN /\ RefreshScmCacheIfStale
            /\ \E refresh \in Refreshes :
                 IF Rests(refresh)
                 THEN UNCHANGED <<lastPoll, uncovered>>
                 ELSE /\ lastPoll' = tick
                      /\ uncovered' = IF IsRunningCached THEN uncovered ELSE 0
       ELSE UNCHANGED <<cached, lastCheck, lastPoll, uncovered>>
    /\ sinceFrame' = 0
    /\ UNCHANGED <<tick, setting, svc, loop, open, period, waiting, pace>>

-----------------------------------------------------------------------------
(* Around them *)

\* settings set metricsIntervalSec
SetInterval ==
    /\ setting' \in Intervals \ {setting}
    /\ UNCHANGED <<tick, svc, loop, window, pace, sinceFrame, uncovered>>

\* Time in which somebody should sample: the window's database is open, and the
\* service, if it runs, has its own.
Counts == open /\ ready /\ (svc = "running" => able)

Age(running, age, most) == IF running THEN Min2(age + 1, most) ELSE 0

Clock ==
    /\ svc = "running" => sincePass < MaxDelay
    /\ open => sinceFrame < MaxDelay
    /\ tick' = Plus(tick, 1)
    /\ sincePass' = Age(svc = "running", sincePass, MaxDelay)
    /\ sinceFrame' = Age(open, sinceFrame, MaxDelay)
    /\ sinceSample' = Age(svc = "running", sinceSample, Half)
    /\ oldest' = Age(buffered > 0, oldest, Half)
    /\ runningFor' = Age(svc = "running", runningFor, CacheTime + 1)
    /\ uncovered' = Age(Counts, uncovered, Uncounted)
    /\ UNCHANGED <<setting, svc, loop, window, wait>>

Next ==
    \/ BeginLoop \/ Pass \/ LeaveLoop \/ Crash \/ ControlElsewhere
    \/ Open \/ Close \/ ControlHere \/ DropCache \/ Frame
    \/ SetInterval \/ Clock

Spec == Init /\ [][Next]_vars

-----------------------------------------------------------------------------
TypeOK ==
    /\ tick \in Ticks /\ setting \in Intervals
    /\ svc \in {"stopped", "starting", "running", "stopping"}
    /\ able \in BOOLEAN /\ interval \in 0..Longest
    /\ next \in Ticks /\ lastSettings \in Ticks /\ lastFlush \in Ticks
    /\ buffered \in 0..Capacity - 1
    /\ open \in BOOLEAN /\ ready \in BOOLEAN /\ period \in Intervals \cup {0}
    /\ lastPoll \in Ticks /\ lastCheck \in Ticks
    /\ cached \in BOOLEAN /\ waiting \in BOOLEAN
    /\ sincePass \in 0..MaxDelay /\ sinceFrame \in 0..MaxDelay
    /\ sinceSample \in 0..Half /\ wait \in 0..Longest /\ oldest \in 0..Half
    /\ runningFor \in 0..CacheTime + 1 /\ uncovered \in 0..Uncounted

\* The service samples in the first pass after its interval has run out and in no
\* earlier one, also where the tick counter wraps around between the two and
\* where the interval is changed meanwhile.
OnSchedule ==
    /\ [](svc = "running" /\ able =>
            \/ sinceSample = sincePass
            \/ sinceSample < wait + sincePass)
    /\ [][svc = "running" /\ svc' = "running" /\ next' # next => sinceSample >= wait]_vars

\* What a service that is killed loses has been sampled in the last ten seconds,
\* but for the delay of one pass.
UnsavedIsYoung == svc = "running" /\ buffered > 0 => oldest < Flushes + sincePass

\* The window samples next to a running service for a second at most, after the
\* service has been started by somebody else: it then reads the database, however
\* its kept answer of the service manager and the wrapping counter fall together.
OneCollector ==
    [][open /\ open' /\ lastPoll' # lastPoll /\ runningFor > CacheTime
         => cached']_vars

\* However the service is stopped and the window told of it, the history has no
\* hole longer than the intervals of both and the time the answer of the service
\* manager is kept, but for delays, while the window is open and the collectors are able to collect.
Covered == uncovered < Gap
=============================================================================
