---------------------------- MODULE MonitorPage ----------------------------
(***************************************************************************)
(* The Monitor page (src/src/ui/MonitorPage.cpp, MonitorPlotAxis.cpp and   *)
(* the timeline of CpuVisualizer.cpp): three caches of rows of the metrics *)
(* database, the live sample of MetricsBackground merged into them, and    *)
(* the averaging of what is drawn into wall-clock buckets.                 *)
(*                                                                         *)
(* A sample is its time stamp: system_samples has one row for each, and    *)
(* cpu_samples one row for each and processor.  A drawn point is the set   *)
(* of the samples averaged in it.  One frame is one action: the queries of *)
(* a frame are taken as one moment, and a frame gets at most one input.    *)
(* `drawn' is what the frame that just ended drew.                         *)
(***************************************************************************)
EXTENDS Integers, Sequences, FiniteSets, SequencesExt

CONSTANTS
    Hour, Minute,         \* seconds in an hour and in a minute
    Ranges,               \* the hours the range buttons offer
    Margin,               \* what is read beyond the visible part: at least 90 s
    Near,                 \* windows this close are the same: 45 s
    Ahead,                \* the chart ends this long after its last sample: 2 s
    PlotSpan,             \* the least width of the time axis: 30 s
    SystemRows, CpuRows,  \* [base, least, most]: the row limits
    SparkSpan, SparkRows, \* what the small charts ask for: 1200 s, 96 rows
    Refresh,              \* the refresh period of the page, in seconds
    Cores,                \* the number of logical processors
    Budget, Steps,        \* points that fit a plot; the bucket widths offered
    Pans,                 \* how far a drag may move the axis
    Histories,            \* what the database may hold at the start
    Habits,               \* bound: the controls a user reaches for, a set of such sets
    Start, MaxTime, MaxKey, MaxInputs \* bounds: the clock, the ticks, what the user does

ConstAssumption ==
    /\ {Hour, Minute, Margin, Near, Ahead, Refresh, Cores, Budget} \subseteq Nat \ {0}
    /\ Ranges \subseteq Nat \ {0} /\ Near < Margin /\ Start < MaxTime

VARIABLES
    now,    \* time(nullptr), and ImGui::GetTime
    db,     \* the time stamps of the stored samples
    live,   \* MetricsBackground::Live().system.ts, 0 before the first sample
    key,    \* MetricsBackground::SampleKey
    svc,    \* metrics_svc::IsRunningCached
    st,     \* MonitorUiState
    drawn,  \* what the last frame drew
    inputs, \* how often the user has acted (a bound)
    habit   \* the controls this user reaches for (a bound)

vars == <<now, db, live, key, svc, st, drawn, inputs, habit>>

Clamp(x, lo, hi) == Max({lo, Min({x, hi})})
Within(t, w) == t >= w.since /\ t <= w.until
NoWindow == [since |-> 0, until |-> 0]
NotDrawn == [what |-> "nothing"]

InvalidateMonitorCaches(s) ==
    [s EXCEPT !.chart = <<>>, !.spark = <<>>, !.cpu = <<>>,
              !.chartWindow = NoWindow, !.cpuWindow = NoWindow,
              !.chartRange = -1, !.chartKey = -1, !.cpuKey = -1, !.merged = -1,
              !.chartAt = 0, !.cpuAt = 0, !.sparkAt = 0]

(***************************************************************************)
(* What a frame asks the database for.                                     *)
(***************************************************************************)
MaxVisibleMinutes(s) == Max({1, (s.range * Hour) \div Minute})

VisibleSeconds(s) ==
    Max({Minute, Min({s.minutes, MaxVisibleMinutes(s)}) * Minute})

ComputeChartWindow(s) ==
    LET margin == Max({Margin, VisibleSeconds(s) \div 3})
        asked  == IF s.manual /\ s.hi > s.lo
                    THEN [since |-> s.lo - margin, until |-> s.hi + margin]
                    ELSE [since |-> now - VisibleSeconds(s) - margin,
                          until |-> now + Ahead]
        since  == Max({asked.since, now - s.range * Hour})
        until  == Min({asked.until, now + Ahead})
    IN [since |-> since,
        until |-> IF until <= since THEN since + VisibleSeconds(s) ELSE until]

ChartWindowNear(a, b) ==
    a.since - b.since \in -Near..Near /\ a.until - b.until \in -Near..Near

Half(w) == Max({Minute, w.until - w.since}) \div 2

SystemMaxRowsForWindow(w) ==
    Clamp(Half(w) + SystemRows.base, SystemRows.least, SystemRows.most)

CpuMaxRowsForWindow(w) ==
    Clamp((Half(w) + CpuRows.base) * Cores, CpuRows.least, CpuRows.most)

FirstOf(rows, n) == SubSeq(rows, 1, Min({n, Len(rows)}))
LastOf(rows, n) == SubSeq(rows, Len(rows) - Min({n, Len(rows)}) + 1, Len(rows))

InOrder(times) == SelectSeq([t \in 1..MaxTime |-> t], LAMBDA t : t \in times)

\* ORDER BY ts LIMIT: when there are more rows, the oldest are returned.
QuerySystem(w, n) == FirstOf(InOrder({t \in db : Within(t, w)}), n)

\* All rows there may be, in the order they are drawn: by time, the last processor first.
CpuRow(i) == <<(i - 1) \div Cores + 1, Cores - ((i - 1) % Cores)>>

\* The rows of the processors, limited as those of the system are.
QueryCpuOldest(w, n) ==
    FirstOf(SelectSeq([i \in 1..(MaxTime * Cores) |-> CpuRow(i)],
                      LAMBDA r : r[1] \in db /\ Within(r[1], w)), n)

\* ORDER BY ts DESC,proc_index LIMIT, and then reversed: the newest are.
QueryCpu(w, n) ==
    LastOf(SelectSeq([i \in 1..(MaxTime * Cores) |-> CpuRow(i)],
                     LAMBDA r : r[1] \in db /\ Within(r[1], w)), n)

(***************************************************************************)
(* The caches.                                                             *)
(***************************************************************************)
RefreshSparkCache(s) ==
    LET end == now + 1 IN
    IF s.spark # <<>> /\ now - s.sparkAt < Max({2, Refresh * 2}) THEN s
    ELSE [s EXCEPT !.sparkAt = now,
                   !.spark = QuerySystem([since |-> end - SparkSpan, until |-> end],
                                         SparkRows)]

RefreshChartSystemCache(s, w) ==
    LET canSkip == /\ s.chart # <<>> /\ s.chartOf = s.selected
                   /\ s.chartRange = s.range /\ ChartWindowNear(s.chartWindow, w)
                   /\ ~svc /\ key = s.chartKey /\ now - s.chartAt < Max({1, Refresh})
    IN IF canSkip THEN s
       ELSE [s EXCEPT !.chartAt = now, !.chartOf = s.selected, !.chartRange = s.range,
                      !.chartWindow = w, !.chartKey = key,
                      !.chart = QuerySystem(w, SystemMaxRowsForWindow(w))]

RefreshCpuCache(s, w) ==
    LET canSkip == /\ s.cpu # <<>> /\ ChartWindowNear(s.cpuWindow, w)
                   /\ ~svc /\ key = s.cpuKey /\ now - s.cpuAt < Max({1, Refresh})
    IN IF canSkip THEN s
       ELSE [s EXCEPT !.cpuAt = now, !.cpuWindow = w, !.cpuKey = key,
                      !.cpu = QueryCpu(w, CpuMaxRowsForWindow(w))]

DropCpuCache(s) ==
    IF s.cpu # <<>> THEN [s EXCEPT !.cpu = <<>>, !.cpuWindow = NoWindow] ELSE s

RefreshCaches(s, w) ==
    IF s.selected = "cpu" THEN RefreshCpuCache(s, w)
    ELSE RefreshChartSystemCache(DropCpuCache(s), w)

MergeSystemTwice(samples, w) ==
    SelectSeq(SortSeq(Append(samples, live), <), LAMBDA t : Within(t, w))

MergeSystem(samples, w) ==
    LET others == SelectSeq(samples, LAMBDA t : t # live) IN
    SelectSeq(SortSeq(Append(others, live), <), LAMBDA t : Within(t, w))

MergeLiveIntoChart(s, w) ==
    IF ~svc \/ key = s.merged \/ live = 0 THEN s
    ELSE IF ~Within(live, w) THEN [s EXCEPT !.merged = key]
    ELSE [s EXCEPT !.merged = key, !.chart = MergeSystem(@, w), !.spark = MergeSystem(@, w)]

(***************************************************************************)
(* From the rows to the drawn points.                                      *)
(***************************************************************************)
SetupMonitorTimeAxisX(s, visible) ==
    IF s.applied # <<visible, s.range>>
      THEN [s EXCEPT !.manual = FALSE, !.applied = <<visible, s.range>>]
      ELSE s

AxisLimits(s, first, last, visible) ==
    IF s.manual THEN [since |-> s.lo, until |-> s.hi]
    ELSE [since |-> Max({first, last - Max({PlotSpan, visible})}), until |-> last + Ahead]

FilterSeriesByTime(xs, lim) ==
    LET seen == SelectSeq(xs, LAMBDA t : Within(t, lim)) IN
    IF seen = <<>> /\ xs # <<>> THEN <<Last(xs)>> ELSE seen

NiceBucketSeconds(span) ==
    LET wide == {i \in 1..Len(Steps) : Steps[i] * Budget >= span} IN
    IF wide = {} THEN Last(Steps) ELSE Steps[Min(wide)]

BucketOf(t, width) == (t \div width) * width

\* The next bucket begins where the open one ends, whatever the sample says.
AddToBucketDrifting(acc, t, width) ==
    IF t >= acc.start + width
      THEN [start |-> acc.start + width, open |-> {t}, points |-> Append(acc.points, acc.open)]
      ELSE [acc EXCEPT !.open = @ \cup {t}]

\* One pass over the series: the bucket open so far, and the flushed points.
AddToBucket(acc, t, width) ==
    IF t >= acc.start + width
      THEN [start |-> BucketOf(t, width), open |-> {t}, points |-> Append(acc.points, acc.open)]
      ELSE [acc EXCEPT !.open = @ \cup {t}]

DownsampleTimeBuckets(xs, width) ==
    IF xs = <<>> THEN <<>>
    ELSE LET first == [start |-> BucketOf(Head(xs), width), open |-> {}, points |-> <<>>]
             all == FoldLeft(LAMBDA acc, t : AddToBucket(acc, t, width), first, xs)
         IN Append(all.points, all.open)

\* The series of the selected resource.  BuildTimeline puts the live usage at
\* its own time stamp; an empty system chart is one point at the present.
Series(s) ==
    CASE s.selected = "cpu" ->
           InOrder({r[1] : r \in Range(s.cpu)} \cup {live})
      [] s.chart = <<>> -> <<now>>
      [] OTHER -> s.chart

\* CpuPlotTimeBounds for the processors, the ends of the series otherwise.
DataEnds(s, xs, visible) ==
    IF s.selected # "cpu" THEN <<Head(xs), Last(xs)>>
    ELSE LET end  == IF live > 0 THEN live ELSE now
             last == IF xs = <<>> THEN end ELSE Max({end, Last(xs)})
             from == last - Max({PlotSpan, visible})
         IN <<IF xs = <<>> THEN from ELSE Min({Head(xs), from}), last>>

NoChartData(s) == s.selected # "cpu" /\ s.chart = <<>> /\ live = 0

\* DrawSystemGraphValues and PlotTimelineSeries.  UpdateMonitorTimeAxisX saves
\* the limits shown, which nothing reads until a drag over the plot fixes them:
\* they are kept here from the drag on.
DrawGraph(s, visible, input) ==
    LET u    == SetupMonitorTimeAxisX(s, visible)
        xs   == Series(u)
        ends == DataEnds(u, xs, visible)
        set  == AxisLimits(u, ends[1], ends[2], visible)
        drag == IF input[1] = "drag" THEN input[2] ELSE 0
        lim  == [since |-> set.since + drag, until |-> set.until + drag]
        seen == FilterSeriesByTime(xs, lim)
    IN [st |-> IF input[1] = "drag"
                 THEN [u EXCEPT !.lo = lim.since, !.hi = lim.until, !.manual = TRUE]
                 ELSE u,
        drawn |-> [what |-> u.selected, quiet |-> input[1] = "none", lim |-> lim,
                   manual |-> u.manual, visible |-> visible,
                   points |-> DownsampleTimeBuckets(seen,
                                NiceBucketSeconds(lim.until - lim.since))]]

(***************************************************************************)
(* The controls.                                                           *)
(***************************************************************************)
Resources == {"cpu", "gpu"}

Inputs ==
    {<<"none", 0>>} \cup {<<"range", h>> : h \in Ranges} \cup {<<"drag", p>> : p \in Pans}
    \cup {<<"zoom", m>> : m \in 1..MaxVisibleMinutes(st)}
    \cup {<<"tile", r>> : r \in Resources} \cup {<<"service", on>> : on \in BOOLEAN}

Control(s, input) ==
    CASE input[1] = "range" ->
           LET picked == [s EXCEPT !.range = input[2], !.manual = FALSE] IN
           InvalidateMonitorCaches([picked EXCEPT !.minutes = MaxVisibleMinutes(picked)])
      [] input[1] = "zoom" -> [s EXCEPT !.minutes = input[2], !.manual = FALSE]
      [] input[1] = "tile" -> [s EXCEPT !.selected = input[2]]
      [] input[1] = "service" -> InvalidateMonitorCaches(s)
      [] OTHER -> s

\* Another resource starts with an axis that follows the newest sample.
ViewOf(s) ==
    IF s.viewOf # s.selected THEN [s EXCEPT !.manual = FALSE, !.viewOf = s.selected] ELSE s

(***************************************************************************)
(* Actions.                                                                *)
(***************************************************************************)
DrawMonitor(input) ==
    /\ inputs' = IF input[1] = "none" THEN inputs ELSE inputs + 1
    /\ inputs' <= MaxInputs /\ input[1] \in {"none"} \cup habit
    /\ LET s == [st EXCEPT !.minutes = Clamp(@, 1, MaxVisibleMinutes(st))]
           w == ComputeChartWindow(s)
           read == MergeLiveIntoChart(RefreshCaches(RefreshSparkCache(s), w), w)
           used == ViewOf(Control(read, input))
           graph == DrawGraph(used, VisibleSeconds(s), input)
       IN /\ st' = IF NoChartData(used) THEN used ELSE graph.st
          /\ drawn' = IF NoChartData(used) THEN NotDrawn ELSE graph.drawn
          /\ svc' = IF input[1] = "service" THEN input[2] ELSE svc
          /\ UNCHANGED <<now, db, live, key, habit>>

OnMonitorPageClosed ==
    /\ inputs < MaxInputs /\ inputs' = inputs + 1 /\ "close" \in habit
    /\ st' = InvalidateMonitorCaches(st)
    /\ drawn' = NotDrawn
    /\ UNCHANGED <<now, db, live, key, svc, habit>>

\* MetricsBackground::Tick, on every page: with the service, the newest stored
\* sample; without it the window samples for itself and stores.
RefreshLiveFromDb ==
    /\ svc
    /\ db # {} /\ live # Max(db)
    /\ live' = Max(db) /\ key' = key + 1
    /\ drawn' = NotDrawn
    /\ UNCHANGED <<now, db, svc, st, inputs, habit>>

Sample ==
    /\ ~svc /\ key < MaxKey
    /\ live' = now /\ key' = key + 1
    /\ db' = db \cup {now}
    /\ drawn' = NotDrawn
    /\ UNCHANGED <<now, svc, st, inputs, habit>>

\* The service stores a sample; `svc' is a cached answer, and may be out of date.
ServiceStores ==
    /\ now \notin db
    /\ db' = db \cup {now}
    /\ drawn' = NotDrawn
    /\ UNCHANGED <<now, live, key, svc, st, inputs, habit>>

ServiceEnds ==
    /\ svc
    /\ svc' = FALSE
    /\ drawn' = NotDrawn
    /\ UNCHANGED <<now, db, live, key, st, inputs, habit>>

Clock ==
    /\ now < MaxTime
    /\ now' = now + 1
    /\ drawn' = NotDrawn
    /\ UNCHANGED <<db, live, key, svc, st, inputs, habit>>

FirstState ==
    InvalidateMonitorCaches(
      [selected |-> "cpu", range |-> Min(Ranges),
       minutes |-> MaxVisibleMinutes([range |-> Min(Ranges)]),
       chart |-> <<>>, spark |-> <<>>, cpu |-> <<>>, chartWindow |-> NoWindow,
       cpuWindow |-> NoWindow, chartOf |-> "cpu", chartRange |-> -1, chartAt |-> 0,
       cpuAt |-> 0, sparkAt |-> 0, chartKey |-> -1, cpuKey |-> -1, merged |-> -1,
       manual |-> FALSE, applied |-> <<0, 0>>, lo |-> 0, hi |-> 0, viewOf |-> "cpu"])

Init ==
    /\ now = Start
    /\ db \in Histories
    /\ live = 0
    /\ key = 0
    /\ svc \in BOOLEAN
    /\ st = FirstState
    /\ drawn = NotDrawn
    /\ inputs = 0
    /\ habit \in Habits

Next ==
    \/ \E input \in Inputs : DrawMonitor(input)
    \/ OnMonitorPageClosed
    \/ RefreshLiveFromDb
    \/ Sample
    \/ ServiceStores
    \/ ServiceEnds
    \/ Clock

Spec == Init /\ [][Next]_vars

(***************************************************************************)
(* Properties.                                                             *)
(***************************************************************************)
Ascending(seq) == \A i, j \in DOMAIN seq : i < j => seq[i] < seq[j]

\* The types of the variables; each cache of system samples is in time order
\* and holds no sample twice.
TypeOK ==
    /\ now \in Start..MaxTime /\ db \subseteq 0..MaxTime /\ live \in {0} \cup db
    /\ key \in Nat /\ inputs \in 0..MaxInputs /\ habit \in Habits /\ svc \in BOOLEAN
    /\ st.selected \in Resources /\ st.range \in Ranges
    /\ Ascending(st.chart) /\ Ascending(st.spark)
    /\ Range(st.chart) \cup Range(st.spark) \subseteq db

IsDrawn(t) == \E i \in DOMAIN drawn.points : t \in drawn.points[i]

\* The part of the time axis the user is looking at, up to the newest sample
\* the page knows: what a drag fixed, or the last visible seconds.
LookedAt ==
    {t \in db : /\ t <= live /\ t >= now - st.range * Hour
                /\ IF drawn.manual THEN Within(t, drawn.lim) ELSE t >= now - drawn.visible}

NewerThan(t, w) == {u \in db : Within(u, w) /\ u > t}

\* A frame without an input draws every stored sample of the part of the axis
\* it shows, up to the newest the page knows, whatever the page keeps from
\* earlier frames: for the system charts as long as the rows of the window fit
\* the limit of the query, and for the processors down to as many samples,
\* counted from the newest, as the limit leaves room for.
ChartIsComplete ==
    (drawn # NotDrawn /\ drawn.quiet) =>
        \A t \in LookedAt :
            \/ IsDrawn(t)
            \/ /\ drawn.what # "cpu"
               /\ Cardinality({u \in db : Within(u, st.chartWindow)})
                    > SystemMaxRowsForWindow(st.chartWindow)
            \/ /\ drawn.what = "cpu"
               /\ (Cardinality(NewerThan(t, st.cpuWindow)) + 1) * Cores
                    > CpuMaxRowsForWindow(st.cpuWindow)

\* A drawn point averages samples of one wall-clock bucket, no bucket has two
\* points and the points are in time order, also after a gap in the samples;
\* and there are no more points than the plot was said to hold, and one.
PointsAreBuckets ==
    drawn # NotDrawn =>
        LET width == NiceBucketSeconds(drawn.lim.until - drawn.lim.since)
            points == drawn.points
        IN /\ \A i \in DOMAIN points : \A t, u \in points[i] : t \div width = u \div width
           /\ \A i, j \in DOMAIN points : \A t \in points[i], u \in points[j] :
                i < j => t \div width < u \div width
           /\ width < Last(Steps) => Len(points) <= Budget + 1
=============================================================================
