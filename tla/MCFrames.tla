------------------------------ MODULE MCFrames ------------------------------
(***************************************************************************)
(* What the frames of the window draw from, each a scene of its own while   *)
(* the others rest: ShutdownTimer on a short clock; JobQueue, which runs    *)
(* its probes, on a few jobs of two kinds; TweakPage with two toggles, of   *)
(* which the second needs rights and the first sets a value of the second,  *)
(* which it does not set back; and MonitorPage, on a scale where a minute   *)
(* is two seconds, an hour two minutes, and three points fit the plot.      *)
(***************************************************************************)
EXTENDS TweakPage, TimerScene, JobScene, Integers

CONSTANTS
    Scenes, \* of "timer", "jobs", "toggles", "monitor"
    Hour, Minute, Ranges, Near, Ahead, PlotSpan, SystemRows, CpuRows, SparkSpan,
    SparkRows, Refresh, Cores, Budget, Steps, Pans, Histories, Habits,
    MonitorMargin, MonitorStart, MaxTime, MaxKey, MaxInputs

VARIABLES scene, now, db, live, key, svc, st, drawn, inputs, habit

M == INSTANCE MonitorPage WITH Margin <- MonitorMargin, Start <- MonitorStart

ASSUME MonitorPageAssumption == M!ConstAssumption

MCSystemRows == [base |-> 1, least |-> 2, most |-> 6]
MCCpuRows == [base |-> 0, least |-> 2, most |-> 6]
MCSteps == <<1, 2, 4, 8>>
MCPans == {-1}
MCHistories == {{1, 4}, {1, 2, 3, 4}}
MCHabits == {{"tile", "drag", "close"}, {"tile", "range", "zoom"}, {"service", "tile"}}

MCAny == {1}
MCAdmin == {2}
MCValues == {"own", "shared"}
MCOnWrites == <<<<"own", "shared">>, <<"shared">>>>
MCOffWrites == <<<<"own">>, <<"shared">>>>
MCReads == <<{"own", "shared"}, {"shared"}>>

-----------------------------------------------------------------------------
timer == <<os, armedBy, power, program, active, ends, verifying, lastVerify, snapshot, ui,
           delay, job, aborts>>
monitor == <<now, db, live, key, svc, st, drawn, inputs, habit>>
frames == <<scene, timer, jobQueue, vars, monitor>>

InTimer(A) == scene = "timer" /\ A /\ UNCHANGED <<scene, jobQueue, vars, monitor>>
InQueue(A) == scene = "jobs" /\ A /\ UNCHANGED <<scene, timer, vars, monitor>>
InToggles(A) == scene = "toggles" /\ A /\ UNCHANGED <<scene, timer, jobQueue, monitor>>
InMonitor(A) == scene = "monitor" /\ A /\ UNCHANGED <<scene, timer, jobQueue, vars>>

\* What rests does so in one of its initial states.
FramesInit ==
    /\ scene \in Scenes
    /\ T!Init /\ J!Init /\ Init /\ M!Init
    /\ scene # "timer" => delay = CHOOSE d \in Delays : TRUE
    /\ scene # "toggles" => ~elevated /\ \A v \in Values : ~store[v]
    /\ scene # "monitor" =>
         ~svc /\ db = (CHOOSE h \in Histories : TRUE) /\ habit = (CHOOSE h \in Habits : TRUE)

FramesNext == InTimer(T!Next) \/ InQueue(J!Next) \/ InToggles(Next) \/ InMonitor(M!Next)

FramesSpec == FramesInit /\ [][FramesNext]_frames

\* The fairness of the parts, as ShutdownTimer, JobQueue and TweakPage state it.  The
\* scene never changes, so that weak fairness of a disjunction over scenes is that of
\* the disjunct of the scene.
FairFramesSpec ==
    /\ FramesSpec
    /\ WF_frames(InTimer(T!DrawSat) \/ InToggles(ProbeThread) \/ InQueue(J!WorkerLoop))
    /\ WF_frames(InTimer(T!StartShutdown) \/ InToggles(Draw))
    /\ WF_frames(InTimer(T!Worker) \/ InToggles(Tick))

-----------------------------------------------------------------------------
\* Nor does one that is closed in the middle of a probe.
NothingLeftBehind == T!NothingLeftBehind

\* A countdown whose shutdown was aborted elsewhere does not go on.
CountdownStops == T!CountdownStops

\* Once no more jobs are enqueued, all that were have run in the end.
EveryJobRuns == J!EveryJobRuns

\* The types of the Monitor page; each of its caches of system samples is in
\* time order and holds no sample twice.
MonitorTypeOK == M!TypeOK

\* A frame of the Monitor page without an input draws every stored sample of the
\* part of the axis it shows, as far as the limits of the queries go.
ChartIsComplete == M!ChartIsComplete

\* A drawn point averages samples of one wall-clock bucket, no bucket has two
\* points, and they are in time order.
PointsAreBuckets == M!PointsAreBuckets
=============================================================================
