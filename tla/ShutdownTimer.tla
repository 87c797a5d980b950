--------------------------- MODULE ShutdownTimer ----------------------------
(***************************************************************************)
(* The shutdown timer page (ui/Pages.cpp, DrawSat): the UI thread arms and *)
(* aborts the delayed shutdown of Windows with shutdown.exe, and a job on  *)
(* the worker thread of core/JobQueue.cpp probes whether the shutdown is   *)
(* still scheduled by trying to arm another one.                           *)
(*                                                                         *)
(* Windows holds at most one delayed shutdown: "-s -t N" fails while one   *)
(* is scheduled, "-a" removes it, whoever scheduled it.  Each run of       *)
(* shutdown.exe is one step, so the two threads interleave between runs.   *)
(* The job waits behind whatever else is queued, so between being queued   *)
(* and being run it is simply delayed for any time.  Moments in time are   *)
(* kept as the ticks that remain until, or have passed since, them, so     *)
(* that the clock needs no bound.  The page is on screen.                  *)
(***************************************************************************)
EXTENDS Integers

CONSTANTS
    Delays,      \* what the user can set the timer to
    Margin,      \* "half a minute": no probe with less than this to go
    VerifyEvery, \* least time between two probes
    External,    \* bound: how often another tool aborts the shutdown
    None         \* no shutdown scheduled

ConstAssumption ==
    /\ Delays \subseteq Nat \ {0}
    /\ Margin \in Nat /\ VerifyEvery \in Nat /\ External \in Nat
    /\ None \notin Int

VARIABLES
    os,         \* time to the shutdown Windows has scheduled, or None
    armedBy,    \* history: who scheduled it: "user" (a button) or "probe"
    power,      \* "on" until the shutdown happens
    program,    \* "running" until the program is closed
    active,     \* shutdownActive: the page shows a countdown
    ends,       \* time to shutdownEnds, 0 once it has passed
    verifying,  \* a probe is queued or running
    lastVerify, \* time since the last probe was queued (up to one tick too many)
    snapshot,   \* the remaining time captured by the queued job
    ui,         \* "idle", or "arm": between -a and -s of startShutdown
    delay,      \* the delay being armed
    job,        \* where the verify job is
    aborts      \* external aborts so far

vars == <<os, armedBy, power, program, active, ends, verifying, lastVerify,
          snapshot, ui, delay, job, aborts>>

JobStages == {"none", "queued", "undo", "report"}

Alive == power = "on" /\ program = "running"

Init ==
    /\ os = None /\ armedBy = "user"
    /\ power = "on" /\ program = "running"
    /\ active = FALSE /\ ends = 0
    /\ verifying = FALSE /\ lastVerify = VerifyEvery + 1 /\ snapshot = 0
    /\ ui = "idle" /\ delay \in Delays
    /\ job = "none"
    /\ aborts = 0

-----------------------------------------------------------------------------
(* shutdown.exe *)

Arm(d, who) == os' = d /\ armedBy' = who
Abort == os' = None /\ UNCHANGED armedBy

\* A moment in the future comes one tick nearer.
Nearer(t) == IF t > 0 THEN t - 1 ELSE 0

-----------------------------------------------------------------------------
(* The UI thread *)

\* A frame: the countdown ends at its deadline, and while it runs a probe is
\* queued every now and then with the time that remains.
DrawSat ==
    /\ Alive /\ ui = "idle"
    /\ LET running == active /\ ends > 0
           probe == running /\ ~verifying /\ lastVerify > VerifyEvery
       IN /\ active' = running
          /\ IF probe
             THEN /\ lastVerify' = 0
                  /\ verifying' = TRUE
                  /\ snapshot' = ends
                  /\ job' = "queued"
             ELSE UNCHANGED <<lastVerify, verifying, snapshot, job>>
    /\ UNCHANGED <<os, armedBy, power, program, ends, ui, delay, aborts>>

\* startShutdown, first run of shutdown.exe: clear any existing schedule.
PressStart(d) ==
    /\ Alive /\ ui = "idle"
    /\ Abort
    /\ ui' = "arm"
    /\ delay' = d
    /\ UNCHANGED <<power, program, active, ends, verifying, lastVerify,
                   snapshot, job, aborts>>

\* What the page counts down to once the shutdown is armed.
ResumeCountdown == active' = TRUE /\ ends' = (IF active THEN ends ELSE delay) /\ lastVerify' = 0
StartCountdown == active' = TRUE /\ ends' = delay /\ lastVerify' = 0

\* startShutdown, second run: on failure it returns with nothing changed.
StartShutdown ==
    /\ Alive /\ ui = "arm"
    /\ ui' = "idle"
    /\ \/ /\ os = None
          /\ Arm(delay, "user")
          /\ StartCountdown
       \/ /\ os # None
          /\ UNCHANGED <<os, armedBy, ends, active, lastVerify>>
    /\ UNCHANGED <<power, program, verifying, snapshot, delay, job, aborts>>

PressCancel ==
    /\ Alive /\ ui = "idle"
    /\ Abort
    /\ active' = FALSE
    /\ UNCHANGED <<power, program, ends, verifying, lastVerify, snapshot,
                   ui, delay, job, aborts>>

-----------------------------------------------------------------------------
(* The worker thread: ShutdownStillScheduled and the job around it *)

\* Too close to the deadline, or arming fails: still scheduled.
FindScheduled ==
    /\ Alive /\ job = "queued"
    /\ snapshot <= Margin \/ os # None
    /\ job' = "none"
    /\ verifying' = FALSE
    /\ UNCHANGED <<os, armedBy, power, program, active, ends, lastVerify,
                   snapshot, ui, delay, aborts>>

\* Arming succeeds: there was no shutdown, but now there is.
ArmProbe ==
    /\ Alive /\ job = "queued"
    /\ snapshot > Margin /\ os = None
    /\ Arm(snapshot, "probe")
    /\ job' = "undo"
    /\ UNCHANGED <<power, program, active, ends, verifying, lastVerify,
                   snapshot, ui, delay, aborts>>

UndoForgotten ==
    /\ Alive /\ job = "undo"
    /\ job' = "report"
    /\ UNCHANGED <<os, armedBy, power, program, active, ends, verifying,
                   lastVerify, snapshot, ui, delay, aborts>>

UndoProbe ==
    /\ Alive /\ job = "undo"
    /\ Abort
    /\ job' = "report"
    /\ UNCHANGED <<power, program, active, ends, verifying, lastVerify,
                   snapshot, ui, delay, aborts>>

ReportKeptQuiet ==
    /\ Alive /\ job = "report"
    /\ verifying' = FALSE
    /\ job' = "none"
    /\ UNCHANGED <<os, armedBy, power, program, active, ends, lastVerify,
                   snapshot, ui, delay, aborts>>

ReportGone ==
    /\ Alive /\ job = "report"
    /\ active' = FALSE
    /\ verifying' = FALSE
    /\ job' = "none"
    /\ UNCHANGED <<os, armedBy, power, program, ends, lastVerify, snapshot,
                   ui, delay, aborts>>

-----------------------------------------------------------------------------
(* The environment *)

Tick ==
    /\ power = "on" /\ os # 0
    /\ os' = IF os = None THEN None ELSE os - 1
    /\ ends' = Nearer(ends)
    /\ lastVerify' = IF lastVerify > VerifyEvery THEN lastVerify ELSE lastVerify + 1
    /\ UNCHANGED <<armedBy, power, program, active, verifying, snapshot, ui,
                   delay, job, aborts>>

ShutDown ==
    /\ power = "on" /\ os = 0
    /\ power' = "off"
    /\ UNCHANGED <<os, armedBy, program, active, ends, verifying,
                   lastVerify, snapshot, ui, delay, job, aborts>>

\* A terminal, the task scheduler or another tool runs shutdown -a.
AbortElsewhere ==
    /\ power = "on" /\ aborts < External
    /\ Abort
    /\ aborts' = aborts + 1
    /\ UNCHANGED <<power, program, active, ends, verifying, lastVerify,
                   snapshot, ui, delay, job>>

\* ~JobQueue does not wait for the worker: its job ends wherever it is.
Quit ==
    /\ Alive /\ ui = "idle"
    /\ program' = "closed"
    /\ job' = "none"
    /\ UNCHANGED <<os, armedBy, power, active, ends, verifying, lastVerify,
                   snapshot, ui, delay, aborts>>

-----------------------------------------------------------------------------
UiThread == DrawSat \/ StartShutdown
Worker == FindScheduled \/ ArmProbe \/ UndoProbe \/ ReportGone
User == PressCancel \/ Quit \/ \E d \in Delays : PressStart(d)

Next == UiThread \/ Worker \/ User \/ Tick \/ ShutDown \/ AbortElsewhere

Spec == Init /\ [][Next]_vars

\* The UI redraws and the worker works.  Users need not do anything, and time
\* need not pass: the countdown must not be stopped by its own deadline only.
Fairness ==
    /\ WF_vars(DrawSat) /\ WF_vars(StartShutdown)
    /\ WF_vars(Worker)

FairSpec == Spec /\ Fairness

-----------------------------------------------------------------------------
(* Properties *)

TypeOK ==
    /\ os \in Nat \cup {None}
    /\ armedBy \in {"user", "probe"}
    /\ power \in {"on", "off"}
    /\ program \in {"running", "closed"}
    /\ active \in BOOLEAN
    /\ ends \in Nat
    /\ verifying \in BOOLEAN
    /\ lastVerify \in 0..VerifyEvery + 1
    /\ snapshot \in Nat
    /\ ui \in {"idle", "arm"}
    /\ delay \in Delays
    /\ job \in JobStages
    /\ aborts \in 0..External

\* "which used to leave the UI counting down a timer that was never actually
\* changed" (startShutdown): while a shutdown the user asked for is scheduled,
\* it happens at the moment the last countdown was set to.
CountdownIsTheTimer == os # None /\ armedBy = "user" => ends = os

\* "we undo the accidental re-arm" (ShutdownStillScheduled): as long as the
\* program runs, no shutdown is scheduled outside the probe itself that the user
\* did not ask for.
NoStrayShutdown ==
    os # None /\ armedBy = "probe" => job = "undo" \/ program = "closed"

\* The same of a program that may be closed at any moment.
NothingLeftBehind == os # None /\ armedBy = "probe" => job = "undo"

\* "the countdown never keeps ticking against a shutdown that is no longer
\* scheduled" (DrawSat): once a probe is due, either the countdown stops, or
\* the user has started another shutdown, or it is too late for a probe.
CountdownStops ==
    (active /\ os = None /\ Alive /\ lastVerify > VerifyEvery)
        ~> (~active \/ (os # None /\ armedBy = "user") \/ ~Alive \/ ends <= Margin)

\* One probe at a time; with this NoStrayShutdown is inductive.
OneProbe == program = "running" => (verifying <=> job # "none")
=============================================================================
