----------------------------- MODULE MetricsTray -----------------------------
(***************************************************************************)
(* The tray icon of the metrics service (platform/MetricsTray.cpp): a      *)
(* process of its own, --metrics-tray, which the service launches in the    *)
(* session of the user at the console, and the window in its own.          *)
(*                                                                         *)
(* Processes find each other's windows only within their session; the      *)
(* service lives in session Zero, which has no taskbar, and so launches a   *)
(* process at every check of the tray's health.  A mutex that all sessions  *)
(* share lets only one of them stay.  A user clicks only in the session at  *)
(* the console.  The icon that the window has while no service runs is left *)
(* out, and so are the menus except for what they do to the service, the    *)
(* tray and the window.                                                    *)
(***************************************************************************)
EXTENDS FiniteSets

CONSTANTS
    Procs,    \* bound: the processes there can be at a time
    Sessions, \* of users
    Home,     \* the session the window is opened in
    Zero,     \* the session of the service
    Nobody    \* no user is at the console

ASSUME ConstAssumption ==
    /\ Home \in Sessions
    /\ Zero \notin Sessions /\ Nobody \notin Sessions

VARIABLES
    svc,     \* the service; "begun" runs, but has not launched a tray
    console, \* the session of WTSGetActiveConsoleSessionId
    taskbar, \* the sessions whose taskbar is there
    at,      \* how far RunStandalone has come in each process
    in,      \* its session
    icon,    \* the processes whose icon is in a taskbar
    posted,  \* the messages posted to its window
    stopped, \* svcStoppedSinceTick: "no" for 0, "long" after kStandaloneLingerMs
    gui,     \* how far the window has come
    enabled  \* metricsServiceEnabled

tray == <<at, in, icon, posted, stopped>>
vars == <<svc, console, taskbar, tray, gui, enabled>>

Init ==
    /\ svc \in {"absent", "stopped", "begun"}
    /\ console = Nobody /\ taskbar = {}
    /\ at = [p \in Procs |-> "none"]
    /\ in = [p \in Procs |-> Zero]
    /\ icon = {}
    /\ posted = [p \in Procs |-> {}]
    /\ stopped = [p \in Procs |-> "no"]
    /\ gui = "none" /\ enabled \in BOOLEAN

IsRunning == svc \in {"begun", "running"}

-----------------------------------------------------------------------------
(* Launching and finding a tray *)

\* LaunchTrayProcess in session s.
LaunchTrayProcess(s) ==
    \E p \in Procs :
        /\ at[p] = "none"
        /\ at' = [at EXCEPT ![p] = "launched"]
        /\ in' = [in EXCEPT ![p] = s]
        /\ UNCHANGED <<icon, posted, stopped>>

\* From CreateMutexW until the process ends it holds the mutex.
Holds(p) == at[p] \in {"owner", "window", "up", "closing"}
HasWindow(p) == at[p] \in {"window", "up"}

\* FindTrayWindow in session s.
TrayWindows(s) == {p \in Procs : HasWindow(p) /\ in[p] = s}

\* LaunchInUserSession of the service, unless it finds a tray in its own session:
\* in the console's session, or in its own when nobody is there or when Windows
\* refuses the user's token or the process.
LaunchInUserSession(user) ==
    IF TrayWindows(Zero) # {} THEN UNCHANGED tray
    ELSE \/ user # Nobody /\ LaunchTrayProcess(user)
         \/ LaunchTrayProcess(Zero)

\* EnsureStandaloneTray of the window, whose token lets it launch only at home,
\* when the service runs or not.
EnsureStandaloneTray(running) ==
    IF TrayWindows(Home) # {} \/ ~running
    THEN UNCHANGED tray
    ELSE LaunchTrayProcess(Home)

\* WM_CLOSE to the tray in session s, if there is one.
PostClose(s) ==
    /\ posted' = [p \in Procs |-> IF p \in TrayWindows(s) THEN posted[p] \cup {"close"}
                                  ELSE posted[p]]
    /\ UNCHANGED <<at, in, icon, stopped>>

-----------------------------------------------------------------------------
(* RunStandalone *)

Goto(p, where) == at' = [at EXCEPT ![p] = where]

WindowFound(p) == TrayWindows(in[p]) # {}
\* CreateMutexW does not create it, or may not open it.
AlreadyExists(p) == \E q \in Procs : Holds(q)

CreateMutex(p) ==
    /\ at[p] = "launched"
    /\ Goto(p, IF AlreadyExists(p) THEN "none" ELSE "owner")
    /\ UNCHANGED <<svc, console, taskbar, in, icon, posted, stopped, gui, enabled>>

CreateWindow(p) ==
    /\ at[p] = "owner"
    /\ Goto(p, "window")
    /\ UNCHANGED <<svc, console, taskbar, in, icon, posted, stopped, gui, enabled>>

\* The process ends, and with it its window, its icon and its mutex.
Ends(p) ==
    /\ Goto(p, "none")
    /\ icon' = icon \ {p}
    /\ posted' = [posted EXCEPT ![p] = {}]
    /\ stopped' = [stopped EXCEPT ![p] = "no"]
    /\ UNCHANGED in

StaysWithoutIcon(p) ==
    /\ Goto(p, "up")
    /\ UNCHANGED <<icon, in, posted, stopped>>

\* The return 1 of RunStandalone when there is no taskbar to add the icon to.
GivesUp(p) == Ends(p)

\* When CreateTrayIcon starts the time to linger.
LingersFromNow(p) == IF IsRunning THEN UNCHANGED stopped
                     ELSE stopped' = [stopped EXCEPT ![p] = "since"]

CreateTrayIcon(p) ==
    /\ at[p] = "window"
    /\ \/ /\ in[p] \in taskbar
          /\ icon' = icon \cup {p}
          /\ LingersFromNow(p)
          /\ Goto(p, "up")
          /\ UNCHANGED <<in, posted>>
       \/ /\ in[p] \notin taskbar
          /\ GivesUp(p)
    /\ UNCHANGED <<svc, console, taskbar, gui, enabled>>

\* The taskbar has come back.
RecreateTrayIcon(p) ==
    /\ at[p] = "up" /\ "taskbar" \in posted[p]
    /\ icon' = IF in[p] \in taskbar THEN icon \cup {p} ELSE icon \ {p}
    /\ LingersFromNow(p)
    /\ posted' = [posted EXCEPT ![p] = @ \ {"taskbar"}]
    /\ UNCHANGED <<svc, console, taskbar, at, in, gui, enabled>>

CloseItself(p) ==
    /\ posted' = [posted EXCEPT ![p] = @ \cup {"close"}]
    /\ UNCHANGED stopped

StartAgain(p) ==
    /\ stopped' = [stopped EXCEPT ![p] = "since"]
    /\ UNCHANGED posted

\* What a stopped service means for the tray in OnRefreshTimer.
LingerOver(p) == IF stopped[p] = "long" THEN CloseItself(p) ELSE UNCHANGED <<posted, stopped>>
Linger(p) == IF stopped[p] = "no" THEN StartAgain(p) ELSE LingerOver(p)

OnRefreshTimer(p) ==
    /\ at[p] = "up"
    /\ \/ /\ IsRunning
          /\ stopped' = [stopped EXCEPT ![p] = "no"]
          /\ UNCHANGED posted
       \/ svc = "absent" /\ CloseItself(p)
       \/ svc = "stopped" /\ Linger(p)
    /\ UNCHANGED <<svc, console, taskbar, at, in, icon, gui, enabled>>

\* kStandaloneLingerMs go by.
LingerPasses(p) ==
    /\ stopped[p] = "since"
    /\ stopped' = [stopped EXCEPT ![p] = "long"]
    /\ UNCHANGED <<svc, console, taskbar, at, in, icon, posted, gui, enabled>>

DestroyTrayIcon(p) == icon' = icon \ {p}

\* WM_CLOSE destroys the window; the message loop ends.
OnClose(p) ==
    /\ at[p] = "up" /\ "close" \in posted[p]
    /\ DestroyTrayIcon(p)
    /\ posted' = [posted EXCEPT ![p] = {}]
    /\ Goto(p, "closing")
    /\ UNCHANGED <<svc, console, taskbar, in, stopped, gui, enabled>>

\* The database and the mutex are closed.
Return(p) ==
    /\ at[p] = "closing"
    /\ Ends(p)
    /\ UNCHANGED <<svc, console, taskbar, gui, enabled>>

-----------------------------------------------------------------------------
(* The tray's menu *)

CanClick(p) == p \in icon /\ in[p] = console

\* The window of the user is asked to quit, the tray to close.
QuitApplication(p) ==
    /\ CanClick(p)
    /\ PostClose(in[p])
    /\ gui' = IF in[p] = Home /\ gui # "none" THEN "quit" ELSE gui
    /\ UNCHANGED <<svc, console, taskbar, enabled>>

StartFromTray(p) ==
    /\ CanClick(p) /\ svc = "stopped"
    /\ svc' = "begun"
    /\ stopped' = [stopped EXCEPT ![p] = "no"]
    /\ UNCHANGED <<console, taskbar, at, in, icon, posted, gui, enabled>>

StopFromTray(p) ==
    /\ CanClick(p) /\ IsRunning
    /\ svc' = "stopped"
    /\ stopped' = [stopped EXCEPT ![p] = "since"]
    /\ UNCHANGED <<console, taskbar, at, in, icon, posted, gui, enabled>>

-----------------------------------------------------------------------------
(* The service *)

\* ServiceMain when it runs.
LaunchFirst ==
    /\ svc = "begun"
    /\ svc' = "running"
    /\ LaunchInUserSession(console)
    /\ UNCHANGED <<console, taskbar, gui, enabled>>

\* The check of the tray's health, which sees no windows of other sessions.
HealthCheck ==
    /\ svc = "running"
    /\ LaunchInUserSession(console)
    /\ UNCHANGED <<svc, console, taskbar, gui, enabled>>

\* The service manager and the command line: installing, starting, stopping, killing
\* and removing the service.
ControlElsewhere ==
    /\ \/ svc # "absent" /\ svc' = "absent"
       \/ svc = "absent" /\ svc' = "stopped"
       \/ svc = "stopped" /\ svc' = "begun"
       \/ IsRunning /\ svc' = "stopped"
    /\ UNCHANGED <<console, taskbar, tray, gui, enabled>>

-----------------------------------------------------------------------------
(* The window *)

Open ==
    /\ gui = "none" /\ console = Home
    /\ gui' = "init"
    /\ UNCHANGED <<svc, console, taskbar, tray, enabled>>

\* Application::Init leaves the icon to the tray, or closes the tray to show its own.
InitTray ==
    /\ gui = "init"
    /\ gui' = "service"
    /\ IF enabled /\ IsRunning THEN UNCHANGED tray ELSE PostClose(Home)
    /\ UNCHANGED <<svc, console, taskbar, enabled>>

\* Start, EnsureAutostartAndRunning and Stop, which may lack the rights.
StartService == svc' = IF IsRunning THEN svc ELSE "begun"
TryToStart == StartService \/ UNCHANGED svc
StopService == svc' = IF IsRunning THEN "stopped" ELSE svc
TryToStop == StopService \/ UNCHANGED svc
RunningNext == svc' \in {"begun", "running"}

InitService ==
    /\ gui = "service"
    /\ gui' = "open"
    /\ IF enabled THEN TryToStart ELSE UNCHANGED svc
    /\ UNCHANGED <<console, taskbar, tray, enabled>>

\* The close button: TryHideToMetricsTray makes sure of the tray first.
Close ==
    /\ gui = "open" /\ console = Home
    /\ gui' = "none"
    /\ EnsureStandaloneTray(enabled /\ IsRunning)
    /\ UNCHANGED <<svc, console, taskbar, enabled>>

\* kMsgForceQuitMain closes it without, once it handles messages.
ForceQuit ==
    /\ gui = "quit"
    /\ gui' = "none"
    /\ UNCHANGED <<svc, console, taskbar, tray, enabled>>

\* The check box of the Monitor page.
EnableService ==
    /\ gui = "open" /\ console = Home /\ ~enabled
    /\ enabled' = TRUE
    /\ TryToStart
    /\ EnsureStandaloneTray(RunningNext)
    /\ UNCHANGED <<console, taskbar, gui>>

DisableService ==
    /\ gui = "open" /\ console = Home /\ enabled
    /\ enabled' = FALSE
    /\ TryToStop
    /\ UNCHANGED <<console, taskbar, tray, gui>>

\* Its start button; a window that the tray has not opened adopts the tray only if
\* the service is enabled.
StartButton ==
    /\ gui = "open" /\ console = Home /\ svc = "stopped"
    /\ TryToStart
    /\ \E foreground \in BOOLEAN :
         EnsureStandaloneTray(RunningNext /\ (foreground \/ enabled))
    /\ UNCHANGED <<console, taskbar, gui, enabled>>

-----------------------------------------------------------------------------
(* Windows *)

\* A user logs on at the console, or comes back to it: the service is told.
LogOn(s) ==
    /\ console # s
    /\ console' = s
    /\ IF IsRunning THEN LaunchInUserSession(s) ELSE UNCHANGED tray
    /\ UNCHANGED <<svc, taskbar, gui, enabled>>

\* Logging off ends the processes of the session.
LogOff(s) ==
    LET gone == {p \in Procs : in[p] = s}
    IN  /\ console = s
        /\ console' = Nobody
        /\ taskbar' = taskbar \ {s}
        /\ at' = [p \in Procs |-> IF p \in gone THEN "none" ELSE at[p]]
        /\ posted' = [p \in Procs |-> IF p \in gone THEN {} ELSE posted[p]]
        /\ stopped' = [p \in Procs |-> IF p \in gone THEN "no" ELSE stopped[p]]
        /\ icon' = icon \ gone
        /\ gui' = IF s = Home THEN "none" ELSE gui
        /\ UNCHANGED <<svc, in, enabled>>

\* Explorer ends, with all icons in its taskbar.
TaskbarGoes(s) ==
    /\ s \in taskbar
    /\ taskbar' = taskbar \ {s}
    /\ icon' = {p \in icon : in[p] # s}
    /\ UNCHANGED <<svc, console, at, in, posted, stopped, gui, enabled>>

\* Explorer starts, and tells all windows of its session.
TaskbarComes(s) ==
    /\ s = console /\ s \notin taskbar
    /\ taskbar' = taskbar \cup {s}
    /\ posted' = [p \in Procs |-> IF p \in TrayWindows(s) THEN posted[p] \cup {"taskbar"}
                                  ELSE posted[p]]
    /\ UNCHANGED <<svc, console, at, in, icon, stopped, gui, enabled>>

-----------------------------------------------------------------------------
RunStandalone(p) ==
    \/ CreateMutex(p) \/ CreateWindow(p) \/ CreateTrayIcon(p)
    \/ RecreateTrayIcon(p) \/ OnRefreshTimer(p) \/ OnClose(p) \/ Return(p)

Menu(p) == QuitApplication(p) \/ StartFromTray(p) \/ StopFromTray(p)

Next ==
    \/ \E p \in Procs : RunStandalone(p) \/ LingerPasses(p) \/ Menu(p)
    \/ LaunchFirst \/ HealthCheck \/ ControlElsewhere
    \/ Open \/ InitTray \/ InitService \/ Close \/ ForceQuit
    \/ EnableService \/ DisableService \/ StartButton
    \/ \E s \in Sessions : LogOn(s) \/ LogOff(s) \/ TaskbarGoes(s) \/ TaskbarComes(s)

Spec == Init /\ [][Next]_vars

\* Processes run and time passes; the service checks the tray every 30 seconds.
Fairness ==
    /\ \A p \in Procs :
         /\ WF_vars(CreateMutex(p)) /\ WF_vars(CreateWindow(p)) /\ WF_vars(CreateTrayIcon(p))
         /\ WF_vars(RecreateTrayIcon(p)) /\ WF_vars(OnRefreshTimer(p))
         /\ WF_vars(OnClose(p)) /\ WF_vars(Return(p))
         /\ WF_vars(LingerPasses(p))
    /\ WF_vars(LaunchFirst) /\ WF_vars(HealthCheck)

FairSpec == Spec /\ Fairness

-----------------------------------------------------------------------------
TypeOK ==
    /\ svc \in {"absent", "stopped", "begun", "running"}
    /\ console \in Sessions \cup {Nobody}
    /\ taskbar \subseteq Sessions
    /\ at \in [Procs -> {"none", "launched", "owner", "window", "up", "closing"}]
    /\ in \in [Procs -> Sessions \cup {Zero}]
    /\ icon \subseteq {p \in Procs : at[p] = "up" /\ in[p] \in taskbar}
    /\ posted \in [Procs -> SUBSET {"close", "taskbar"}]
    /\ stopped \in [Procs -> {"no", "since", "long"}]
    /\ gui \in {"none", "init", "service", "open", "quit"}
    /\ enabled \in BOOLEAN

\* However many trays the service, the window and a change of sessions launch at the
\* same time, one process after the other is the tray: it takes the mutex when no
\* other holds it, and its icon and its window are gone when it gives the mutex up.
Tray == INSTANCE SingleTray WITH
            holders <- {p \in Procs : Holds(p)},
            windows <- {p \in Procs : HasWindow(p)},
            icons <- icon
ImplementsSingleTray == Tray!Spec

\* There is one window and one icon of a tray at most.
OneTray == \A p, q \in Procs : HasWindow(p) /\ (HasWindow(q) \/ q \in icon) => p = q

\* The service launches a tray in its own session, where it cannot stay.
LaunchInZero ==
    \E p \in Procs : at[p] = "none" /\ at'[p] = "launched" /\ in'[p] = Zero

\* As long as the service runs and a user with a taskbar sits at the console, and
\* launching in the user's session does not fail for ever, a tray comes back
\* whatever has closed it, with an icon in the taskbar if it is the user's own: it
\* is the user's, unless that of another session keeps it from starting.
TrayComesBack ==
    \A s \in Sessions :
        <>[](IsRunning /\ console = s /\ s \in taskbar) /\ <>[][~LaunchInZero]_vars
            => []<>(\E p \in Procs : at[p] = "up" /\ in[p] \in Sessions
                                       /\ (in[p] = s => p \in icon))

\* When the service is gone for good and the taskbars stay, so is the tray in the end.
TrayGoes ==
    <>[]~IsRunning /\ <>[][UNCHANGED taskbar]_vars
        => <>[](\A p \in Procs : at[p] = "none")
=============================================================================
