-------------------------- MODULE MetricsTrayProofs --------------------------
(***************************************************************************)
(* There is one tray at most, for any number of processes and sessions, and *)
(* MetricsTray implements SingleTray.                                       *)
(***************************************************************************)
EXTENDS MetricsTray, TLAPS

\* The mutex has one holder, whatever session the processes run in.
OneHolder == \A p, q \in Procs : Holds(p) /\ Holds(q) => p = q

\* Launching changes a process that did not run.
LEMMA LaunchKeepsTypes ==
    ASSUME TypeOK, NEW s \in Sessions \cup {Zero}, LaunchTrayProcess(s), taskbar' = taskbar
    PROVE  /\ at' \in [Procs -> {"none", "launched", "owner", "window", "up", "closing"}]
           /\ in' \in [Procs -> Sessions \cup {Zero}]
           /\ icon' \subseteq {p \in Procs : at'[p] = "up" /\ in'[p] \in taskbar'}
           /\ posted' \in [Procs -> SUBSET {"close", "taskbar"}]
           /\ stopped' \in [Procs -> {"no", "since", "long"}]
  BY DEF TypeOK, LaunchTrayProcess

LEMMA LaunchTakesNoMutex ==
    ASSUME TypeOK, OneHolder, NEW s, LaunchTrayProcess(s)
    PROVE  OneHolder'
  BY DEF TypeOK, OneHolder, Holds, LaunchTrayProcess

\* So does everything that only may launch.
MayLaunch == UNCHANGED tray \/ \E s \in Sessions \cup {Zero} : LaunchTrayProcess(s)

TrayTyped ==
    /\ at \in [Procs -> {"none", "launched", "owner", "window", "up", "closing"}]
    /\ in \in [Procs -> Sessions \cup {Zero}]
    /\ icon \subseteq {p \in Procs : at[p] = "up" /\ in[p] \in taskbar}
    /\ posted \in [Procs -> SUBSET {"close", "taskbar"}]
    /\ stopped \in [Procs -> {"no", "since", "long"}]

LEMMA MayLaunchIsSafe ==
    ASSUME TypeOK, OneHolder, MayLaunch, taskbar' = taskbar
    PROVE  TrayTyped' /\ OneHolder'
<1>1. CASE UNCHANGED tray
  BY <1>1 DEF TypeOK, TrayTyped, OneHolder, Holds, tray
<1>2. CASE \E s \in Sessions \cup {Zero} : LaunchTrayProcess(s)
  <2>1. PICK s \in Sessions \cup {Zero} : LaunchTrayProcess(s)
    BY <1>2
  <2>2. TrayTyped'
    BY <2>1, LaunchKeepsTypes DEF TrayTyped
  <2> QED BY <2>1, <2>2, LaunchTakesNoMutex
<1> QED BY <1>1, <1>2 DEF MayLaunch

LEMMA ServiceMayLaunch ==
    ASSUME TypeOK, NEW s \in Sessions \cup {Nobody}, LaunchInUserSession(s)
    PROVE  MayLaunch
  BY ConstAssumption DEF LaunchInUserSession, MayLaunch

LEMMA WindowMayLaunch ==
    ASSUME NEW b \in BOOLEAN, EnsureStandaloneTray(b)
    PROVE  MayLaunch
  BY ConstAssumption DEF EnsureStandaloneTray, MayLaunch

\* A message disturbs neither.
LEMMA PostIsSafe ==
    ASSUME TypeOK, OneHolder, NEW s, PostClose(s), taskbar' = taskbar
    PROVE  TrayTyped' /\ OneHolder'
  BY DEF TypeOK, TrayTyped, OneHolder, Holds, PostClose

\* Neither does what leaves the processes as they are.
LEMMA StillIsSafe ==
    ASSUME TypeOK, OneHolder, UNCHANGED <<tray, taskbar>>
    PROVE  TrayTyped' /\ OneHolder'
  BY DEF TypeOK, TrayTyped, OneHolder, Holds, tray

Rest == /\ svc \in {"absent", "stopped", "begun", "running"}
        /\ console \in Sessions \cup {Nobody}
        /\ taskbar \subseteq Sessions
        /\ gui \in {"none", "init", "service", "open", "quit"}
        /\ enabled \in BOOLEAN

LEMMA Parts == TypeOK <=> Rest /\ TrayTyped
  BY DEF TypeOK, Rest, TrayTyped

LEMMA PartsPrimed == TypeOK' <=> Rest' /\ TrayTyped'
  BY DEF TypeOK, Rest, TrayTyped

-----------------------------------------------------------------------------
\* The steps of RunStandalone: only CreateMutex takes the mutex, from nobody.
LEMMA ProcessStep ==
    ASSUME TypeOK, OneHolder, NEW p \in Procs, RunStandalone(p) \/ LingerPasses(p)
    PROVE  TypeOK' /\ OneHolder'
<1> USE DEF TypeOK, OneHolder, Holds, Goto
<1>1. CASE CreateMutex(p)
  <2>1. CASE AlreadyExists(p)
    BY <1>1, <2>1 DEF CreateMutex
  <2>2. CASE ~AlreadyExists(p)
    BY <1>1, <2>2 DEF CreateMutex, AlreadyExists
  <2> QED BY <2>1, <2>2
<1>2. CASE CreateWindow(p)
  BY <1>2 DEF CreateWindow
<1>3. CASE CreateTrayIcon(p)
  BY <1>3 DEF CreateTrayIcon, LingersFromNow, GivesUp, Ends
<1>4. CASE RecreateTrayIcon(p)
  BY <1>4 DEF RecreateTrayIcon, LingersFromNow
<1>5. CASE OnRefreshTimer(p)
  BY <1>5 DEF OnRefreshTimer, CloseItself, Linger, LingerOver, StartAgain
<1>6. CASE OnClose(p)
  BY <1>6 DEF OnClose, DestroyTrayIcon
<1>7. CASE Return(p)
  BY <1>7 DEF Return, Ends
<1>8. CASE LingerPasses(p)
  BY <1>8 DEF LingerPasses
<1> QED BY <1>1, <1>2, <1>3, <1>4, <1>5, <1>6, <1>7, <1>8 DEF RunStandalone

LEMMA MenuStep ==
    ASSUME TypeOK, OneHolder, NEW p \in Procs, Menu(p)
    PROVE  TypeOK' /\ OneHolder'
<1>1. CASE QuitApplication(p)
  BY <1>1, PostIsSafe, PartsPrimed, Parts DEF QuitApplication, Rest
<1>2. CASE StartFromTray(p)
  BY <1>2 DEF StartFromTray, TypeOK, OneHolder, Holds
<1>3. CASE StopFromTray(p)
  BY <1>3 DEF StopFromTray, TypeOK, OneHolder, Holds
<1> QED BY <1>1, <1>2, <1>3 DEF Menu

LEMMA ServiceStep ==
    ASSUME TypeOK, OneHolder, LaunchFirst \/ HealthCheck \/ ControlElsewhere
    PROVE  TypeOK' /\ OneHolder'
<1> USE Parts, PartsPrimed DEF Rest
<1>1. CASE LaunchFirst
  BY <1>1, ServiceMayLaunch, MayLaunchIsSafe DEF LaunchFirst
<1>2. CASE HealthCheck
  BY <1>2, ServiceMayLaunch, MayLaunchIsSafe DEF HealthCheck
<1>3. CASE ControlElsewhere
  BY <1>3, StillIsSafe DEF ControlElsewhere
<1> QED BY <1>1, <1>2, <1>3

LEMMA WindowStep ==
    ASSUME TypeOK, OneHolder,
           \/ Open \/ InitTray \/ InitService \/ Close \/ ForceQuit
           \/ EnableService \/ DisableService \/ StartButton
    PROVE  TypeOK' /\ OneHolder'
<1> USE Parts, PartsPrimed DEF Rest, TryToStart, StartService, TryToStop, StopService
<1>1. CASE Open
  BY <1>1, StillIsSafe DEF Open
<1>2. CASE InitTray
  BY <1>2, StillIsSafe, PostIsSafe DEF InitTray
<1>3. CASE InitService
  BY <1>3, StillIsSafe DEF InitService
<1>4. CASE Close
  <2>1. (enabled /\ IsRunning) \in BOOLEAN
    BY DEF IsRunning
  <2> QED BY <1>4, <2>1, WindowMayLaunch, MayLaunchIsSafe DEF Close
<1>5. CASE ForceQuit
  BY <1>5, StillIsSafe DEF ForceQuit
<1>6. CASE EnableService
  <2>1. RunningNext \in BOOLEAN
    BY DEF RunningNext
  <2> QED BY <1>6, <2>1, WindowMayLaunch, MayLaunchIsSafe DEF EnableService
<1>7. CASE DisableService
  BY <1>7, StillIsSafe DEF DisableService
<1>8. CASE StartButton
  <2>1. PICK foreground \in BOOLEAN : EnsureStandaloneTray(RunningNext /\ (foreground \/ enabled))
    BY <1>8 DEF StartButton
  <2>2. (RunningNext /\ (foreground \/ enabled)) \in BOOLEAN
    BY DEF RunningNext
  <2> QED BY <1>8, <2>1, <2>2, WindowMayLaunch, MayLaunchIsSafe DEF StartButton
<1> QED BY <1>1, <1>2, <1>3, <1>4, <1>5, <1>6, <1>7, <1>8

LEMMA SessionStep ==
    ASSUME TypeOK, OneHolder, NEW s \in Sessions,
           LogOn(s) \/ LogOff(s) \/ TaskbarGoes(s) \/ TaskbarComes(s)
    PROVE  TypeOK' /\ OneHolder'
<1>1. CASE LogOn(s)
  BY <1>1, ServiceMayLaunch, MayLaunchIsSafe, StillIsSafe, Parts, PartsPrimed DEF LogOn, Rest
<1>2. CASE LogOff(s)
  BY <1>2 DEF LogOff, TypeOK, OneHolder, Holds
<1>3. CASE TaskbarGoes(s)
  BY <1>3 DEF TaskbarGoes, TypeOK, OneHolder, Holds
<1>4. CASE TaskbarComes(s)
  BY <1>4 DEF TaskbarComes, TypeOK, OneHolder, Holds
<1> QED BY <1>1, <1>2, <1>3, <1>4

LEMMA Inductive == TypeOK /\ OneHolder /\ [Next]_vars => TypeOK' /\ OneHolder'
<1> SUFFICES ASSUME TypeOK, OneHolder, [Next]_vars PROVE TypeOK' /\ OneHolder'
  OBVIOUS
<1>1. CASE UNCHANGED vars
  BY <1>1, StillIsSafe, Parts, PartsPrimed DEF vars, Rest
<1>2. CASE Next
  BY <1>2, ProcessStep, MenuStep, ServiceStep, WindowStep, SessionStep DEF Next
<1> QED BY <1>1, <1>2

LEMMA Initially == Init => TypeOK /\ OneHolder
  BY DEF Init, TypeOK, OneHolder, Holds

\* The type invariant of the tray, for any number of processes and sessions: an icon is
\* only ever in a taskbar that is there.
THEOREM TypeCorrect == Spec => []TypeOK
  BY Initially, Inductive, PTL DEF Spec

\* However many processes the service, the window and the sessions launch, one window and
\* one icon at most are there: its process holds the mutex of RunStandalone.
THEOREM OnlyOneTray == Spec => []OneTray
<1>1. TypeOK /\ OneHolder => OneTray
  BY DEF TypeOK, OneHolder, Holds, OneTray, HasWindow
<1> QED BY <1>1, Initially, Inductive, PTL DEF Spec

-----------------------------------------------------------------------------
(* MetricsTray implements SingleTray *)

\* A step that changes no icon and neither whether a process holds the mutex nor
\* whether it has a window is invisible.
LEMMA Invisible ==
    ASSUME icon' = icon,
           \A p \in Procs : (Holds(p)' <=> Holds(p)) /\ (HasWindow(p)' <=> HasWindow(p))
    PROVE  UNCHANGED Tray!vars
<1>1. {p \in Procs : Holds(p)}' = {p \in Procs : Holds(p)}
  OBVIOUS
<1>2. {p \in Procs : HasWindow(p)}' = {p \in Procs : HasWindow(p)}
  OBVIOUS
<1> QED BY <1>1, <1>2 DEF Tray!vars

LEMMA LaunchIsInvisible ==
    ASSUME TypeOK, MayLaunch
    PROVE  UNCHANGED Tray!vars
<1>1. CASE UNCHANGED tray
  BY <1>1, Invisible DEF tray, Holds, HasWindow
<1>2. CASE \E s \in Sessions \cup {Zero} : LaunchTrayProcess(s)
  <2>1. PICK s \in Sessions \cup {Zero} : LaunchTrayProcess(s)
    BY <1>2
  <2>2. \A p \in Procs : (Holds(p)' <=> Holds(p)) /\ (HasWindow(p)' <=> HasWindow(p))
    BY <2>1 DEF LaunchTrayProcess, TypeOK, Holds, HasWindow
  <2> QED BY <2>1, <2>2, Invisible DEF LaunchTrayProcess
<1> QED BY <1>1, <1>2 DEF MayLaunch

\* What one process holds, no other has.
LEMMA Sole ==
    ASSUME TypeOK, OneHolder, NEW p \in Procs, Holds(p)
    PROVE  /\ {q \in Procs : Holds(q)} = {p}
           /\ HasWindow(p) => {q \in Procs : HasWindow(q)} = {p}
           /\ ~HasWindow(p) => {q \in Procs : HasWindow(q)} = {} /\ icon = {}
           /\ icon = {} \/ icon = {p}
<1>1. \A q \in Procs : HasWindow(q) => Holds(q)
  BY DEF HasWindow, Holds
<1>2. \A q \in icon : q \in Procs /\ HasWindow(q)
  BY DEF TypeOK, HasWindow
<1>3. \A q \in Procs : Holds(q) => q = p
  BY DEF OneHolder
<1> HIDE DEF TypeOK
<1> QED BY <1>1, <1>2, <1>3

LEMMA SolePrimed ==
    ASSUME TypeOK', OneHolder', NEW p \in Procs, Holds(p)'
    PROVE  /\ {q \in Procs : Holds(q)}' = {p}
           /\ HasWindow(p)' => {q \in Procs : HasWindow(q)}' = {p}
           /\ ~HasWindow(p)' => {q \in Procs : HasWindow(q)}' = {} /\ icon' = {}
<1>1. \A q \in Procs : HasWindow(q)' => Holds(q)'
  BY DEF HasWindow, Holds
<1>2. \A q \in icon' : q \in Procs /\ HasWindow(q)'
  BY DEF TypeOK, HasWindow
<1>3. \A q \in Procs : Holds(q)' => q = p
  BY DEF OneHolder
<1> HIDE DEF TypeOK
<1> QED BY <1>1, <1>2, <1>3

LEMMA ProcessImplements ==
    ASSUME TypeOK, OneHolder, NEW p \in Procs, RunStandalone(p) \/ LingerPasses(p)
    PROVE  [Tray!Next]_Tray!vars
<1> DEFINE holders == {q \in Procs : Holds(q)}
           windows == {q \in Procs : HasWindow(q)}
<1>0. TypeOK' /\ OneHolder'
  BY ProcessStep
<1>1. CASE CreateMutex(p)
  <2>1. CASE AlreadyExists(p)
    BY <1>1, <2>1, Invisible DEF CreateMutex, Goto, TypeOK, Holds, HasWindow
  <2>2. CASE ~AlreadyExists(p)
    <3>1. holders = {} /\ windows = {}
      BY <2>2 DEF AlreadyExists, Holds, HasWindow
    <3>2. holders' = {p} /\ windows' = {}
      <4>1. Holds(p)' /\ ~HasWindow(p)'
        BY <1>1, <2>2 DEF CreateMutex, Goto, TypeOK, Holds, HasWindow
      <4> QED BY <4>1, <1>0, SolePrimed
    <3>3. icon' = icon
      BY <1>1 DEF CreateMutex
    <3>4. Tray!Take(p)
      BY <3>1, <3>2, <3>3 DEF Tray!Take
    <3> QED BY <3>4 DEF Tray!Next
  <2> QED BY <2>1, <2>2
<1>2. CASE CreateWindow(p)
  <2>1. Holds(p) /\ ~HasWindow(p) /\ Holds(p)' /\ HasWindow(p)' /\ icon' = icon
    BY <1>2 DEF CreateWindow, Goto, TypeOK, Holds, HasWindow
  <2>2. holders = {p} /\ windows = {}
    BY <2>1, Sole
  <2>3. holders' = {p} /\ windows' = {p}
    BY <2>1, <1>0, SolePrimed
  <2>4. Tray!OpenWindow
    BY <2>1, <2>2, <2>3 DEF Tray!OpenWindow
  <2> QED BY <2>4 DEF Tray!Next
<1>3. CASE CreateTrayIcon(p)
  <2>1. Holds(p) /\ HasWindow(p) /\ p \notin icon
    BY <1>3 DEF CreateTrayIcon, TypeOK, Holds, HasWindow
  <2>2. holders = {p} /\ windows = {p} /\ icon = {}
    BY <2>1, Sole
  <2>3. CASE in[p] \in taskbar
    <3>1. Holds(p)' /\ HasWindow(p)' /\ icon' = icon \cup {p}
      BY <1>3, <2>3 DEF CreateTrayIcon, Goto, TypeOK, Holds, HasWindow
    <3>2. holders' = {p} /\ windows' = {p}
      BY <3>1, <1>0, SolePrimed
    <3>3. Tray!Show
      BY <2>2, <3>1, <3>2 DEF Tray!Show
    <3> QED BY <3>3 DEF Tray!Next
  <2>4. CASE in[p] \notin taskbar
    <3>1. Ends(p)
      BY <1>3, <2>4 DEF CreateTrayIcon, GivesUp
    <3>2. icon' = {} /\ at' = [at EXCEPT ![p] = "none"]
      BY <3>1, <2>2 DEF Ends, Goto
    <3>3. \A q \in Procs : ~Holds(q)' /\ ~HasWindow(q)'
      BY <3>2, <2>1 DEF TypeOK, OneHolder, Holds, HasWindow
    <3>4. Tray!Release
      BY <3>2, <3>3 DEF Tray!Release
    <3> QED BY <3>4 DEF Tray!Next
  <2> QED BY <2>3, <2>4
<1>4. CASE RecreateTrayIcon(p)
  <2>1. Holds(p) /\ HasWindow(p) /\ at' = at /\ (icon' = icon \cup {p} \/ icon' = icon \ {p})
    BY <1>4 DEF RecreateTrayIcon, Holds, HasWindow
  <2>2. windows = {p} /\ (icon = {} \/ icon = {p})
    BY <2>1, Sole
  <2>3. holders' = holders /\ windows' = windows
    BY <2>1 DEF Holds, HasWindow
  <2>4. CASE icon' = {}
    <3>1. Tray!Hide
      BY <2>3, <2>4 DEF Tray!Hide
    <3> QED BY <3>1 DEF Tray!Next
  <2>5. CASE icon' = {p} /\ icon = {}
    <3>1. Tray!Show
      BY <2>2, <2>3, <2>5 DEF Tray!Show
    <3> QED BY <3>1 DEF Tray!Next
  <2>6. CASE icon' = {p} /\ icon = {p}
    BY <2>3, <2>6 DEF Tray!vars
  <2> QED BY <2>1, <2>2, <2>4, <2>5, <2>6
<1>5. CASE OnRefreshTimer(p) \/ LingerPasses(p)
  <2>1. at' = at /\ icon' = icon
    BY <1>5 DEF OnRefreshTimer, LingerPasses
  <2> QED BY <2>1, Invisible DEF Holds, HasWindow
<1>6. CASE OnClose(p)
  <2>1. Holds(p) /\ Holds(p)' /\ ~HasWindow(p)'
    BY <1>6 DEF OnClose, Goto, TypeOK, Holds, HasWindow
  <2>2. holders = {p}
    BY <2>1, Sole
  <2>3. holders' = {p} /\ windows' = {} /\ icon' = {}
    BY <2>1, <1>0, SolePrimed
  <2>4. Tray!CloseWindow
    BY <2>2, <2>3 DEF Tray!CloseWindow
  <2> QED BY <2>4 DEF Tray!Next
<1>7. CASE Return(p)
  <2>1. Holds(p) /\ ~HasWindow(p)
    BY <1>7 DEF Return, Holds, HasWindow
  <2>2. icon = {}
    BY <2>1, Sole
  <2>3. icon' = {} /\ at' = [at EXCEPT ![p] = "none"]
    BY <1>7, <2>2 DEF Return, Ends, Goto
  <2>4. \A q \in Procs : ~Holds(q)' /\ ~HasWindow(q)'
    BY <2>1, <2>3 DEF TypeOK, OneHolder, Holds, HasWindow
  <2>5. Tray!Release
    BY <2>3, <2>4 DEF Tray!Release
  <2> QED BY <2>5 DEF Tray!Next
<1> HIDE DEF holders, windows
<1> QED BY <1>1, <1>2, <1>3, <1>4, <1>5, <1>6, <1>7 DEF RunStandalone

\* The other parts of the program only launch processes and send them messages.
LEMMA OthersAreInvisible ==
    ASSUME TypeOK,
           \/ \E p \in Procs : Menu(p)
           \/ LaunchFirst \/ HealthCheck \/ ControlElsewhere
           \/ Open \/ InitTray \/ InitService \/ Close \/ ForceQuit
           \/ EnableService \/ DisableService \/ StartButton
    PROVE  UNCHANGED Tray!vars
<1>1. ASSUME UNCHANGED <<at, icon>> PROVE UNCHANGED Tray!vars
  BY <1>1, Invisible DEF Holds, HasWindow
<1>2. CASE \E p \in Procs : Menu(p)
  BY <1>1, <1>2 DEF Menu, QuitApplication, StartFromTray, StopFromTray, PostClose
<1>3. CASE LaunchFirst \/ HealthCheck
  <2>1. console \in Sessions \cup {Nobody} /\ LaunchInUserSession(console)
    BY <1>3 DEF LaunchFirst, HealthCheck, TypeOK
  <2> QED BY <2>1, ServiceMayLaunch, LaunchIsInvisible
<1>4. CASE ControlElsewhere \/ Open \/ InitTray \/ InitService \/ ForceQuit \/ DisableService
  BY <1>1, <1>4
  DEF ControlElsewhere, Open, InitTray, InitService, ForceQuit, DisableService, PostClose, tray
<1>5. CASE Close \/ EnableService \/ StartButton
  <2>1. \E b \in BOOLEAN : EnsureStandaloneTray(b)
    <3>1. CASE Close
      <4>1. (enabled /\ IsRunning) \in BOOLEAN
        BY DEF IsRunning
      <4> QED BY <3>1, <4>1 DEF Close
    <3>2. CASE EnableService
      <4>1. RunningNext \in BOOLEAN
        BY DEF RunningNext
      <4> QED BY <3>2, <4>1 DEF EnableService
    <3>3. CASE StartButton
      <4>1. PICK foreground \in BOOLEAN : EnsureStandaloneTray(RunningNext /\ (foreground \/ enabled))
        BY <3>3 DEF StartButton
      <4>2. (RunningNext /\ (foreground \/ enabled)) \in BOOLEAN
        BY DEF RunningNext
      <4> QED BY <4>1, <4>2
    <3> QED BY <1>5, <3>1, <3>2, <3>3
  <2> QED BY <2>1, WindowMayLaunch, LaunchIsInvisible
<1> QED BY <1>2, <1>3, <1>4, <1>5

LEMMA SessionImplements ==
    ASSUME TypeOK, OneHolder, NEW s \in Sessions,
           LogOn(s) \/ LogOff(s) \/ TaskbarGoes(s) \/ TaskbarComes(s)
    PROVE  [Tray!Next]_Tray!vars
<1>1. CASE LogOn(s)
  <2>1. MayLaunch
    BY <1>1, ServiceMayLaunch DEF LogOn, MayLaunch
  <2> QED BY <2>1, LaunchIsInvisible
<1>2. CASE LogOff(s)
  <2> DEFINE gone == {p \in Procs : in[p] = s}
  <2>1. /\ at' = [p \in Procs |-> IF p \in gone THEN "none" ELSE at[p]]
        /\ icon' = icon \ gone
    BY <1>2 DEF LogOff
  <2>2. CASE \E p \in gone : Holds(p)
    <3>1. PICK p \in gone : Holds(p)
      BY <2>2
    <3>2. icon = {} \/ icon = {p}
      BY <3>1, Sole
    <3>3. icon' = {}
      BY <2>1, <3>1, <3>2
    <3>4. \A q \in Procs : ~Holds(q)' /\ ~HasWindow(q)'
      BY <2>1, <3>1 DEF OneHolder, Holds, HasWindow
    <3>5. Tray!Release
      BY <3>3, <3>4 DEF Tray!Release
    <3> QED BY <3>5 DEF Tray!Next
  <2>3. CASE ~\E p \in gone : Holds(p)
    <3>1. \A q \in Procs : (Holds(q)' <=> Holds(q)) /\ (HasWindow(q)' <=> HasWindow(q))
      BY <2>1, <2>3 DEF Holds, HasWindow
    <3>2. icon \cap gone = {}
      BY <2>3 DEF TypeOK, Holds
    <3>3. icon' = icon
      BY <2>1, <3>2
    <3> QED BY <3>1, <3>3, Invisible
  <2> QED BY <2>2, <2>3
<1>3. CASE TaskbarGoes(s)
  <2>1. at' = at /\ icon' = {p \in icon : in[p] # s}
    BY <1>3 DEF TaskbarGoes
  <2>2. CASE icon = {}
    BY <2>1, <2>2, Invisible DEF Holds, HasWindow
  <2>3. CASE icon # {}
    <3>1. PICK p \in Procs : p \in icon /\ Holds(p)
      BY <2>3 DEF TypeOK, Holds
    <3>2. icon = {p}
      BY <3>1, Sole
    <3>3. CASE icon' = icon
      BY <2>1, <3>3, Invisible DEF Holds, HasWindow
    <3>4. CASE icon' = {}
      <4>1. Tray!Hide
        BY <2>1, <3>4 DEF Tray!Hide, Holds, HasWindow
      <4> QED BY <4>1 DEF Tray!Next
    <3> QED BY <2>1, <3>2, <3>3, <3>4
  <2> QED BY <2>2, <2>3
<1>4. CASE TaskbarComes(s)
  BY <1>4, Invisible DEF TaskbarComes, Holds, HasWindow
<1> QED BY <1>1, <1>2, <1>3, <1>4

\* Trays of all sessions, with the mutex, the windows and the icons of their processes,
\* implement SingleTray: one process after the other is the tray, and none becomes it
\* before the icon, the window and the mutex of the last one are gone.
THEOREM TrayRefinement == Spec => ImplementsSingleTray
<1>1. Init => Tray!Init
  BY DEF Init, Tray!Init, Holds, HasWindow
<1>2. TypeOK /\ OneHolder /\ [Next]_vars => [Tray!Next]_Tray!vars
  <2> SUFFICES ASSUME TypeOK, OneHolder, [Next]_vars PROVE [Tray!Next]_Tray!vars
    OBVIOUS
  <2>1. CASE UNCHANGED vars
    BY <2>1, Invisible DEF vars, tray, Holds, HasWindow
  <2>2. CASE Next
    BY <2>2, ProcessImplements, OthersAreInvisible, SessionImplements DEF Next
  <2> QED BY <2>1, <2>2
<1> QED BY <1>1, <1>2, Initially, Inductive, PTL DEF Spec, ImplementsSingleTray, Tray!Spec
=============================================================================
