----------------------------- MODULE ProcessPage -----------------------------
(***************************************************************************)
(* The process manager's page (ui/Pages.cpp, DrawProcessMgr) over           *)
(* core/ProcessMgrUtil.cpp, and its list of exclusions (ui/Modals.cpp).     *)
(*                                                                         *)
(* A frame draws rows that were read up to four seconds ago, or longer ago  *)
(* when other pages were shown meanwhile; processes end and start all the   *)
(* time and numbers are given again; a row is remembered by its number, its *)
(* context menu by number and name.  Time is GetTickCount's, modulo Wrap.   *)
(* The page looks the same for services, whose rows do nothing.             *)
(***************************************************************************)
EXTENDS Naturals, FiniteSets, SequencesExt

CONSTANTS
    Names,      \* names of executables
    Pids,       \* numbers of processes
    Sessions,   \* bound: [first, starts, pauses, tabs, filters, edits]: the processes
                \* to begin with, how many may start later, how much time may pass
                \* between two frames, which tabs and filters are used, and
                \* whether the exclusions are
    System, Frozen, Big, \* names of system, hung and large processes
    Inside,     \* name -> the names that have it as a part
    Refresh,    \* kAutoRefreshMs
    Wrap        \* bound: where the tick count begins again

Tabs == {"processes", "services"}
Filters == {"onlyFrozen", "memory", "noSystem", "search"}

\* Processes that run at the same time have different numbers.
Distinct(ps) == \A p, q \in ps : p.pid = q.pid => p = q

ConstAssumption ==
    /\ Pids \subseteq Nat \ {0}
    /\ System \cup Frozen \cup Big \subseteq Names
    /\ Inside \in [Names -> SUBSET Names] /\ \A n \in Names : n \in Inside[n]
    /\ Refresh \in Nat \ {0} /\ Wrap \in Nat \ {0}
    /\ \A x \in Sessions :
         /\ Cardinality(x.first) \in Nat /\ Distinct(x.first)
         /\ x.first \subseteq [pid: Pids, name: Names, serial: 1..Cardinality(x.first)]
         /\ x.pauses \subseteq 0..(Wrap - Refresh)
         /\ x.tabs \subseteq Tabs /\ x.filters \subseteq Filters

VARIABLES
    session,   \* what is looked at
    running,   \* the processes of the machine
    started,   \* how many have started; a process is [pid, name, serial]
    now,       \* GetTickCount
    procs,     \* the rows of processes
    services,  \* whether services have been read
    tab, lastTab, needRefresh, lastAuto, \* the page's static variables
    selectedPid,
    menu,      \* {<<number, name>>} of the row whose context menu is open, or {}
    filters,   \* the check boxes, the memory filter and the search text in use
    exclusions, \* settings.processExclusions
    buffer,    \* exclBuf: the text of the exclusions dialog
    dialog,    \* the dialog is open
    age,       \* history: how old the rows of each tab are, at most Refresh + 1
    picked,    \* history: the processes selected, and of the menu
    ended,     \* history: [by, chosen, gone] for what the page ended last
    hidden     \* history: names that were excluded by the menu

page == <<procs, services, tab, lastTab, needRefresh, lastAuto, selectedPid, menu, filters>>
excluding == <<exclusions, buffer, dialog>>
history == <<age, picked, ended, hidden>>
vars == <<session, running, started, now, page, excluding, history>>

Init ==
    /\ session \in Sessions
    /\ running = session.first /\ started = Cardinality(running) /\ now = Wrap - 1
    /\ procs = {} /\ services = FALSE
    /\ tab = "processes" /\ lastTab = "none" /\ needRefresh = TRUE /\ lastAuto = 0
    /\ selectedPid = 0 /\ menu = {}
    /\ filters = {}
    /\ exclusions = <<>> /\ buffer = <<>> /\ dialog = FALSE
    /\ age = [t \in Tabs |-> Refresh + 1]
    /\ picked = [selected |-> {}, menu |-> {}]
    /\ ended = {} /\ hidden = {}

-----------------------------------------------------------------------------
(* The machine *)

Start ==
    /\ started < Cardinality(session.first) + session.starts
    /\ \E pid \in Pids \ {p.pid : p \in running}, n \in Names :
         running' = running \cup {[pid |-> pid, name |-> n, serial |-> started + 1]}
    /\ started' = started + 1
    /\ UNCHANGED <<session, now, page, excluding, history>>

Stop ==
    /\ \E p \in running : running' = running \ {p}
    /\ UNCHANGED <<session, started, now, page, excluding, history>>

-----------------------------------------------------------------------------
(* What a frame shows *)

\* The list without what follows its last comma.
IsExcludedButLast(n, list) == \E i \in 1..(Len(list) - 1) : list[i] = n

IsExcluded(n, list) == \E i \in DOMAIN list : list[i] = n

Shown(p) ==
    /\ "onlyFrozen" \in filters => p.name \in Frozen
    /\ "memory" \in filters => p.name \in Big
    /\ ~IsExcluded(p.name, exclusions)
    /\ "noSystem" \in filters => p.name \notin System
    /\ "search" \in filters => p.pid = 1

Older(t, d) == IF age[t] + d > Refresh THEN Refresh + 1 ELSE age[t] + d

\* The time since an automatic refresh, by comparing the two counts.
SinceSigned(t) == IF t < lastAuto THEN 0 ELSE t - lastAuto

\* The time since an automatic refresh, which is due without one.
Since(t) == (t + Wrap - lastAuto) % Wrap

\* The middle of a frame at time t of a page on tab b: the rows are read again when
\* that is asked for, when there are none, or when the time has come.
Read(t, b, asked, left, d) ==
    LET empty == IF b = "processes" THEN procs = {} ELSE ~services
        due == lastAuto = 0 \/ Since(t) >= Refresh
        read == asked \/ empty \/ due
    IN /\ procs' = IF read /\ b = "processes" THEN left ELSE procs
       /\ services' = (services \/ (read /\ b = "services"))
       /\ age' = [x \in Tabs |-> IF read /\ x = b THEN 0 ELSE Older(x, d)]
       /\ lastAuto' = IF read /\ ~asked THEN t ELSE lastAuto

\* The beginning of every frame: time has passed since the last one, and a change of
\* tab in that one is noticed only now.  Bound: there is an automatic refresh
\* before the tick count has gone all the way round (49 days).
Begin(d) ==
    /\ ~dialog
    /\ lastAuto # 0 => Since(now) + d < Wrap
    /\ now' = (now + d) % Wrap
    /\ lastTab' = tab
Asked == needRefresh \/ tab # lastTab

\* A menu closes with its row.
Menu(rows) == {m \in menu : \E p \in rows : m = <<p.pid, p.name>>}

\* A frame in which nothing above the rows is touched.
Frame(d) ==
    /\ Begin(d)
    /\ Read(now', tab, Asked, running, d) /\ needRefresh' = FALSE
    /\ UNCHANGED <<session, running, started, tab, filters>>

-----------------------------------------------------------------------------
(* The user, one thing in a frame *)

Look(d) ==
    /\ Frame(d)
    /\ menu' = Menu({p \in procs' : Shown(p)})
    /\ UNCHANGED <<selectedPid, excluding, picked, ended, hidden>>

\* Between two frames of the page others may be shown, for any time.
ClickTab(d) ==
    /\ Begin(d)
    /\ \E b \in session.tabs \ {tab} : tab' = b /\ Read(now', b, Asked, running, d)
    /\ needRefresh' = FALSE /\ menu' = {}
    /\ UNCHANGED <<session, running, started, selectedPid, filters, excluding, picked, ended, hidden>>

ClickRefresh(d) ==
    /\ Begin(d)
    /\ Read(now', tab, TRUE, running, d)
    /\ needRefresh' = FALSE /\ menu' = {}
    /\ UNCHANGED <<session, running, started, tab, selectedPid, filters, excluding, picked, ended, hidden>>

\* The End button: whatever has the selected number, shown or not, if it may be ended.
ClickEnd(d) ==
    /\ Begin(d) /\ tab = "processes" /\ selectedPid # 0
    /\ \E p \in running :
         /\ p.pid = selectedPid
         /\ running' = running \ {p}
         /\ ended' = [by: {"button"}, chosen: picked.selected, gone: {p}]
    /\ selectedPid' = 0 /\ menu' = {}
    /\ picked' = [picked EXCEPT !.selected = {}] /\ needRefresh' = FALSE
    /\ Read(now', tab, TRUE, running', d)
    /\ UNCHANGED <<session, started, tab, filters, excluding, hidden>>

ChangeFilter(d) ==
    /\ Begin(d) /\ tab = "processes"
    /\ \E f \in session.filters :
         filters' = IF f \in filters THEN filters \ {f} ELSE filters \cup {f}
    /\ Read(now', tab, Asked, running, d)
    /\ needRefresh' = FALSE /\ menu' = {}
    /\ UNCHANGED <<session, running, started, tab, selectedPid, excluding, picked, ended, hidden>>

\* The rows, after they were read.
ClickRow(d) ==
    /\ Frame(d) /\ tab = "processes"
    /\ \E p \in procs' :
         /\ Shown(p)
         /\ selectedPid' = p.pid
         /\ picked' = [picked EXCEPT !.selected = {p}]
    /\ menu' = {}
    /\ UNCHANGED <<excluding, ended, hidden>>

OpenMenu(d) ==
    /\ Frame(d) /\ tab = "processes"
    /\ \E p \in procs' :
         /\ Shown(p)
         /\ menu' = {<<p.pid, p.name>>}
         /\ picked' = [picked EXCEPT !.menu = {p}]
    /\ UNCHANGED <<selectedPid, excluding, ended, hidden>>

\* The row of the menu, as it is in this frame.
InMenu(p) == p \in procs' /\ Shown(p) /\ <<p.pid, p.name>> \in menu

\* What has the name as a part, as in the search.
ToEndByPart(p) == {q \in running : q.name \in Inside[p.name]}

\* TerminateProcessesByName: everything that has the row's name by now.
ToEnd(p) == {q \in running : q.name = p.name}

\* Of these, what may be ended.  The rows were drawn already: the next frame reads.
MenuEnd(d) ==
    /\ Begin(d) /\ tab = "processes"
    /\ Read(now', tab, Asked, running, d)
    /\ \E p \in procs' :
         /\ InMenu(p)
         /\ \E gone \in SUBSET ToEnd(p) :
              /\ running' = running \ gone
              /\ ended' = [by: {"menu"}, chosen: picked.menu, gone: gone]
    /\ needRefresh' = TRUE /\ menu' = {}
    /\ UNCHANGED <<session, started, tab, selectedPid, filters, excluding, picked, hidden>>

\* The name is added, unless it is found in the text of the list.
MenuExclude(d) ==
    /\ Frame(d) /\ tab = "processes" /\ session.edits
    /\ \E p \in procs' :
         /\ InMenu(p)
         /\ exclusions' = IF \E i \in DOMAIN exclusions : exclusions[i] \in Inside[p.name]
                          THEN exclusions ELSE Append(exclusions, p.name)
         /\ hidden' = hidden \cup {p.name}
    /\ menu' = {}
    /\ UNCHANGED <<selectedPid, buffer, dialog, picked, ended>>

-----------------------------------------------------------------------------
(* The dialog of the exclusions *)

\* An empty text is filled with the stored list in every frame, and only then.
Filled == IF buffer = <<>> THEN exclusions ELSE buffer

OpenExclusions ==
    /\ session.edits /\ ~dialog /\ dialog' = TRUE
    /\ buffer' = Filled /\ menu' = {}
    /\ UNCHANGED <<session, running, started, now, procs, services, tab, lastTab, needRefresh, lastAuto,
                   selectedPid, filters, exclusions, history>>

\* A word is removed; what is left of nothing is the list again.
EditExclusions ==
    /\ dialog
    /\ \E i \in DOMAIN buffer :
         LET rest == RemoveAt(buffer, i)
         IN buffer' = IF rest = <<>> THEN exclusions ELSE rest
    /\ UNCHANGED <<session, running, started, now, page, exclusions, dialog, history>>

SaveExclusions ==
    /\ dialog /\ dialog' = FALSE
    /\ exclusions' = buffer
    /\ hidden' = hidden \cap Range(buffer)
    /\ UNCHANGED <<session, running, started, now, page, buffer, age, picked, ended>>

CancelExclusions ==
    /\ dialog /\ dialog' = FALSE
    /\ UNCHANGED <<session, running, started, now, page, exclusions, buffer, history>>

-----------------------------------------------------------------------------
Next ==
    \/ Start \/ Stop
    \/ \E d \in session.pauses :
         \/ Look(d) \/ ClickTab(d) \/ ClickRefresh(d) \/ ClickEnd(d) \/ ChangeFilter(d)
         \/ ClickRow(d) \/ OpenMenu(d) \/ MenuEnd(d) \/ MenuExclude(d)
    \/ OpenExclusions \/ EditExclusions \/ SaveExclusions \/ CancelExclusions

Spec == Init /\ [][Next]_vars

-----------------------------------------------------------------------------
(* Properties *)

Process == [pid: Pids, name: Names, serial: 1..started]

TypeOK ==
    /\ session \in Sessions /\ started \in Nat
    /\ running \subseteq Process /\ procs \subseteq Process
    /\ now \in 0..(Wrap - 1) /\ lastAuto \in 0..(Wrap - 1)
    /\ tab \in Tabs /\ lastTab \in Tabs \cup {"none"}
    /\ services \in BOOLEAN /\ needRefresh \in BOOLEAN /\ dialog \in BOOLEAN
    /\ selectedPid \in Pids \cup {0} /\ menu \subseteq Pids \X Names
    /\ filters \subseteq Filters
    /\ exclusions \in Seq(Names) /\ buffer \in Seq(Names) /\ hidden \subseteq Names
    /\ age \in [Tabs -> 0..(Refresh + 1)]
    /\ picked \in [selected: SUBSET Process, menu: SUBSET Process]
    /\ ended \subseteq [by: {"button", "menu"}, chosen: Process, gone: Process]

\* What is ended is what was chosen, although rows come and go between the choice and
\* its use, and may be hidden by then: the button ends the process of the row that
\* was clicked, unless its number was given to another one since, and the menu
\* nothing but processes of the name it was opened on.
EndsWhatWasChosen ==
    \A e \in ended :
        IF e.by = "menu" THEN e.gone.name = e.chosen.name
        ELSE e.gone = e.chosen
             \/ (e.gone.pid = e.chosen.pid /\ e.gone.serial > e.chosen.serial)

\* The rows of a page that is open are less than four seconds old in every frame, also
\* when the tick count has begun again and when the page was away for days; only
\* the frame in which the tab changes still shows what was read on the last visit.
ShownIsFresh == tab = lastTab => age[tab] < Refresh

\* A name that the menu excluded stays hidden until the dialog saves a text without it
\* (which may be one that is older than the exclusion); but it is not even added when it
\* is a part of a name in the list.
ExcludedIsHidden ==
    \A n \in hidden : IsExcluded(n, exclusions)
        \/ \E m \in Inside[n] \ {n} : IsExcluded(m, exclusions)

-----------------------------------------------------------------------------
(* What makes them invariants *)

\* A process that was seen, in a row or under a click, is the one of its number, or that
\* one has started since.
Seen == procs \cup picked.selected \cup picked.menu
SeenFirst ==
    \A c \in Seen, r \in running : r.pid = c.pid => r = c \/ r.serial > c.serial

\* What is selected or under the menu is what was clicked.
Chosen ==
    /\ \A c \in picked.selected : c.pid = selectedPid
    /\ \A c \in picked.menu, m \in menu : c.name = m[2]

\* What a page shows is no older than its last automatic refresh, as it measures it.
AgeIsKnown == lastAuto # 0 /\ tab = lastTab => age[tab] <= Since(now)

PageInv ==
    /\ TypeOK
    /\ Distinct(running) /\ SeenFirst /\ Chosen /\ EndsWhatWasChosen
    /\ AgeIsKnown /\ ShownIsFresh
    /\ ExcludedIsHidden
=============================================================================
