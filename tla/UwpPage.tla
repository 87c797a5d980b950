------------------------------ MODULE UwpPage ------------------------------
(***************************************************************************)
(* The page that removes packages (ui/Pages.cpp, DrawUwp; core/UwpUtil.cpp): *)
(* jobs on the queue's worker list the installed packages and remove some   *)
(* of them, with PowerShell; the page selects by position in the list.      *)
(*                                                                         *)
(* The job queue keeps its promise (FifoJobs).  Packages are the numbers of *)
(* their alphabetical order.  The worker writes the list with the lock that *)
(* the page holds from where it has seen that nothing is loading, so the    *)
(* rest of a frame is one step.  The other pages run programs of their own  *)
(* on the UI thread, which then draws no frame.                            *)
(***************************************************************************)
EXTENDS ProcessRunner, Sequences, FiniteSets

CONSTANTS
    Ui, Worker, \* the threads
    Packages,
    Curated,    \* those of CuratedRemovablePackages
    None        \* no job; no list

ASSUME ConstAssumption ==
    /\ Threads = {Ui, Worker} /\ Ui # Worker
    /\ Packages \subseteq Nat /\ IsFiniteSet(Packages)
    /\ Curated \subseteq Packages
    /\ \A S \in SUBSET Packages : None # S

VARIABLES
    installed, \* the packages Windows has
    list,      \* g_uwpPackages
    selected,  \* g_uwpSelected
    pending,   \* pendingRemove
    confirm,   \* showConfirm
    ready,     \* g_uwpListReady
    loading,   \* g_uwpListLoading
    ui,        \* how far the frame is
    queue,     \* the jobs in the queue: what each of them removes before it lists
    job,       \* the one that runs
    phase,     \* how far it is
    loaded,    \* what its PowerShell has found
    meant,     \* history: what the user has ticked since the list was read
    others     \* history: somebody else has changed the packages since then

shown == <<list, selected, meant>>
dialog == <<pending, confirm>>
flags == <<ready, loading>>
worker == <<queue, job, phase, loaded>>
vars == <<runner, installed, shown, dialog, flags, ui, worker, others>>

Unticked(n) == [i \in 1..n |-> FALSE]

Init ==
    /\ RunnerInit
    /\ installed \in SUBSET Packages
    /\ list = {} /\ selected = <<>> /\ meant = {}
    /\ pending = {} /\ confirm = FALSE
    /\ ready = FALSE /\ loading = FALSE
    /\ ui = "frame"
    /\ queue = <<>> /\ job = None /\ phase = "idle" /\ loaded = None
    /\ others = FALSE

-----------------------------------------------------------------------------
(* The page *)

\* RequestUwpPackageReload.
RequestAlways ==
    /\ loading' = TRUE /\ ready' = FALSE
    /\ queue' = Append(queue, {})
RequestUwpPackageReload ==
    IF loading THEN UNCHANGED <<flags, queue>> ELSE RequestAlways

\* The frame reads the two flags one after the other.
BeginFrame ==
    /\ ui = "frame" /\ run[Ui] = "none"
    /\ ui' = IF ready THEN "draw" ELSE "request"
    /\ UNCHANGED <<runner, installed, shown, dialog, flags, worker, others>>

RequestFirst ==
    /\ ui = "request"
    /\ RequestUwpPackageReload
    /\ ui' = "draw"
    /\ UNCHANGED <<runner, installed, shown, dialog, job, phase, loaded, others>>

RefreshButton ==
    /\ ui = "draw" /\ ~confirm
    /\ RequestUwpPackageReload
    /\ ui' = "loading"
    /\ UNCHANGED <<runner, installed, shown, dialog, job, phase, loaded, others>>

\* The frame is over when the list is being loaded.
SkipFrame ==
    /\ ui \in {"draw", "loading"} /\ loading
    /\ ui' = "frame"
    /\ UNCHANGED <<runner, installed, shown, dialog, flags, worker, others>>

Position(p) == Cardinality({q \in list : q <= p})

\* A selection of another size than the list is forgotten.
Selection == IF Len(selected) = Cardinality(list) THEN selected ELSE Unticked(Cardinality(list))
Ticked == {p \in list : Selection[Position(p)]}

Tick(ps, on) ==
    selected' = [i \in DOMAIN Selection |->
                   IF \E p \in ps : Position(p) = i THEN on ELSE Selection[i]]

\* The rest of a frame.
Draws == ui \in {"draw", "loading"} /\ ~loading /\ ui' = "frame"

DrawList ==
    /\ Draws /\ Tick({}, FALSE)
    /\ UNCHANGED <<runner, installed, list, meant, dialog, flags, worker, others>>

Checkbox(p) ==
    /\ Draws /\ ~confirm /\ p \in list
    /\ Tick({p}, p \notin Ticked)
    /\ meant' = IF p \in Ticked THEN meant \ {p} ELSE meant \cup {p}
    /\ UNCHANGED <<runner, installed, list, dialog, flags, worker, others>>

SelectCurated ==
    /\ Draws /\ ~confirm
    /\ Tick(Curated \cap list, TRUE)
    /\ meant' = meant \cup (Curated \cap list)
    /\ UNCHANGED <<runner, installed, list, dialog, flags, worker, others>>

ClearSelection ==
    /\ Draws /\ ~confirm
    /\ Tick(list, FALSE)
    /\ meant' = {}
    /\ UNCHANGED <<runner, installed, list, dialog, flags, worker, others>>

Ask ==
    /\ Draws /\ ~confirm
    /\ Tick({}, FALSE)
    /\ pending' = Ticked /\ confirm' = TRUE
    /\ UNCHANGED <<runner, installed, list, meant, flags, worker, others>>

RemoveSelected == Ticked # {} /\ Ask

-----------------------------------------------------------------------------
(* The question *)

\* The word in confirmBuf is what the user has typed, now or for an earlier question.
ConfirmRemoval ==
    /\ Draws /\ confirm /\ pending # {}
    /\ loading' = TRUE /\ ready' = FALSE
    /\ queue' = Append(queue, pending)
    /\ pending' = {} /\ confirm' = FALSE
    /\ UNCHANGED <<runner, installed, shown, job, phase, loaded, others>>

\* The button, or the cross: this leaves pendingRemove, which the next question sets.
CancelRemoval ==
    /\ Draws /\ confirm
    /\ pending' = {} /\ confirm' = FALSE
    /\ UNCHANGED <<runner, installed, shown, flags, worker, others>>

-----------------------------------------------------------------------------
(* The jobs *)

page == <<shown, dialog, flags, ui, others>>

TakeJob ==
    /\ phase = "idle" /\ queue # <<>>
    /\ job' = Head(queue) /\ queue' = Tail(queue)
    /\ phase' = IF Head(queue) = {} THEN "list" ELSE "remove"
    /\ UNCHANGED <<runner, installed, page, loaded>>

StartPowerShell ==
    /\ phase \in {"remove", "list"}
    /\ CreatePipes(Worker)
    /\ phase' = IF phase = "remove" THEN "removing" ELSE "listing"
    /\ UNCHANGED <<installed, page, queue, job, loaded>>

\* Remove-AppxPackage of one package, of which nobody hears that it fails.
RemovePackage(p) ==
    /\ phase = "removing" /\ Worker \in child
    /\ p \in job \cap installed
    /\ installed' = installed \ {p}
    /\ UNCHANGED <<runner, page, worker>>

\* Get-AppxPackage; a program that ends before has printed nothing that parses.
GetPackages ==
    /\ phase = "listing" /\ Worker \in child /\ loaded = None
    /\ loaded' = installed /\ others' = FALSE
    /\ UNCHANGED <<runner, installed, shown, dialog, flags, ui, queue, job, phase>>

FinishPowerShell ==
    /\ Return(Worker) \/ CreateProcessFails(Worker)
    /\ \/ phase = "removing" /\ phase' = "list"
       \/ phase = "listing" /\ phase' = "publish"
    /\ UNCHANGED <<installed, page, queue, job, loaded>>

ListedOrOld == IF loaded = None THEN list ELSE loaded
Listed == IF loaded = None THEN {} ELSE loaded

PublishList ==
    /\ phase = "publish"
    /\ list' = Listed /\ meant' = {} /\ loaded' = None
    /\ phase' = "ready"
    /\ UNCHANGED <<runner, installed, dialog, flags, ui, queue, job, others>>

PublishOnly == PublishList /\ UNCHANGED selected
Publish == PublishList /\ selected' = Unticked(Cardinality(Listed))

SetReady ==
    /\ phase = "ready"
    /\ ready' = TRUE
    /\ phase' = "loading"
    /\ UNCHANGED <<runner, installed, shown, dialog, loading, ui, queue, job, loaded, others>>

EndJob ==
    /\ phase = "loading"
    /\ loading' = FALSE
    /\ job' = None /\ phase' = "idle"
    /\ UNCHANGED <<runner, installed, shown, dialog, ready, ui, queue, loaded, others>>

-----------------------------------------------------------------------------
(* Other pages, and everybody else *)

RunElsewhere ==
    /\ ui = "frame" /\ ~confirm
    /\ CreatePipes(Ui)
    /\ UNCHANGED <<installed, page, worker>>

RunElsewhereReturns ==
    /\ Return(Ui) \/ CreateProcessFails(Ui)
    /\ UNCHANGED <<installed, page, worker>>

RunGoesOn ==
    /\ \E t \in Threads : Running(t)
    /\ UNCHANGED <<installed, page, worker>>

InstallElsewhere(p) ==
    /\ installed' = IF p \in installed THEN installed \ {p} ELSE installed \cup {p}
    /\ others' = TRUE
    /\ UNCHANGED <<runner, shown, dialog, flags, ui, worker>>

-----------------------------------------------------------------------------
Frame ==
    \/ BeginFrame \/ RequestFirst \/ SkipFrame \/ DrawList

User ==
    \/ RefreshButton \/ SelectCurated \/ ClearSelection \/ RemoveSelected
    \/ (\E p \in Packages : Checkbox(p))
    \/ ConfirmRemoval \/ CancelRemoval

Job ==
    \/ TakeJob \/ StartPowerShell \/ FinishPowerShell
    \/ Publish \/ SetReady \/ EndJob

Next ==
    \/ Frame \/ User \/ Job \/ GetPackages
    \/ RunElsewhere \/ RunElsewhereReturns \/ RunGoesOn
    \/ \E p \in Packages : RemovePackage(p) \/ InstallElsewhere(p)

Spec == Init /\ [][Next]_vars

\* The worker is scheduled, calls make progress, and children end; no fairness of
\* frames, of the user or of what the children do to the packages.
Fairness == RunnerFairness /\ WF_vars(Job) /\ WF_vars(RunElsewhereReturns)

FairSpec == Spec /\ Fairness

-----------------------------------------------------------------------------
TypeOK ==
    /\ RunnerTypeOK
    /\ installed \subseteq Packages
    /\ list \subseteq Packages /\ selected \in Seq(BOOLEAN)
    /\ meant \subseteq list
    /\ pending \subseteq Packages /\ confirm \in BOOLEAN
    /\ confirm <=> pending # {}
    /\ ready \in BOOLEAN /\ loading \in BOOLEAN
    /\ ui \in {"frame", "request", "draw", "loading"}
    /\ queue \in Seq(SUBSET Packages) /\ job \in {None} \cup SUBSET Packages
    /\ phase \in {"idle", "remove", "removing", "list", "listing", "publish",
                  "ready", "loading"}
    /\ loaded \in {None} \cup SUBSET Packages
    /\ others \in BOOLEAN

\* The flag that keeps the page from loading twice and from drawing a list that is
\* being written stands for exactly one job, although the page and the worker set it,
\* and the flag ready, at any point of each other's code.
OneJob ==
    /\ loading => (ready <=> phase = "loading")
    /\ IF loading THEN Len(queue) + (IF job = None THEN 0 ELSE 1) = 1
       ELSE queue = <<>> /\ job = None

\* What is ticked, asked about and removed is what the user has ticked on the list as it
\* is: no reload moves a selection to another package.
OnlyTicked ==
    /\ Ticked = meant
    /\ confirm => pending = meant
    /\ \A n \in 1..Len(queue) : queue[n] \subseteq meant
    /\ phase \in {"remove", "removing"} => job \subseteq meant

\* The list of a page that does not load is what is installed, unless somebody else has
\* changed that or nothing could be read; in particular after a removal of which some
\* packages fail.
ShownIsInstalled ==
    ready /\ ~loading /\ ~others /\ list # {} => list = installed

\* Every call of Run returns and every load ends, although each call reads one pipe at a
\* time and may have to wait for the children of the other thread: nothing but a child
\* that prints more errors than their pipe takes, before its output is at its end, keeps
\* a caller waiting, that of its own thread or of the other.
NobodyWaitsForEver ==
    /\ \A t \in Threads : run[t] # "none" ~> run[t] = "none" \/ Clogged
    /\ loading ~> ~loading \/ Clogged
=============================================================================
