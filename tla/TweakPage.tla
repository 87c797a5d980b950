----------------------------- MODULE TweakPage -----------------------------
(***************************************************************************)
(* A page of toggles (ui/TweakPage.cpp): the states it shows are a cache of *)
(* the registry, filled by a detached probe thread, changed by clicks on    *)
(* the UI thread, while Quick Setup batches run on the job queue's worker.  *)
(*                                                                         *)
(* A toggle's apply(true) and its apply(false) each write a list of values, *)
(* one after another; the second may be shorter, two toggles may share a    *)
(* value, and a write may fail, which nobody looks at.  Which values a tweak *)
(* has is TweakTable's matter.                                              *)
(***************************************************************************)
EXTENDS Naturals, Sequences

CONSTANTS
    N,          \* the toggles of the page are 1..N
    Values,     \* the registry values they write and read
    OnWrites,   \* the values a toggle's apply(true) sets, in order
    OffWrites,  \* the values its apply(false) sets back, in order
    Reads,      \* the values its probe reads
    Any,        \* the toggles for whose probe one of these is enough
    Admin,      \* the toggles with needsAdmin
    MaxTodo     \* bound: toggles waiting in the job queue

Rows == 1..N

ASSUME ConstAssumption ==
    /\ N \in Nat \ {0}
    /\ OnWrites \in [Rows -> Seq(Values)] /\ OffWrites \in [Rows -> Seq(Values)]
    /\ \A i \in Rows : OnWrites[i] # <<>> /\ OffWrites[i] # <<>>
    /\ Reads \in [Rows -> SUBSET Values]
    /\ Any \subseteq Rows /\ Admin \subseteq Rows
    /\ MaxTodo \in Nat

VARIABLES
    store,    \* the registry: whether a value holds what "on" writes
    elevated, \* os::IsElevated()
    states,   \* PageProbe::states, empty before the first probe has ended
    due,      \* lastProbe is more than kProbeIntervalSeconds ago
    probe,    \* the probe thread: "none", "read", "finish"; PageProbe::running
    at, got,  \* its loop variable and its local states
    open,     \* the page is the one the frames draw
    step,     \* the UI thread: "begin", "rows", "ask", "apply", "show"
    row, value, \* the row that was clicked and its new value
    part,     \* how far the UI thread's tweak::Apply is
    todo,     \* the toggles that the queued batches have yet to turn on
    todoPart, \* how far the worker's tweak::Apply is
    touched   \* history: values that Quick Setup or another program has written

page == <<states, due, probe, at, got>>
click == <<row, value, part>>
batch == <<todo, todoPart>>
vars == <<store, elevated, page, open, step, click, batch, touched>>

\* The probe of a toggle.
Truth(i) == IF i \in Any THEN \E v \in Reads[i] : store[v]
                         ELSE \A v \in Reads[i] : store[v]

\* What apply writes, in order.
Writes(i, on) == IF on THEN OnWrites[i] ELSE OffWrites[i]

\* The setters return whether they have succeeded; apply does not look.
SetOrFail(v, on) == store' \in {store, [store EXCEPT ![v] = on]}

\* The states a probe starts from: std::vector<char>(n, 0).
Blank == [i \in Rows |-> FALSE]

\* What the page draws: states.resize(tweaks.size(), 0).
Shown(i) == i \in DOMAIN states /\ states[i]

Running == probe # "none"

\* Locals that do not live now: no probe's loop, no click.
NoLoop == at' = 1 /\ got' = Blank
NoClick == row' = 1 /\ value' = FALSE /\ part' = 1

Init ==
    /\ store \in [Values -> BOOLEAN]
    /\ elevated \in BOOLEAN
    /\ states = <<>> /\ due = TRUE
    /\ probe = "none" /\ at = 1 /\ got = Blank
    /\ open = FALSE /\ step = "begin"
    /\ row = 1 /\ value = FALSE /\ part = 1
    /\ todo = <<>> /\ todoPart = 1
    /\ touched = {}

-----------------------------------------------------------------------------
(* The probe thread *)

ReadOne ==
    /\ probe = "read" /\ at <= N
    /\ got' = [got EXCEPT ![at] = Truth(at)]
    /\ at' = at + 1
    /\ UNCHANGED <<store, elevated, states, due, probe, open, step, click, batch, touched>>

Publish ==
    /\ probe = "read" /\ at > N
    /\ states' = got
    /\ probe' = "finish"
    /\ UNCHANGED <<store, elevated, due, at, got, open, step, click, batch, touched>>

FinishStillRunning ==
    /\ probe = "finish"
    /\ probe' = "finish"
    /\ UNCHANGED <<store, elevated, states, due, at, got, open, step, click, batch, touched>>
Finish ==
    /\ probe = "finish"
    /\ probe' = "none" /\ NoLoop
    /\ UNCHANGED <<store, elevated, states, due, open, step, click, batch, touched>>

ProbeThread == ReadOne \/ Publish \/ Finish

-----------------------------------------------------------------------------
(* The UI thread *)

StartProbe ==
    /\ probe' = "read" /\ due' = FALSE /\ NoLoop
    /\ UNCHANGED states

\* The head of DrawTweakPage.
BeginFrame ==
    /\ open /\ step = "begin"
    /\ IF due /\ ~Running THEN StartProbe ELSE UNCHANGED page
    /\ step' = "rows"
    /\ UNCHANGED <<store, elevated, open, click, batch, touched>>

EndFrame ==
    /\ step = "rows"
    /\ step' = "begin"
    /\ UNCHANGED <<store, elevated, page, open, click, batch, touched>>

Click(i) ==
    /\ step = "rows"
    /\ row' = i /\ value' = ~Shown(i) /\ part' = 1
    /\ step' = "ask"
    /\ UNCHANGED <<store, elevated, page, open, batch, touched>>

\* EnsureRunnable.
Runnable == row \notin Admin \/ elevated

StartApply ==
    /\ step = "ask" /\ Runnable
    /\ step' = "apply"
    /\ UNCHANGED <<store, elevated, page, open, click, batch, touched>>

\* The user does not want the program to be restarted.
Refuse ==
    /\ step = "ask" /\ ~Runnable
    /\ step' = "show"
    /\ UNCHANGED <<store, elevated, page, open, click, batch, touched>>

\* RequestElevation starts the program again, elevated, and quits this one.
Relaunch ==
    /\ step = "ask" /\ ~Runnable
    /\ elevated' = TRUE
    /\ states' = <<>> /\ due' = TRUE
    /\ probe' = "none" /\ NoLoop
    /\ open' = FALSE /\ step' = "begin" /\ NoClick
    /\ UNCHANGED <<store, batch, touched>>

\* One value of tweak::Apply(t, value).
ApplyPart ==
    /\ step = "apply"
    /\ SetOrFail(Writes(row, value)[part], value)
    /\ IF part < Len(Writes(row, value)) THEN part' = part + 1 /\ UNCHANGED step
       ELSE step' = "show" /\ UNCHANGED part
    /\ UNCHANGED <<elevated, page, open, row, value, batch, touched>>

\* The row shows what was clicked, applied or not, until the next probe.
ShowNoReprobe ==
    /\ step = "show"
    /\ states' = [i \in DOMAIN states |-> IF i = row THEN value ELSE states[i]]
    /\ step' = "begin" /\ NoClick
    /\ UNCHANGED <<store, elevated, due, probe, at, got, open, batch, touched>>
Show ==
    /\ step = "show"
    /\ states' = [i \in DOMAIN states |-> IF i = row THEN value ELSE states[i]]
    /\ due' = TRUE
    /\ step' = "begin" /\ NoClick
    /\ UNCHANGED <<store, elevated, probe, at, got, open, batch, touched>>

\* The user goes to another page, or comes back.
Navigate ==
    /\ step = "begin"
    /\ open' = ~open
    /\ UNCHANGED <<store, elevated, page, step, click, batch, touched>>

\* Two seconds have passed since the last StartProbe.
Tick ==
    /\ ~due
    /\ due' = TRUE
    /\ UNCHANGED <<store, elevated, states, probe, at, got, open, step, click, batch, touched>>

-----------------------------------------------------------------------------
(* Quick Setup, which is another page, and the worker of the job queue *)

\* A batch: the chosen toggles in the order of QuickSetupIds.
Batches ==
    {q \in UNION {[1..n -> Rows] : n \in Rows} :
        \A i, j \in DOMAIN q : i < j => q[i] < q[j]}

EnqueueBatch(q) ==
    /\ ~open /\ elevated
    /\ Len(todo) + Len(q) <= MaxTodo
    /\ todo' = todo \o q
    /\ UNCHANGED <<store, elevated, page, open, step, click, todoPart, touched>>

WorkerApply ==
    /\ todo # <<>>
    /\ LET writes == OnWrites[Head(todo)] IN
         /\ SetOrFail(writes[todoPart], TRUE)
         /\ touched' = touched \cup {writes[todoPart]}
         /\ IF todoPart < Len(writes) THEN todoPart' = todoPart + 1 /\ UNCHANGED todo
            ELSE todoPart' = 1 /\ todo' = Tail(todo)
    /\ UNCHANGED <<elevated, page, open, step, click>>

\* Another program: the command line, a second window, Windows' own settings.
Elsewhere(v, on) ==
    /\ store' = [store EXCEPT ![v] = on]
    /\ touched' = touched \cup {v}
    /\ UNCHANGED <<elevated, page, open, step, click, batch>>

-----------------------------------------------------------------------------
Draw == BeginFrame \/ EndFrame \/ StartApply \/ ApplyPart \/ Show

Next ==
    \/ ProbeThread
    \/ Draw
    \/ \E i \in Rows : Click(i)
    \/ Refuse \/ Relaunch
    \/ Navigate \/ Tick
    \/ \E q \in Batches : EnqueueBatch(q)
    \/ WorkerApply
    \/ \E v \in Values, on \in BOOLEAN : Elsewhere(v, on)

Spec == Init /\ [][Next]_vars

\* The threads are scheduled, the frames come, and time passes.
FairSpec == Spec /\ WF_vars(ProbeThread) /\ WF_vars(Draw) /\ WF_vars(Tick)

-----------------------------------------------------------------------------
(* Properties *)

\* The cache has a state for every row or for none; the loops stay in range.
TypeOK ==
    /\ store \in [Values -> BOOLEAN]
    /\ elevated \in BOOLEAN /\ due \in BOOLEAN /\ open \in BOOLEAN
    /\ states = <<>> \/ states \in [Rows -> BOOLEAN]
    /\ probe \in {"none", "read", "finish"}
    /\ at \in 1..N + 1 /\ got \in [Rows -> BOOLEAN]
    /\ step \in {"begin", "rows", "ask", "apply", "show"}
    /\ row \in Rows /\ value \in BOOLEAN /\ part \in DOMAIN Writes(row, value)
    /\ todo \in Seq(Rows)
    /\ todoPart \in IF todo = <<>> THEN {1} ELSE DOMAIN OnWrites[Head(todo)]
    /\ touched \subseteq Values

Clicking == step \in {"ask", "apply", "show"}

\* The toggles whose probe reads only what the page has written.
Own == {i \in Rows : Reads[i] \cap touched = {}}

\* A page with no click, no probe under way and none due shows what the probes
\* find, for every toggle whose probed values only the page has written: a probe
\* that was overtaken by a click never has the last word, also where a write has
\* failed or has changed what another toggle of the page reads.
RestingShowsTruth ==
    ~Clicking /\ ~Running /\ ~due
        => \A i \in Own : Shown(i) <=> Truth(i)

\* A page that stays open, with no question to the user pending, shows the
\* registry in the end, whoever wrote last.
Converges ==
    <>[](open /\ step # "ask") /\ <>[][store' = store]_store
        => <>[](\A i \in Rows : Shown(i) <=> Truth(i))

=============================================================================
