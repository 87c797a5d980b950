---------------------------- MODULE ConsentStore ----------------------------
(***************************************************************************)
(* The analytics consent, the settings file that stores it, and the        *)
(* threads that transmit on the strength of it                             *)
(* (core/Settings.cpp, core/Analytics.cpp, core/TelemetryWire.cpp, and     *)
(* their callers in app/, ui/ and cli/).                                   *)
(*                                                                         *)
(* There is one settings file.  A GUI process reads it once, at start-up,  *)
(* keeps the copy mem[g] for its whole life and writes the WHOLE copy back *)
(* on every page switch and setting change.  SetConsent and TrackScreen    *)
(* instead load the file, change one field and save it.  A CLI process is  *)
(* one load-change-save, but "preset import" changes settings that it has   *)
(* never loaded.  Nothing locks the file between processes;                *)
(* Analytics' g_mutex is only ever taken by the UI thread of a process, so *)
(* it never blocks and is not modelled.                                    *)
(*                                                                         *)
(* Save opens the file with truncation and then writes it: two steps, and  *)
(* a reader between them finds a file that does not parse.                 *)
(*                                                                         *)
(* Of the settings this keeps the consent, disableTelemetry and firRun;    *)
(* the other fields, the visit counters among them, travel with them.      *)
(***************************************************************************)
EXTENDS Naturals

CONSTANTS
    Gui,        \* GUI processes
    Cli,        \* invocations of the command line, each one command long
    Commands,   \* the commands that are used
    MayCrash,   \* whether processes may be killed at any moment
    Unreadable  \* a settings file that is missing, empty or cut short

VARIABLES
    disk,     \* the settings file
    mem,      \* mem[g]: Application::settings_ of GUI process g
    stage,    \* stage[p]: what the main thread of process p does next
    op,       \* op[p]: the operation whose Save is under way in p
    out,      \* out[p]: the Settings struct p is about to write
    asking,   \* asking[g]: the first-run consent dialog is open
    launch,   \* launch[g]: next event of the detached launch-event thread
    bench,    \* bench[g]: the benchmark job on g's worker thread
    sent,     \* transmitted events: <<process, event>>
    answer,   \* history: the answer of the last SetConsent that returned
    allowed,  \* history: somebody has answered "allow" at some time
    lost      \* history: a process was killed inside Save since that answer

vars == <<disk, mem, stage, op, out, asking, launch, bench, sent,
          answer, allowed, lost>>

Process == Gui \cup Cli
Consents == {"unknown", "granted", "declined"}
Settings == [consent: Consents, off: BOOLEAN, first: BOOLEAN]

\* A file written before the consent prompt existed has no analyticsConsent.
File == [consent: Consents \cup {"absent"}, off: BOOLEAN, first: BOOLEAN]

ASSUME ConstAssumption ==
    /\ Gui \cap Cli = {}
    /\ Commands \subseteq {"analytics", "settings", "import"}
    /\ MayCrash \in BOOLEAN
    /\ Unreadable \notin File

Stages == {"off", "ask", "schedule", "idle", "truncate", "write",
           "track", "screen", "send", "done"}
Ops == {"none", "first", "dialog", "checkbox", "edit", "page", "track",
        "cli", "set", "import"}
Events == {"launch", "launch30", "screen", "bench"}

-----------------------------------------------------------------------------
(* Settings::Load and Settings::Save *)

Defaults == [consent |-> "unknown", off |-> TRUE, first |-> TRUE]

\* The consent of an old file is what its disableTelemetry says.
ConsentAsFound(f) == f.consent
ConsentIn(f) ==
    IF f.consent # "absent" THEN f.consent
    ELSE IF f.off THEN "declined" ELSE "granted"

Load(f) ==
    IF f = Unreadable THEN Defaults
    ELSE [consent |-> ConsentIn(f), off |-> ConsentIn(f) # "granted", first |-> f.first]

\* disableTelemetry is derived from the consent on the way out.
FileWithTwoAnswers(s) ==
    [s EXCEPT !.off = s.consent # "granted",
              !.consent = IF @ = "granted" THEN @ ELSE "declined"]
FileOf(s) == [s EXCEPT !.off = s.consent # "granted"]

IsNotDeclined == Load(disk).consent # "declined"
IsEnabled == Load(disk).consent = "granted"

\* The low bit of Mix32(0) and of Mix32(1) (module Mix32 computes them).
GateBit == [off \in BOOLEAN |-> 0]
ChannelOpen == GateBit[Load(disk).off] = 0

Goto(p, s) == stage' = [stage EXCEPT ![p] = s]

\* Process p is about to save s on behalf of operation o.
Saving(p, o, s) ==
    /\ op' = [op EXCEPT ![p] = o]
    /\ out' = [out EXCEPT ![p] = s]
    /\ Goto(p, "truncate")

-----------------------------------------------------------------------------
(* The GUI process: Application::Init *)

\* The settings are saved at once on the first run, and when the program is
\* started with a preset to import.
Launch(g) ==
    /\ stage[g] = "off"
    /\ LET s == [Load(disk) EXCEPT !.first = FALSE] IN
       /\ mem' = [mem EXCEPT ![g] = s]
       /\ \/ Saving(g, "first", s)
          \/ ~Load(disk).first /\ Goto(g, "ask") /\ UNCHANGED <<op, out>>
    /\ UNCHANGED <<disk, asking, launch, bench, sent, answer, allowed, lost>>

\* GetConsent() reads the file again, after any first-run save.
AskOrSchedule(g) ==
    /\ stage[g] = "ask"
    /\ IF Load(disk).consent = "unknown"
       THEN asking' = [asking EXCEPT ![g] = TRUE] /\ Goto(g, "idle")
       ELSE Goto(g, "schedule") /\ UNCHANGED asking
    /\ UNCHANGED <<disk, mem, op, out, launch, bench, sent, answer, allowed, lost>>

ScheduleLaunchEvents(g) ==
    /\ stage[g] = "schedule"
    /\ launch' = [launch EXCEPT ![g] = IF IsEnabled /\ ChannelOpen THEN "launch" ELSE @]
    /\ Goto(g, "idle")
    /\ UNCHANGED <<disk, mem, op, out, asking, bench, sent, answer, allowed, lost>>

-----------------------------------------------------------------------------
(* The GUI process: what its user does *)

\* SetConsent, first half: load the file and change the consent.
SetConsent(p, o, c) == Saving(p, o, [Load(disk) EXCEPT !.consent = c, !.off = c # "granted"])

AnswerDialog(g, c) ==
    /\ stage[g] = "idle" /\ asking[g]
    /\ SetConsent(g, "dialog", c)
    /\ asking' = [asking EXCEPT ![g] = FALSE]
    /\ UNCHANGED <<disk, mem, launch, bench, sent, answer, allowed, lost>>

\* The check box shows the in-memory consent and flips it.
ToggleCheckbox(g) ==
    /\ stage[g] = "idle" /\ ~asking[g]
    /\ SetConsent(g, "checkbox",
                  IF mem[g].consent = "granted" THEN "declined" ELSE "granted")
    /\ UNCHANGED <<disk, mem, asking, launch, bench, sent, answer, allowed, lost>>

\* A change of any other setting, and the import of a preset, save the whole
\* in-memory copy.
EditSetting(g) ==
    /\ stage[g] = "idle" /\ ~asking[g]
    /\ Saving(g, "edit", mem[g])
    /\ UNCHANGED <<disk, mem, asking, launch, bench, sent, answer, allowed, lost>>

\* So does a page switch, which then counts the visit: SetPage, TrackScreen.
SetPage(g) ==
    /\ stage[g] = "idle" /\ ~asking[g]
    /\ Saving(g, "page", mem[g])
    /\ UNCHANGED <<disk, mem, asking, launch, bench, sent, answer, allowed, lost>>

TrackScreen(g) ==
    /\ stage[g] = "track"
    /\ Saving(g, "track", Load(disk))
    /\ UNCHANGED <<disk, mem, asking, launch, bench, sent, answer, allowed, lost>>

CheckScreen(g) ==
    /\ stage[g] = "screen"
    /\ Goto(g, IF IsEnabled THEN "send" ELSE "idle")
    /\ UNCHANGED <<disk, mem, op, out, asking, launch, bench, sent, answer, allowed, lost>>

Transmit(p, e) == sent' = IF ChannelOpen THEN sent \cup {<<p, e>>} ELSE sent

SendScreen(g) ==
    /\ stage[g] = "send"
    /\ Transmit(g, "screen")
    /\ Goto(g, "idle")
    /\ UNCHANGED <<disk, mem, op, out, asking, launch, bench, answer, allowed, lost>>

-----------------------------------------------------------------------------
(* Settings::Save, in any process *)

Truncate(p) ==
    /\ stage[p] = "truncate"
    /\ disk' = Unreadable
    /\ Goto(p, "write")
    /\ UNCHANGED <<mem, op, out, asking, launch, bench, sent, answer, allowed, lost>>

\* Where the caller goes on once its Save has returned.
AfterSave(p) ==
    CASE op[p] = "first"  -> "ask"
      [] op[p] = "dialog" -> IF out[p].consent = "granted" THEN "schedule" ELSE "idle"
      [] op[p] = "page"   -> "track"
      [] op[p] = "track"  -> "screen"
      [] op[p] \in {"cli", "set", "import"} -> "done"
      [] OTHER            -> "idle"

Answers == {"dialog", "checkbox", "cli"}

\* The dialog and the check box also set the in-memory copy; a CLI has none.
RememberDialogOnly(p) ==
    IF op[p] = "dialog"
    THEN [mem EXCEPT ![p].consent = out[p].consent, ![p].off = out[p].off]
    ELSE mem
Remember(p) ==
    IF op[p] \in {"dialog", "checkbox"}
    THEN [mem EXCEPT ![p].consent = out[p].consent, ![p].off = out[p].off]
    ELSE mem

Write(p) ==
    /\ stage[p] = "write"
    /\ disk' = FileOf(out[p])
    /\ mem' = Remember(p)
    /\ IF op[p] \in Answers
       THEN /\ answer' = out[p].consent
            /\ allowed' = (allowed \/ out[p].consent = "granted")
            /\ lost' = FALSE
       ELSE UNCHANGED <<answer, allowed, lost>>
    /\ Goto(p, AfterSave(p))
    /\ op' = [op EXCEPT ![p] = "none"]
    /\ UNCHANGED <<out, asking, launch, bench, sent>>

-----------------------------------------------------------------------------
(* The background threads of a GUI process *)

\* Two seconds, app_launch, 28 seconds, app_launch_30sec.
LaunchEvent(g) ==
    /\ launch[g] = "launch"
    /\ Transmit(g, "launch")
    /\ launch' = [launch EXCEPT ![g] = "launch30"]
    /\ UNCHANGED <<disk, mem, stage, op, out, asking, bench, answer, allowed, lost>>

LaunchEvent30(g) ==
    /\ launch[g] = "launch30"
    /\ Transmit(g, "launch30")
    /\ launch' = [launch EXCEPT ![g] = "none"]
    /\ UNCHANGED <<disk, mem, stage, op, out, asking, bench, answer, allowed, lost>>

StartBench(g) ==
    /\ stage[g] = "idle" /\ ~asking[g] /\ bench[g] = "none"
    /\ bench' = [bench EXCEPT ![g] = "running"]
    /\ UNCHANGED <<disk, mem, stage, op, out, asking, launch, sent, answer, allowed, lost>>

\* TrackBenchmark on the worker: checks, then transmits.
CheckBench(g) ==
    /\ bench[g] = "running"
    /\ bench' = [bench EXCEPT ![g] = IF IsEnabled /\ ChannelOpen THEN "send" ELSE "none"]
    /\ UNCHANGED <<disk, mem, stage, op, out, asking, launch, sent, answer, allowed, lost>>

SendBench(g) ==
    /\ bench[g] = "send"
    /\ Transmit(g, "bench")
    /\ bench' = [bench EXCEPT ![g] = "none"]
    /\ UNCHANGED <<disk, mem, stage, op, out, asking, launch, answer, allowed, lost>>

-----------------------------------------------------------------------------
(* The command line, and the end of a process *)

\* analytics on | off | reset: one SetConsent, then the process is over.
CmdAnalytics(c, consent) ==
    /\ stage[c] = "off" /\ "analytics" \in Commands
    /\ SetConsent(c, "cli", consent)
    /\ UNCHANGED <<disk, mem, asking, launch, bench, sent, answer, allowed, lost>>

\* settings set: whatever the setting, the consent is saved as it was loaded.
CmdSettings(c) ==
    /\ stage[c] = "off" /\ "settings" \in Commands
    /\ Saving(c, "set", Load(disk))
    /\ UNCHANGED <<disk, mem, asking, launch, bench, sent, answer, allowed, lost>>

\* preset import: the preset is put into, and saved with, the settings of an
\* Application that only a GUI process initialises.
CmdPresetImport(c) ==
    /\ stage[c] = "off" /\ "import" \in Commands
    /\ Saving(c, "import", Defaults)
    /\ UNCHANGED <<disk, mem, asking, launch, bench, sent, answer, allowed, lost>>

\* Threads die with the process; a file that was truncated stays truncated.
End(g) ==
    /\ Goto(g, "off")
    /\ op' = [op EXCEPT ![g] = "none"]
    /\ asking' = [asking EXCEPT ![g] = FALSE]
    /\ launch' = [launch EXCEPT ![g] = "none"]
    /\ bench' = [bench EXCEPT ![g] = "none"]
    /\ lost' = (lost \/ stage[g] = "write")
    /\ UNCHANGED <<disk, mem, out, sent, answer, allowed>>

Quit(g) == stage[g] = "idle" /\ End(g)
Crash(g) == MayCrash /\ stage[g] \notin {"off", "idle"} /\ End(g)

CrashCli(c) ==
    /\ MayCrash /\ stage[c] \in {"truncate", "write"}
    /\ Goto(c, "done")
    /\ op' = [op EXCEPT ![c] = "none"]
    /\ lost' = (lost \/ stage[c] = "write")
    /\ UNCHANGED <<disk, mem, out, asking, launch, bench, sent, answer, allowed>>

-----------------------------------------------------------------------------
Init ==
    /\ disk \in {Unreadable} \cup
                {f \in File : /\ ~f.first
                              /\ f.consent # "absent" => f.off = (f.consent # "granted")}
    /\ mem = [g \in Gui |-> Defaults]
    /\ stage = [p \in Process |-> "off"]
    /\ op = [p \in Process |-> "none"]
    /\ out = [p \in Process |-> Defaults]
    /\ asking = [g \in Gui |-> FALSE]
    /\ launch = [g \in Gui |-> "none"]
    /\ bench = [g \in Gui |-> "none"]
    /\ sent = {}
    /\ answer = Load(disk).consent
    /\ allowed = (Load(disk).consent = "granted")
    /\ lost = FALSE

GuiUser(g) ==
    \/ Launch(g)
    \/ \E c \in {"granted", "declined"} : AnswerDialog(g, c)
    \/ ToggleCheckbox(g)
    \/ EditSetting(g)
    \/ SetPage(g)
    \/ StartBench(g)
    \/ Quit(g)
    \/ Crash(g)

GuiCode(g) ==
    \/ AskOrSchedule(g)
    \/ ScheduleLaunchEvents(g)
    \/ TrackScreen(g)
    \/ CheckScreen(g)
    \/ SendScreen(g)
    \/ Truncate(g)
    \/ Write(g)

Background(g) ==
    \/ LaunchEvent(g)
    \/ LaunchEvent30(g)
    \/ CheckBench(g)
    \/ SendBench(g)

CliCode(c) ==
    \/ \E consent \in Consents : CmdAnalytics(c, consent)
    \/ CmdSettings(c)
    \/ CmdPresetImport(c)
    \/ Truncate(c)
    \/ Write(c)
    \/ CrashCli(c)

Next ==
    \/ \E g \in Gui : GuiUser(g) \/ GuiCode(g) \/ Background(g)
    \/ \E c \in Cli : CliCode(c)

Spec == Init /\ [][Next]_vars

-----------------------------------------------------------------------------
(* Properties *)

\* The variables hold what the code can put there.
TypeOK ==
    /\ disk \in File \cup {Unreadable}
    /\ mem \in [Gui -> Settings]
    /\ stage \in [Process -> Stages]
    /\ op \in [Process -> Ops]
    /\ out \in [Process -> Settings]
    /\ asking \in [Gui -> BOOLEAN]
    /\ launch \in [Gui -> {"none", "launch", "launch30"}]
    /\ bench \in [Gui -> {"none", "running", "send"}]
    /\ sent \subseteq Gui \X Events
    /\ answer \in Consents
    /\ allowed \in BOOLEAN
    /\ lost \in BOOLEAN

\* Analytics.h: "Nothing leaves the machine until the user answers the
\* first-run prompt with allow".  No event is transmitted by any thread of any
\* process before somebody has allowed it, whatever is saved over what, and
\* whatever a reader makes of a file that is being written.
NothingBeforeAllow == sent # {} => allowed

\* No command has run: the windows are the only users of the file.
Alone == \A c \in Cli : stage[c] = "off"

\* The consents a copy of the settings may hold: the last one given, or none if
\* a process was since killed inside Save and left a file that does not parse.
Current == {answer} \cup (IF lost THEN {"unknown"} ELSE {})

\* No save brings an earlier answer back: not the page switch that saves the
\* copy loaded at start-up, not TrackScreen's load and save, not a restart.
AnswerKept == Alone /\ disk # Unreadable => ConsentIn(disk) \in Current

\* README: the command line "controls the same setting": once every process
\* has finished what it was doing, the last answer is the one that counts.
AnswerHolds ==
    (\A p \in Process : stage[p] \in {"off", "idle", "done"})
        => (disk # Unreadable => ConsentIn(disk) = answer)

\* Whenever the UI waits for its user, the consent it shows (the check box
\* reads the copy in memory) is the one the transmitting threads read.
ShownIsStored ==
    \A g \in Gui : Alone /\ stage[g] = "idle" =>
        disk # Unreadable /\ mem[g].consent = ConsentIn(disk)

\* README: "Declining leaves the channel closed permanently" - no event goes
\* out while the last answer is a refusal.
DeclineCloses == [][sent' # sent => answer # "declined"]_vars

\* The strengthening under which NothingBeforeAllow is inductive: until
\* somebody allows, no copy of the settings grants consent - except the one a
\* SetConsent is about to save - and no thread has passed its check.
UnallowedNowhere ==
    /\ disk # Unreadable => ConsentIn(disk) # "granted"
    /\ \A g \in Gui : mem[g].consent # "granted"
    /\ \A p \in Process :
         /\ stage[p] # "send"
         /\ stage[p] \in {"truncate", "write"} /\ op[p] \notin Answers
              => out[p].consent # "granted"
    /\ \A g \in Gui : launch[g] = "none" /\ bench[g] # "send"
    /\ sent = {}

AllowInv == ~allowed => UnallowedNowhere

\* The strengthening under which AnswerKept is inductive when a single GUI
\* process uses the file: no copy in memory, and nothing about to be saved
\* except a new answer, holds another consent, and a file that does not parse
\* is being written or stands for what the last answer was.
KeptEverywhere ==
    /\ disk # Unreadable => ConsentIn(disk) \in Current
    /\ \A g \in Gui : stage[g] # "off" => mem[g].consent \in Current
    /\ \A g \in Gui : op[g] # "cli"
    /\ \A g \in Gui : stage[g] \in {"truncate", "write"} /\ op[g] \notin Answers
                            => out[g].consent \in Current
    /\ disk = Unreadable =>
         "unknown" \in Current \/ \E g \in Gui : stage[g] = "write"

KeptInv == Alone => KeptEverywhere
=============================================================================
