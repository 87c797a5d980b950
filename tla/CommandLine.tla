----------------------------- MODULE CommandLine -----------------------------
(***************************************************************************)
(* The command line (cli/Cli.cpp) as the one who types it sees it: what a   *)
(* line is parsed to, what every command does to the machine, and the exit  *)
(* code, "0 ok, 1 failure, 2 usage error".                                  *)
(*                                                                         *)
(* A line is the sequence of its words after the program's name.  The      *)
(* machine pc is what commands read and change, each part reduced to what   *)
(* they tell apart: the registry behind a tweak is in TweakTable, the       *)
(* settings file of several processes in ConsentStore, the hosts file in    *)
(* HostsFile, and here a command runs alone.  Hardly any write is looked at: *)
(* one that needs rights comes to nothing without them, and any may come to *)
(* nothing with them (a read-only or full disk, a key that is closed).      *)
(***************************************************************************)
EXTENDS Integers, FiniteSetsExt, SequencesExt, Picking

CONSTANTS
    Lines,     \* bound: the lines that are typed
    MaxCommands, \* bound: how many
    FlagWords, \* words that begin with "--", without "="
    Assigned,  \* word -> <<flag, value>>, for words "--flag=value"
    Pieces,    \* word -> the set of its parts, for words with commas (itself otherwise)
    Atoi,      \* word -> what atoi makes of it (0 otherwise)
    Digits,    \* words that are nothing but digits
    Matches,   \* word -> the names that contain it (MatchesSearch)
    Table,     \* the tweaks: [id, page, kind, needsAdmin, available]
    Quick,     \* QuickIds
    Releases,  \* TargetReleaseOptions
    Forbidden, \* domains and executables that may not be blocked
    Services,  \* the services
    Defaults,  \* the settings of a new installation
    Machines   \* the machines to begin with

VARIABLES
    pc,       \* the machine
    argv,     \* the line being carried out, <<>> at the prompt
    elevated, \* its process has administrator rights
    stage,    \* how far that is
    result,   \* of the last line: [code, out, lost], the last a history: a write
              \* that nobody looked at has come to nothing
    before,   \* history: the machine before it
    count     \* lines so far

vars == <<pc, argv, elevated, stage, result, before, count>>

-----------------------------------------------------------------------------
(* Arguments *)

NoValue == ""

\* A list of them that forgets the flags that are not about the output.
SwitchesOfOutput == {"--json"}

\* The flags that never take the next word.
Switches == {"--json", "--yes", "--all", "--multi", "--single"}

IsFlag(w) == w \in FlagWords \cup DOMAIN Assigned

\* The flag at i consumes the word behind it.
Takes(words, i) ==
    /\ i \in DOMAIN words /\ words[i] \in FlagWords \ Switches
    /\ i + 1 \in DOMAIN words /\ ~IsFlag(words[i + 1])

FlagPlaces(words) == {i \in DOMAIN words : IsFlag(words[i])}
Positional(words) == {i \in DOMAIN words : ~IsFlag(words[i]) /\ ~Takes(words, i - 1)}

\* The flag at i, and the value it is given there.
FlagAt(words, i) ==
    IF words[i] \in DOMAIN Assigned THEN Assigned[words[i]]
    ELSE <<words[i], IF Takes(words, i) THEN words[i + 1] ELSE NoValue>>

\* A flag that is given again has the value of the last time.
Given(words, f) == {i \in FlagPlaces(words) : FlagAt(words, i)[1] = f}
ParseArgs(words) ==
    [positional |-> At(words, Positional(words)),
     flags |-> [f \in {FlagAt(words, i)[1] : i \in FlagPlaces(words)} |->
                  FlagAt(words, Max(Given(words, f)))[2]]]

HasFlag(a, f) == f \in DOMAIN a.flags
FlagValue(a, f, fallback) ==
    IF HasFlag(a, f) /\ a.flags[f] # NoValue THEN a.flags[f] ELSE fallback

\* ParseBool
OnWords == {"on", "1", "true", "yes", "enable"}
OffWords == {"off", "0", "false", "no", "disable"}
IsBool(w) == w \in OnWords \cup OffWords

Number(w) == IF w \in DOMAIN Atoi THEN Atoi[w] ELSE 0
Split(w) == IF w \in DOMAIN Pieces THEN Pieces[w] ELSE {w}
SplitAll(ws) == UNION {Split(ws[i]) : i \in DOMAIN ws}

\* A name the filter of --filter lets through.
Passes(a, name) ==
    LET filter == FlagValue(a, "--filter", NoValue)
    IN filter = NoValue \/ (filter \in DOMAIN Matches /\ name \in Matches[filter])

Has(a, n) == Len(a.positional) >= n
Word(a, n) == a.positional[n]
Sub(a, fallback) == IF Has(a, 1) THEN Word(a, 1) ELSE fallback

-----------------------------------------------------------------------------
(* How a command may end *)

End(c, m, out) == {[code |-> c, pc |-> m, out |-> out, lost |-> FALSE]}
Ok(m) == End(0, m, {})
Shows(out) == End(0, pc, out)
Failure == End(1, pc, {})
Usage == End(2, pc, {})

\* The command has not noticed that a write came to nothing.
Lost(m) == {[code |-> 0, pc |-> m, out |-> {}, lost |-> TRUE]}

\* A write whose result is ignored.
Unchecked(m) == Ok(m) \cup Lost(pc)

\* The command goes on without rights.
IfAdminOrNot(end) == end

\* RequireAdmin
IfAdmin(end) == IF elevated THEN end ELSE Failure

-----------------------------------------------------------------------------
(* tweak and preset *)

Known(id) == \E t \in Table : t.id = id
Find(id) == CHOOSE t \in Table : t.id = id

\* tweak::Apply looks at the build alone: what it writes may come to nothing.
Apply(t, on) ==
    IF t.needsAdmin /\ ~elevated THEN Lost(pc)
    ELSE IF t.kind = "toggle" THEN Unchecked([pc EXCEPT !.on[t.id] = on])
    ELSE Unchecked([pc EXCEPT !.ran = @ \cup {t.id}])

CmdTweakOn(a, sub, t) ==
    CASE sub = "get" -> Shows(IF t.kind = "toggle" THEN {pc.on[t.id]} ELSE {})
      [] sub = "set" ->
            IF t.kind # "toggle" \/ ~Has(a, 3) \/ ~IsBool(Word(a, 3)) THEN Usage
            ELSE IF t.needsAdmin /\ ~elevated THEN Failure
            ELSE Apply(t, Word(a, 3) \in OnWords)
      [] sub = "run" ->
            IF t.kind # "action" THEN Usage
            ELSE IF t.needsAdmin /\ ~elevated THEN Failure
            ELSE Apply(t, TRUE)
      [] OTHER -> Usage

CmdTweak(a) ==
    LET page == FlagValue(a, "--page", NoValue) IN
    CASE ~Has(a, 1) -> Usage
      [] Sub(a, "") = "pages" -> Shows({t.page : t \in Table})
      [] Sub(a, "") = "list" ->
            Shows({t.id : t \in {u \in Table : u.available /\ page \in {NoValue, u.page}}})
      [] OTHER ->
            IF ~Has(a, 2) \/ ~Known(Word(a, 2)) THEN Usage
            ELSE IF ~Find(Word(a, 2)).available THEN Failure
            ELSE CmdTweakOn(a, Word(a, 1), Find(Word(a, 2)))

\* The ids that preset apply goes through.
PresetIds(a) == IF Has(a, 2) /\ Word(a, 2) # "quick" THEN Split(Word(a, 2)) ELSE Range(Quick)

\* Each is unknown, of another build, refused or turned on, whatever became of the
\* others, and what is turned on may come to nothing.
Refused(id) == ~Known(id) \/ (Find(id).available /\ Find(id).needsAdmin /\ ~elevated)
Applied(id) == Known(id) /\ Find(id).available /\ ~(Find(id).needsAdmin /\ ~elevated)

PresetApply(a) ==
    LET done == {Find(id) : id \in {i \in PresetIds(a) : Applied(i)}}
    IN {[code |-> IF \E id \in PresetIds(a) : Refused(id) THEN 1 ELSE 0,
         pc |-> [pc EXCEPT !.on = [id \in DOMAIN @ |-> @[id] \/ \E t \in made : t.id = id],
                           !.ran = @ \cup {t.id : t \in {u \in made : u.kind = "action"}}],
         out |-> {}, lost |-> made # done] : made \in SUBSET done}

\* The keys of a preset file, and the settings of a program that has not loaded any:
\* GetSettings() of a process without a window.
PresetKeys == {"lang", "theme", "processExclusions", "group", "compact",
               "onlyFrozen", "replaceTaskMgr", "showSystemProcs", "ramMbOnly"}
Bools == {"disableUpdateNotify", "exclusiveMode", "autoStartExclusive", "replaceTaskMgr",
          "showSystemProcs", "ramMbOnly", "group", "compact", "onlyFrozen",
          "metricsServiceEnabled"}
Texts == {"lang", "theme", "style", "lastPageTag", "processExclusions"}
Limits == [monitoringRefreshMs |-> 200..60000, metricsIntervalSec |-> 1..3600]
Keys == Bools \cup Texts \cup DOMAIN Limits

\* The file may not open; a write behind that leaves one that cannot be read.
Export ==
    Ok([pc EXCEPT !.preset = {[k \in PresetKeys |-> Defaults[k]]}])
        \cup Lost([pc EXCEPT !.preset = {}]) \cup Failure
Import(file) ==
    [pc EXCEPT !.settings = [k \in Keys |-> IF k \in PresetKeys THEN file[k] ELSE Defaults[k]],
               !.consent = "unknown"]

CmdPreset(a) ==
    CASE ~Has(a, 1) -> Usage
      [] Sub(a, "") = "quick" ->
            Shows(IF HasFlag(a, "--json") THEN Range(Quick)
                  ELSE {id \in Range(Quick) : Known(id) /\ Find(id).available})
      [] Sub(a, "") = "apply" -> PresetApply(a)
      [] Sub(a, "") = "export" -> IF Has(a, 2) THEN Export ELSE Usage
      [] Sub(a, "") = "import" ->
            IF ~Has(a, 2) THEN Usage
            ELSE IF pc.preset = {} THEN Failure
            ELSE UNION {Unchecked(Import(file)) : file \in pc.preset}
      [] OTHER -> Usage

-----------------------------------------------------------------------------
(* wu, cpu and bench *)

\* SetTargetRelease and ClearTargetRelease return nothing.
Pin(release) == IF elevated THEN Unchecked([pc EXCEPT !.release = release]) ELSE Lost(pc)

CmdWu(a) ==
    CASE Sub(a, "status") = "status" -> Shows({pc.release})
      [] Sub(a, "") = "pin" ->
            IF Has(a, 2) /\ Word(a, 2) \in Releases THEN IfAdmin(Pin(Word(a, 2))) ELSE Usage
      [] Sub(a, "") = "unpin" -> IfAdmin(Pin(NoValue))
      [] OTHER -> Usage

\* The active power scheme may refuse a limit, which is looked at.
Throttle(percent) ==
    IF elevated THEN Ok([pc EXCEPT !.throttle = percent]) \cup Failure ELSE Failure

CmdCpu(a) ==
    IF Sub(a, "") # "throttle" THEN Usage
    ELSE IF ~Has(a, 2) THEN Shows({pc.throttle}) \cup Failure
    ELSE IF Number(Word(a, 2)) \notin 1..100 THEN Usage
    ELSE IfAdmin(Throttle(Number(Word(a, 2))))

Clamped(n) == Max({1, Min({n, 120})})
CmdBench(a) ==
    Shows([multi |-> HasFlag(a, "--multi") \/ ~HasFlag(a, "--single"),
           seconds |-> Clamped(Number(FlagValue(a, "--seconds", "10")))])

-----------------------------------------------------------------------------
(* proc, svc, uwp and shutdown *)

\* TerminateProcessByPid: a process of another user needs rights.
Ended(ps) == {p \in ps : p.own \/ elevated}

CmdProc(a) ==
    LET pid == Number(Word(a, 2)) IN
    CASE Sub(a, "") = "list" -> Shows({p.pid : p \in {q \in pc.running : Passes(a, q.name)}})
      [] Sub(a, "") = "kill" ->
            IF ~Has(a, 2) THEN Usage
            ELSE IF Word(a, 2) \in Digits
            THEN LET ended == Ended({p \in pc.running : p.pid = pid}) IN
                 IF pid = 0 \/ ended = {} THEN Failure
                 ELSE Ok([pc EXCEPT !.running = @ \ ended])
            ELSE Ok([pc EXCEPT !.running = @ \ Ended({p \in @ : p.name = Word(a, 2)})])
      [] OTHER -> Usage

CmdSvc(a) ==
    IF Sub(a, "") # "list" THEN Usage ELSE Shows({s \in Services : Passes(a, s)})

\* One script removes the packages in turn; PowerShell's exit code tells of the last.
RemovePackages(names) ==
    {[code |-> IF names[Len(names)] \in gone THEN 0 ELSE 1,
      pc |-> [pc EXCEPT !.packages = @ \ gone], out |-> {}, lost |-> FALSE] :
        gone \in SUBSET (Range(names) \cap pc.packages)}

CmdUwp(a) ==
    LET names == Tail(a.positional) IN
    CASE Sub(a, "") = "list" -> Shows(pc.packages) \cup (IF pc.packages = {} THEN Failure ELSE {})
      [] Sub(a, "") = "remove" ->
            IF names = <<>> \/ ~HasFlag(a, "--yes") THEN Usage ELSE RemovePackages(names)
      [] OTHER -> Usage

\* minutes * 60 in 32 bits: 2^32 = 60 * 71582788 + 16.  A negative time, one of
\* more than ten years and a second shutdown are refused, and nobody looks.
Seconds(minutes) ==
    LET q == minutes \div 71582788  r == minutes % 71582788
    IN IF r > 35791394 THEN -1 ELSE 60 * r - 16 * q
TenYears == 315360000
Schedule(m, seconds) ==
    IF m.timer = {} /\ seconds \in 0..TenYears THEN [m EXCEPT !.timer = {seconds}] ELSE m

CmdShutdown(a) ==
    CASE ~Has(a, 1) -> Usage
      [] Sub(a, "") = "cancel" -> Unchecked([pc EXCEPT !.timer = {}])
      [] OTHER ->
            IF Number(Word(a, 1)) < 1 THEN Usage
            ELSE Unchecked(Schedule(pc, Seconds(Number(Word(a, 1)))))

-----------------------------------------------------------------------------
(* hosts and apps *)

\* UpdateBlockedDomains succeeds whether its stream can write or not.
Block(domains) ==
    IF domains \cap Forbidden # {} THEN Failure
    ELSE IfAdmin(IF elevated THEN Unchecked([pc EXCEPT !.domains = domains]) ELSE Lost(pc))

CmdHosts(a) ==
    LET named == SplitAll(Tail(a.positional)) IN
    CASE ~Has(a, 1) -> Usage
      [] Sub(a, "") = "list" -> Shows(pc.domains)
      [] Sub(a, "") = "ban" -> Block(pc.domains \cup named)
      [] Sub(a, "") = "unban" -> Block(pc.domains \ named)
      [] Sub(a, "") = "clear" -> Block({})
      [] OTHER -> Usage

\* The policy's key may be closed to the user; only its first value is looked at.
ApplyProcessBlockList(names) ==
    IF names \cap Forbidden # {} THEN Failure
    ELSE LET done == Unchecked([pc EXCEPT !.apps = names])
         IN IF elevated THEN done ELSE done \cup Failure

CmdApps(a) ==
    LET named == Tail(a.positional) IN
    CASE Sub(a, "") = "block" ->
            IF named = <<>> THEN Usage ELSE ApplyProcessBlockList(SplitAll(named))
      [] Sub(a, "") = "unblock" -> ApplyProcessBlockList({})
      [] OTHER -> Usage

-----------------------------------------------------------------------------
(* settings, analytics and version *)

\* ApplySettingValue.  disableTelemetry is taken, and derived from the consent again
\* when the settings are saved.
Accepts(key, w) ==
    CASE key \in Bools \cup {"disableTelemetry"} -> IsBool(w)
      [] key \in DOMAIN Limits -> Number(w) \in Limits[key]
      [] key = "theme" -> w \in {"Light", "Dark"}
      [] OTHER -> key \in Texts
Value(key, w) ==
    CASE key \in Bools -> w \in OnWords
      [] key \in DOMAIN Limits -> Number(w)
      [] OTHER -> w
ApplySettingValue(key, w) ==
    IF key \in Keys THEN [pc EXCEPT !.settings[key] = Value(key, w)] ELSE pc

SettingsToJson(key) == IF key \in Keys THEN pc.settings[key] ELSE pc.consent # "granted"

CmdSettings(a) ==
    CASE Sub(a, "list") = "list" -> Shows(Keys \cup {"disableTelemetry"})
      [] Sub(a, "") = "get" ->
            IF ~Has(a, 2) \/ Word(a, 2) \notin Keys \cup {"disableTelemetry"} THEN Usage
            ELSE Shows({SettingsToJson(Word(a, 2))})
      [] Sub(a, "") = "set" ->
            IF ~Has(a, 3) \/ ~Accepts(Word(a, 2), Word(a, 3)) THEN Usage
            ELSE Unchecked(ApplySettingValue(Word(a, 2), Word(a, 3)))
      [] OTHER -> Usage

Answer == [on |-> "granted", off |-> "declined", reset |-> "unknown"]
CmdAnalytics(a) ==
    CASE Sub(a, "status") = "status" -> Shows({pc.consent})
      [] Sub(a, "") \in DOMAIN Answer -> Unchecked([pc EXCEPT !.consent = Answer[Word(a, 1)]])
      [] OTHER -> Usage

-----------------------------------------------------------------------------
\* Run: the first word is the command.
Command(line) ==
    LET cmd == Head(line)  a == ParseArgs(Tail(line)) IN
    CASE cmd \in {"help", "--help", "-h", "/?", "version", "--version", "sysinfo"} -> Ok(pc)
      [] cmd = "tweak" -> CmdTweak(a)
      [] cmd = "preset" -> CmdPreset(a)
      [] cmd = "wu" -> CmdWu(a)
      [] cmd = "cpu" -> CmdCpu(a)
      [] cmd = "bench" -> CmdBench(a)
      [] cmd = "proc" -> CmdProc(a)
      [] cmd = "svc" -> CmdSvc(a)
      [] cmd = "uwp" -> CmdUwp(a)
      [] cmd = "shutdown" -> CmdShutdown(a)
      [] cmd = "hosts" -> CmdHosts(a)
      [] cmd = "apps" -> CmdApps(a)
      [] cmd = "analytics" -> CmdAnalytics(a)
      [] cmd = "settings" -> CmdSettings(a)
      [] OTHER -> Usage

\* A word that begins with '-' or '/' starts the window instead, but for these.
WantsCli(line) ==
    Head(line) \notin (FlagWords \cup DOMAIN Assigned) \ {"--help", "--version"}

-----------------------------------------------------------------------------
(* The machines there can be *)

AreSettings(s) ==
    /\ DOMAIN s = Keys
    /\ \A k \in Bools : s[k] \in BOOLEAN
    /\ \A k \in DOMAIN Limits : s[k] \in Limits[k]

IsMachine(m) ==
    /\ DOMAIN m = {"on", "ran", "release", "throttle", "domains", "apps", "settings",
                   "preset", "consent", "timer", "packages", "running"}
    /\ DOMAIN m.on = {t.id : t \in {u \in Table : u.kind = "toggle"}}
    /\ \A id \in DOMAIN m.on : m.on[id] \in BOOLEAN
    /\ m.release \in Releases \cup {NoValue} /\ m.throttle \in 1..100
    /\ m.domains \cap Forbidden = {} /\ m.apps \cap Forbidden = {}
    /\ AreSettings(m.settings) /\ m.consent \in {"unknown", "granted", "declined"}
    /\ \A file \in m.preset, k \in PresetKeys \cap Bools : file[k] \in BOOLEAN
    /\ \A s, t \in m.timer : s = t /\ s \in 0..TenYears
    /\ \A p, q \in m.running : p.pid = q.pid => p = q

\* An id has no comma, a word with "=" is not taken for one without, and "cancel" is no
\* number.
ConstAssumption ==
    /\ MaxCommands \in Nat
    /\ Lines \subseteq Seq(STRING) \ {<<>>}
    /\ Switches \subseteq FlagWords /\ FlagWords \cap DOMAIN Assigned = {}
    /\ Table \subseteq [id : STRING, page : STRING, kind : {"toggle", "action"},
                       needsAdmin : BOOLEAN, available : BOOLEAN]
    /\ \A s, t \in Table : s.id = t.id => s = t
    /\ {t.id : t \in Table} \cap DOMAIN Pieces = {}
    /\ Atoi \in [DOMAIN Atoi -> Int] /\ "cancel" \notin DOMAIN Atoi
    /\ AreSettings(Defaults)
    /\ \A m \in Machines : IsMachine(m)

-----------------------------------------------------------------------------
NoResult == [code |-> 0, out |-> {}, lost |-> FALSE]

Init ==
    /\ pc \in Machines /\ before = pc
    /\ argv = <<>> /\ elevated = FALSE
    /\ stage = "prompt" /\ result = NoResult
    /\ count = 0

\* A line is typed, in a terminal with rights or without.
Type(line) ==
    /\ stage = "prompt" /\ count < MaxCommands
    /\ WantsCli(line)
    /\ argv' = line /\ elevated' \in BOOLEAN
    /\ stage' = "typed" /\ count' = count + 1
    /\ UNCHANGED <<pc, result, before>>

\* The process carries it out.
Run ==
    /\ stage = "typed" /\ stage' = "done"
    /\ \E r \in Command(argv) :
         pc' = r.pc /\ result' = [code |-> r.code, out |-> r.out, lost |-> r.lost]
    /\ UNCHANGED <<argv, elevated, before, count>>

Exit ==
    /\ stage = "done" /\ stage' = "prompt"
    /\ argv' = <<>> /\ elevated' = FALSE /\ result' = NoResult /\ before' = pc
    /\ UNCHANGED <<pc, count>>

Next == (\E line \in Lines : Type(line)) \/ Run \/ Exit

Spec == Init /\ [][Next]_vars

-----------------------------------------------------------------------------
(* Properties *)

TypeOK ==
    /\ IsMachine(pc)
    /\ argv \in Lines \cup {<<>>} /\ elevated \in BOOLEAN
    /\ stage \in {"prompt", "typed", "done"} /\ result.code \in 0..2
    /\ count \in 0..MaxCommands

\* The help text shows its flags at the end of a line, with a value or without.
WithoutValue == {"--json", "--yes", "--multi", "--single"}
GivesValue(line, f) ==
    \E i \in DOMAIN line : line[i] \in DOMAIN Assigned /\ Assigned[line[i]][1] = f

\* A flag without a value may stand anywhere behind the command, except between
\* another flag and its value: the line means the same, and the word that
\* follows is still an argument.  (A line that gives the flag a value is out of it.)
FlagMoves(line, f, i) ==
    line[i] \notin FlagWords \ WithoutValue /\ ~GivesValue(line, f) =>
        ParseArgs(Tail(InsertAt(line, i + 1, f))) = ParseArgs(Append(Tail(line), f))
FlagsMayStandAnywhere == \A f \in WithoutValue, i \in DOMAIN argv : FlagMoves(argv, f, i)

Asked(line, w) == \E i \in DOMAIN line : line[i] = w
Parts(line) == UNION {Split(line[i]) : i \in DOMAIN line}

\* A usage error leaves the machine alone, and so does a failure, unless it is that of
\* one entry among several.  Whatever a line does otherwise, it is to what it names:
\* a package is removed only with its name and --yes (even --yes=no), a tweak changes
\* only by its id or as one of Quick Setup, a process ends only by its number or its
\* name, a setting changes only by its key or with all the others at an import.
OnlyWhatWasAsked(line, was, is, code) ==
    /\ code = 2 => is = was
    /\ code = 1 /\ ~Asked(line, "apply") /\ ~Asked(line, "remove") => is = was
    /\ was.packages \ is.packages # {} =>
          Asked(line, "remove") /\ (Asked(line, "--yes") \/ GivesValue(line, "--yes"))
    /\ \A p \in was.packages \ is.packages : Asked(line, p)
    /\ \A id \in DOMAIN was.on : is.on[id] # was.on[id] =>
          id \in Parts(line) \/ (Asked(line, "apply") /\ id \in Range(Quick))
    /\ \A p \in was.running \ is.running : \E i \in DOMAIN line :
          line[i] = p.name \/ (line[i] \in Digits /\ Number(line[i]) = p.pid)
    /\ \A k \in Keys : is.settings[k] # was.settings[k] =>
          Asked(line, k) \/ Asked(line, "import")

Args(line) == ParseArgs(Tail(line))
Line(line, cmd, sub) == Head(line) = cmd /\ Has(Args(line), 1) /\ Word(Args(line), 1) = sub
Listed(line) == SplitAll(Tail(Args(line).positional))

\* What a line needs administrator rights for.
NeedsRights(line) ==
    LET a == Args(line) IN
    \/ /\ Line(line, "tweak", "set") \/ Line(line, "tweak", "run")
       /\ \E t \in Table : t.id = Word(a, 2) /\ t.needsAdmin
    \/ /\ Line(line, "preset", "apply")
       /\ \E t \in Table : t.id \in PresetIds(a) /\ t.available /\ t.needsAdmin
    \/ Line(line, "wu", "pin") \/ Line(line, "wu", "unpin")
    \/ Line(line, "cpu", "throttle") /\ Has(a, 2)
    \/ \E sub \in {"ban", "unban", "clear"} : Line(line, "hosts", sub)

\* What the commands that look at their result have done.
CheckedIsTrue(line, is) ==
    LET a == Args(line) IN
    /\ Line(line, "cpu", "throttle") /\ Has(a, 2) => is.throttle = Number(Word(a, 2))
    /\ Line(line, "uwp", "remove") => Last(a.positional) \notin is.packages
    /\ Line(line, "proc", "kill") /\ Word(a, 2) \in Digits =>
          \A p \in is.running : p.pid # Number(Word(a, 2))

\* What the others have written, with four exceptions: the end of processes by name,
\* all but the last package, a second shutdown or one in more than ten years, and
\* disableTelemetry are reported as done in any case.
WrittenIsTrue(line, was, is) ==
    LET a == Args(line) IN
    /\ Line(line, "tweak", "set") => is.on[Word(a, 2)] = (Word(a, 3) \in OnWords)
    /\ Line(line, "tweak", "run") => Word(a, 2) \in is.ran
    /\ Line(line, "preset", "apply") =>
          \A t \in Table : t.id \in PresetIds(a) /\ t.available =>
              IF t.kind = "toggle" THEN is.on[t.id] ELSE t.id \in is.ran
    /\ Line(line, "wu", "pin") => is.release = Word(a, 2)
    /\ Line(line, "wu", "unpin") => is.release = NoValue
    /\ Line(line, "hosts", "ban") => Listed(line) \subseteq is.domains
    /\ Line(line, "hosts", "unban") => Listed(line) \cap is.domains = {}
    /\ Line(line, "hosts", "clear") => is.domains = {}
    /\ Line(line, "apps", "block") => is.apps = Listed(line)
    /\ (/\ Head(line) = "shutdown" /\ was.timer = {}
        /\ Number(Word(a, 1)) \in 1..(TenYears \div 60))
          => is.timer = {60 * Number(Word(a, 1))}
    /\ Line(line, "settings", "set") /\ Word(a, 2) \in Keys =>
          is.settings[Word(a, 2)] = Value(Word(a, 2), Word(a, 3))

SuccessIsTrue(line, was, is) == CheckedIsTrue(line, is) /\ WrittenIsTrue(line, was, is)

\* How far exit codes go.  "Admin-only commands fail with a clear message rather than
\* silently doing nothing" (README.md): with 0, the rights were there.  What the
\* commands look at is so, and so is the rest of what the line asks for, unless the
\* write came to nothing.  Whatever the code, nothing happens that was not asked for.
ExitCodeIsTrue ==
    stage = "done" =>
        /\ OnlyWhatWasAsked(argv, before, pc, result.code)
        /\ result.code = 0 =>
             /\ NeedsRights(argv) => elevated
             /\ CheckedIsTrue(argv, pc)
             /\ ~result.lost => WrittenIsTrue(argv, before, pc)

\* "Exit codes are `0` success, `1` failure, `2` usage error" (README.md): with 0, what
\* the line asks for is so.
SuccessIsDone == stage = "done" /\ result.code = 0 => SuccessIsTrue(argv, before, pc)

-----------------------------------------------------------------------------
\* What holds besides: a line is carried out on the machine as it was before it.
LineInv ==
    /\ TypeOK
    /\ stage # "prompt" => argv \in Lines
    /\ stage # "done" => before = pc
    /\ ExitCodeIsTrue /\ FlagsMayStandAnywhere
=============================================================================
