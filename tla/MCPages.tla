------------------------------ MODULE MCPages ------------------------------
(***************************************************************************)
(* What the user works with directly, for one run: the table of tweaks      *)
(* (TweakRegistry), the command line (CommandLine) and the process page     *)
(* (ProcessPage).  They share no state, so that one of them is the scene of *)
(* a behaviour and the others rest.  The properties of the table are in     *)
(* TweakRegistry, those of the others in LineScene and ProcessScene.        *)
(***************************************************************************)
EXTENDS TweakTable, TweakRegistry, ProcessScene, LineScene, Integers, Sequences

-----------------------------------------------------------------------------
(* The sessions with the table *)

Everything == {t.id : t \in BuildTable}

\* Entries that write the same values as others, or several of their own.
Sharing == {"sys.smartscreen-off", "sys.uac-off", "adv.vbs-off",
            "sys.core-isolation-off", "compon.hyperv-off", "adv.ttl-65",
            "perf.no-sleep-timeout"}
Power == {"perf.no-sleep-timeout", "perf.ultimate-power-plan", "per.end-task"}
Flags == {"adv.advanced-boot-options", "per.no-boot-logo"}

Session(build, admin, ultimate, knows, ids, n) ==
    [build |-> build, elevated |-> admin, ultimate |-> ultimate, knowsNo |-> knows,
     used |-> ids, calls |-> n]

\* Any two entries, as an administrator and as a user, on an old and a new
\* Windows; longer sessions on the entries that can meet, the last in a language
\* whose No is not known.
MCSessions == {
    Session(22500, TRUE, TRUE, TRUE, Everything, 2),
    Session(22631, FALSE, TRUE, TRUE, Everything, 2),
    Session(22631, TRUE, TRUE, TRUE, Sharing, 8),
    Session(22631, TRUE, FALSE, FALSE, Power \cup Flags, 5) }

-----------------------------------------------------------------------------
(* The lines that are typed, and the machine they are typed on *)

Entry(id, page, kind, admin, available) ==
    [id |-> id, page |-> page, kind |-> kind, needsAdmin |-> admin, available |-> available]
Entries == {Entry("exp.hidden", "exp", "toggle", FALSE, TRUE),
            Entry("sys.uac", "sys", "toggle", TRUE, TRUE),
            Entry("exp.old", "exp", "toggle", FALSE, FALSE),
            Entry("sys.clean", "sys", "action", TRUE, TRUE)}
EntryIds == {t.id : t \in Entries}

TweakLines ==
    {<<"tweak", s, id, v>> : s \in {"get", "set", "run"}, id \in EntryIds,
                             v \in {"on", "off", "maybe"}}
    \cup {<<"tweak", s>> : s \in {"get", "set", "run", "list", "pages"}}
    \cup {<<"tweak", "set", "exp.hidden">>, <<"tweak", "get", "x">>,
          <<"tweak", "bogus", "exp.hidden">>,
          <<"tweak", "list", "--page", "exp">>, <<"tweak", "list", "--page=exp", "--json">>,
          <<"tweak", "--quiet", "set", "exp.hidden", "on">>}

PresetLines ==
    {<<"preset", s>> : s \in {"quick", "apply", "export", "import", "bogus"}}
    \cup {<<"preset", s, "file">> : s \in {"export", "import"}}
    \cup {<<"preset", "apply", ids>> :
            ids \in {"quick", "exp.hidden", "exp.hidden,sys.uac", "exp.old,x,sys.clean"}}
    \cup {<<"preset", "quick", "--json">>}

SystemLines ==
    {<<"wu", s, r>> : s \in {"status", "pin", "unpin", "bogus"}, r \in {"22H2", "23H9"}}
    \cup {<<"wu", "pin">>, <<"cpu", "throttle">>}
    \cup {<<"cpu", "throttle", n>> : n \in {"50", "101", "off"}}
    \cup {<<"bench", f, "--seconds", n>> : f \in {"--multi", "--single"},
                                          n \in {"0", "50", "999"}}
    \cup {<<"shutdown", n>> : n \in {"cancel", "0", "10", "40000000", "71582789", "soon"}}

ProcessLines ==
    {<<c, s>> : c \in {"proc", "svc", "uwp"}, s \in {"list", "bogus"}}
    \cup {<<c, "list", "--filter", "a">> : c \in {"proc", "svc"}}
    \cup {<<"proc", "kill">>}
    \cup {<<"proc", "kill", t>> : t \in {"0", "4", "10", "999", "a.exe", "sys.exe"}}
    \cup {<<"uwp", "remove">>, <<"uwp", "remove", "pk1">>, <<"uwp", "remove", "pk1", "--yes">>,
          <<"uwp", "--yes", "remove", "pk1", "pk2">>, <<"uwp", "remove", "pk1", "--yes=no">>,
          <<"uwp", "remove", "--force", "pk1", "pk2", "--yes">>}

ListLines ==
    {<<"hosts", s, d>> : s \in {"list", "ban", "unban", "clear", "bogus"},
                         d \in {"d1", "d1,d2", "maku"}}
    \cup {<<"apps", s, e>> : s \in {"block", "unblock", "bogus"}, e \in {"x.exe", "d1,d2", "cmd"}}
    \cup {<<"hosts", "ban">>, <<"apps", "block">>}

SettingLines ==
    {<<"analytics", s>> : s \in {"status", "on", "off", "reset", "bogus"}}
    \cup {<<"settings", "set", k, v>> :
            k \in {"group", "metricsIntervalSec", "theme", "lang", "disableTelemetry", "bogus"},
            v \in {"on", "off", "10", "Dark"}}
    \cup {<<"settings", "get", k>> : k \in {"group", "disableTelemetry", "bogus"}}
    \cup {<<"settings", "list">>, <<"settings", "get">>, <<"settings", "set", "group">>,
          <<"settings", "bogus">>}

\* Every command, alone and with what it takes, good and bad.
CommandWords ==
    {"help", "version", "--version", "sysinfo", "--json", "bogus", "tweak", "preset", "wu", "cpu",
     "bench", "proc", "svc", "uwp", "shutdown", "hosts", "apps", "analytics", "settings"}
MCLines == {<<c>> : c \in CommandWords} \cup TweakLines \cup PresetLines \cup SystemLines
           \cup ProcessLines \cup ListLines \cup SettingLines

MCFlagWords == {"--json", "--yes", "--all", "--multi", "--single", "--page", "--filter",
                "--seconds", "--force", "--quiet", "--version"}
MCAssigned == "--page=exp" :> <<"--page", "exp">> @@ "--yes=no" :> <<"--yes", "no">>
MCPieces == "exp.hidden,sys.uac" :> {"exp.hidden", "sys.uac"}
            @@ "exp.old,x,sys.clean" :> {"exp.old", "x", "sys.clean"}
            @@ "d1,d2" :> {"d1", "d2"}
MCAtoi == "10" :> 10 @@ "4" :> 4 @@ "0" :> 0 @@ "50" :> 50 @@ "101" :> 101 @@ "300" :> 300
          @@ "999" :> 999 @@ "71582789" :> 71582789 @@ "40000000" :> 40000000 @@ "1" :> 1

\* The settings of a new installation, and others.
MCDefaults ==
    [k \in {"disableUpdateNotify", "exclusiveMode", "autoStartExclusive", "replaceTaskMgr",
            "showSystemProcs", "ramMbOnly", "group", "compact", "onlyFrozen",
            "metricsServiceEnabled"} |-> FALSE]
    @@ [k \in {"lang", "style", "lastPageTag", "processExclusions"} |-> ""]
    @@ [theme |-> "Dark", monitoringRefreshMs |-> 500, metricsIntervalSec |-> 2]
MCSettings == [MCDefaults EXCEPT !.group = TRUE, !.metricsIntervalSec = 60, !.theme = "Light"]

Process(pid, name, own) == [pid |-> pid, name |-> name, own |-> own]
Machine ==
    [on |-> [id \in EntryIds \ {"sys.clean"} |-> FALSE], ran |-> {}, release |-> "",
     throttle |-> 100, domains |-> {}, apps |-> {}, settings |-> MCSettings,
     preset |-> {}, consent |-> "granted", timer |-> {}, packages |-> {"pk1", "pk2"},
     running |-> {Process(4, "sys.exe", FALSE), Process(10, "a.exe", TRUE),
                  Process(11, "a.exe", FALSE)}]

MCMachines == {Machine}
MCDigits == DOMAIN MCAtoi
MCMatches == "a" :> {"a.exe", "alpha"}
MCQuick == <<"exp.hidden", "exp.old", "sys.uac">>

-----------------------------------------------------------------------------
(* The processes, and who looks at them *)

MCInside == "a" :> {"a", "ba"} @@ "ba" :> {"ba"}

Look(first0, starts, pauses, tabs, filters0, edits) ==
    [first |-> first0, starts |-> starts, pauses |-> pauses, tabs |-> tabs,
     filters |-> filters0, edits |-> edits]
Row(pid, name) == [pid |-> pid, name |-> name, serial |-> pid]

\* Two processes of one name and a third that starts; two names, one a part of the
\* other, with the list of exclusions; and the two tabs, at all paces.
MCLooks == {
    Look({Row(1, "a"), Row(2, "a")}, 1, {1}, {"processes"}, {}, FALSE),
    Look({Row(1, "a"), Row(2, "ba")}, 0, {1}, {"processes"}, {"search"}, TRUE),
    Look({}, 1, {1, 3}, {"processes", "services"}, {"onlyFrozen", "memory"}, FALSE) }

-----------------------------------------------------------------------------
VARIABLE scene

Scenes == {"table", "line", "processes"}

\* What rests does so in one of its initial states.
PagesInit ==
    /\ scene \in Scenes
    /\ Init /\ L!Init /\ P!Init
    /\ scene # "table" => first = "stock" /\ session.calls = 8
    /\ scene # "processes" => looked.first = {}

PagesNext ==
    \/ scene = "table" /\ Next /\ UNCHANGED <<scene, commandLine, processPage>>
    \/ scene = "line" /\ L!Next /\ UNCHANGED <<scene, vars, processPage>>
    \/ scene = "processes" /\ P!Next /\ UNCHANGED <<scene, vars, commandLine>>

PagesSpec ==
    PagesInit /\ [][PagesNext]_<<scene, vars, commandLine, processPage>>

=============================================================================
