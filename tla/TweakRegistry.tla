---------------------------- MODULE TweakRegistry ----------------------------
(***************************************************************************)
(* What applying and probing system tweaks (core/TweakRegistry.cpp) does to *)
(* the registry, the boot configuration and the power schemes of Windows,   *)
(* for any table of them; TweakTable has the program's.                     *)
(*                                                                         *)
(* The content of a stored value is a string, "absent" when there is none.  *)
(* Writes whose process lacks the rights fail, and apply does not look.     *)
(***************************************************************************)
EXTENDS StoredNames, Naturals

CONSTANTS
    All,        \* the table
    Sessions    \* the sessions considered, each with
                \*   build     the build number of the running Windows
                \*   elevated  whether the process has administrator rights
                \*   ultimate  whether this edition has the Ultimate power scheme
                \*   knowsNo   whether the word bcdedit prints for false in this
                \*             language begins with an n, or the bytes of a small
                \*             Cyrillic one, once tolower has had its bytes
                \*   used      the ids that are used
                \*   calls     bound: how many tweaks are applied

Toggles == {t \in All : t.kind = "toggle"}
Ids == {t.id : t \in Toggles}

\* The two entries that are about power schemes.
PowerPlan == "perf.ultimate-power-plan"
PowerTimeouts == "perf.no-sleep-timeout"

WrittenBy(t) == DOMAIN t.on \cup DOMAIN t.off
ProbedBy(t) == {c[1] : c \in t.probe}
IsActive(n) == n[1] = "ACTIVE"

\* Turning sys.uac-off off leaves what it wrote for attachments.
Leftovers == {<<"HKCU", "SaveZoneInformation">>, <<"HKCU", "LowRiskFileTypes">>}

(* What the table has to be for its entries to keep out of each other's way *)

\* Ids are unique; names are pairs, of which one means the active power scheme.
EntriesAreOnes ==
    /\ \A t, u \in All : t.id = u.id => t = u
    /\ PowerPlan \in Ids
    /\ \A t \in All :
         /\ WrittenBy(t) \subseteq STRING \X STRING
         /\ t \notin Toggles => \A n \in WrittenBy(t) : ~IsActive(n) /\ n # Scheme

\* An entry that a process without rights may use writes to the user's hive only.
RightsSuffice == \A t \in All : t.admin \/ \A n \in WrittenBy(t) : n[1] = "HKCU"

\* One entry changes the scheme, and one, which is the one that probes them, its timeouts.
SchemesAreApart ==
    \A t \in Toggles :
        /\ Scheme \in WrittenBy(t) =>
             /\ t.id = PowerPlan
             /\ Scheme \in DOMAIN t.on \cap DOMAIN t.off
             /\ t.on[Scheme] = "ultimate" /\ t.off[Scheme] = "balanced"
        /\ t.id = PowerPlan => Scheme \in WrittenBy(t)
        /\ \A n \in WrittenBy(t) :
             IsActive(n) => t.id = PowerTimeouts /\ n[2] \in {"display", "sleep"}

\* Whether a probe's condition is met by what is stored.  BcdFlagEnabled takes a
\* flag that is set for enabled, unless it knows what bcdedit prints for a false one.
Meets(content, wanted, knowsNo) ==
    IF wanted = Enabled THEN content # "absent" /\ (content = "false" => ~knowsNo)
                        ELSE content = wanted

\* What a toggle writes decides what its probe reads, where No is known.
ProbesTell ==
    \A t \in Toggles :
        LET on(c) == c[1] \in DOMAIN t.on /\ \A k \in BOOLEAN : Meets(t.on[c[1]], c[2], k)
            off(c) == c[1] \in DOMAIN t.off /\ ~Meets(t.off[c[1]], c[2], TRUE)
        IN IF t.any THEN (\E c \in t.probe : on(c)) /\ (\A c \in t.probe : off(c))
                    ELSE (\A c \in t.probe : on(c)) /\ (\E c \in t.probe : off(c))

\* No entry writes what another one probes.
ProbesAreOwn ==
    \A t \in Toggles, u \in All : t # u => ProbedBy(t) \cap WrittenBy(u) = {}

\* What a toggle writes it also restores, and to the same as any other toggle.
DefaultsAgree ==
    \A t \in Toggles :
        /\ DOMAIN t.on \ Leftovers \subseteq DOMAIN t.off
        /\ \A u \in Toggles : \A n \in (DOMAIN t.off \cap DOMAIN u.off) \ Leftovers :
             t.off[n] = u.off[n]

ASSUME ConstAssumption ==
    /\ EntriesAreOnes /\ RightsSuffice /\ SchemesAreApart
    /\ ProbesTell /\ ProbesAreOwn /\ DefaultsAgree
    /\ \A s \in Sessions :
         /\ s.build \in Nat /\ s.calls \in Nat
         /\ s.elevated \in BOOLEAN /\ s.ultimate \in BOOLEAN /\ s.knowsNo \in BOOLEAN
         /\ s.used \subseteq {t.id : t \in All}

-----------------------------------------------------------------------------
(* IsAvailable, Apply and Probe *)

VARIABLES
    session, \* who uses the table, and where
    store,   \* the content of every value
    first,   \* history: the content at the beginning: "stock" or another
    last,    \* history: the toggles as they were last set, "never" before
    calls    \* calls so far

vars == <<session, store, first, last, calls>>

IsAvailable(t) ==
    /\ t.builds[1] # 0 => session.build >= t.builds[1]
    /\ t.builds[2] # 0 => session.build <= t.builds[2]

\* Where a name of the table is kept, given what is stored now.
Place(n, s) == IF IsActive(n) THEN Of(s[Scheme], n[2]) ELSE n

Names == UNION {WrittenBy(t) : t \in All}
Values == {n \in Names : ~IsActive(n)}
          \cup {Of(scheme, n[2]) : scheme \in Schemes, n \in {m \in Names : IsActive(m)}}

\* The hive decides who may write, the edition which schemes there are.
CanWrite(v, content) ==
    /\ session.elevated \/ v[1] = "HKCU"
    /\ v = Scheme /\ content = "ultimate" => session.ultimate

\* What is stored after the writes w have been made.
Written(s, w) ==
    LET new == [v \in {Place(n, s) : n \in DOMAIN w} |->
                   w[CHOOSE n \in DOMAIN w : Place(n, s) = v]]
    IN [v \in DOMAIN s |->
           IF v \in DOMAIN new /\ CanWrite(v, new[v]) THEN new[v] ELSE s[v]]

ProbeIn(t, s) ==
    LET holds(c) == Meets(s[Place(c[1], s)], c[2], session.knowsNo) IN
    IF t.any THEN \E c \in t.probe : holds(c) ELSE \A c \in t.probe : holds(c)

Probe(t) == t.kind = "toggle" /\ IsAvailable(t) /\ ProbeIn(t, store)

\* The default comes back only where the probe looks.
ApplyToProbed(t, on) ==
    /\ IsAvailable(t)
    /\ store' = Written(store, IF on THEN t.on
                              ELSE [n \in DOMAIN t.off \cap ProbedBy(t) |-> t.off[n]])

Apply(t, on) ==
    /\ IsAvailable(t)
    /\ store' = Written(store, IF on THEN t.on ELSE t.off)

\* Windows asks when it is needed.
MayTry(t) == t.id \in Ids \/ session.elevated

\* The command line and the pages refuse what the process has no rights for.
MayRun(t) == t.admin => session.elevated

-----------------------------------------------------------------------------
(* A user at the pages or at the command line *)

\* A machine on which nothing was ever set.
Blank == [v \in Values |-> IF v = Scheme THEN "balanced" ELSE "absent"]

\* Off, everywhere: the off values of all toggles over an empty store.
Stock ==
    [v \in Values |->
        LET off == {t \in Toggles : \E n \in DOMAIN t.off : Place(n, Blank) = v}
            t == CHOOSE u \in off : TRUE
        IN IF v = Scheme THEN "balanced"
           ELSE IF off = {} THEN "absent"
           ELSE t.off[CHOOSE n \in DOMAIN t.off : Place(n, Blank) = v]]

\* A machine with everything on.
AllOn ==
    [v \in Values |->
        LET on == {t \in Toggles : v \in DOMAIN t.on} IN
        IF on = {} THEN Stock[v] ELSE (CHOOSE t \in on : TRUE).on[v]]

Machines == [stock |-> Stock, blank |-> Blank, allon |-> AllOn]

Init ==
    /\ session \in Sessions
    /\ first \in DOMAIN Machines
    /\ store = Machines[first]
    /\ last = [id \in Ids |-> "never"]
    /\ calls = 0

\* A call on t that the user of the session can make.
Call(t, on) ==
    /\ t.id \in session.used /\ MayRun(t)
    /\ calls < session.calls /\ calls' = calls + 1
    /\ Apply(t, on)
    /\ UNCHANGED <<session, first>>

\* tweak set, or the switch of a page
Set(t, on) ==
    /\ Call(t, on)
    /\ last' = [last EXCEPT ![t.id] = IF on THEN "on" ELSE "off"]

\* tweak run, or the button of a page
Run(t) == Call(t, TRUE) /\ UNCHANGED last

Next ==
    \/ \E t \in Toggles, on \in BOOLEAN : Set(t, on)
    \/ \E t \in All \ Toggles : Run(t)

Spec == Init /\ [][Next]_vars

-----------------------------------------------------------------------------
(* Properties *)

Contents == {"absent"} \cup (UNION {{t.on[n] : n \in DOMAIN t.on} : t \in All})
                       \cup (UNION {{t.off[n] : n \in DOMAIN t.off} : t \in All})

TypeOK ==
    /\ session \in Sessions
    /\ DOMAIN store = Values /\ \A v \in Values : store[v] \in Contents
    /\ first \in DOMAIN Machines
    /\ DOMAIN last = Ids /\ \A id \in Ids : last[id] \in {"never", "on", "off"}
    /\ calls \in 0..session.calls

\* A toggle that sets a flag of the boot configuration to false.
SetsNo(t) ==
    \E c \in t.probe : c[2] = Enabled /\ c[1] \in DOMAIN t.off /\ t.off[c[1]] = "false"

\* Three things the table does not promise.  The timeouts are those of a scheme,
\* so they are comparable only while the scheme stays the same.  An edition
\* without the Ultimate scheme stays in the balanced one.  And a false flag is
\* told from a true one only where bcdedit's word for it is known.
SchemeKept == last[PowerPlan] = "never"
Promised(t) ==
    /\ t.id = PowerTimeouts => SchemeKept
    /\ t.id = PowerPlan => session.ultimate
    /\ SetsNo(t) => session.knowsNo

\* TweakRegistry.h, probe: "Reports the tweak's current state."  A toggle
\* reports what it was last set to, whatever the machine looked like before and
\* whichever other tweaks were applied since: no entry disturbs another one,
\* and none needs rights that the process was not asked for.
ProbeIsLast ==
    \A t \in Toggles :
        last[t.id] # "never" /\ Promised(t) => Probe(t) = (last[t.id] = "on")

\* BcdFlagEnabled: "so treat anything that is not an explicit no/0/false as
\* enabled", and "\"no\" (en) and [the word] (ru) both start with n": a flag that
\* was set to false is read as false, whatever the language of Windows.
FlagsAreRead ==
    \A t \in Toggles :
        SetsNo(t) /\ last[t.id] # "never" => Probe(t) = (last[t.id] = "on")

\* What only toggles write.
OnlyToggles ==
    {v \in Values : \A t \in All \ Toggles : v \notin DOMAIN t.on}

\* TweakRegistry.h, apply: "`false` restores the Windows default" and Kind:
\* "Reversible on/off state".  On a machine where everything was off, once every
\* toggle that was set is off again, in any order, every value only toggles
\* write is as it was, apart from the leftovers of sys.uac-off.
RestoresDefault ==
    first = "stock" /\ (\A id \in Ids : last[id] # "on")
        => \A v \in OnlyToggles \ Leftovers :
              SchemeKept \/ v[2] \notin {"display", "sleep"} => store[v] = Stock[v]

-----------------------------------------------------------------------------
(* The inductive invariant *)

\* A toggle that has been set is available, and its probe tells what it was set to.
SetIsKnown ==
    \A t \in Toggles : last[t.id] # "never" =>
        /\ IsAvailable(t)
        /\ Promised(t) => ProbeIn(t, store) = (last[t.id] = "on")

\* With the balanced scheme, t writes the value v.
Touches(t, v) == \E n \in WrittenBy(t) : Place(n, Blank) = v

\* A value that no toggle which is on has written is the default.
DefaultsStay ==
    first = "stock" =>
        /\ SchemeKept => store[Scheme] = "balanced"
        /\ \A v \in OnlyToggles \ Leftovers :
              /\ SchemeKept \/ v[2] \notin {"display", "sleep"}
              /\ \A t \in Toggles : Touches(t, v) => last[t.id] # "on"
              => store[v] = Stock[v]

TableInv == TypeOK /\ store[Scheme] \in Schemes /\ SetIsKnown /\ DefaultsStay
=============================================================================
