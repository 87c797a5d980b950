----------------------------- MODULE SharedFiles -----------------------------
(***************************************************************************)
(* The three files that several processes of the program share: the         *)
(* settings (ConsentStore), the hosts file (HostsFile) and the extracted    *)
(* payload (EmbeddedStore).  They share no state, so that one of them is    *)
(* the scene of a behaviour and the others rest.                            *)
(***************************************************************************)
EXTENDS ConsentStore, Sequences

CONSTANTS
    Window, HostsCommands, \* who writes the hosts file: the window and commands
    Domains, Forbidden, Others, Preset, Texts, HostsFiles, Fits, MaxUpdates,
    StartTag, EndTag, Hole,
    Starters, Payload, MaxStarts, None \* starts of the single-file build, and what it carries

VARIABLES
    scene,
    file, elevated, hStage, domains, lines, written, open, loaded, text, runs,
    first, applied, cut, mixed,
    beside, there, content, marker, eStage, next, doomed, whole, root, starts,
    together, killed, spoiled

H == INSTANCE HostsFile WITH
        Cli <- HostsCommands, Files <- HostsFiles, MaxRuns <- MaxUpdates, stage <- hStage

E == INSTANCE EmbeddedStore WITH Procs <- Starters, stage <- eStage

ASSUME HostsAssumption == H!ConstAssumption
ASSUME EmbeddedAssumption == E!ConstAssumption

hosts == <<file, elevated, hStage, domains, lines, written, open, loaded, text, runs,
           first, applied, cut, mixed>>
payload == <<beside, there, content, marker, eStage, next, doomed, whole, root, starts,
             together, killed, spoiled>>

Scenes == {"settings", "hosts", "payload"}

FilesInit == scene \in Scenes /\ Init /\ H!Init /\ E!Init

FilesNext ==
    \/ scene = "settings" /\ Next /\ UNCHANGED <<scene, hosts, payload>>
    \/ scene = "hosts" /\ H!Next /\ UNCHANGED <<scene, vars, payload>>
    \/ scene = "payload" /\ E!Next /\ UNCHANGED <<scene, vars, hosts>>

FilesSpec == FilesInit /\ [][FilesNext]_<<scene, vars, hosts, payload>>

-----------------------------------------------------------------------------
(* The properties of the three modules *)

\* The variables of the three modules hold what the code can put there.
AllTypesOK == TypeOK /\ H!TypeOK /\ E!TypeOK

\* The lines of others stay in the hosts file through any number of updates.
OthersAreKept == H!OthersAreKept

\* What is listed as blocked is what was applied last.
ListIsApplied == H!ListIsApplied

\* The marker of the extracted files tells the truth, and a process uses all of them.
CompleteWhenUsed == E!CompleteWhenUsed
=============================================================================
