---------------------------- MODULE EmbeddedStore ----------------------------
(***************************************************************************)
(* The single-file build extracts what it carries to a directory named     *)
(* after the payload, once: core/EmbeddedStore.cpp.  Whoever starts and     *)
(* does not find the marker file removes the directory, extracts file by    *)
(* file and makes the marker; nothing keeps a second process from doing     *)
(* the same at the same time.  A file is absent, or there in part, or whole. *)
(***************************************************************************)
EXTENDS Naturals, Sequences

CONSTANTS
    Procs,     \* the processes that may run at once
    Payload,   \* the files, in the order of the payload
    MaxStarts, \* bound: how often the program is started
    None

Files == {Payload[i] : i \in DOMAIN Payload}

ConstAssumption ==
    /\ Payload \in Seq(Files)
    /\ \A i, j \in DOMAIN Payload : Payload[i] = Payload[j] => i = j
    /\ None \notin Files
    /\ MaxStarts \in Nat

VARIABLES
    beside,    \* whether the directory loc lies beside the program
    there,     \* the directory exists
    content,   \* what is in it
    marker,    \* .ok is in it
    stage,     \* how far a process is
    next,      \* the number of the file it extracts next
    doomed,    \* what remove_all has listed and not yet removed
    whole,     \* no other process has truncated the file it is writing
    root,      \* DataRoot of a process that has started
    starts,    \* starts so far
    together,  \* history: a process began to extract while another was at it
    killed,    \* history: a process was killed while it was at it
    spoiled    \* history: a file could not be opened or written

disk == <<there, content, marker>>
procs == <<stage, next, doomed, whole, root>>
history == <<together, killed, spoiled>>
vars == <<beside, disk, procs, starts, history>>

Init ==
    /\ beside \in BOOLEAN
    /\ there = FALSE /\ content = [f \in Files |-> "absent"] /\ marker = FALSE
    /\ stage = [p \in Procs |-> "off"]
    /\ next = [p \in Procs |-> 0] /\ doomed = [p \in Procs |-> {}]
    /\ whole = [p \in Procs |-> FALSE]
    /\ root = [p \in Procs |-> "none"]
    /\ starts = 0
    /\ together = FALSE /\ killed = FALSE /\ spoiled = FALSE

Goto(p, s) == stage' = [stage EXCEPT ![p] = s]
AtIt(p) == stage[p] \in {"remove", "create", "open", "write", "mark"}
Present == {f \in Files : content[f] # "absent"}

\* Somebody has the file open: Windows does not let it be removed.
Opened(f) == \E p \in Procs : stage[p] = "write" /\ Payload[next[p]] = f

\* The program runs, with its data at r.
RunFrom(p, r) ==
    /\ Goto(p, "run")
    /\ root' = [root EXCEPT ![p] = r]
    /\ next' = [next EXCEPT ![p] = 0]

-----------------------------------------------------------------------------
\* The start that takes the directory itself for the sign of a complete extraction.
LaunchIfThere(p) ==
    /\ stage[p] = "off" /\ starts < MaxStarts
    /\ starts' = starts + 1
    /\ IF beside \/ there
       THEN /\ RunFrom(p, IF beside THEN "exe" ELSE "store")
            /\ UNCHANGED <<doomed, together>>
       ELSE /\ Goto(p, "remove")
            /\ doomed' = [doomed EXCEPT ![p] = Present]
            /\ together' = (together \/ \E q \in Procs : AtIt(q))
            /\ UNCHANGED <<next, root>>
    /\ UNCHANGED <<beside, disk, whole, killed, spoiled>>

\* Init and the beginning of OneFileRoot: the marker decides.
Launch(p) ==
    /\ stage[p] = "off" /\ starts < MaxStarts
    /\ starts' = starts + 1
    /\ IF beside \/ marker
       THEN /\ RunFrom(p, IF beside THEN "exe" ELSE "store")
            /\ UNCHANGED <<doomed, together>>
       ELSE /\ Goto(p, "remove")
            /\ doomed' = [doomed EXCEPT ![p] = Present]
            /\ together' = (together \/ \E q \in Procs : AtIt(q))
            /\ UNCHANGED <<next, root>>
    /\ UNCHANGED <<beside, disk, whole, killed, spoiled>>

\* remove_all removes what it has listed, one by one, in any order.
RemoveFile(p) ==
    /\ stage[p] = "remove"
    /\ \E f \in doomed[p] :
         /\ ~Opened(f)
         /\ content' = [content EXCEPT ![f] = "absent"]
         /\ doomed' = [doomed EXCEPT ![p] = @ \ {f}]
    /\ UNCHANGED <<beside, there, marker, stage, next, whole, root, starts, history>>

\* At last the marker, if there is one by now, and the directory, if it is empty; a file
\* that is open ends it early.  The error is not looked at.
RemoveDirectory(p) ==
    /\ stage[p] = "remove"
    /\ \/ \E f \in doomed[p] : Opened(f) /\ UNCHANGED <<there, marker>>
       \/ doomed[p] = {} /\ marker' \in {FALSE, marker} /\ there' = (there /\ (Present # {} \/ marker'))
    /\ doomed' = [doomed EXCEPT ![p] = {}]
    /\ Goto(p, "create")
    /\ UNCHANGED <<beside, content, next, whole, root, starts, history>>

CreateDirectory(p) ==
    /\ stage[p] = "create"
    /\ there' = TRUE
    /\ next' = [next EXCEPT ![p] = 1]
    /\ Goto(p, IF Payload = <<>> THEN "mark" ELSE "open")
    /\ UNCHANGED <<beside, content, marker, doomed, whole, root, starts, history>>

\* ExtractPayload: the next file is created, or truncated; its directory is created
\* again if it is not there.
OpenFile(p) ==
    /\ stage[p] = "open"
    /\ there' = TRUE
    /\ content' = [content EXCEPT ![Payload[next[p]]] = "part"]
    /\ whole' = [q \in Procs |->
                    IF q = p THEN TRUE
                    ELSE whole[q] /\ ~(stage[q] = "write" /\ next[q] = next[p])]
    /\ Goto(p, "write")
    /\ UNCHANGED <<beside, marker, next, doomed, root, starts, history>>

\* It cannot be created, be it that another process has removed the directory
\* since: the program makes do with the directory it is in.
OpenFails(p) ==
    /\ stage[p] = "open"
    /\ spoiled' = (spoiled \/ ~\E q \in Procs \ {p} : stage[q] \in {"remove", "create"})
    /\ RunFrom(p, "exe")
    /\ UNCHANGED <<beside, disk, doomed, whole, starts, together, killed>>

After(p) ==
    /\ next' = [next EXCEPT ![p] = @ + 1]
    /\ Goto(p, IF next[p] = Len(Payload) THEN "mark" ELSE "open")
    /\ whole' = [whole EXCEPT ![p] = FALSE]

WriteFile(p) ==
    /\ stage[p] = "write"
    /\ content' = [content EXCEPT ![Payload[next[p]]] = IF whole[p] THEN "whole" ELSE @]
    /\ After(p)
    /\ UNCHANGED <<beside, there, marker, doomed, root, starts, history>>

\* The disk is full; nobody looks.
WriteFails(p) ==
    /\ stage[p] = "write"
    /\ spoiled' = TRUE
    /\ After(p)
    /\ UNCHANGED <<beside, disk, doomed, root, starts, together, killed>>

\* The marker, if the directory is still there.
MakeMarker(p) ==
    /\ stage[p] = "mark"
    /\ marker' = (marker \/ there)
    /\ RunFrom(p, "store")
    /\ UNCHANGED <<beside, there, content, doomed, whole, starts, history>>

\* The process ends, or is killed on its way.
Exit(p) ==
    /\ stage[p] # "off"
    /\ Goto(p, "off")
    /\ killed' = (killed \/ AtIt(p))
    /\ root' = [root EXCEPT ![p] = "none"] /\ next' = [next EXCEPT ![p] = 0]
    /\ doomed' = [doomed EXCEPT ![p] = {}] /\ whole' = [whole EXCEPT ![p] = FALSE]
    /\ UNCHANGED <<beside, disk, starts, together, spoiled>>

-----------------------------------------------------------------------------
Next ==
    \E p \in Procs :
        \/ Launch(p) \/ RemoveFile(p) \/ RemoveDirectory(p) \/ CreateDirectory(p)
        \/ OpenFile(p) \/ OpenFails(p) \/ WriteFile(p) \/ WriteFails(p)
        \/ MakeMarker(p) \/ Exit(p)

Spec == Init /\ [][Next]_vars

-----------------------------------------------------------------------------
(* Properties *)

TypeOK ==
    /\ beside \in BOOLEAN /\ there \in BOOLEAN /\ marker \in BOOLEAN
    /\ content \in [Files -> {"absent", "part", "whole"}]
    /\ stage \in [Procs -> {"off", "remove", "create", "open", "write", "mark", "run"}]
    /\ next \in [Procs -> 0..(Len(Payload) + 1)]
    /\ doomed \in [Procs -> SUBSET Files] /\ whole \in [Procs -> BOOLEAN]
    /\ root \in [Procs -> {"none", "exe", "store"}]
    /\ starts \in 0..MaxStarts
    /\ together \in BOOLEAN /\ killed \in BOOLEAN /\ spoiled \in BOOLEAN

Complete == \A f \in Files : content[f] = "whole"

\* The marker is all that a later start looks at.  Once nobody extracts any more,
\* it stands for a complete directory, although several first starts may have
\* removed each other's files, and although a single one may have been killed at any
\* point: only a process killed among several, or a file that could not be written,
\* leaves a marker that lies for ever.
MarkerMeansComplete ==
    marker /\ (\A p \in Procs : ~AtIt(p)) /\ ~spoiled /\ ~(together /\ killed) => Complete

\* A process that extracts alone runs with all its files.
UsedIsComplete ==
    ~together /\ ~spoiled =>
        \A p \in Procs : root[p] = "store" => Complete

\* Both: what later starts take for complete is complete, and what a process uses.
CompleteWhenUsed == MarkerMeansComplete /\ UsedIsComplete

-----------------------------------------------------------------------------
(* What makes them invariants *)

\* Whoever extracts a file has one to extract.
InRange == \A p \in Procs : stage[p] \in {"open", "write"} => next[p] \in 1..Len(Payload)

\* Without a second first start, one process extracts, into a directory that stays
\* there, and nobody does once there is a marker.
OneExtracts ==
    ~together =>
        /\ \A p, q \in Procs : AtIt(p) /\ AtIt(q) => p = q
        /\ \A p \in Procs : stage[p] \in {"open", "write", "mark"} => there
        /\ marker => \A p \in Procs : ~AtIt(p)
        /\ \A p \in Procs : root[p] = "store" => marker

\* It has completed the files before the next one.
SoFar ==
    ~together /\ ~spoiled =>
        /\ \A p \in Procs :
             /\ stage[p] \in {"open", "write"} =>
                  \A i \in 1..next[p] - 1 : content[Payload[i]] = "whole"
             /\ stage[p] = "write" => whole[p]
             /\ stage[p] = "mark" => Complete
        /\ marker => Complete

\* The file of number i is yet to be written by p.
Owes(p, i) ==
    \/ stage[p] \in {"remove", "create"}
    \/ stage[p] = "open" /\ next[p] <= i
    \/ stage[p] = "write" /\ (next[p] < i \/ (next[p] = i /\ whole[p]))

\* Several processes may undo each other's work, but as long as nobody is killed,
\* whoever undoes it does it again.
Repaired ==
    ~killed /\ ~spoiled /\ (marker \/ \E p \in Procs : AtIt(p)) =>
        \A i \in DOMAIN Payload : content[Payload[i]] = "whole" \/ \E p \in Procs : Owes(p, i)

StoreInv == TypeOK /\ InRange /\ OneExtracts /\ SoFar /\ Repaired
=============================================================================
