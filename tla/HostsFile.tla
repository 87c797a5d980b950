------------------------------ MODULE HostsFile ------------------------------
(***************************************************************************)
(* The list of blocked sites in Windows' hosts file: core/HostsBan.cpp, the *)
(* window's dialog (ui/Modals.cpp) and the hosts command (cli/Cli.cpp).     *)
(*                                                                         *)
(* The file is a sequence of lines: StartTag and EndTag around what the     *)
(* program manages; a domain d, for "127.0.0.1 d"; and lines of others.     *)
(* Every process reads the whole file, truncates it and writes it again in  *)
(* place, piece by piece; it may be killed or run out of disk at any piece, *)
(* and nobody looks at the result of a write.  A domain stands for          *)
(* everything that NormalizeDomain makes it of.                             *)
(***************************************************************************)
EXTENDS Naturals, FiniteSetsExt, SequencesExt, Picking

CONSTANTS
    Window,    \* the window, with its dialog
    Cli,       \* command line processes
    Domains, Forbidden, \* sites, and those that may not be blocked
    Others,    \* lines of other programs and of the user
    Preset,    \* YandexPreset
    Texts,     \* bound: what the user types into the dialog
    Files,     \* the files to begin with
    Fits,      \* bound: how many domains the dialog's buffer takes
    MaxRuns,   \* bound: updates
    StartTag, EndTag, \* the lines of the tags
    Hole       \* what is read where nothing was ever written

ConstAssumption ==
    /\ Window \notin Cli
    /\ Forbidden \subseteq Domains
    /\ Texts \cup {Preset} \subseteq Seq(Domains)
    /\ Files \subseteq Seq(Domains \cup Others \cup {StartTag, EndTag})
    /\ Others \cap (Domains \cup {StartTag, EndTag, Hole}) = {}
    /\ {StartTag, EndTag, Hole} \cap Domains = {}
    /\ StartTag # EndTag
    /\ Fits \in Nat /\ MaxRuns \in Nat

Processes == Cli \cup {Window}

VARIABLES
    file,      \* the lines on disk
    elevated,  \* the processes that may write the file
    stage,     \* how far a process is
    domains,   \* the list it wants to be blocked
    lines,     \* the file as it is going to write it
    written,   \* how many lines of that are on disk
    open,      \* g_siteBan: the dialog is open
    loaded,    \* its static flag
    text,      \* its buffer
    runs,      \* updates so far
    first,     \* history: the file to begin with
    applied,   \* history: the list of the latest complete update
    cut,       \* history: an update was not written to its end
    mixed      \* history: a process came into the writing of another

dialog == <<open, loaded, text>>
history == <<first, applied, cut, mixed>>
vars == <<file, elevated, stage, domains, lines, written, dialog, runs, history>>

-----------------------------------------------------------------------------
(* What the file says *)

Places(f, tag) == {i \in DOMAIN f : f[i] = tag}

\* The lines of f that are in S, in order.
Kept(f, S) == At(f, {i \in DOMAIN f : f[i] \in S})

\* The tags themselves are skipped: what follows the first start tag, up to the
\* first end tag in the file.
ReadBlockedDomains(f) ==
    LET starts == Places(f, StartTag)
        end == IF Places(f, EndTag) = {} THEN Len(f) + 1 ELSE Min(Places(f, EndTag))
    IN IF starts = {} THEN <<>>
       ELSE Kept(SubSeq(f, Min(starts) + 1, end - 1), Domains)

\* ParseDomainsFromText: every domain once, in order.
Once(t) == At(t, {i \in DOMAIN t : \A j \in 1..(i - 1) : t[j] # t[i]})

ContainsForbiddenDomain(ds) == \E i \in DOMAIN ds : ds[i] \in Forbidden

\* The erasure that takes one line too many along.
WithoutBlockAndNext(f) ==
    LET s == Places(f, StartTag)  e == Places(f, EndTag) IN
    IF s # {} /\ e # {} /\ Max(s) <= Max(e)
    THEN SubSeq(f, 1, Max(s) - 1) \o SubSeq(f, Max(e) + 2, Len(f))
    ELSE f

\* From the last start tag to the last end tag, unless they are not in order.
WithoutBlock(f) ==
    LET s == Places(f, StartTag)  e == Places(f, EndTag) IN
    IF s # {} /\ e # {} /\ Max(s) <= Max(e)
    THEN SubSeq(f, 1, Max(s) - 1) \o SubSeq(f, Max(e) + 1, Len(f))
    ELSE f

\* The block without its end, which the reader then looks for in the rest.
BlockWithoutEnd(ds) == IF ds = <<>> THEN <<>> ELSE <<StartTag>> \o ds

Block(ds) == IF ds = <<>> THEN <<>> ELSE <<StartTag>> \o ds \o <<EndTag>>

UpdatedLines(f, ds) == WithoutBlock(f) \o Block(ds)

-----------------------------------------------------------------------------
Init ==
    /\ file \in Files /\ first = file
    /\ elevated \in SUBSET Processes
    /\ stage = [p \in Processes |-> "idle"]
    /\ domains = [p \in Processes |-> <<>>]
    /\ lines = [p \in Processes |-> <<>>] /\ written = [p \in Processes |-> 0]
    /\ open = FALSE /\ loaded = FALSE /\ text = <<>>
    /\ runs = 0
    /\ applied = ReadBlockedDomains(file) /\ cut = FALSE /\ mixed = FALSE

Goto(p, s) == stage' = [stage EXCEPT ![p] = s]
Writing(p) == stage[p] = "write"
OtherWrites(p) == \E q \in Processes \ {p} : Writing(q)

-----------------------------------------------------------------------------
(* UpdateBlockedDomains *)

\* The start of an update to the list ds.
Update(p, ds) ==
    /\ runs < MaxRuns /\ runs' = runs + 1
    /\ domains' = [domains EXCEPT ![p] = ds]
    /\ Goto(p, "read")

Finish(p) ==
    /\ Goto(p, "idle")
    /\ domains' = [domains EXCEPT ![p] = <<>>]
    /\ lines' = [lines EXCEPT ![p] = <<>>] /\ written' = [written EXCEPT ![p] = 0]

ReadLines(p) ==
    /\ stage[p] = "read"
    /\ lines' = [lines EXCEPT ![p] = UpdatedLines(file, domains[p])]
    /\ mixed' = (mixed \/ OtherWrites(p))
    /\ Goto(p, "truncate")
    /\ UNCHANGED <<file, elevated, domains, written, dialog, runs, first, applied, cut>>

\* The dialog closes and forgets its text after an update; the command returns 0.
Done(p) ==
    IF p = Window THEN open' = FALSE /\ loaded' = FALSE /\ UNCHANGED text
                  ELSE UNCHANGED dialog

\* Opening the file for writing truncates it; without the rights it fails, and
\* the update is over all the same.
Truncate(p) ==
    /\ stage[p] = "truncate"
    /\ \/ /\ p \in elevated
          /\ file' = <<>>
          /\ mixed' = (mixed \/ OtherWrites(p))
          /\ Goto(p, "write")
          /\ UNCHANGED <<domains, lines, written, dialog>>
       \/ /\ p \notin elevated
          /\ Finish(p) /\ Done(p)
          /\ UNCHANGED <<file, mixed>>
    /\ UNCHANGED <<elevated, runs, first, applied, cut>>

\* The next piece of the stream's buffer, over what is at its place.
WriteLines(p) ==
    /\ Writing(p) /\ written[p] < Len(lines[p])
    /\ \E n \in (written[p] + 1)..Len(lines[p]) :
         /\ file' = [i \in 1..Max({n, Len(file)}) |->
                        CASE i \in (written[p] + 1)..n -> lines[p][i]
                          [] i \in DOMAIN file \ ((written[p] + 1)..n) -> file[i]
                          [] OTHER -> Hole]
         /\ written' = [written EXCEPT ![p] = n]
    /\ UNCHANGED <<elevated, stage, domains, lines, dialog, runs, history>>

Close(p) ==
    /\ Writing(p) /\ written[p] = Len(lines[p])
    /\ applied' = domains[p]
    /\ Finish(p) /\ Done(p)
    /\ UNCHANGED <<file, elevated, runs, first, cut, mixed>>

\* A full disk: the rest of the lines is lost, and the update succeeds.
DiskFull(p) ==
    /\ Writing(p) /\ written[p] < Len(lines[p])
    /\ cut' = TRUE
    /\ Finish(p) /\ Done(p)
    /\ UNCHANGED <<file, elevated, runs, first, applied, mixed>>

-----------------------------------------------------------------------------
(* The dialog: its text is read once, until an update has succeeded *)

Fit(t) == SubSeq(t, 1, IF Len(t) < Fits THEN Len(t) ELSE Fits)

OpenSiteBan ==
    /\ ~open /\ stage[Window] = "idle"
    /\ open' = TRUE
    /\ loaded' = TRUE
    /\ text' = IF loaded THEN text ELSE Fit(ReadBlockedDomains(file))
    /\ UNCHANGED <<file, elevated, stage, domains, lines, written, runs, history>>

\* Typing, the Yandex button and the Clear button.
EditText ==
    /\ open /\ stage[Window] = "idle"
    /\ text' \in {Fit(t) : t \in Texts \cup {Preset, <<>>}}
    /\ UNCHANGED <<file, elevated, stage, domains, lines, written, open, loaded, runs, history>>

CloseDialog ==
    /\ open /\ stage[Window] = "idle"
    /\ open' = FALSE
    /\ UNCHANGED <<file, elevated, stage, domains, lines, written, loaded, text, runs, history>>

\* A forbidden domain brings an error message and changes nothing.
ApplyBan ==
    /\ open /\ stage[Window] = "idle"
    /\ ~ContainsForbiddenDomain(Once(text))
    /\ Update(Window, Once(text))
    /\ UNCHANGED <<file, elevated, lines, written, dialog, history>>

-----------------------------------------------------------------------------
(* hosts ban, unban and clear *)

\* The list is read first; a list with a forbidden domain and a process without
\* rights are refused with exit code 1.
Command(p, next) ==
    /\ p \in Cli /\ stage[p] = "idle"
    /\ p \in elevated
    /\ ~ContainsForbiddenDomain(next)
    /\ Update(p, next)
    /\ UNCHANGED <<file, elevated, lines, written, dialog, history>>

HostsBan(p, d) ==
    LET current == ReadBlockedDomains(file)
    IN Command(p, IF d \in Range(current) THEN current ELSE Append(current, d))
HostsUnban(p, d) ==
    Command(p, Kept(ReadBlockedDomains(file), Domains \ {d}))
HostsClear(p) == Command(p, <<>>)

\* The process is killed; the window starts again.
Kill(p) ==
    /\ stage[p] # "idle"
    /\ cut' = (cut \/ Writing(p))
    /\ Finish(p)
    /\ IF p = Window THEN open' = FALSE /\ loaded' = FALSE /\ text' = <<>>
                     ELSE UNCHANGED dialog
    /\ UNCHANGED <<file, elevated, runs, first, applied, mixed>>

-----------------------------------------------------------------------------
Next ==
    \/ OpenSiteBan \/ EditText \/ CloseDialog \/ ApplyBan
    \/ \E p \in Cli, d \in Domains : HostsBan(p, d) \/ HostsUnban(p, d)
    \/ \E p \in Cli : HostsClear(p)
    \/ \E p \in Processes :
         ReadLines(p) \/ Truncate(p) \/ WriteLines(p) \/ Close(p) \/ DiskFull(p) \/ Kill(p)

Spec == Init /\ [][Next]_vars

-----------------------------------------------------------------------------
(* Properties *)

Lines == Domains \cup Others \cup {StartTag, EndTag, Hole}

TypeOK ==
    /\ file \in Seq(Lines) /\ first \in Files
    /\ elevated \subseteq Processes
    /\ stage \in [Processes -> {"idle", "read", "truncate", "write"}]
    /\ domains \in [Processes -> Seq(Domains)]
    /\ lines \in [Processes -> Seq(Lines)] /\ written \in [Processes -> Nat]
    /\ open \in BOOLEAN /\ loaded \in BOOLEAN /\ text \in Seq(Domains)
    /\ runs \in 0..MaxRuns
    /\ applied \in Seq(Domains) /\ cut \in BOOLEAN /\ mixed \in BOOLEAN

AtRest == \A p \in Processes : ~Writing(p)
OthersIn(f) == Kept(f, Others)

\* No line of others stands between a start tag and an end tag that follows it, unless
\* there is another start tag between them: what an update takes for the block.
Tidy(f) ==
    \A s \in Places(f, StartTag), e \in Places(f, EndTag) :
        (\E k \in s..e : f[k] \in Others) => \E t \in Places(f, StartTag) : s < t /\ t < e

\* The lines of others stay in the file, all of them and in order, through any
\* number of updates by the window and by commands, unless one comes into the
\* writing of another or is not written to its end.  (Lines that others have put into
\* the block go with it.)
OthersAreKept ==
    AtRest /\ ~mixed /\ ~cut /\ Tidy(first) => OthersIn(file) = OthersIn(first)

\* Every end tag follows all start tags, of which there is at least one.
Ordered(f) ==
    \A e \in Places(f, EndTag) :
        Places(f, StartTag) # {} /\ \A s \in Places(f, StartTag) : s < e

\* One block that has an end, or none.
Closed(f) ==
    /\ Ordered(f)
    /\ \A s, t \in Places(f, StartTag) : s = t
    /\ Places(f, StartTag) # {} => Places(f, EndTag) # {}

\* What the program lists as blocked is what was applied last, by whomever; even
\* after updates that were cut off, which may leave a block without its end,
\* the list has everything that is going to be applied.
ListIsApplied ==
    AtRest /\ ~mixed =>
        /\ ~cut /\ Closed(first) => ReadBlockedDomains(file) = applied
        /\ Ordered(first) => \A p \in Processes : stage[p] = "truncate" =>
             Range(domains[p]) \subseteq Range(ReadBlockedDomains(lines[p]))

-----------------------------------------------------------------------------
(* What makes them invariants *)

\* A process that is not writing has nothing on disk; one that writes has part of it.
Progress ==
    \A p \in Processes :
        /\ ~Writing(p) => written[p] = 0
        /\ Writing(p) => written[p] <= Len(lines[p])

\* Unless one comes into the writing of another, one writes, and the file is what it
\* has written.
OneWriter ==
    ~mixed =>
        /\ \A p, q \in Processes : Writing(p) /\ Writing(q) => p = q
        /\ \A p \in Processes : Writing(p) => file = SubSeq(lines[p], 1, written[p])

\* What all that is written, or is going to be, has in common: the lines of others,
\* no line of others in the block, and a block in order.
Keeps(f) == Tidy(first) => Tidy(f) /\ OthersIn(f) = OthersIn(first)
Lists(f, ds) == Closed(first) => Closed(f) /\ ReadBlockedDomains(f) = ds
Holds(f, ds) == Ordered(first) => Ordered(f) /\ Range(ds) \subseteq Range(ReadBlockedDomains(f))

\* A file at rest keeps and lists, unless an update was cut off, and is in order even then.
RestIsSound ==
    AtRest /\ ~mixed =>
        /\ Ordered(first) => Ordered(file)
        /\ ~cut => Keeps(file) /\ Lists(file, applied)

\* So does what a process has put together.
LinesAreSound ==
    ~mixed => \A p \in Processes : stage[p] \in {"truncate", "write"} =>
        /\ Holds(lines[p], domains[p])
        /\ ~cut => Keeps(lines[p]) /\ Lists(lines[p], domains[p])

FileInv == TypeOK /\ Progress /\ OneWriter /\ RestIsSound /\ LinesAreSound
=============================================================================
