--------------------------- MODULE UwpPageProofs ---------------------------
(***************************************************************************)
(* Proofs about ProcessRunner and UwpPage: the types, that no text a child    *)
(* has printed is left unread, that the flag of the page stands for one job, *)
(* and that the list and what is ticked on it are what they seem to be.     *)
(***************************************************************************)
EXTENDS UwpPage, FiniteSetTheorems, SequenceTheorems, TLAPS

-----------------------------------------------------------------------------
(* The runner *)

\* A living child holds the writing ends of its own pipes, a pipe at its end is empty
\* and stays so, and before its pipes are read a call has no child of an earlier one.
\* Of a child that prints no zeros, what its caller has not got is in the pipes.
RunnerInv ==
    \A t \in Threads :
      /\ t \in child => t \in holders[t]
      /\ run[t] \in {"none", "pipes"} =>
            pipe[t] = Empty /\ t \notin child /\ t \notin zeros /\ missing[t] = Empty
      /\ run[t] \in {"err", "wait"} => pipe[t].out = 0 /\ holders[t] = {}
      /\ run[t] = "wait" => pipe[t] = Empty
      /\ t \notin zeros => missing[t] = pipe[t]

RunnerIndInv == RunnerTypeOK /\ RunnerInv

RunnerStep(t) ==
    CreatePipes(t) \/ CreateProcessFails(t) \/ Return(t) \/ Running(t)

LEMMA RunnerStarts == RunnerInit => RunnerIndInv
  BY PipeAssumption, SMT
  DEF RunnerInit, RunnerIndInv, RunnerTypeOK, RunnerInv, Empty

\* Reading a whole piece and printing one change what is missing as they change the
\* pipe, and no other call's.
LEMMA SameAsThePipe ==
  ASSUME NEW t \in Threads, NEW s \in Streams, RunnerTypeOK, missing[t] = pipe[t],
         \/ ReadFile(t, s) /\ t \notin zeros
         \/ Write(t, s)
  PROVE  missing'[t] = pipe'[t]
<1> DEFINE Pair == [out : Nat, err : Nat]
<1>1. missing \in [Threads -> Pair]
  BY DEF RunnerTypeOK
<1>2. pipe \in [Threads -> [out : 0..Room, err : 0..Room]]
  BY DEF RunnerTypeOK
<1>3. missing[t] \in Pair /\ pipe[t] \in Pair
  BY <1>1
<1> HIDE DEF Pair
<1>4. CASE Write(t, s)
  <2>1. missing'[t] = [missing[t] EXCEPT ![s] = @ + 1]
    BY <1>1, <1>4 DEF Write
  <2>2. pipe'[t] = [pipe[t] EXCEPT ![s] = @ + 1]
    BY <1>2, <1>4 DEF Write
  <2> QED
    BY <2>1, <2>2
<1>5. CASE ReadFile(t, s) /\ t \notin zeros
  <2>1. missing'[t] = [missing[t] EXCEPT ![s] = @ - pipe[t][s]]
    BY <1>1, <1>5 DEF ReadFile
  <2>2. pipe'[t] = [pipe[t] EXCEPT ![s] = 0]
    BY <1>2, <1>5 DEF ReadFile
  <2>3. pipe[t][s] - pipe[t][s] = 0
    BY <1>3 DEF Pair, Streams
  <2>4. missing'[t] = [pipe[t] EXCEPT ![s] = @ - pipe[t][s]]
    BY <2>1
  <2>5. [pipe[t] EXCEPT ![s] = @ - pipe[t][s]] = [pipe[t] EXCEPT ![s] = 0]
    BY <2>3
  <2> QED
    BY <2>2, <2>4, <2>5
<1> QED
  BY <1>4, <1>5

LEMMA OthersKept ==
  ASSUME NEW t \in Threads, NEW s \in Streams, RunnerTypeOK, ReadFile(t, s) \/ Write(t, s),
         NEW u \in Threads, u # t
  PROVE  missing'[u] = missing[u] /\ pipe'[u] = pipe[u]
<1>1. DOMAIN missing = Threads /\ DOMAIN pipe = Threads
  BY DEF RunnerTypeOK
<1>2. CASE Write(t, s)
  BY <1>1, <1>2 DEF Write
<1>3. CASE ReadFile(t, s)
  BY <1>1, <1>3 DEF ReadFile
<1> QED
  BY <1>2, <1>3

LEMMA MissingType ==
  ASSUME NEW t \in Threads, NEW s \in Streams, RunnerTypeOK, missing[t] = pipe[t],
         ReadFile(t, s), t \notin zeros
  PROVE  missing' \in [Threads -> [out : Nat, err : Nat]]
<1> DEFINE Pair == [out : Nat, err : Nat]
<1>1. missing \in [Threads -> Pair] /\ missing[t] \in Pair
  BY DEF RunnerTypeOK
<1>2. [missing[t] EXCEPT ![s] = 0] \in Pair
  BY <1>1 DEF Streams
<1>3. missing[t][s] - pipe[t][s] = 0
  BY <1>1 DEF Streams
<1> HIDE DEF Pair
<1>4. missing'[t] = [missing[t] EXCEPT ![s] = @ - pipe[t][s]]
  BY <1>1 DEF ReadFile
<1>5. missing'[t] \in Pair
  BY <1>2, <1>3, <1>4
<1>6. \A u \in Threads : u # t => missing'[u] = missing[u]
  BY OthersKept
<1>7. missing' = [u \in Threads |-> missing'[u]]
  BY <1>1 DEF ReadFile
<1>8. \A u \in Threads : missing'[u] \in Pair
  BY <1>1, <1>5, <1>6
<1>9. missing' \in [Threads -> Pair]
  BY <1>7, <1>8
<1> QED BY <1>9 DEF Pair

LEMMA RunnerKept ==
  ASSUME NEW t \in Threads, RunnerIndInv, RunnerStep(t)
  PROVE  RunnerIndInv'
<1> USE PipeAssumption DEF RunnerIndInv, RunnerTypeOK, RunnerInv, Empty
<1>1. CASE CreatePipes(t)
  BY <1>1, SMT DEF CreatePipes, Reach
<1>2. CASE CreateProcessFails(t)
  BY <1>2, SMT DEF CreateProcessFails, Reach
<1>3. CASE Return(t)
  BY <1>3, SMT DEF Return, Reach
<1>4. CASE CreateProcess(t)
  <2> USE DEF CreateProcess, Reach, Inheritable
  <2>1. PICK p \in Prints[t] :
            /\ left' = [left EXCEPT ![t] = [out |-> p.out, err |-> p.err]]
            /\ zeros' = IF p.zeros THEN zeros \cup {t} ELSE zeros
    BY <1>4
  <2>2. p \in [out : Nat, err : Nat, zeros : BOOLEAN]
    BY SMT
  <2>3. left' \in [Threads -> [out : Nat, err : Nat]]
    BY <2>1, <2>2, SMT
  <2>4. holders' \in [Threads -> SUBSET child']
    BY <1>4, SMT
  <2>5. /\ run' \in [Threads -> {"none", "pipes", "created", "out", "err", "wait"}]
        /\ child' \subseteq Threads
        /\ pipe' \in [Threads -> [out : 0..Room, err : 0..Room]]
        /\ zeros' \subseteq Threads /\ missing' \in [Threads -> [out : Nat, err : Nat]]
    BY <1>4, <2>1, SMT
  <2>6. RunnerInv'
    <3>1. zeros \subseteq zeros' /\ zeros' \subseteq zeros \cup {t}
      BY <2>1
    <3> QED
      BY <1>4, <3>1, SMT
  <2> QED
    BY <2>3, <2>4, <2>5, <2>6
<1>5. CASE CloseWritingEnds(t)
  BY <1>5, SMT DEF CloseWritingEnds, Reach
<1>6. CASE Reading(t)
  <2> USE DEF ReadFile, ReachEnd, IsAtEnd, Reads, Reach
  <2>1. CASE ReadFile(t, "out")
    <3>1. CASE t \in zeros
      BY <2>1, <3>1, SMT
    <3>2. CASE t \notin zeros
      <4>1. missing' \in [Threads -> [out : Nat, err : Nat]]
        BY <2>1, <3>2, MissingType DEF Streams
      <4>2. pipe' \in [Threads -> [out : 0..Room, err : 0..Room]]
        BY <2>1
      <4>3. RunnerTypeOK'
        BY <2>1, <4>1, <4>2
      <4>4. missing'[t] = pipe'[t]
        BY <2>1, <3>2, SameAsThePipe DEF Streams
      <4>5. \A u \in Threads : u # t => missing'[u] = missing[u] /\ pipe'[u] = pipe[u]
        BY <2>1, OthersKept DEF Streams
      <4>6. pipe' = [pipe EXCEPT ![t].out = 0]
        BY <2>1
      <4>7. RunnerInv'
        BY <2>1, <4>4, <4>5, <4>6
      <4> QED
        BY <4>3, <4>7
    <3> QED
      BY <3>1, <3>2
  <2>2. CASE ReadFile(t, "err")
    <3>1. CASE t \in zeros
      BY <2>2, <3>1, SMT
    <3>2. CASE t \notin zeros
      <4>1. missing' \in [Threads -> [out : Nat, err : Nat]]
        BY <2>2, <3>2, MissingType DEF Streams
      <4>2. pipe' \in [Threads -> [out : 0..Room, err : 0..Room]]
        BY <2>2
      <4>3. RunnerTypeOK'
        BY <2>2, <4>1, <4>2
      <4>4. missing'[t] = pipe'[t]
        BY <2>2, <3>2, SameAsThePipe DEF Streams
      <4>5. \A u \in Threads : u # t => missing'[u] = missing[u] /\ pipe'[u] = pipe[u]
        BY <2>2, OthersKept DEF Streams
      <4>6. pipe' = [pipe EXCEPT ![t].err = 0]
        BY <2>2
      <4>7. RunnerInv'
        BY <2>2, <4>4, <4>5, <4>6
      <4> QED
        BY <4>3, <4>7
    <3> QED
      BY <3>1, <3>2
  <2>3. CASE ReachEnd(t, "out")
    BY <2>3, SMT
  <2>4. CASE ReachEnd(t, "err")
    <3>1. pipe[t] = [out |-> 0, err |-> 0] /\ holders[t] = {}
      BY <2>4, SMT
    <3> QED
      BY <2>4, <3>1, SMT
  <2> QED
    BY <1>6, <2>1, <2>2, <2>3, <2>4 DEF Reading, Streams
<1>7. CASE \E s \in Streams : Write(t, s)
  <2>1. PICK s \in Streams : Write(t, s)
    BY <1>7
  <2>2. /\ left' \in [Threads -> [out : Nat, err : Nat]]
        /\ pipe' \in [Threads -> [out : 0..Room, err : 0..Room]]
        /\ missing' \in [Threads -> [out : Nat, err : Nat]]
    BY <2>1 DEF Write, Streams
  <2>3. t \notin zeros => missing'[t] = pipe'[t]
    BY <2>1, SameAsThePipe
  <2>4. UNCHANGED <<run, child, holders, zeros>> /\ t \in child
    BY <2>1 DEF Write
  <2>5. RunnerTypeOK'
    BY <2>2, <2>4
  <2>6. \A u \in Threads : u # t => missing'[u] = missing[u] /\ pipe'[u] = pipe[u]
    BY <2>1, OthersKept
  <2>7. /\ run[t] \notin {"none", "pipes", "err", "wait"}
    BY <2>4
  <2>8. RunnerInv'
    <3>1. ASSUME NEW u \in Threads, u # t
          PROVE  missing'[u] = missing[u] /\ pipe'[u] = pipe[u]
      BY <2>6, <3>1
    <3> QED
      BY <2>3, <2>4, <2>6, <2>7
  <2> QED
    BY <2>5, <2>8
<1>8. CASE End(t)
  BY <1>8, SMT DEF End
<1> QED
  BY <1>1, <1>2, <1>3, <1>4, <1>5, <1>6, <1>7, <1>8
  DEF RunnerStep, Running, ChildStep, EndsByItself

LEMMA RunnerStutters == RunnerIndInv /\ UNCHANGED runner => RunnerIndInv'
  BY SMT DEF RunnerIndInv, RunnerTypeOK, RunnerInv, runner

-----------------------------------------------------------------------------
(* The page *)

PageTypeOK ==
    /\ installed \subseteq Packages
    /\ list \subseteq Packages /\ selected \in Seq(BOOLEAN)
    /\ meant \subseteq list
    /\ pending \subseteq Packages /\ confirm \in BOOLEAN
    /\ confirm <=> pending # {}
    /\ ready \in BOOLEAN /\ loading \in BOOLEAN
    /\ ui \in {"frame", "request", "draw", "loading"}
    /\ queue \in Seq(SUBSET Packages) /\ job \in {None} \cup SUBSET Packages
    /\ phase \in {"idle", "remove", "removing", "list", "listing", "publish",
                  "ready", "loading"}
    /\ loaded \in {None} \cup SUBSET Packages
    /\ others \in BOOLEAN

\* The job is there from where it is taken to where it is over.
JobInv == job = None <=> phase = "idle"

Inv == PageTypeOK /\ OneJob /\ JobInv

LEMMA Sizes == \A S \in SUBSET Packages : Cardinality(S) \in Nat
  BY ConstAssumption, FS_Subset, FS_CardinalityType

LEMMA UntickedType == \A n \in Nat : Unticked(n) \in Seq(BOOLEAN)
<1> TAKE n \in Nat
<1>1. Unticked(n) \in [1..n -> BOOLEAN]
  BY DEF Unticked
<1> QED
  BY <1>1, SeqDef

LEMMA SelectionType ==
  ASSUME list \subseteq Packages, selected \in Seq(BOOLEAN)
  PROVE  /\ Selection \in Seq(BOOLEAN)
         /\ \A ps, on : on \in BOOLEAN /\ Tick(ps, on) => selected' \in Seq(BOOLEAN)
<1>1. Cardinality(list) \in Nat
  BY Sizes
<1>2. Unticked(Cardinality(list)) \in Seq(BOOLEAN)
  BY <1>1, UntickedType
<1>3. Selection \in Seq(BOOLEAN)
  BY <1>2 DEF Selection
<1>4. ASSUME NEW ps, NEW on \in BOOLEAN, Tick(ps, on)
      PROVE  selected' \in Seq(BOOLEAN)
  <2>1. PICK n \in Nat : Selection \in [1..n -> BOOLEAN]
    BY <1>3, SeqDef
  <2>2. selected' \in [1..n -> BOOLEAN]
    BY <1>4, <2>1 DEF Tick
  <2> QED
    BY <2>2, SeqDef
<1> QED
  BY <1>3, <1>4

LEMMA RequestKept ==
  ASSUME Inv, RequestUwpPackageReload, UNCHANGED <<job, phase>>
  PROVE  /\ queue' \in Seq(SUBSET Packages)
         /\ ready' \in BOOLEAN /\ loading' \in BOOLEAN
         /\ OneJob' /\ JobInv'
<1> USE DEF Inv, PageTypeOK, OneJob, JobInv
<1>1. CASE loading
  BY <1>1 DEF RequestUwpPackageReload, flags
<1>2. CASE ~loading
  <2>1. queue = <<>> /\ job = None /\ phase = "idle"
    BY <1>2
  <2>2. loading' /\ ready' = FALSE /\ queue' = Append(<<>>, {})
    BY <1>2, <2>1 DEF RequestUwpPackageReload, RequestAlways
  <2>3. queue' \in Seq(SUBSET Packages) /\ Len(queue') = 1
    BY <2>2, SMT
  <2>4. Len(queue') + (IF job' = None THEN 0 ELSE 1) = 1
    BY <2>1, <2>3, SMT
  <2> QED
    BY <2>1, <2>2, <2>3, <2>4
<1> QED
  BY <1>1, <1>2

LEMMA FrameKept ==
  ASSUME Inv, Frame \/ User
  PROVE  Inv' /\ UNCHANGED runner
<1> USE DEF Inv, PageTypeOK, OneJob, JobInv, shown, dialog, flags, worker
<1>1. CASE BeginFrame
  BY <1>1 DEF BeginFrame
<1>2. CASE RequestFirst
  BY <1>2, RequestKept DEF RequestFirst
<1>3. CASE SkipFrame
  BY <1>3 DEF SkipFrame
<1>4. CASE DrawList
  BY <1>4, SelectionType DEF DrawList, Draws
<1>5. CASE RefreshButton
  BY <1>5, RequestKept DEF RefreshButton
<1>6. CASE SelectCurated
  BY <1>6, SelectionType DEF SelectCurated, Draws
<1>7. CASE ClearSelection
  BY <1>7, SelectionType DEF ClearSelection, Draws
<1>8. CASE RemoveSelected
  BY <1>8, SelectionType DEF RemoveSelected, Ask, Draws, Ticked
<1>9. ASSUME NEW p \in Packages, Checkbox(p) PROVE Inv' /\ UNCHANGED runner
  BY <1>9, SelectionType DEF Checkbox, Draws
<1>10. CASE ConfirmRemoval
  <2>1. queue = <<>> /\ job = None /\ phase = "idle"
    BY <1>10 DEF ConfirmRemoval, Draws
  <2>2. loading' /\ ready' = FALSE /\ queue' = Append(<<>>, pending)
    BY <1>10, <2>1 DEF ConfirmRemoval
  <2>3. queue' \in Seq(SUBSET Packages) /\ Len(queue') = 1
    BY <2>2, SMT
  <2>4. Len(queue') + (IF job' = None THEN 0 ELSE 1) = 1
    BY <1>10, <2>1, <2>3, SMT DEF ConfirmRemoval
  <2> QED
    BY <1>10, <2>1, <2>2, <2>3, <2>4 DEF ConfirmRemoval, Draws
<1>11. CASE CancelRemoval
  BY <1>11 DEF CancelRemoval, Draws
<1> QED
  BY <1>1, <1>2, <1>3, <1>4, <1>5, <1>6, <1>7, <1>8, <1>9, <1>10, <1>11
  DEF Frame, User

LEMMA JobKept ==
  ASSUME Inv, Job \/ GetPackages
  PROVE  Inv'
<1> USE ConstAssumption
    DEF Inv, PageTypeOK, OneJob, JobInv, shown, dialog, flags, worker, page
<1>1. CASE TakeJob
  <2>1. queue \in Seq(SUBSET Packages) /\ queue # <<>>
    BY <1>1 DEF TakeJob
  <2>2. /\ Head(queue) \in SUBSET Packages /\ Tail(queue) \in Seq(SUBSET Packages)
        /\ Len(Tail(queue)) = Len(queue) - 1 /\ Len(queue) \in Nat
    BY <2>1, SMT
  <2>3. job = None /\ loading /\ Len(queue) = 1
    BY <1>1, <2>1, <2>2, SMT DEF TakeJob
  <2>4. /\ job' \in SUBSET Packages /\ job' # None
        /\ queue' \in Seq(SUBSET Packages) /\ Len(queue') = 0
        /\ phase' \in {"list", "remove"}
    BY <1>1, <2>2, <2>3, SMT DEF TakeJob
  <2>5. Len(queue') + (IF job' = None THEN 0 ELSE 1) = 1
    BY <2>4, SMT
  <2> QED
    BY <1>1, <2>3, <2>4, <2>5 DEF TakeJob
<1>2. CASE StartPowerShell
  BY <1>2 DEF StartPowerShell
<1>3. CASE FinishPowerShell
  BY <1>3 DEF FinishPowerShell
<1>4. CASE Publish
  <2>1. Listed \in SUBSET Packages
    BY DEF Listed
  <2>2. Unticked(Cardinality(Listed)) \in Seq(BOOLEAN)
    BY <2>1, Sizes, UntickedType
  <2> QED
    BY <1>4, <2>1, <2>2 DEF Publish, PublishList
<1>5. CASE SetReady
  BY <1>5 DEF SetReady
<1>6. CASE EndJob
  <2>1. loading /\ queue = <<>>
    <3>1. job # None /\ Len(queue) \in Nat
      BY <1>6, SMT DEF EndJob
    <3>2. loading /\ Len(queue) = 0
      BY <3>1, SMT
    <3> QED
      BY <3>2, EmptySeq
  <2> QED
    BY <1>6, <2>1 DEF EndJob
<1>7. CASE GetPackages
  BY <1>7 DEF GetPackages
<1> QED
  BY <1>1, <1>2, <1>3, <1>4, <1>5, <1>6, <1>7 DEF Job

-----------------------------------------------------------------------------
(* Both *)

LEMMA Starts == Init => RunnerIndInv /\ Inv
<1> SUFFICES ASSUME Init PROVE RunnerIndInv /\ Inv
  OBVIOUS
<1>1. RunnerIndInv
  BY RunnerStarts DEF Init
<1>2. PageTypeOK
  <2>1. <<>> \in Seq(BOOLEAN) /\ <<>> \in Seq(SUBSET Packages)
    BY EmptySeq
  <2> QED
    BY <2>1 DEF Init, PageTypeOK
<1>3. OneJob /\ JobInv
  BY DEF Init, OneJob, JobInv
<1> QED
  BY <1>1, <1>2, <1>3 DEF Inv

LEMMA PageStutters ==
  Inv /\ UNCHANGED <<page, worker>> /\ installed' \subseteq Packages => Inv'
  BY DEF Inv, PageTypeOK, OneJob, JobInv, page, shown, dialog, flags, worker

LEMMA Elsewhere ==
  ASSUME Inv, NEW p \in Packages, InstallElsewhere(p)
  PROVE  Inv'
  BY DEF InstallElsewhere, Inv, PageTypeOK, OneJob, JobInv, shown, dialog, flags, worker

LEMMA Kept == RunnerIndInv /\ Inv /\ [Next]_vars => RunnerIndInv' /\ Inv'
<1> SUFFICES ASSUME RunnerIndInv, Inv, [Next]_vars PROVE RunnerIndInv' /\ Inv'
  OBVIOUS
<1> USE ConstAssumption
<1>1. CASE Frame \/ User
  BY <1>1, FrameKept, RunnerStutters
<1>2. CASE Job \/ GetPackages
  <2>1. Inv'
    BY <1>2, JobKept
  <2>2. UNCHANGED runner \/ RunnerStep(Worker)
    BY <1>2 DEF Job, TakeJob, StartPowerShell, FinishPowerShell, Publish, PublishList,
                SetReady, EndJob, GetPackages, RunnerStep
  <2> QED
    BY <2>1, <2>2, RunnerKept, RunnerStutters
<1>3. CASE RunElsewhere \/ RunElsewhereReturns \/ RunGoesOn
  <2>1. Inv'
    BY <1>3, PageStutters
    DEF RunElsewhere, RunElsewhereReturns, RunGoesOn, Inv, PageTypeOK
  <2>2. \E t \in Threads : RunnerStep(t)
    BY <1>3 DEF RunElsewhere, RunElsewhereReturns, RunGoesOn, RunnerStep
  <2> QED
    BY <2>1, <2>2, RunnerKept
<1>4. ASSUME NEW p \in Packages, RemovePackage(p) PROVE RunnerIndInv' /\ Inv'
  BY <1>4, PageStutters, RunnerStutters DEF RemovePackage, Inv, PageTypeOK
<1>5. ASSUME NEW p \in Packages, InstallElsewhere(p) PROVE RunnerIndInv' /\ Inv'
  BY <1>5, Elsewhere, RunnerStutters DEF InstallElsewhere
<1>6. CASE UNCHANGED vars
  BY <1>6, PageStutters, RunnerStutters
  DEF vars, page, worker, Inv, PageTypeOK
<1> QED
  BY <1>1, <1>2, <1>3, <1>4, <1>5, <1>6 DEF Next

LEMMA Invariance == Spec => [](RunnerIndInv /\ Inv)
  BY Starts, Kept, PTL DEF Spec

\* The type invariant: also that the question is only open with something to remove, and
\* that what the user has ticked is on the list.
THEOREM TypeCorrect == Spec => []TypeOK
<1>1. RunnerIndInv /\ Inv => TypeOK
  BY DEF RunnerIndInv, Inv, PageTypeOK, TypeOK
<1> QED
  BY <1>1, Invariance, PTL

\* Whatever the other thread and its children do, a call of Run has all that its child has
\* printed when both pipes are at their ends, unless the child prints zeros.
THEOREM TextIsAllRead == Spec => []TextIsRead
<1>1. RunnerIndInv => TextIsRead
  <2> SUFFICES ASSUME RunnerIndInv, NEW t \in Threads \ zeros, run[t] = "wait"
               PROVE  missing[t] = Empty /\ t \notin child
    BY DEF TextIsRead
  <2> QED
    BY DEF RunnerIndInv, RunnerInv
<1> QED
  BY <1>1, Invariance, PTL

\* The flag loading stands for exactly one job, for any packages and any programs.
THEOREM FlagIsOneJob == Spec => []OneJob
<1>1. Inv => OneJob
  BY DEF Inv
<1> QED
  BY <1>1, Invariance, PTL

-----------------------------------------------------------------------------
(* What is ticked *)

\* The list is drawn, and the question open, only while a list is there to draw.
ReadyInv ==
    /\ ui \in {"draw", "loading"} /\ ~loading => ready
    /\ confirm => ready /\ ~loading /\ ui # "request"
    /\ phase = "loading" => ready

TickedInv == Len(selected) = Cardinality(list) /\ ReadyInv /\ OnlyTicked

LEMMA Positions ==
  ASSUME list \subseteq Packages
  PROVE  /\ \A p \in list : Position(p) \in 1..Cardinality(list)
         /\ \A p, q \in list : Position(p) = Position(q) => p = q
<1> DEFINE UpTo(p) == {q \in list : q <= p}
<1>1. IsFiniteSet(list)
  BY ConstAssumption, FS_Subset
<1>2. \A S \in SUBSET list : IsFiniteSet(S) /\ Cardinality(S) \in Nat
                             /\ Cardinality(S) <= Cardinality(list)
  BY <1>1, FS_Subset, FS_CardinalityType
<1>3. ASSUME NEW p \in list PROVE Position(p) \in 1..Cardinality(list)
  <2>1. UpTo(p) \in SUBSET list /\ p \in UpTo(p)
    BY ConstAssumption, SMT
  <2>2. Cardinality(UpTo(p)) # 0
    BY <2>1, <1>2, FS_EmptySet
  <2>3. Cardinality(UpTo(p)) \in Nat /\ Cardinality(UpTo(p)) <= Cardinality(list)
        /\ Cardinality(list) \in Nat
    BY <2>1, <1>2
  <2>4. Cardinality(UpTo(p)) \in 1..Cardinality(list)
    BY <2>2, <2>3, SMT
  <2> QED
    BY <2>4 DEF Position
<1>4. ASSUME NEW p \in list, NEW q \in list, Position(p) = Position(q), p <= q
      PROVE  p = q
  <2>1. UpTo(p) \in SUBSET UpTo(q) /\ UpTo(q) \in SUBSET list
    <3>1. p \in Nat /\ q \in Nat /\ p <= q /\ \A r \in list : r \in Nat
      BY <1>4, ConstAssumption
    <3>2. \A r \in list : r <= p => r <= q
      BY <3>1, SMT
    <3> QED
      BY <3>2
  <2>2. UpTo(p) = UpTo(q)
    BY <2>1, <1>2, <1>4, FS_Subset DEF Position
  <2>3. q \in UpTo(p)
    BY <2>2, ConstAssumption, SMT
  <2> QED
    BY <2>3, <1>4, ConstAssumption, SMT
<1>5. \A p, q \in list : p <= q \/ q <= p
  BY ConstAssumption, SMT
<1> QED
  BY <1>3, <1>4, <1>5

LEMMA PositionsAfter ==
  list' \subseteq Packages => \A p \in list' : Position(p)' \in 1..Cardinality(list')
<1>1. (list \subseteq Packages => \A p \in list : Position(p) \in 1..Cardinality(list))'
  BY Positions, PTL
<1> QED
  BY <1>1

LEMMA TickedAfter ==
  ASSUME list \subseteq Packages, selected \in Seq(BOOLEAN),
         Len(selected) = Cardinality(list),
         NEW ps \in SUBSET list, NEW on \in BOOLEAN, Tick(ps, on), list' = list
  PROVE  /\ Len(selected') = Cardinality(list')
         /\ Ticked' = IF on THEN Ticked \cup ps ELSE Ticked \ ps
<1> DEFINE n == Cardinality(list)
<1>1. Selection = selected
  BY DEF Selection
<1>2. n \in Nat /\ DOMAIN selected = 1..n
  BY Sizes, LenProperties
<1>3. selected' = [i \in 1..n |->
                     IF \E p \in ps : Position(p) = i THEN on ELSE selected[i]]
  BY <1>1, <1>2 DEF Tick
<1>4. selected' \in Seq(BOOLEAN)
  BY SelectionType
<1>5. Len(selected') = n
  BY <1>2, <1>3, <1>4, LenProperties, SMT
<1>6. Selection' = selected'
  BY <1>5 DEF Selection
<1>7. ASSUME NEW p \in list
      PROVE  selected'[Position(p)] = IF p \in ps THEN on ELSE selected[Position(p)]
  BY <1>3, Positions
<1>8. \A p : Position(p)' = Position(p)
  BY DEF Position
<1>9. Ticked' = {p \in list : selected'[Position(p)]}
  BY <1>6, <1>8 DEF Ticked
<1>10. Ticked = {p \in list : selected[Position(p)]}
  BY <1>1 DEF Ticked
<1>11. CASE on
  <2>1. \A p \in list : selected'[Position(p)] <=> p \in ps \/ selected[Position(p)]
    BY <1>7, <1>11
  <2>2. Ticked' = Ticked \cup ps
    BY <2>1, <1>9, <1>10
  <2> QED
    BY <2>2, <1>5, <1>11
<1>12. CASE ~on
  <2>1. \A p \in list : selected'[Position(p)] <=> p \notin ps /\ selected[Position(p)]
    BY <1>7, <1>12
  <2>2. Ticked' = Ticked \ ps
    BY <2>1, <1>9, <1>10
  <2> QED
    BY <2>2, <1>5, <1>12
<1> QED
  BY <1>11, <1>12

LEMMA TickedStarts == Init => TickedInv
<1> SUFFICES ASSUME Init PROVE TickedInv
  OBVIOUS
<1>1. Cardinality(list) = 0 /\ Len(selected) = 0
  BY FS_EmptySet, EmptySeq DEF Init
<1>2. Ticked = meant
  BY DEF Init, Ticked
<1>3. \A m \in 1..Len(queue) : queue[m] \subseteq meant
  BY SMT DEF Init
<1> QED
  BY <1>1, <1>2, <1>3 DEF Init, TickedInv, ReadyInv, OnlyTicked

\* What the rest of the invariant is about, when no list is drawn.
LEMMA TickedStutters ==
  ASSUME TickedInv, UNCHANGED <<list, selected, meant>>
  PROVE  Len(selected') = Cardinality(list') /\ Ticked' = meant'
  BY DEF TickedInv, OnlyTicked, Ticked, Selection, Position, Unticked

\* While nothing is loading there is no job, so that what is ticked may change.
LEMMA NoJob ==
  ASSUME Inv, ~loading
  PROVE  queue = <<>> /\ Len(queue) = 0 /\ phase = "idle"
<1>1. queue = <<>> /\ phase = "idle"
  BY DEF Inv, OneJob, JobInv
<1> QED
  BY <1>1, EmptySeq

LEMMA TickedFrame ==
  ASSUME Inv, TickedInv, Frame \/ User
  PROVE  TickedInv'
<1> USE DEF ReadyInv, OnlyTicked, shown, dialog, flags, worker
<1>1. CASE BeginFrame \/ SkipFrame
  BY <1>1, TickedStutters DEF BeginFrame, SkipFrame, TickedInv
<1>2. CASE RequestFirst \/ RefreshButton
  <2>1. ~confirm /\ UNCHANGED <<shown, dialog, job, phase>>
    BY <1>2 DEF RequestFirst, RefreshButton, TickedInv
  <2>2. loading' /\ RequestUwpPackageReload /\ ui' \in {"draw", "loading"}
    BY <1>2 DEF RequestFirst, RefreshButton, RequestUwpPackageReload, RequestAlways, flags
  <2>3. \A m \in 1..Len(queue') : queue'[m] \subseteq meant'
    <3>1. CASE loading
      BY <2>1, <2>2, <3>1 DEF RequestUwpPackageReload, TickedInv
    <3>2. CASE ~loading
      <4>1. queue' = Append(<<>>, {})
        BY <2>2, <3>2, NoJob DEF RequestUwpPackageReload, RequestAlways
      <4> QED
        BY <4>1, SMT
    <3> QED
      BY <3>1, <3>2
  <2>4. phase' = "loading" => ready'
    BY <2>1, <2>2, NoJob DEF RequestUwpPackageReload, TickedInv
  <2> QED
    BY <2>1, <2>2, <2>3, <2>4, TickedStutters DEF TickedInv
<1>3. ASSUME NEW ps \in SUBSET list, NEW on \in BOOLEAN, Tick(ps, on), Draws,
             meant' = IF on THEN meant \cup ps ELSE meant \ ps,
             confirm' => pending' = meant',
             UNCHANGED <<list, flags, worker>>
      PROVE  TickedInv'
  <2>1. Len(selected') = Cardinality(list') /\ Ticked' = meant'
    BY <1>3, TickedAfter DEF Inv, PageTypeOK, TickedInv
  <2>2. queue' = <<>> /\ Len(queue') = 0 /\ phase' = "idle"
    BY <1>3, NoJob DEF Draws
  <2>3. \A m \in 1..Len(queue') : queue'[m] \subseteq meant'
    BY <2>2, SMT
  <2> QED
    BY <1>3, <2>1, <2>2, <2>3 DEF Draws, TickedInv
<1>4. Ticked = meant
  BY DEF TickedInv
<1>5. CASE DrawList
  <2>1. {} \in SUBSET list /\ Tick({}, FALSE) /\ meant' = meant \ {}
    BY <1>5 DEF DrawList
  <2> QED
    BY <1>3, <1>5, <2>1 DEF DrawList, TickedInv
<1>6. ASSUME NEW p \in Packages, Checkbox(p) PROVE TickedInv'
  <2>1. {p} \in SUBSET list /\ Tick({p}, p \notin Ticked) /\ (p \notin Ticked) \in BOOLEAN
    BY <1>6 DEF Checkbox
  <2>2. meant' = IF p \notin Ticked THEN meant \cup {p} ELSE meant \ {p}
    BY <1>6 DEF Checkbox
  <2> QED
    BY <1>3, <1>6, <2>1, <2>2 DEF Checkbox
<1>7. CASE SelectCurated
  <2>1. Curated \cap list \in SUBSET list /\ Tick(Curated \cap list, TRUE)
    BY <1>7 DEF SelectCurated
  <2> QED
    BY <1>3, <1>7, <2>1 DEF SelectCurated
<1>8. CASE ClearSelection
  <2>1. list \in SUBSET list /\ Tick(list, FALSE) /\ meant' = meant \ list
    BY <1>8 DEF ClearSelection, Inv, PageTypeOK
  <2> QED
    BY <1>3, <1>8, <2>1 DEF ClearSelection
<1>9. CASE RemoveSelected
  <2>1. {} \in SUBSET list /\ Tick({}, FALSE) /\ meant' = meant \ {} /\ pending' = meant'
    BY <1>9, <1>4 DEF RemoveSelected, Ask
  <2> QED
    BY <1>3, <1>9, <2>1 DEF RemoveSelected, Ask
<1>10. CASE ConfirmRemoval
  <2>1. queue' = Append(<<>>, pending) /\ pending = meant /\ phase = "idle"
    BY <1>10, NoJob DEF ConfirmRemoval, Draws, TickedInv
  <2>2. \A m \in 1..Len(queue') : queue'[m] = pending
    BY <2>1, SMT
  <2> QED
    BY <1>10, <2>1, <2>2, TickedStutters DEF ConfirmRemoval, Draws, TickedInv
<1>11. CASE CancelRemoval
  BY <1>11, TickedStutters DEF CancelRemoval, Draws, TickedInv
<1> QED
  BY <1>1, <1>2, <1>5, <1>6, <1>7, <1>8, <1>9, <1>10, <1>11 DEF Frame, User

LEMMA TickedJob ==
  ASSUME Inv, TickedInv, Job \/ GetPackages
  PROVE  TickedInv'
<1> USE DEF ReadyInv, OnlyTicked, shown, dialog, flags, worker, page
<1>1. CASE TakeJob
  <2>1. queue \in Seq(SUBSET Packages) /\ queue # <<>>
    BY <1>1 DEF TakeJob, Inv, PageTypeOK
  <2>2. /\ Head(queue) = queue[1] /\ 1 \in 1..Len(queue)
        /\ Len(Tail(queue)) = Len(queue) - 1
        /\ \A m \in 1..Len(Tail(queue)) : Tail(queue)[m] = queue[m + 1]
                                          /\ m + 1 \in 1..Len(queue)
    BY <2>1, SMT
  <2> QED
    BY <1>1, <2>2, TickedStutters DEF TakeJob, TickedInv
<1>2. CASE StartPowerShell \/ FinishPowerShell \/ GetPackages
  BY <1>2, TickedStutters DEF StartPowerShell, FinishPowerShell, GetPackages, TickedInv
<1>3. CASE Publish
  <2>1. list' \in SUBSET Packages /\ meant' = {} /\ phase' = "ready"
        /\ selected' = Unticked(Cardinality(list'))
    BY <1>3 DEF Publish, PublishList, Listed, Inv, PageTypeOK
  <2>2. Len(selected') = Cardinality(list')
    BY <2>1, Sizes, UntickedType, LenProperties, SMT DEF Unticked
  <2>3. Ticked' = {}
    <3>1. Selection' = Unticked(Cardinality(list'))
      BY <2>1, <2>2 DEF Selection
    <3>2. \A p \in list' : Position(p)' \in 1..Cardinality(list')
      BY <2>1, PositionsAfter
    <3>3. \A p \in list' : ~Selection'[Position(p)']
      BY <3>1, <3>2 DEF Unticked
    <3> QED
      BY <3>3 DEF Ticked
  <2>4. loading /\ queue = <<>> /\ UNCHANGED <<queue, confirm, pending, loading, ready, ui>>
    <3>1. job # None /\ Len(queue) \in Nat
      BY <1>3, LenProperties DEF Publish, PublishList, Inv, JobInv, PageTypeOK
    <3>2. loading /\ Len(queue) = 0
      BY <3>1, SMT DEF Inv, OneJob
    <3> QED
      BY <1>3, <3>2, EmptySeq DEF Publish, PublishList, Inv, PageTypeOK
  <2>5. \A m \in 1..Len(queue') : queue'[m] \subseteq meant'
    BY <2>4, SMT
  <2> QED
    BY <2>1, <2>2, <2>3, <2>4, <2>5 DEF TickedInv
<1>4. CASE SetReady
  BY <1>4, TickedStutters DEF SetReady, TickedInv
<1>5. CASE EndJob
  BY <1>5, TickedStutters DEF EndJob, TickedInv
<1> QED
  BY <1>1, <1>2, <1>3, <1>4, <1>5 DEF Job

LEMMA TickedKept == Inv /\ TickedInv /\ [Next]_vars => TickedInv'
<1> SUFFICES ASSUME Inv, TickedInv, [Next]_vars PROVE TickedInv'
  OBVIOUS
<1>1. CASE Frame \/ User
  BY <1>1, TickedFrame
<1>2. CASE Job \/ GetPackages
  BY <1>2, TickedJob
<1>3. CASE UNCHANGED <<shown, dialog, flags, ui, worker>>
  BY <1>3, TickedStutters
  DEF TickedInv, ReadyInv, OnlyTicked, shown, dialog, flags, worker
<1> QED
  BY <1>1, <1>2, <1>3
  DEF Next, vars, page, RunElsewhere, RunElsewhereReturns, RunGoesOn, RemovePackage,
      InstallElsewhere

\* No interleaving of frames, clicks and loads moves a selection to another package: what
\* is ticked, asked about and removed is what the user has ticked on the list as it is.
THEOREM OnlyTickedIsRemoved == Spec => []OnlyTicked
<1>1. TickedInv => OnlyTicked
  BY DEF TickedInv
<1>2. Spec => []TickedInv
  BY Invariance, TickedStarts, TickedKept, PTL DEF Spec
<1> QED
  BY <1>1, <1>2, PTL
-----------------------------------------------------------------------------
(* What is shown *)

\* What PowerShell has found is what is installed until it is published, and so is the
\* list from there on, unless somebody else has changed that: while the list is ready,
\* no job is at work on the packages.
ShownInv ==
    /\ ready => phase = "loading" \/ (phase = "idle" /\ ~loading)
    /\ loaded # None => phase \in {"listing", "publish"}
    /\ loaded # None /\ ~others => loaded = installed
    /\ (ready \/ phase \in {"ready", "loading"}) /\ ~others /\ list # {} => list = installed

LEMMA ShownKept == Inv /\ ShownInv /\ [Next]_vars => ShownInv'
<1> SUFFICES ASSUME Inv, ShownInv, [Next]_vars PROVE ShownInv'
  OBVIOUS
<1> USE ConstAssumption DEF ShownInv, shown, dialog, flags, worker, page
<1>1. CASE Frame \/ User
  <2>1. UNCHANGED <<installed, list, phase, loaded, others>>
    BY <1>1 DEF Frame, User, BeginFrame, RequestFirst, SkipFrame, DrawList, RefreshButton,
       Checkbox, SelectCurated, ClearSelection, RemoveSelected, Ask, ConfirmRemoval,
       CancelRemoval, Draws
  <2>2. UNCHANGED <<ready, loading>> \/ ready' = FALSE
    BY <1>1 DEF Frame, User, BeginFrame, RequestFirst, SkipFrame, DrawList, RefreshButton,
       Checkbox, SelectCurated, ClearSelection, RemoveSelected, Ask, ConfirmRemoval,
       CancelRemoval, Draws, RequestUwpPackageReload, RequestAlways
  <2> QED
    BY <2>1, <2>2
<1>2. CASE TakeJob
  <2>1. loading
    BY <1>2 DEF TakeJob, Inv, OneJob
  <2> QED
    BY <1>2, <2>1 DEF TakeJob
<1>3. CASE StartPowerShell \/ FinishPowerShell
  BY <1>3 DEF StartPowerShell, FinishPowerShell
<1>4. CASE Publish
  BY <1>4 DEF Publish, PublishList, Listed
<1>5. CASE SetReady \/ EndJob
  BY <1>5 DEF SetReady, EndJob
<1>6. CASE GetPackages
  BY <1>6 DEF GetPackages
<1>7. CASE RunElsewhere \/ RunElsewhereReturns \/ RunGoesOn
  BY <1>7 DEF RunElsewhere, RunElsewhereReturns, RunGoesOn
<1>8. ASSUME NEW p \in Packages, RemovePackage(p) \/ InstallElsewhere(p) PROVE ShownInv'
  BY <1>8 DEF RemovePackage, InstallElsewhere
<1>9. CASE UNCHANGED vars
  BY <1>9 DEF vars
<1> QED
  BY <1>1, <1>2, <1>3, <1>4, <1>5, <1>6, <1>7, <1>8, <1>9 DEF Next, Job

\* A list that is shown is what is installed, unless somebody else has changed that or
\* nothing could be read, however many removals were asked for, failed or were overtaken
\* by a reload.
THEOREM ListIsInstalled == Spec => []ShownIsInstalled
<1>1. Init => ShownInv
  BY DEF Init, ShownInv
<1>2. ShownInv => ShownIsInstalled
  BY DEF ShownInv, ShownIsInstalled
<1> QED
  BY <1>1, <1>2, ShownKept, Invariance, PTL DEF Spec
=============================================================================
