--------------------------- MODULE ProcessRunner ---------------------------
(***************************************************************************)
(* Running a program and reading what it prints (core/ProcessRunner.cpp,    *)
(* Run and ReadProcess), on several threads at once.                       *)
(*                                                                         *)
(* A call makes two pipes, for the output and the errors of its child, and  *)
(* reads the one to its end before it looks at the other.  A pipe ends when *)
(* nobody holds its writing end: its child, and every child that another    *)
(* thread creates between the making of the pipes and the closing of the    *)
(* caller's writing ends, because handles are inherited.  What is printed   *)
(* is counted in pieces of which a pipe takes Room.  What is read is         *)
(* appended as a C string: of a program that prints UTF-16, or anything else *)
(* with zeros in it, no piece arrives whole.                                *)
(***************************************************************************)
EXTENDS Naturals

CONSTANTS
    Threads, \* that call Run
    Room,    \* pieces that a pipe takes before its writer has to wait
    Prints   \* Prints[t]: what a child of t may print, in pieces to each pipe, with
             \* zeros among its bytes or without

ASSUME PipeAssumption ==
    /\ Room \in Nat \ {0}
    /\ Prints \in [Threads -> SUBSET [out : Nat, err : Nat, zeros : BOOLEAN]]

VARIABLES
    run,     \* run[t]: how far the call of thread t has come
    child,   \* the threads whose child is alive
    left,    \* left[t]: what the child of t has yet to print
    pipe,    \* pipe[t]: what is in the pipes of t
    holders, \* holders[t]: the children that hold the writing ends of t
    zeros,   \* the threads whose child prints zeros
    missing  \* history: missing[t]: the pieces that the child of t has printed and
             \* that are not, or not whole, in r.output and r.error

runner == <<run, child, left, pipe, holders, zeros, missing>>

Empty == [out |-> 0, err |-> 0]
Streams == {"out", "err"}

RunnerInit ==
    /\ run = [t \in Threads |-> "none"]
    /\ child = {}
    /\ left = [t \in Threads |-> Empty]
    /\ pipe = [t \in Threads |-> Empty]
    /\ holders = [t \in Threads |-> {}]
    /\ zeros = {}
    /\ missing = [t \in Threads |-> Empty]

Reach(t, where) == run' = [run EXCEPT ![t] = where]

CreatePipes(t) ==
    /\ run[t] = "none"
    /\ Reach(t, "pipes")
    /\ UNCHANGED <<child, left, pipe, holders, zeros, missing>>

\* The calls whose writing ends are open in this process.
Inheritable == {u \in Threads : run[u] \in {"pipes", "created"}}

CreateProcess(t) ==
    /\ run[t] = "pipes"
    /\ Reach(t, "created")
    /\ child' = child \cup {t}
    /\ \E p \in Prints[t] :
         /\ left' = [left EXCEPT ![t] = [out |-> p.out, err |-> p.err]]
         /\ zeros' = IF p.zeros THEN zeros \cup {t} ELSE zeros
    /\ holders' = [u \in Threads |->
                     IF u \in Inheritable THEN holders[u] \cup {t} ELSE holders[u]]
    /\ UNCHANGED <<pipe, missing>>

\* The reading ends are closed, and Run returns -1.
CreateProcessFails(t) ==
    /\ run[t] = "pipes"
    /\ Reach(t, "none")
    /\ holders' = [holders EXCEPT ![t] = {}]
    /\ UNCHANGED <<child, left, pipe, zeros, missing>>

CloseWritingEnds(t) ==
    /\ run[t] = "created"
    /\ Reach(t, "out")
    /\ UNCHANGED <<child, left, pipe, holders, zeros, missing>>

-----------------------------------------------------------------------------
(* ReadProcess *)

\* ReadsErrorsFirst, IsOver: what the code does not do.
ReadsErrorsFirst(t, s) ==
    \/ run[t] = "out" /\ s = "err"
    \/ run[t] = "err" /\ s = "out"
Reads(t, s) == run[t] = s

\* ReadFile takes what is there; what is behind a zero in the buffer is dropped.
ReadFile(t, s) ==
    /\ Reads(t, s) /\ pipe[t][s] > 0
    /\ pipe' = [pipe EXCEPT ![t][s] = 0]
    /\ IF t \in zeros THEN UNCHANGED missing
       ELSE missing' = [missing EXCEPT ![t][s] = @ - pipe[t][s]]
    /\ UNCHANGED <<run, child, left, holders, zeros>>

IsOver(t, s) == t \notin child
IsAtEnd(t, s) == pipe[t][s] = 0 /\ holders[t] = {}

ReachEnd(t, s) ==
    /\ Reads(t, s) /\ IsAtEnd(t, s)
    /\ Reach(t, IF run[t] = "out" THEN "err" ELSE "wait")
    /\ UNCHANGED <<child, left, pipe, holders, zeros, missing>>

\* WaitForSingleObject returns; so does Run, and the result is the caller's.
Return(t) ==
    /\ run[t] = "wait" /\ t \notin child
    /\ Reach(t, "none")
    /\ zeros' = zeros \ {t} /\ missing' = [missing EXCEPT ![t] = Empty]
    /\ UNCHANGED <<child, left, pipe, holders>>

-----------------------------------------------------------------------------
(* The child *)

Write(t, s) ==
    /\ t \in child /\ left[t][s] > 0 /\ pipe[t][s] < Room
    /\ left' = [left EXCEPT ![t][s] = @ - 1]
    /\ pipe' = [pipe EXCEPT ![t][s] = @ + 1]
    /\ missing' = [missing EXCEPT ![t][s] = @ + 1]
    /\ UNCHANGED <<run, child, holders, zeros>>

\* It ends when all is printed, or is killed before.
End(t) ==
    /\ t \in child
    /\ child' = child \ {t}
    /\ left' = [left EXCEPT ![t] = Empty]
    /\ holders' = [u \in Threads |-> holders[u] \ {t}]
    /\ UNCHANGED <<run, pipe, zeros, missing>>
EndsByItself(t) == left[t] = Empty /\ End(t)

-----------------------------------------------------------------------------
Reading(t) == \E s \in Streams : ReadFile(t, s) \/ ReachEnd(t, s)
ChildStep(t) == (\E s \in Streams : Write(t, s)) \/ EndsByItself(t)

\* What there is between the making of the pipes and the return.
Running(t) ==
    \/ CreateProcess(t) \/ CloseWritingEnds(t) \/ Reading(t)
    \/ ChildStep(t) \/ End(t)

RunnerFairness ==
    \A t \in Threads :
      /\ WF_runner(CreateProcess(t)) /\ WF_runner(CloseWritingEnds(t))
      /\ WF_runner(Reading(t)) /\ WF_runner(ChildStep(t))

-----------------------------------------------------------------------------
RunnerTypeOK ==
    /\ run \in [Threads -> {"none", "pipes", "created", "out", "err", "wait"}]
    /\ child \subseteq Threads
    /\ left \in [Threads -> [out : Nat, err : Nat]]
    /\ pipe \in [Threads -> [out : 0..Room, err : 0..Room]]
    /\ holders \in [Threads -> SUBSET child]
    /\ zeros \subseteq Threads
    /\ missing \in [Threads -> [out : Nat, err : Nat]]

\* A child that waits to print an error, for a caller that waits for its output.
Clogged ==
    \E t \in child : run[t] = "out" /\ pipe[t].err = Room /\ left[t].err > 0

\* Of a program that prints text, without zeros, a caller gets all that it has printed
\* by the time it ends or is killed, to the last piece, however the other calls and
\* their children are interleaved.  (Of one that prints zeros it does not: what is
\* behind one is dropped, chunk by chunk.)
TextIsRead ==
    \A t \in Threads \ zeros :
      run[t] = "wait" => missing[t] = Empty /\ t \notin child
=============================================================================
