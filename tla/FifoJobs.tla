------------------------------ MODULE FifoJobs ------------------------------
(***************************************************************************)
(* What a user of jobs::JobQueue relies on: the jobs that were enqueued    *)
(* run one at a time, each of them once, in the order of the calls.        *)
(***************************************************************************)
EXTENDS Naturals, Sequences

CONSTANTS Jobs, None

VARIABLES
    enqueued,  \* the jobs of all calls of Enqueue that have returned, in order
    running,   \* the job that is being run, or None
    ran        \* the jobs that are over

vars == <<enqueued, running, ran>>

Init == enqueued = <<>> /\ running = None /\ ran = <<>>

Enqueue(j) == enqueued' = Append(enqueued, j) /\ UNCHANGED <<running, ran>>

Start ==
    /\ running = None /\ Len(ran) < Len(enqueued)
    /\ running' = enqueued[Len(ran) + 1]
    /\ UNCHANGED <<enqueued, ran>>

Finish ==
    /\ running # None
    /\ ran' = Append(ran, running)
    /\ running' = None
    /\ UNCHANGED enqueued

Next == (\E j \in Jobs : Enqueue(j)) \/ Start \/ Finish

Spec == Init /\ [][Next]_vars
=============================================================================
