------------------------------ MODULE JobQueue ------------------------------
(***************************************************************************)
(* The background job queue (core/JobQueue.cpp): one worker thread, a      *)
(* std::queue and the mutex around it.                                     *)
(*                                                                         *)
(* The worker keeps the mutex while it sleeps on an empty queue, so        *)
(* Enqueue, called on the UI thread, waits for it.  An Enqueue that gets   *)
(* the mutex is one step; the worker's critical section is several.        *)
(***************************************************************************)
EXTENDS Naturals, Sequences

CONSTANTS
    Jobs,     \* the kinds of jobs
    MaxCalls, \* bound: how often Enqueue is called
    None      \* no job

ConstAssumption == MaxCalls \in Nat /\ None \notin Jobs

VARIABLES
    queue,   \* queue_
    busy,    \* busy_
    mutex,   \* who holds mutex_: "worker" or "nobody"
    worker,  \* what the worker does next
    job,     \* the job it has taken off the queue
    calling, \* the argument of the Enqueue that waits for the mutex
    calls,   \* history: the jobs of all calls that have returned
    done     \* history: the jobs that are over

vars == <<queue, busy, mutex, worker, job, calling, calls, done>>

Init ==
    /\ queue = <<>> /\ busy = FALSE
    /\ mutex = "nobody" /\ worker = "lock" /\ job = None
    /\ calling = None
    /\ calls = <<>> /\ done = <<>>

-----------------------------------------------------------------------------
(* Enqueue, on the UI thread *)

Call(j) ==
    /\ calling = None /\ Len(calls) < MaxCalls
    /\ calling' = j
    /\ UNCHANGED <<queue, busy, mutex, worker, job, calls, done>>

PushFirst(q, j) == <<j>> \o q
Push(q, j) == Append(q, j)

Enqueue ==
    /\ calling # None /\ mutex = "nobody"
    /\ queue' = Push(queue, calling)
    /\ calls' = Append(calls, calling)
    /\ calling' = None
    /\ UNCHANGED <<busy, mutex, worker, job, done>>

-----------------------------------------------------------------------------
(* WorkerLoop *)

Lock ==
    /\ worker = "lock" /\ mutex = "nobody"
    /\ mutex' = "worker"
    /\ worker' = "look"
    /\ UNCHANGED <<queue, busy, job, calling, calls, done>>

\* The lock is given up before the sleep.
FindEmptyUnlocked ==
    /\ worker = "look" /\ queue = <<>>
    /\ busy' = FALSE
    /\ mutex' = "nobody"
    /\ worker' = "sleep"
    /\ UNCHANGED <<queue, job, calling, calls, done>>
\* The loop ends with the queue.
FindEmptyAndEnd ==
    /\ worker = "look" /\ queue = <<>>
    /\ busy' = FALSE
    /\ mutex' = "nobody"
    /\ worker' = "over"
    /\ UNCHANGED <<queue, job, calling, calls, done>>
FindEmpty ==
    /\ worker = "look" /\ queue = <<>>
    /\ busy' = FALSE
    /\ worker' = "sleep"
    /\ UNCHANGED <<queue, mutex, job, calling, calls, done>>

\* The scope of the lock_guard ends after the sleep.
Wake ==
    /\ worker = "sleep"
    /\ mutex' = "nobody"
    /\ worker' = "lock"
    /\ UNCHANGED <<queue, busy, job, calling, calls, done>>

Take ==
    /\ worker = "look" /\ queue # <<>>
    /\ busy' = TRUE
    /\ job' = Head(queue)
    /\ queue' = Tail(queue)
    /\ mutex' = "nobody"
    /\ worker' = "run"
    /\ UNCHANGED <<calling, calls, done>>

\* job() returns.
RunAndRest ==
    /\ worker = "run"
    /\ done' = Append(done, job)
    /\ job' = None
    /\ busy' = FALSE
    /\ worker' = "lock"
    /\ UNCHANGED <<queue, mutex, calling, calls>>
Run ==
    /\ worker = "run"
    /\ done' = Append(done, job)
    /\ job' = None
    /\ worker' = "lock"
    /\ UNCHANGED <<queue, busy, mutex, calling, calls>>

WorkerLoop == Lock \/ FindEmpty \/ Wake \/ Take \/ Run

Next == (\E j \in Jobs : Call(j)) \/ Enqueue \/ WorkerLoop

Spec == Init /\ [][Next]_vars

\* Every job ends and the worker is scheduled.  A thread that waits for the mutex
\* is promised nothing: the worker has it for all but moments, and a std::mutex
\* need not hand it over in any order.
FairSpec == Spec /\ WF_vars(WorkerLoop)

-----------------------------------------------------------------------------
(* Properties *)

Running == IF worker = "run" THEN <<job>> ELSE <<>>

TypeOK ==
    /\ queue \in Seq(Jobs)
    /\ busy \in BOOLEAN
    /\ mutex \in {"nobody", "worker"}
    /\ worker \in {"lock", "look", "sleep", "run"}
    /\ job \in Jobs \cup {None}
    /\ calling \in Jobs \cup {None}
    /\ calls \in Seq(Jobs) /\ done \in Seq(Jobs)

\* No job is lost, repeated or overtaken.
InOrder == calls = done \o Running \o queue

\* IsBusy: the UI draws its progress bar, and keeps redrawing at 60 Hz, until
\* everything that was enqueued has run: the flag does not go down between two
\* jobs, nor before one that waits.
BusyUntilDone == [][busy /\ ~busy' => done = calls]_vars

\* The flag goes up only when a job is taken.  Until then a job that waits is not
\* shown, but the worker is not asleep meanwhile: it sleeps on an empty queue
\* only, so it takes the job with its next look.
StaleBriefly == ~busy /\ queue # <<>> => worker \in {"lock", "look"}

\* The worker holds the mutex exactly while it is in its critical section, and
\* holds a job exactly while it runs one.
Holding ==
    /\ mutex = "worker" <=> worker \in {"look", "sleep"}
    /\ job # None <=> worker = "run"

\* JobQueue implements FifoJobs.
Fifo == INSTANCE FifoJobs WITH
            enqueued <- calls, running <- job, ran <- done
ImplementsFifo == Fifo!Spec

\* Once no more jobs are enqueued, all that were have run in the end.
EveryJobRuns == <>[][calls' = calls]_calls => <>[](done = calls)
=============================================================================
