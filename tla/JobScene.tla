------------------------------ MODULE JobScene ------------------------------
(***************************************************************************)
(* The job queue as a part of the program: JobQueue, beside modules that    *)
(* have an Init, a Next and calls of their own.                             *)
(***************************************************************************)

CONSTANTS Jobs, MaxCalls, NoJob

VARIABLES queue, busy, mutex, worker, taken, calling, enqueued, done

J == INSTANCE JobQueue WITH None <- NoJob, job <- taken, calls <- enqueued

ASSUME JobQueueAssumption == J!ConstAssumption

jobQueue == <<queue, busy, mutex, worker, taken, calling, enqueued, done>>

-----------------------------------------------------------------------------
\* IsBusy stays true until everything that was enqueued has run.
BusyUntilDone == J!BusyUntilDone

\* The worker does not sleep on a job that IsBusy does not tell of.
StaleBriefly == J!StaleBriefly

\* The queue runs what is enqueued one after the other, in order.
ImplementsFifo == J!ImplementsFifo
=============================================================================
