------------------------------ MODULE TimerScene ------------------------------
(***************************************************************************)
(* The shutdown timer as a page of the window: ShutdownTimer, beside        *)
(* modules that have an Init, a Next and a clock of their own.              *)
(***************************************************************************)

CONSTANTS Delays, Margin, VerifyEvery, External, None

VARIABLES
    os, armedBy, power, program, active, ends, verifying, lastVerify, snapshot, ui, delay,
    job, aborts

T == INSTANCE ShutdownTimer

ASSUME ShutdownTimerAssumption == T!ConstAssumption

-----------------------------------------------------------------------------
\* The countdown that is shown is the time to the shutdown the user has started.
CountdownIsTheTimer == T!CountdownIsTheTimer

\* A running program leaves no shutdown of a probe behind.
NoStrayShutdown == T!NoStrayShutdown
=============================================================================
