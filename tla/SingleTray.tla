----------------------------- MODULE SingleTray -----------------------------
(***************************************************************************)
(* What RunStandalone of platform/MetricsTray.cpp promises of the processes *)
(* that show the tray of the metrics service: one of them at a time holds   *)
(* the mutex, which it takes only when it is free; it alone has a window,   *)
(* and an icon only with its window; and it lets the mutex go last.         *)
(***************************************************************************)
CONSTANT Procs

VARIABLES
    holders, \* of the mutex: one process, or none
    windows, \* the processes that have a tray window
    icons    \* the processes that have an icon in a taskbar

vars == <<holders, windows, icons>>

Init == holders = {} /\ windows = {} /\ icons = {}

Take(p) ==
    /\ holders = {}
    /\ holders' = {p}
    /\ UNCHANGED <<windows, icons>>

OpenWindow ==
    /\ windows = {} /\ windows' = holders
    /\ UNCHANGED <<holders, icons>>

Show ==
    /\ icons = {} /\ icons' = windows
    /\ UNCHANGED <<holders, windows>>

Hide ==
    /\ icons' = {}
    /\ UNCHANGED <<holders, windows>>

CloseWindow ==
    /\ windows' = {} /\ icons' = {}
    /\ UNCHANGED holders

\* By returning, or because the process is ended.
Release == holders' = {} /\ windows' = {} /\ icons' = {}

Next ==
    \/ \E p \in Procs : Take(p)
    \/ OpenWindow \/ Show \/ Hide \/ CloseWindow \/ Release

Spec == Init /\ [][Next]_vars
=============================================================================
