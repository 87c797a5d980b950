----------------------------- MODULE ProcessScene -----------------------------
(***************************************************************************)
(* The process page as a part of the window: ProcessPage, beside modules    *)
(* that have an Init, a Next and a clock of their own.                      *)
(***************************************************************************)

CONSTANTS Executables, Pids, Looks, System, Frozen, Big, Inside, Refresh, Wrap

VARIABLES
    looked, running, started, tick, procs, services, tab, lastTab, needRefresh, lastAuto,
    selectedPid, menu, filters, exclusions, buffer, dialog, age, picked, ended, hidden

P == INSTANCE ProcessPage WITH
        Names <- Executables, Sessions <- Looks, session <- looked, now <- tick

ASSUME ProcessPageAssumption == P!ConstAssumption

processPage == <<looked, running, started, tick, procs, services, tab, lastTab, needRefresh,
                 lastAuto, selectedPid, menu, filters, exclusions, buffer, dialog, age,
                 picked, ended, hidden>>

-----------------------------------------------------------------------------
\* The process page ends the row that was chosen, although rows come and go.
EndsWhatWasChosen == P!EndsWhatWasChosen

\* The rows of the process page are less than four seconds old.
ShownIsFresh == P!ShownIsFresh

\* A name that the menu of the process page excluded stays hidden.
ExcludedIsHidden == P!ExcludedIsHidden
=============================================================================
