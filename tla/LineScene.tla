------------------------------ MODULE LineScene ------------------------------
(***************************************************************************)
(* The command line as a part of the program: CommandLine, beside modules   *)
(* that have an Init, a Next and processes of their own.                    *)
(***************************************************************************)

CONSTANTS
    Lines, MaxCommands, FlagWords, Assigned, Pieces, Atoi, Digits, Matches, \* what is typed
    Table, Quick, Releases, Unblockable, WinServices, Installed, Computers   \* the machine

VARIABLES machine, argv, rights, lineStage, result, before, count

L == INSTANCE CommandLine WITH
        Forbidden <- Unblockable, Services <- WinServices, Machines <- Computers, Defaults <- Installed,
        pc <- machine, elevated <- rights, stage <- lineStage

ASSUME CommandLineAssumption == L!ConstAssumption

commandLine == <<machine, argv, rights, lineStage, result, before, count>>

-----------------------------------------------------------------------------
\* A flag without a value may stand anywhere behind the command.
FlagsMayStandAnywhere == L!FlagsMayStandAnywhere

\* The exit code of a command tells what became of the machine, unless a write that
\* nobody looked at came to nothing.
ExitCodeIsTrue == L!ExitCodeIsTrue

\* With exit code 0, what the line asks for is so.
SuccessIsDone == L!SuccessIsDone
=============================================================================
