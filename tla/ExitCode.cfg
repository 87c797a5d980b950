SPECIFICATION PagesSpec
CONSTANTS
    All <- BuildTable
    Sessions <- MCSessions
    Executables = {"a", "ba"}
    Pids = {1, 2}
    Looks <- MCLooks
    System = {"a"}
    Frozen = {"a"}
    Big = {"ba"}
    Inside <- MCInside
    Refresh = 2
    Wrap = 5
    Lines <- MCLines
    MaxCommands = 2
    FlagWords <- MCFlagWords
    Assigned <- MCAssigned
    Pieces <- MCPieces
    Atoi <- MCAtoi
    Digits <- MCDigits
    Matches <- MCMatches
    Table <- Entries
    Quick <- MCQuick
    Releases = {"22H2"}
    Unblockable = {"cmd", "maku"}
    WinServices = {"alpha", "beta"}
    Installed <- MCDefaults
    Computers <- MCMachines
INVARIANT SuccessIsDone
CHECK_DEADLOCK FALSE
