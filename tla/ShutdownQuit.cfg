SPECIFICATION FramesSpec
CONSTANTS
    Scenes = {"timer"}
    Delays = {3, 4}
    Margin = 1
    VerifyEvery = 1
    External = 1
    None = None
    Jobs = {j1, j2}
    MaxCalls = 4
    NoJob = NoJob
    N = 2
    Values <- MCValues
    OnWrites <- MCOnWrites
    OffWrites <- MCOffWrites
    Reads <- MCReads
    Any <- MCAny
    Admin <- MCAdmin
    MaxTodo = 1
    Hour = 4
    Minute = 2
    Ranges = {1, 2}
    MonitorMargin = 3
    Near = 1
    Ahead = 1
    PlotSpan = 1
    SystemRows <- MCSystemRows
    CpuRows <- MCCpuRows
    SparkSpan = 6
    SparkRows = 2
    Refresh = 2
    Cores = 2
    Budget = 3
    Steps <- MCSteps
    Pans <- MCPans
    Histories <- MCHistories
    Habits <- MCHabits
    MonitorStart = 5
    MaxTime = 6
    MaxKey = 2
    MaxInputs = 2
INVARIANT NothingLeftBehind
CHECK_DEADLOCK FALSE
