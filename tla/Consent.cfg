SPECIFICATION MCSpec
CONSTANTS
    Gui = {g1}
    Cli = {c1}
    Commands = {"analytics", "settings", "import"}
    MayCrash = TRUE
    Unreadable = Unreadable
    d1 = d1
    d2 = d2
    bad = bad
    o1 = o1
    o2 = o2
    f1 = f1
    f2 = f2
    Window = Window
    HostsCommands = {Other}
    Domains = {d1, d2, bad}
    Forbidden = {bad}
    Others = {o1, o2}
    Preset <- MCPreset
    Texts <- MCTexts
    HostsFiles <- MCHostsFiles
    Fits = 2
    MaxUpdates = 2
    StartTag = StartTag
    EndTag = EndTag
    Hole = Hole
    Starters = {q1, q2}
    Payload <- MCPayload
    MaxStarts = 3
    None = None
INVARIANTS AllTypesOK NothingBeforeAllow AnswerKept ShownIsStored
INVARIANTS OthersAreKept ListIsApplied CompleteWhenUsed
CHECK_DEADLOCK FALSE
