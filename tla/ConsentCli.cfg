SPECIFICATION Spec
CONSTANTS
    Gui = {g1}
    Cli = {c1}
    Commands = {"analytics"}
    MayCrash = FALSE
    Unreadable = Unreadable
INVARIANT AnswerHolds
CHECK_DEADLOCK FALSE
