SPECIFICATION Spec
CONSTANTS
    Gui = {g1}
    Cli = {}
    Commands = {}
    MayCrash = FALSE
    Unreadable = Unreadable
PROPERTY DeclineCloses
CHECK_DEADLOCK FALSE
