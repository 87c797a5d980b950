SPECIFICATION Spec
CONSTANTS
    Services = {s1}
    Windows = {w1}
    Procs = {p1, p2}
    Bucket = 2
    Retention = 1
    Fine = 0
    Every = 1
    Buffered = 1
    Jumps = FALSE
    MaxFails = 1
    MaxClock = 4
INVARIANTS EveryMinuteKept RecentIsComplete NothingIsKeptForever
SYMMETRY Symmetry
