SPECIFICATION Spec
CONSTANTS
    Half = 5
    Poll = 1
    Rereads = 2
    Flushes = 2
    Capacity = 2
    CacheTime = 2
    Intervals = {1, 3}
    Default = 1
    Longest = 2
    Refreshes = {0, 1}
    MaxDelay = 2
INVARIANTS UnsavedIsYoung Covered
PROPERTIES OnSchedule OneCollector
