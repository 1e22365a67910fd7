SPECIFICATION Spec
CONSTANTS
    a = a
    b = b
    Units = {a, b}
    WatchLists <- MCWatchLists
    Pids = {1, 2, 3}
    MaxLoad = 2
    MaxExit = 1
    MaxFault = 1
INVARIANTS StartedAreAdjusted
CHECK_DEADLOCK FALSE
