SPECIFICATION FairSpec
CONSTANTS
    Displays = {"x11", "wayland"}
    MaxLogind = 1
    MaxSwitch = 2
    MaxRequest = 1
    MaxUnlock = 1
    MaxSleep = 1
    MaxCrash = 1
INVARIANTS TypeOK LockUnderWay
PROPERTIES LeavingLocks SignalsDrain
CHECK_DEADLOCK FALSE
