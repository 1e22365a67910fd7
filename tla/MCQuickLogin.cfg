SPECIFICATION QLFairSpec
CONSTANTS
    Displays = {"x11"}
    MaxLogind = 1
    MaxSwitch = 1
    MaxRequest = 0
    MaxUnlock = 1
    MaxSleep = 0
    MaxCrash = 1
INVARIANTS QLTypeOK TimeoutMeansNeverLocked
PROPERTIES QuickLoginLocksOrLogsOut CrashLogsOut
CHECK_DEADLOCK FALSE
