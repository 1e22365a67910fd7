SPECIFICATION MCSpec
CONSTANTS
    s1 = s1
    Sessions = {s1, s2}
    NoSession = NoSession
    OtherModes = {}
    NoSuspendFile = FALSE
    MaxSwitch = 2
    MaxRequest = 1
    MaxUser = 1
    MaxFault = 1
INVARIANTS TypeOK NoLostRecovery WriterUnawareOfSwitch
PROPERTIES EventuallyRestored
CHECK_DEADLOCK FALSE
