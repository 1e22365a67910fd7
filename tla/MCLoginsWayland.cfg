CONSTANTS
    Kinds <- AllKinds
    Faults = {}
    MaxFaults = 0
    MaxLogins = 2
    MaxVersion = 1
SPECIFICATION LSpec
CHECK_DEADLOCK FALSE
INVARIANTS X11HasNoWayland
