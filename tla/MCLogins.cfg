CONSTANTS
    Kinds <- AllKinds
    Faults <- AllFaults
    MaxFaults = 1
    MaxLogins = 3
    MaxVersion = 2
SPECIFICATION LSpec
CHECK_DEADLOCK FALSE
INVARIANTS LTypeOK UnitsSeeOwnLogin CheckedOnce HelpersUnmasked
