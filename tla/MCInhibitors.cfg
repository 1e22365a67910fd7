SPECIFICATION Spec
CONSTANTS
    Clients = {c1, c2}
    SupportedBits = {"logout"}
    OtherBits = {"other"}
    IndexSize = 2
    MaxInhibit = 4
INVARIANTS TypeOK InhibitedWhileHeld LeaksOnlyUnheard
PROPERTIES KeepsRegistry
CHECK_DEADLOCK FALSE
