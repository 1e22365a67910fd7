SPECIFICATION FairSpec
CONSTANTS
    Requests = {"RequestLogout", "Session1Logout", "RequestPowerOff", "ShutdownByHand"}
    Failures = {"startFails", "handshake", "fifoError", "leaderKilled", "serviceKilled", "xDies", "ddeAmFails"}
    PoolSize = 1
    ChooserHangs = TRUE
INVARIANTS TypeOK ReaderEndsOnlyWithLeader PidBeforeQuit
PROPERTIES CleanupFollows ServiceFollowsLeader LogoutReturnsSeat PowerOffEndsSession KeepsPromise OnlyOutsideBreaksIt
CHECK_DEADLOCK FALSE
