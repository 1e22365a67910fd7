SPECIFICATION FairSpec
CONSTANTS
    Requests = {"Session1Logout"}
    Failures = {}
    PoolSize = 4
    ChooserHangs = FALSE
PROPERTIES LogoutEndsSession
CHECK_DEADLOCK FALSE
