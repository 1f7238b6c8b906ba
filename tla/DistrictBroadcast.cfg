SPECIFICATION Spec
CONSTANTS
    ana = ana
    bob = bob
    udupi = udupi
    mysore = mysore
    t1 = t1
    t2 = t2
    None = None
    Key <- OneKey
    District <- TwoDistricts
    Worker <- TwoThreads
    Operators <- Nobody
    TestChats <- Nobody
    Approved <- TwoDistricts
    Commands = {"subscribe", "unsubscribe", "stop"}
    Modes = {"live"}
    MaxUpdates = 2
    MaxClock = 3
    MaxAge = 2
SYMMETRY Interchangeable
INVARIANTS ChatIdOnlyWhileNeeded AuditReplays OptOutHolds
PROPERTY DistrictsFollowLedger
CHECK_DEADLOCK FALSE
