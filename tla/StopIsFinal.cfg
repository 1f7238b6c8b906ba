SPECIFICATION Spec
CONSTANTS
    ana = ana
    bob = bob
    udupi = udupi
    mysore = mysore
    t1 = t1
    t2 = t2
    None = None
    Key <- OneKey
    District <- OneDistrict
    Worker <- OneThread
    Operators <- Nobody
    TestChats <- Nobody
    Approved <- Nobody
    Commands = {"subscribe", "stop"}
    Modes = {"live"}
    MaxUpdates = 2
    MaxClock = 2
    MaxAge = 2
INVARIANT StopIsFinal
CHECK_DEADLOCK FALSE
