SPECIFICATION FairSpec
CONSTANTS
    ana = ana
    bob = bob
    udupi = udupi
    mysore = mysore
    t1 = t1
    t2 = t2
    None = None
    Key <- TwoKeys
    District <- OneDistrict
    Worker <- TwoThreads
    Operators <- OneKey
    TestChats <- OneKey
    Approved <- Nobody
    Commands = {"subscribe", "stop", "start"}
    Modes = {"live", "demonstration"}
    MaxUpdates = 2
    MaxClock = 2
    MaxAge = 1
INVARIANT DemonstrationIsPrivate
PROPERTIES CommandsAnswered OptInsFollowLedger
CHECK_DEADLOCK FALSE
