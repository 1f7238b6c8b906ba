SPECIFICATION FairSpec
CONSTANTS
    adm1 = adm1
    adm2 = adm2
    req1 = req1
    req2 = req2
    req3 = req3
    k1 = k1
    k2 = k2
    op = op
    s1 = s1
    c1 = c1
    c2 = c2
    th1 = th1
    th2 = th2
    None = None
    Admin <- OneAdmin
    Request <- OneRequest
    Key <- TwoKeys
    Operator = op
    Thread <- TwoThreads
    Payloads <- Both
    Configs <- TwoConfigs
    Shelters <- OneShelter
    Limit = 1
    Window = 1
    Hour = 2
    Patience = 1
    Expiry = 2
    MaxRecipients = 2
    MaxClock = 1
INVARIANTS TypeOK AtMostOnce SettledIsComplete ReviewIsFresh
PROPERTIES DispatchKept ClaimsSettle
CHECK_DEADLOCK FALSE
