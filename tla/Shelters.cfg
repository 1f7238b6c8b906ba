SPECIFICATION Spec
CONSTANTS
    s1 = s1
    s2 = s2
    adm1 = adm1
    adm2 = adm2
    th1 = th1
    th2 = th2
    roomy = roomy
    crowded = crowded
    None = None
    Shelter <- OneShelter
    Admin <- TwoAdmins
    Thread <- TwoThreads
    Facts <- BothFacts
    WithRoom <- Roomy
    Modes = {"live", "demonstration"}
    Valid = 1
    MaxClock = 1
    MaxRevision = 3
SYMMETRY Interchangeable
INVARIANTS TypeOK TrailIsChain HistoryInOrder VerifierNamed
PROPERTY OfferKept
CHECK_DEADLOCK FALSE
