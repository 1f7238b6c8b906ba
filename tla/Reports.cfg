SPECIFICATION FairSpec
CONSTANTS
    r1 = r1
    r2 = r2
    plain = plain
    snap = snap
    th1 = th1
    th2 = th2
    None = None
    Report <- OneReport
    Content <- BothContents
    WithPhoto <- Snap
    Thread <- TwoThreads
    Modes = {"live", "demonstration"}
    PhotoLife = 1
    ReportLifetime = 2
    MaxClock = 2
    MaxViews = 1
    MaxSends = 2
INVARIANTS TrailIsChain ReceiptsHonest ServedAreAudited
PROPERTIES LifeKept ErasureEnds
CHECK_DEADLOCK FALSE
