SPECIFICATION Services
CONSTANTS
    r1 = r1
    r2 = r2
    r3 = r3
    g1 = g1
    g2 = g2
    g3 = g3
    a1 = a1
    a2 = a2
    p1 = p1
    p2 = p2
    None = None
    Request <- Two
    Key <- Kinds
    Kind <- KindOf
    Cells <- Lattice
    Height <- HeightOf
    Rains <- SomeRain
    Rivers <- SomeFlow
    FullTtl <- Ttls
    PartTtl = 2
    FailTtl = 1
    Attempts = 2
    Waits <- OneWait
    Timeout = 0
    MaxClock = 6
    Client <- Three
    Horizon <- Horizons
    RiverPoint <- TwoRivers
    TrainedRiver <- OneRiver
    UsedRiver <- OneRiver
    Ensembles <- SomeEnsembles
    RiverSeconds = 3
    FailureSeconds = 1
    Path <- Paths
    PublicLimit <- TwoLimits
    LimitWindow = 2
    MaxTracked = 2
    DailyLimit = 1
    QuotaDay = 2
    MaxAsked = 5
    Accuracy <- Accuracies
    Bodies <- SomeBodies
    PlaceCache = 2
    PlaceSeconds = 3
    MinInterval = 2
    MaxWaiting = 1
    Point <- TwoPoints
    Quota = 3
    BudgetHour = 4
    Gap = 2
    NameCache = 1
    NameSeconds = 1
    Pauses <- TwoPauses
    NameTimeout = 1
    Peer <- OnePoint
    Maximum <- Maxima
    AttemptWindow = 2
    AttemptHour = 6
    Lifetime = 2
    IdleTime = 1
    Gate = 1
    Patience = 1
    MaxReset = 1
    FeedDay = 2
    Week = 2
    RainWindow = 2
    Past = 3
    WarningDay = 3
    DAY_COLOURS <- Colours
    WARNING_CODES <- Codes
    Forecast <- Forecasts
    STALE_DAYS = 2
    IMD_TTL = 2
    FAIL_TTL = 1
    Content <- Contents
    Holds <- Held
    Slots = 2
    Message <- TwoPoints
    Sheltered <- OnePoint
    Size = 2
    PoolTimeout = 1
    StatementTimeout = 1
SYMMETRY Alike
INVARIANTS
    ServedInTime
    ProvidersSpared
    NothingMadeUp
    LimitsKept
    SessionsEarned
    SlotsKept
    DirectoryWhole
    MaintenanceHonest
CHECK_DEADLOCK FALSE
