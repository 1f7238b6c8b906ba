SPECIFICATION FairSpec
CONSTANTS
    Nowhere = Nowhere
    Server = Server
    Unsigned = Unsigned
    Top = Top
    NoReceipt = NoReceipt
    Run <- TwoRuns
    Kinds <- TelegramAndAny
    Contested <- BackendPort
INVARIANTS NothingForgotten OneGeneration
PROPERTIES CleanExit UnrelatedKept StopEnds
CHECK_DEADLOCK FALSE
