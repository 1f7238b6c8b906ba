SPECIFICATION Spec
CONSTANTS
    r1 = r1
    r2 = r2
    alert = alert
    cancel = cancel
    undated = undated
    zoneless = zoneless
    None = None
    Task <- OneTask
    Message <- Messages
    Actual <- ActualOnes
    Cancels <- CancelOf
    Expires <- ExpiryOf
    Zoneless <- ZonelessOne
    Bulletin <- OneBulletin
    Life <- LifeOf
    Ttl <- TtlOf
    FailTtl = 1
    MaxAlerts = 2
    MaxClock = 2
    MaxIssues = 1
INVARIANT NothingDropped
CHECK_DEADLOCK FALSE
