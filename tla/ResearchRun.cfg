SPECIFICATION Spec
CONSTANTS
    TakeProfitPct = 5
    StopLossPct = 6
    TrailingActivationPct = 3
    TrailingDistancePct = 2
    Lookback = 2
    RetestTimeout = 3
    DetectionAge = 2
    WatchMax = 1
    SetupTimeout = 3
    RsiEntry = 45
    SlopeThreshold = 1
    MaxHolding = 5
    Books = {"breakout", "breakout_v2", "pullback", "baseline", "slope"}
    Shapes <- SetupThenAnything
    Fee = 1
    SnapshotHours = 2
    HorizonHours = 1
INVARIANTS ReportsReconcile EntriesFollowSetups FunnelAccounts WatchFollowsPosition FilterIsExact FirstTrendDownEnds ReportsFit
CHECK_DEADLOCK FALSE
