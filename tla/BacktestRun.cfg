SPECIFICATION Spec
CONSTANTS
    TakeProfitPct = 5
    StopLossPct = 15
    TrailingActivationPct = 3
    TrailingDistancePct = 2
    Candles <- FallsAndRises
    Quantities = {2}
    Slippages = {100}
    InitialBalance = 404
    TakerFee = 10
    MinimumFee = 1
    Confirmations = {1, 3}
    HoldingLimits = {3, 6}
    Policies = {"liquidate", "mark_to_market"}
    MaxCandles = 5
INVARIANTS BooksHold PendingMatchesPosition MemoryFollowsPosition
PROPERTY ExitsBind
CHECK_DEADLOCK FALSE
