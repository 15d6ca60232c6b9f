SPECIFICATION FairSpec
CONSTANTS
    SymbolCount = 1
    Alphabetical <- ConfiguredOrder
    FirstClock = 2
    MaxClock = 6
    WarmupCandles = 1
    BackfillBuffer = 1
    MaxRestarts = 2
INVARIANTS NoCandleSkipped
PROPERTY CandlesReachEngine
