SPECIFICATION Spec
CONSTANTS
    SymbolCount = 2
    Alphabetical <- ConfiguredOrder
    FirstClock = 2
    MaxClock = 4
    WarmupCandles = 1
    BackfillBuffer = 1
    MaxRestarts = 0
INVARIANT NoCandleSkipped
