SPECIFICATION Spec
CONSTANTS
    LastHour = 3
    Loaders = {"history", "holdout"}
    PageSize = 2
    Flaws <- MCFlaws
    MaxPages = 3
    ShortBars = 1
    LongBars = 2
    WarmUp = 2
    BatchSize = 2
    PeriodStart = 2
    PeriodEnd = 3
    UnlockAt = 3
    DerivedWarmUp = 2
    EmaShort = 2
    EmaMedium = 3
    EmaLong = 4
    WilderPeriod = 2
    VolatilityPeriod = 2
    Lookback = 2
    SlopeThreshold <- MCSlope
    HighVolatility <- MCHighVolatility
    SampleCandles <- MCCandles
    MaxSample = 5
INVARIANTS
    RawIsSettled
    DerivedLooksBack
    CalculatorsAgree
PROPERTIES
    RawToDds
    GatesHold
    UpdateEnds
