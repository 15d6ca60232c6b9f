SPECIFICATION Spec
CONSTANTS
    Symbols = {btc, eth, sol}
    Quantities = {1}
    Prices = {30, 60}
    Capital = 1000
    MaxPositionSize = 60
    MaxAssetExposure = 250
    MaxCapitalUtilization = 100
    DailyLossLimit = 20
    WeeklyLossLimit = 50
    MaxDrawdown = 100
    MaxOpenPositions = 2
    PnLs <- NoLossAndLargeLoss
    Equities = {800, 1000}
    ErrorLimit = 1
    MaxSaveFailures = 1
    MaxRestarts = 1
SYMMETRY SymbolSymmetry
INVARIANTS BookWithinLimits
PROPERTIES StoppedNeverGrows StopIsLatched LossesNeverGrow
