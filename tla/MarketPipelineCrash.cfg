SPECIFICATION Spec
CONSTANTS
    Symbols <- Both
    Configured <- OnlyBTC
    RequiredCandles = 1
    MaxSequence = 2
    MaxFailures = 1
    MaxRestarts = 1
INVARIANT ReadyMeansAllReady
PROPERTY ExecutesOnce
