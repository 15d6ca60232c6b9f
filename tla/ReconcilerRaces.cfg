SPECIFICATION Spec
CONSTANTS
    MaxOrders = 3
    Rows = {"dict", "dataclass"}
    WritesFail = TRUE
    MaxRestarts = 2
    MaxCycles = 2
INVARIANT BlindRestartIsCaught
PROPERTY VerdictsAreSound
