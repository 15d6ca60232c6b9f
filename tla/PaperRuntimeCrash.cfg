SPECIFICATION Spec
CONSTANTS
    Symbols = {btc}
    Quantities = {1}
    MaxSequence = 2
    OpenTime <- HourlyOpenTime
    MaxRequests = 2
    MaxSession = 2
    CheckpointInterval = 1
    MaxLives = 3
    MaxCrashes = 2
    MaxWriteFailures = 0
    MaxLoadFailures = 0
INVARIANTS CheckpointCovers PositionsMatchFills FillsHaveOrders
PROPERTIES DurableSeqMonotone
CHECK_DEADLOCK FALSE
