SPECIFICATION FairSpec
CONSTANTS
    Symbols = {btc}
    Quantities = {1}
    MaxSequence = 2
    OpenTime <- HourlyOpenTime
    MaxRequests = 1
    MaxSession = 1
    CheckpointInterval = 2
    MaxLives = 2
    MaxCrashes = 1
    MaxWriteFailures = 1
    MaxLoadFailures = 1
INVARIANTS SequenceCoversOrders DurableFillUnique
PROPERTIES StopCompletes
CHECK_DEADLOCK FALSE
