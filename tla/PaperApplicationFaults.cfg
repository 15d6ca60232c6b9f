SPECIFICATION FairSpec
CONSTANTS
    MaxCandles = 3
    CheckpointInterval = 1
    Faults = {"preflight", "restore", "warmup", "process", "checkpoint", "beat", "pnl", "close"}
INVARIANT LifecycleIsTruthful
PROPERTY HeartbeatsInOrder
PROPERTY SignalEndsProcess
