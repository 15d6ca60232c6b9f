SPECIFICATION FairSpec
CONSTANTS
    RiskMonitored = TRUE
    NotifierFails = TRUE
    MayStop = TRUE
    MaxChanges = 4
INVARIANT StepsOnceAndInOrder
PROPERTIES GateFollowsDatabase CriticalIsHandled
CHECK_DEADLOCK FALSE
