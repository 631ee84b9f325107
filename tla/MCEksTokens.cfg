SPECIFICATION FairSpec
CONSTANTS
    Callers = {c1}
    Life = 3
    Period = 1
    Threshold = 2
    MaxRetries = 1
    MaxAttempts = 2
    MaxFails = 2
CHECK_DEADLOCK FALSE
INVARIANTS
    Inv
PROPERTIES
    LoopsActInTime
    RecoversAfterOutage
