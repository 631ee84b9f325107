SPECIFICATION FairSpec
CONSTANTS
    InitialCRDs = 2
    MaxChanges = 2
CHECK_DEADLOCK FALSE
INVARIANTS
    Inv
PROPERTIES
    NeverOlder
    CancelEndsWorker
    SettlesFresh
