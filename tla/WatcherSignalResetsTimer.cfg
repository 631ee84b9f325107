SPECIFICATION FairSpec
CONSTANTS
    InitialCRDs = 2
    MaxChanges = 2
CHECK_DEADLOCK FALSE
PROPERTIES
    SignalResetsTimer
