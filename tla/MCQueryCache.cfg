SPECIFICATION Spec
CONSTANTS
    Calls = {c1, c2, c3}
    MaxTTL = 1
    Delay = 1
    MaxTime = 3
    None = None
SYMMETRY Symmetry
CHECK_DEADLOCK FALSE
INVARIANTS
    TypeOK
    StaleBound
    CallsMeetInTheCache
PROPERTIES
    GoesBackInBounds
