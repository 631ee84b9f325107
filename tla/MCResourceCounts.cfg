SPECIFICATION CountsSpec
CONSTANTS
    Calls = {c1, c2}
    Resources = {r1, r2}
    Slots = 1
    PageSize = 1
    MaxObjects = 2
    MaxObjectChanges = 1
    None = None
CHECK_DEADLOCK FALSE
INVARIANTS
    CountsInv
PROPERTIES
    ReturnedMapsRest
    CallsEnd
