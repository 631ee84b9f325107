SPECIFICATION Spec
CONSTANTS
    Calls = {c1, c2, c3}
    Ids = {i1, i2}
    None = None
SYMMETRY Symmetry
CHECK_DEADLOCK FALSE
INVARIANTS
    TypeOK
    NothingLeaks
    BuilderLeavesComplete
    CalmCallsBehave
