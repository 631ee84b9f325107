SPECIFICATION Spec
CONSTANTS
    Names = {a, b, c}
    Star = Star
    Unset = Unset
    Orders <- OneConstraint
    MaxOps = 4
SYMMETRY Symmetry
CHECK_DEADLOCK FALSE
INVARIANTS
    Inv
    OrderIsKept
PROPERTY
    TidyCallsMoveNothing
