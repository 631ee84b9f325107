SPECIFICATION ListSpec
CONSTANTS
    Namespaces = {default, a, b}
    Default = default
    Preds = {p, q}
    Unset = Unset
    Star = Star
    NoList = NoList
    MaxCalls = 3
    MaxChains = 3
SYMMETRY Symmetry
INVARIANTS
    ListInv
