SPECIFICATION FairNodeSpec
CONSTANTS
    c1 = c1
    c2 = c2
    Ops <- MCOps
    Calls <- MCCalls
    Pods = {p1, p2}
    Keys = {k1, k2}
    Effects = {e1}
CHECK_DEADLOCK FALSE
INVARIANTS
    NodeTypeOK
    DrainKeepsItsWord
PROPERTIES
    DrainSparesIgnored
    TaintsChangeForAReason
    CallsEnd
