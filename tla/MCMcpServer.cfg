SPECIFICATION Spec
CONSTANTS
    Sessions = {"s1", "s2"}
    IDs = {"a", "dev"}
    Servers = {"x", "y"}
    Classes <- MCClasses
    PodNames = {"p"}
    Setups <- MCSetups
    Menu <- MCMenu
    MaxPolls = 2
    None = None
CHECK_DEADLOCK FALSE
INVARIANTS
    Inv
    AnswersAreTrue
PROPERTIES
    StartupServesFirst
    CallsComeToAnEnd
