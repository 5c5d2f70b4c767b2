CONSTANTS
    Setups <- MCSetups
    MaxGen = 2
    SupportedExts = {"a", "b"}
    RequiredExts = {"a"}
SPECIFICATION FairSpec
CHECK_DEADLOCK FALSE
INVARIANTS
    TasksInv
    OnlyIncompatiblePoolsAreLeft
PROPERTIES
    RuntimeProgress
