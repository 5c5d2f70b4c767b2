SPECIFICATION Spec
CONSTANTS
    common = common
    rare = rare
    Txs = {common, rare}
    MaxAttempts = 3
    Setups <- AllSetups
CHECK_DEADLOCK FALSE
INVARIANTS
    AnswersInv
    ReturnsLast
PROPERTIES
    MirrorCatchesUp
    RuntimeProgress
