CONSTANTS
    Downstreams = {d1, d2}
    Setups <- MCSetups
SPECIFICATION Spec
SYMMETRY Symmetry
CHECK_DEADLOCK FALSE
INVARIANTS
    TargetsInv
    NoShareIsLost
