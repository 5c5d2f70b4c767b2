CONSTANTS
    Downstreams = {d1, d2, d3}
    Setups <- MCSetups
    Slots = 2
    None = None
SPECIFICATION Spec
SYMMETRY Symmetry
CHECK_DEADLOCK FALSE
INVARIANTS
    ChannelsInv
    EveryoneHasWork
    PrevHashFindsItsJob
