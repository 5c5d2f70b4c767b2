SPECIFICATION Spec
CONSTANTS
    d1 = d1
    alice = alice
    Downstreams = {d1}
    ChannelIds = {2, 3}
    Miners = {alice}
    Setups <- AllSetups
    MaxCustom = 3
CHECK_DEADLOCK FALSE
INVARIANTS
    WorkInv
    TipsInv
    SlotZeroIsOwn
PROPERTIES
    JobIdsUnambiguous
    TipsReachMiners
