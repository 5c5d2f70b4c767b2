SPECIFICATION Spec
CONSTANTS
    Channels = {s, x}
    Standard = {s}
    s = s
    x = x
    KeyOf <- SharedEntry
    Targets = {1, 2}
    PulseLevel = 2
    BlockLevel = 4
    PulseInterval = 2
    Setups <- AllSetups
CHECK_DEADLOCK FALSE
INVARIANTS
    SharesInv
PROPERTIES
    ProofsLeaveAccepted
    ProofsReachTheNode
