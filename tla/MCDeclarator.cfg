SPECIFICATION Spec
CONSTANTS
    m1 = m1
    m2 = m2
    Modes = {"full", "coinbase"}
    Miners = {m1, m2}
    MaxTemplates = 2
    MaxShares = 2
    Capacity = 1
CHECK_DEADLOCK FALSE
INVARIANTS
    TokensInv
    SharesInv
PROPERTIES
    OpensAnswered
