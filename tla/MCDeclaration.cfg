SPECIFICATION Spec
CONSTANTS
    c1 = c1
    c2 = c2
    r1 = r1
    r2 = r2
    None = None
    Clients = {c1, c2}
    Requests = {r1, r2}
    MaxTokens = 3
    MaxDeclared = 2
    MaxTip = 2
SYMMETRY Symmetry
CHECK_DEADLOCK FALSE
INVARIANTS
    TokensInv
    DepartedHoldNothing
