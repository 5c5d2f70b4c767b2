SPECIFICATION Spec
CONSTANTS
    Setups <- AllSetups
    MaxAsked = 1
    MaxFailures = 1
    MaxRetained = 2
    MaxRetries = 3
CHECK_DEADLOCK FALSE
INVARIANTS
    RetentionInv
    ScopedToConstraints
PROPERTIES
    ImplementsFeed
    TipsAreAnnounced
    ProvidersEnd
