CONSTANTS
    Downstreams = {d1, d2}
    ChannelIds = {2}
    MaxChannels = 1
    MaxQueue = 1
    GridPool = TRUE
    SupportedExt = {}
    RequiredExt = {ext}
    ClientExt = {ext}
    ClientFlags <- Flags
SPECIFICATION Spec
CHECK_DEADLOCK FALSE
INVARIANTS
    RegistryInv
    NoOrphans
PROPERTIES
    UnregisteredEnds
    ShutdownCompletes
