CONSTANTS
    Tasks = {cm, reader, writer, sv1}
    Anchors = {cm}
SPECIFICATION BarrierSpec
CHECK_DEADLOCK FALSE
INVARIANTS
    BarrierInv
PROPERTIES
    WaitsForAll
    FallbackCompletes
