SPECIFICATION Spec
CONSTANTS
    Capacity = 3
    Depth = 3
    MaxBundles = 4
INVARIANTS
    GraphIsPrefix
    AckedIsDurable
    BarrierIsFinal
    NoFalseContradiction
PROPERTIES
    DeliveredOrFailed
CHECK_DEADLOCK FALSE
