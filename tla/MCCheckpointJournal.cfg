SPECIFICATION Spec
CONSTANTS
    Outputs = 2
    Workers = 2
INVARIANTS
    CheckpointIsDurable
    CloseIsComplete
CHECK_DEADLOCK FALSE
