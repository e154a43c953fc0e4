SPECIFICATION Spec
CONSTANTS
    HybridManual = FALSE
    ArmAllowed = TRUE
    KeyInputs <- MCOneDirection
    MaxGeneration = 1
PROPERTIES
    LostOperatorStops
    SignalCloses
CHECK_DEADLOCK FALSE
