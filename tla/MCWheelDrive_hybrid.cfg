SPECIFICATION Spec
CONSTANTS
    HybridManual = TRUE
    ArmAllowed = TRUE
    KeyInputs <- MCKeyInputs
    MaxGeneration = 3
INVARIANTS
    StopNeverForgotten
    ClosedAtRest
PROPERTIES
    ReleaseOnlyAtRest
    ZeroBeforeEnable
    DriveFollowsKeys
CHECK_DEADLOCK FALSE
