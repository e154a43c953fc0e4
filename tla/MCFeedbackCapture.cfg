SPECIFICATION CaptureSpec
CONSTANTS
    MaxEvents = 3
    BatchEvents = 2
    MaxCalls = 12
    Samples = 2
    Preview = TRUE
    Recorder = TRUE
INVARIANTS
    SynchronizedIsWhole
    QueriesAccounted
PROPERTIES
    LogSpec
    NoWakeupLost
CHECK_DEADLOCK FALSE
