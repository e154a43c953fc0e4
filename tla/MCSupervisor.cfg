SPECIFICATION Spec
CONSTANT N = 2
INVARIANTS
    StoppedIsQuiet
    SessionsDoNotOverlap
PROPERTIES
    SessionEnds
CHECK_DEADLOCK FALSE
