SPECIFICATION Spec
CONSTANTS
    N = 3
    Profiles = {p1, p2}
    MaxEdits = 2
    MaxFaults = 3
    None = None
INVARIANTS
    SwitchIsAtomic
    EditsSurvive
PROPERTIES
    CommitIsFinal
    Recovers
CHECK_DEADLOCK FALSE
