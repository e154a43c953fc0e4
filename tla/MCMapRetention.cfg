SPECIFICATION Spec
CONSTANTS
    r1 = r1
    r2 = r2
    r3 = r3
    d1 = d1
    d2 = d2
    Runs <- MCRuns
    Dests <- MCDests
SYMMETRY Symmetric
CHECK_DEADLOCK FALSE
INVARIANTS
    ReferencedRawSurvives
    MapIsSomewhere
    SavedIsThere
PROPERTIES
    NeverReplaced
