SPECIFICATION WindowSpec
CONSTANTS
    MaxSessions = 3
    MaxClicks = 3
    MaxFaults = 1
INVARIANTS
    OneSession
    NoMapLost
    ShownIsConsistent
PROPERTIES
    NoLateClick
    WaitsEnd
