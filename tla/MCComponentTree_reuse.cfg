SPECIFICATION TreeSpec
CONSTANTS
    Pids = {p1, p2}
    Wrapper = w
    InitPid = init
    MaxBirths = 3
INVARIANT StatusIsNeverLost
CHECK_DEADLOCK FALSE
