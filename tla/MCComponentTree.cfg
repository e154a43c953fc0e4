SPECIFICATION TreeSpec
CONSTANTS
    Pids = {p1, p2, p3}
    Wrapper = w
    InitPid = init
    MaxBirths = 4
INVARIANTS
    SuccessLeavesNothing
    SignalsStayInside
    StatusIsKept
SYMMETRY PidSymmetry
CHECK_DEADLOCK FALSE
