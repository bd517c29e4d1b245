CONSTANTS
    Backends = 2
    Timeout = 60
    TotalDeadline = 90
    Late = 0
    Durations = {0, 60}
    Costs = {0}
    MayFail = FALSE
SPECIFICATION Spec
INVARIANT TimeoutIsOwn
CHECK_DEADLOCK FALSE
