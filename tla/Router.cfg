CONSTANTS
    Backends = 2
    Timeout = 60
    TotalDeadline = 90
    Late = 1
    Durations <- SomeDurations
    Costs = {0, 1}
    MayFail = TRUE
SPECIFICATION FairSpec
INVARIANTS
    IndInv
    EndsInTime
    CostsBilled
    OneReport
    AllTried
    FullSecondAttempt
PROPERTY Ends
CHECK_DEADLOCK FALSE
