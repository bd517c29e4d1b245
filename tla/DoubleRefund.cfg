CONSTANTS
    k1 = k1
    plain1 = plain1
    plain2 = plain2
    stream1 = stream1
    none = none
    Keys = {k1}
    Requests = {plain1, plain2}
    Streaming = {}
    KeyOf <- OneKey
    NoRow = none
    MaxAmount = 1
    StaleAfter = 1
    Deadline = 1
    QueueMax = 2
    ConfigLimit <- UnitLimit
    PatchLimits <- NoPatch
    Overrun = FALSE
    MayCrash = FALSE
    MayFail = FALSE
    MaxTime = 3
    MaxDay = 1
SPECIFICATION Spec
INVARIANT NoDoubleRefund
CHECK_DEADLOCK FALSE
