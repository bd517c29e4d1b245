CONSTANTS
    k1 = k1
    plain1 = plain1
    plain2 = plain2
    stream1 = stream1
    none = none
    Keys = {k1}
    Requests = {plain1, stream1}
    Streaming = {stream1}
    KeyOf <- OneKey
    NoRow = none
    MaxAmount = 2
    StaleAfter = 1
    Deadline = 1
    QueueMax = 1
    ConfigLimit <- TightLimit
    PatchLimits <- Patch
    Overrun = TRUE
    MayCrash = TRUE
    MayFail = TRUE
    MaxTime = 3
    MaxDay = 1
SPECIFICATION Spec
INVARIANTS
    IndInv
    BooksExact
    NoHoldAfterBill
PROPERTIES
    AdmissionWithinLimit
    RefusalJustified
    ReclaimSparesBuffered
CHECK_DEADLOCK FALSE
