CONSTANTS
    r1 = r1
    r2 = r2
    r3 = r3
    health = health
    Requests = {r1, r2}
    Streaming = {r2}
    Monitors = {health}
    FailureThreshold = 2
    Cooldown = 1
    Outcomes = {"answered", "broken", "throttled", "unreported"}
    Health = {TRUE, FALSE}
    MaxFailures = 3
    MaxTime = 1
SPECIFICATION FairSpec
INVARIANTS
    RowAgrees
    IndInv
PROPERTIES
    Trips
    HalfOpenResolves
    Recovers
CHECK_DEADLOCK FALSE
