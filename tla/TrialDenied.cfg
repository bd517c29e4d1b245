CONSTANTS
    r1 = r1
    r2 = r2
    r3 = r3
    health = health
    Requests = {r1, r2}
    Streaming = {}
    Monitors = {}
    FailureThreshold = 1
    Cooldown = 1
    Outcomes = {"broken"}
    Health = {}
    MaxFailures = 2
    MaxTime = 2
SPECIFICATION Spec
INVARIANT TrialGoesThrough
CHECK_DEADLOCK FALSE
