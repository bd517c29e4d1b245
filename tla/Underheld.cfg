CONSTANTS
    json = json unbounded = unbounded
    config <- ExampleBackends
    Kinds <- ShortPrompt
    Strategies <- AllStrategies
    Latencies = {1}
    DefaultMax = 256
    Unbounded = unbounded
    Reported = {10, 256}
    Rounds = 6
SPECIFICATION RouteSafety
INVARIANTS HeldForDearest
CHECK_DEADLOCK FALSE
