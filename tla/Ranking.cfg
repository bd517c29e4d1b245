CONSTANTS
    json = json unbounded = unbounded
    config <- ThreeBackends
    Kinds <- ThreeKinds
    Strategies <- AllStrategies
    Latencies = {1, 2}
    DefaultMax = 2
    Unbounded = unbounded
    Reported = {0, 1, 2, 3, 4, 9}
    Rounds = 6
SPECIFICATION RouteSpec
INVARIANTS BillInProportion RouteInv
PROPERTIES EveryoneMeasured
CHECK_DEADLOCK FALSE
