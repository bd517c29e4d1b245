CONSTANTS
    c1 = c1 c2 = c2 c3 = c3 p1 = p1 r1 = r1 r2 = r2
    k1 = k1 k2 = k2 k3 = k3 k4 = k4 nobody = nobody nokey = nokey
    client = client q1 = q1 q2 = q2 t1 = t1 t2 = t2 none = none
    Callers = {c1, c2, c3}
    Processes = {p1}
    home <- OneHome
    Limits = {1, 2}
    MostRPM = 2
    Minute = 3
    MaxWait = 1
    MaxTime = 6
    Unlocked = nobody
    Asking = {r1, r2}
    CacheKeys = {k1, k2, k3, k4}
    TTL = 2
    MaxEntries = 2
    NoKey = nokey
    ProviderKeys = {k1, k2, k3}
    MaxCooldown = 3
    Turns = 6
    Keys = {client}
    Requests = {q1, q2}
    KeyOf <- OneClient
    NoRow = none
    MaxAmount = 1
    StaleAfter = 0
    Threads = {t1, t2}
    Nobody = nobody
    BudgetLimits <- UnitLimit
    Overspend = TRUE
    MaxNow = 2
    MaxDay = 1
SPECIFICATION Spec
INVARIANTS LimiterInv LeastRecentFirst EveryKeyInTurn BooksUntorn StatementsInv CacheInv PoolInv
PROPERTIES ImplementsSlidingWindow RefusedOverAnswered NoEarlyMiss CheckHoldsWhenUsed
SYMMETRY Alike
CHECK_DEADLOCK FALSE
