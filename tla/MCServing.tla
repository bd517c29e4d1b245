------------------------------ MODULE MCServing ------------------------------
(***************************************************************************)
(* What a request meets besides its backend, no part of which depends on   *)
(* the rest: the rate limiter, the prompt cache, the key pool, and the     *)
(* ledger's calls on its budget, statement by statement.  A behaviour      *)
(* exercises one of them.                                                  *)
(***************************************************************************)
EXTENDS RateLimiter, PromptCache, KeyPool, LedgerStatements

CONSTANTS c1, c2, c3, p1, r1, r2, k1, k2, k3, k4, nobody, nokey, client, q1, q2, t1, t2, none

OneHome == [c \in Callers |-> p1]

OneClient == [r \in Requests |-> client]

UnitLimit == [k \in Keys |-> [day |-> 1, month |-> 2]]

\* Threads are alike, and so are the requests of one client.
Alike == {p @@ q : p \in Permutations(Threads), q \in Permutations(Requests)}

VARIABLE unit

Units == {"limiter", "cache", "pool", "ledger"}

Init ==
    /\ unit \in Units
    /\ LimiterInit /\ CacheInit /\ PoolInit
    /\ StatementsInit
    /\ unit # "limiter" => limit = MostRPM
    /\ unit # "ledger" => last_reset = [k \in Keys |-> calendar]

vars == <<limiterVars, cacheVars, poolVars, callVars>>

Next ==
    \/ unit = "limiter" /\ LimiterNext /\ UNCHANGED <<unit, cacheVars, poolVars, callVars>>
    \/ unit = "cache" /\ CacheNext /\ UNCHANGED <<unit, limiterVars, poolVars, callVars>>
    \/ unit = "pool" /\ PoolNext /\ UNCHANGED <<unit, limiterVars, cacheVars, callVars>>
    \/ unit = "ledger" /\ StatementsNext /\ UNCHANGED <<unit, limiterVars, cacheVars, poolVars>>

Spec == Init /\ [][Next]_<<unit, vars>>
=============================================================================
