------------------------------- MODULE Ranking -------------------------------
(***************************************************************************)
(* Which backend a request goes to and what is held for it:                *)
(* Router.get_ranked_adapters and its sort keys, asked once to price the   *)
(* hold (chat_completions, gateway/main.py) and once more to make the call *)
(* (execute, execute_stream).  One request at a time; its breakers, the    *)
(* latencies and the round robin's counter may change in between.          *)
(***************************************************************************)
EXTENDS Integers, SequencesExt

CONSTANTS
    config,      \* the backends, each with its rates prompt and answer, tier, window,
                 \* offers, model, and the tokens it counts in a prompt
    Kinds,       \* requests: needs, max_tokens, model, is_complex
    Strategies,
    Latencies,   \* what an average latency may be
    DefaultMax,  \* tokens a hold is priced at without max_tokens, 256
    Unbounded,   \* no max_tokens
    Reported,    \* tokens a bill may be for, of a prompt or of an answer
    Rounds       \* what _rr_counter is counted by: every number of backends divides it

\* router.adapters: a backend is its place in the configuration.
Backends == 1..Len(config)

ASSUME RankingAssumption ==
    /\ Len(config) \in Nat
    /\ \A b \in Backends :
          /\ {config[b].prompt, config[b].answer, config[b].tokens} \subseteq Nat
          /\ config[b].tier \in Int
    /\ Unbounded \notin Nat
    /\ \A k \in Kinds : k.max_tokens \in Nat \cup {Unbounded}
    /\ Strategies \subseteq
         {"cost_first", "cascade", "latency_first", "round_robin", "complexity"}
    /\ Latencies \subseteq Nat
    /\ DefaultMax \in Nat
    /\ Reported \subseteq Nat
    /\ Rounds \in Nat \ {0}
    /\ \A n \in Backends : Rounds % n = 0

VARIABLES
    strategy,
    up,       \* backends whose breaker lets the request through
    average,  \* latency_ema of those measured less than latency_recheck_sec ago
    turns,    \* _rr_counter
    stage,    \* where the request is
    kind,     \* what it asks for
    hold,     \* estimated_cost
    priced,   \* the backends its hold was priced over
    order     \* the ranking its call is made by

requestVars == <<stage, kind, hold, priced, order>>
routeVars == <<strategy, up, average, turns, requestVars>>

fresh == DOMAIN average

RouteInit ==
    /\ strategy \in Strategies
    /\ up = Backends
    /\ average = <<>>
    /\ turns = 0
    /\ stage = "idle"
    /\ kind \in Kinds
    /\ hold = 0
    /\ priced = {}
    /\ order = <<>>

-----------------------------------------------------------------------------
(* The filters of get_ranked_adapters *)

\* Those that pass the test, or all if none does.
Preferably(backends, Test(_)) ==
    LET passing == {b \in backends : Test(b)}
    IN IF passing = {} THEN backends ELSE passing

Capable(k) == Preferably(up, LAMBDA b : k.needs \subseteq config[b].offers)

FitsWindow(k, b) ==
    \/ config[b].window = 0
    \/ config[b].tokens + (IF k.max_tokens = Unbounded THEN 0 ELSE k.max_tokens)
         <= config[b].window

\* The one filter without a way back.
Fitting(k) == {b \in Capable(k) : FitsWindow(k, b)}

Candidates(k) == Preferably(Fitting(k), LAMBDA b : config[b].model = k.model)

-----------------------------------------------------------------------------
(* The orders of get_ranked_adapters *)

TiersDeclared == \E b \in Backends : config[b].tier # 0

CheapestFirst(b) == <<config[b].prompt, -config[b].tier>>

CascadeKey(b) ==
    IF TiersDeclared THEN <<config[b].tier, config[b].prompt>> ELSE <<config[b].prompt, 0>>

MostCapableFirst(b) ==
    IF TiersDeclared THEN <<-config[b].tier, config[b].prompt>> ELSE <<-config[b].prompt, 0>>

\* Mutant: what was not measured ranks last.
UnmeasuredLast(b) == IF b \in fresh THEN <<0, average[b]>> ELSE <<1, config[b].prompt>>

FastestFirst(b) == IF b \in fresh THEN <<1, average[b]>> ELSE <<0, config[b].prompt>>

KeyOf(k, b) ==
    CASE strategy = "cost_first"    -> CheapestFirst(b)
      [] strategy = "cascade"       -> CascadeKey(b)
      [] strategy = "latency_first" -> FastestFirst(b)
      [] strategy = "complexity"    -> IF k.is_complex THEN MostCapableFirst(b)
                                                       ELSE CheapestFirst(b)

\* The sort is stable.
Before(k, a, b) ==
    LET x == KeyOf(k, a)
        y == KeyOf(k, b)
    IN \/ x[1] < y[1]
       \/ x[1] = y[1] /\ x[2] < y[2]
       \/ x = y /\ a < b

InOrder(backends, Precedes(_, _)) ==
    [i \in 1..Cardinality(backends) |->
       CHOOSE b \in backends : Cardinality({a \in backends : Precedes(a, b)}) = i - 1]

Rotated(backends) ==
    LET inOrder == InOrder(backends, <)
        n       == Cardinality(backends)
    IN [i \in 1..n |-> inOrder[((turns + i - 1) % n) + 1]]

Ranked(k) ==
    IF strategy = "round_robin"
    THEN Rotated(Candidates(k))
    ELSE InOrder(Candidates(k), LAMBDA a, b : Before(k, a, b))

\* Every ranking is a turn, the one that only prices the hold too.
NextTurn(k) ==
    turns' = IF strategy = "round_robin" /\ Cardinality(Candidates(k)) > 1
             THEN (turns + 1) % Rounds ELSE turns

-----------------------------------------------------------------------------
(* A request *)

Bill(b, prompt, answer) == prompt * config[b].prompt + answer * config[b].answer

\* A hold is priced for the prompt as the gateway counts it, with b's tokenizer; a bill
\* is for what the provider reports.
Quote(b, answer) == Bill(b, config[b].tokens, answer)

\* Mutant: the hold is priced at the backend that is tried first.
PricedFirst(k) == Ranked(k)[1]

\* max() takes the first of the largest.
Costliest(k) ==
    LET rate(b) == config[b].prompt + config[b].answer
        ranked  == Ranked(k)
    IN ranked[Min({i \in DOMAIN ranked :
                     \A j \in DOMAIN ranked : rate(ranked[j]) <= rate(ranked[i])})]

MostTokens(k) == IF k.max_tokens = Unbounded THEN DefaultMax ELSE k.max_tokens

Estimate(k) == Quote(Costliest(k), MostTokens(k))

Price(k) ==
    /\ stage = "idle"
    /\ Candidates(k) # {}
    /\ kind' = k
    /\ hold' = Estimate(k)
    /\ priced' = Candidates(k)
    /\ NextTurn(k)
    /\ stage' = "priced"
    /\ UNCHANGED <<strategy, up, average, order>>

\* A request that no window fits is refused at once, and nothing changes.  With
\* every breaker open nothing is held, and the router is asked all the same.
PriceNothing(k) ==
    /\ stage = "idle"
    /\ up = {}
    /\ kind' = k
    /\ stage' = "priced"
    /\ UNCHANGED <<strategy, up, average, turns, hold, priced, order>>

\* The request is over and what was kept for it is gone.
Over ==
    /\ stage' = "idle"
    /\ hold' = 0 /\ priced' = {} /\ order' = <<>>
    /\ UNCHANGED <<strategy, up, turns, kind>>

Route ==
    /\ stage = "priced"
    /\ Candidates(kind) # {}
    /\ order' = Ranked(kind)
    /\ NextTurn(kind)
    /\ stage' = "routed"
    /\ UNCHANGED <<strategy, up, average, kind, hold, priced>>

\* No backend is healthy, or none has the window.
RouteFails ==
    /\ stage = "priced"
    /\ Candidates(kind) = {}
    /\ Over
    /\ UNCHANGED average

\* A stream is answered, or the answer is not measured to any effect, or every
\* attempt failed.
Done ==
    /\ stage = "routed"
    /\ Over
    /\ UNCHANGED average

\* The i-th backend answers, those before it having failed.  Only an answer that
\* is not streamed is measured, and only latency_first reads it.
Measured(i) ==
    /\ stage = "routed"
    /\ strategy = "latency_first"
    /\ i \in DOMAIN order
    /\ \E latency \in Latencies :
          average' = [b \in fresh \cup {order[i]} |->
                        IF b = order[i] THEN latency ELSE average[b]]
    /\ Over

\* What CircuitBreaker does, seen from here.
BreakerTurns(b) ==
    /\ up' = IF b \in up THEN up \ {b} ELSE up \cup {b}
    /\ UNCHANGED <<strategy, average, turns, requestVars>>

GoesStale(b) ==
    /\ b \in fresh
    /\ average' = Restrict(average, fresh \ {b})
    /\ UNCHANGED <<strategy, up, turns, requestVars>>

RouteNext ==
    \/ \E k \in Kinds : Price(k) \/ PriceNothing(k)
    \/ Route \/ RouteFails
    \/ Done
    \/ \E i \in Backends : Measured(i)
    \/ \E b \in Backends : BreakerTurns(b) \/ GoesStale(b)

RouteSafety == RouteInit /\ [][RouteNext]_routeVars

\* Where latencies count: requests of each kind keep coming and are served, and
\* a backend that is tried first again and again sometimes answers one that is
\* not streamed.
RouteFairness ==
    LET measuring == strategy = "latency_first"
    IN /\ \A k \in Kinds : SF_routeVars(measuring /\ Price(k))
       /\ WF_routeVars(measuring /\ (Route \/ RouteFails \/ Done))
       /\ \A b \in Backends : SF_routeVars(Measured(1) /\ order[1] = b)

-----------------------------------------------------------------------------
(* Correctness *)

RouteTypeOK ==
    /\ strategy \in Strategies
    /\ up \subseteq Backends
    /\ fresh \subseteq Backends
    /\ \A b \in fresh : average[b] \in Latencies
    /\ turns \in 0..(Rounds - 1)
    /\ stage \in {"idle", "priced", "routed"}
    /\ kind \in Kinds
    /\ hold \in Nat
    /\ priced \subseteq Backends
    /\ order \in Seq(Backends)

\* What is held is the price of one backend, the dearest of those the request was
\* priced over by the sum of its rates, for as many tokens as the request may get.
HeldAtDearest ==
    IF priced = {} THEN hold = 0
    ELSE \E b \in priced :
           /\ \A a \in priced : config[a].prompt + config[a].answer
                                   <= config[b].prompt + config[b].answer
           /\ hold = Quote(b, MostTokens(kind))

\* A call tries no backend twice.
RankedOnce == IsInjective(order)

\* The inductive invariant of the ranking: between the price and the call breakers and
\* latencies move, and the hold still is what it was priced as.
RouteInv ==
    /\ RouteTypeOK
    /\ stage = "idle" => priced = {}
    /\ HeldAtDearest
    /\ RankedOnce

\* What the hold can have been priced for: the prompt as its backends count it, and
\* the tokens the request may get.
Counted == {config[b].tokens : b \in priced} \cup {MostTokens(kind)}

\* Whatever the provider reports, the bill of an answer is at most as many times the hold
\* as the larger of the two counts reported is the least of those the hold was priced
\* for: what a hold priced by the sum of two rates (costliest, main.py) is good for.
\* In particular it covers a bill for no more tokens than that, of prompt or of answer.
\* For any rates, strategy and failover; a backend whose breaker closed after the hold
\* was priced is the exception, and a cascade's answers are bills of their own.
BillInProportion ==
    stage = "routed" =>
        \A i \in DOMAIN order, prompt, answer \in Reported :
            order[i] \in priced =>
                Bill(order[i], prompt, answer) * Min(Counted) <= hold * Max({prompt, answer})

\* "Price the hold against the most expensive backend this request could reach"
\* (main.py:733): a hold is no less than what any backend that was ranked for it would
\* be quoted at, for the same answer.  Violated: the backend whose two rates add up to
\* most need not be the most expensive one for this request.
HeldForDearest ==
    stage = "priced" => \A b \in priced : Quote(b, MostTokens(kind)) <= hold

\* No backend that every request could reach is left unmeasured for good, where
\* breakers stay as they are and measurements stay fresh (_fastest_first_key: "a
\* newly added fast backend could be starved indefinitely").
Lasting == <>[][UNCHANGED up /\ fresh \subseteq fresh']_routeVars

EveryoneMeasured ==
    strategy = "latency_first" /\ Lasting =>
        <>[]((\E k \in Kinds : up \subseteq Candidates(k)) => up \subseteq fresh)
=============================================================================
