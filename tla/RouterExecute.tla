--------------------------- MODULE RouterExecute ---------------------------
(***************************************************************************)
(* One request in the router: Router.execute for a buffered answer,        *)
(* Router.execute_stream for a streamed one (gateway/policy/router.py).    *)
(*                                                                         *)
(* The backends that get_ranked_adapters offers are numbered by their      *)
(* rank.  Time is counted in seconds from the clock reading the code       *)
(* measures by: the call of execute, or the end of a stream's ranking.     *)
(* Every await is one step, with the time it took; each may come back up   *)
(* to Late seconds after what it waited for.                               *)
(***************************************************************************)
EXTENDS Integers, Sequences

CONSTANTS
    Backends,       \* how many backends are configured
    Timeout,        \* request_timeout_sec: one attempt against one backend
    TotalDeadline,  \* total_deadline_sec: the whole of execute
    Late,           \* what a wake-up or an await of the ledger may take
    Durations,      \* how long a backend takes to answer, or a stream to go on
    Costs,          \* what an answer may cost
    MayFail         \* whether the ledger, which holds the breakers, may raise

max_retries == 2
MIN_ATTEMPT_SEC == 1

ASSUME RouterAssumption ==
    /\ Backends \in Nat
    /\ Timeout \in Nat \ {0}
    /\ TotalDeadline \in Nat
    /\ Late \in Nat
    /\ Durations \subseteq Nat
    /\ Costs \subseteq Nat
    /\ MayFail \in BOOLEAN

VARIABLES
    mode,       \* "execute" or "stream"
    pc,         \* where the request is
    elapsed,    \* seconds since `started` or `stream_start`
    ranked,     \* len(ranked)
    rank,       \* the backend that is asked
    attempt,    \* of execute, from 0
    last_error, \* how the last attempt failed
    discarded,  \* cascade_discarded_cost
    cost,       \* response.cost_usd
    told,       \* what each breaker was told, in order
    asked,      \* history: `elapsed` when the stream of the backend was opened
    incurred,   \* history: cost of all answers received
    throttled,  \* history: the backends given up for being rate limited
    fast,       \* history: every attempt so far took at most Fast seconds
    faulted     \* history: a ledger call has raised

place   == <<rank, attempt>>
history == <<asked, incurred, throttled, fast, faulted>>
vars    == <<mode, pc, elapsed, ranked, place, last_error, discarded, cost, told, history>>

Ended == {"returned", "expired", "failed", "error",  \* both
          "timedout", "broken", "left"}              \* streams only
Errors == {"none", "timeout", "broken", "throttled"}
Reports == {"success", "failure"}

TypeOK ==
    /\ mode \in {"execute", "stream"}
    /\ pc \in {"ranking", "ready", "answered", "failing", "streaming", "stopping"} \cup Ended
    /\ elapsed \in Nat
    /\ ranked \in 0..Backends
    /\ rank \in Nat \ {0}
    /\ attempt \in 0..max_retries
    /\ last_error \in Errors
    /\ discarded \in Nat /\ cost \in Nat
    /\ told \in [1..Backends -> Seq(Reports)]
    /\ asked \in Nat /\ incurred \in Nat
    /\ throttled \subseteq 1..Backends
    /\ fast \in BOOLEAN /\ faulted \in BOOLEAN

Init ==
    /\ mode \in {"execute", "stream"}
    /\ pc = "ranking"
    /\ elapsed = 0 /\ ranked = 0
    /\ rank = 1 /\ attempt = 0
    /\ last_error = "none"
    /\ discarded = 0 /\ cost = 0
    /\ told = [b \in 1..Backends |-> <<>>]
    /\ asked = 0 /\ incurred = 0 /\ throttled = {}
    /\ fast = TRUE /\ faulted = FALSE

-----------------------------------------------------------------------------

Took(duration) == \E late \in 0..Late : elapsed' = elapsed + duration + late

Remaining == TotalDeadline - elapsed

Lesser(a, b)  == IF a < b THEN a ELSE b
Greater(a, b) == IF a < b THEN b ELSE a

\* An attempt is fast when three of them and their pauses, every await as late as
\* can be, leave the next backend a full attempt.
Fast == (TotalDeadline - Timeout - 3 - 10 * Late) \div 3

Tell(report) == told' = [told EXCEPT ![rank] = Append(@, report)]

\* Mutant: the last backend is not reached.
NextButLast ==
    /\ attempt' = 0
    /\ IF rank + 1 < ranked
       THEN pc' = "ready" /\ rank' = rank + 1
       ELSE pc' = "failed" /\ UNCHANGED rank

NextBackend ==
    /\ attempt' = 0
    /\ IF rank < ranked
       THEN pc' = "ready" /\ rank' = rank + 1
       ELSE pc' = "failed" /\ UNCHANGED rank

\* Breakers, windows and capabilities leave some of the backends; with none the
\* ranking raises.  A stream reads its clock after it.
Rank(n) ==
    /\ pc = "ranking"
    /\ ranked' = n
    /\ IF mode = "stream" THEN elapsed' = 0 ELSE Took(0)
    /\ pc' = IF n = 0 THEN "failed" ELSE "ready"
    /\ UNCHANGED <<mode, place, last_error, discarded, cost, told, history>>

\* A breaker cannot be read.
RankLost ==
    /\ pc = "ranking" /\ MayFail
    /\ Took(0)
    /\ faulted' = TRUE
    /\ pc' = "error"
    /\ UNCHANGED <<mode, ranked, place, last_error, discarded, cost, told,
                   asked, incurred, throttled, fast>>

-----------------------------------------------------------------------------
(* execute: attempts *)

Expire ==
    /\ mode = "execute" /\ pc = "ready"
    /\ Remaining <= MIN_ATTEMPT_SEC
    /\ pc' = "expired"
    /\ UNCHANGED <<mode, elapsed, ranked, place, last_error, discarded, cost, told, history>>

\* Mutant: an attempt always has the whole timeout.
WholeTimeout == Timeout

attempt_timeout == Lesser(Timeout, Remaining)

Attempt(duration) ==
    /\ mode = "execute" /\ pc = "ready"
    /\ Remaining > MIN_ATTEMPT_SEC
    /\ duration <= attempt_timeout
    /\ Took(duration)
    /\ fast' = (fast /\ duration <= Fast)
    /\ UNCHANGED <<mode, ranked, place, discarded, told, asked, throttled, faulted>>

Answer(duration, price) ==
    /\ Attempt(duration)
    /\ cost' = price
    /\ incurred' = incurred + price
    /\ pc' = "answered"
    /\ UNCHANGED last_error

Raise(duration, error) ==
    /\ Attempt(duration)
    /\ error \in {"broken", "throttled"}
    /\ last_error' = error
    /\ pc' = "failing"
    /\ UNCHANGED <<cost, incurred>>

Hang ==
    /\ Attempt(attempt_timeout)
    /\ last_error' = "timeout"
    /\ pc' = "failing"
    /\ UNCHANGED <<cost, incurred>>

-----------------------------------------------------------------------------
(* execute: after `await breaker.record_success()` *)

Accept ==
    /\ pc = "answered"
    /\ Took(0) /\ Tell("success")
    /\ pc' = "returned"
    /\ UNCHANGED <<mode, ranked, place, last_error, discarded, cost, history>>

\* Mutant: the discarded cost is forgotten.
LastAnswer == cost

\* The response goes out with what was discarded on the way to it.
Bill == cost + discarded

\* Cascade: the answer is inadequate, and another backend follows.
Escalate ==
    /\ pc = "answered" /\ rank < ranked
    /\ Took(0) /\ Tell("success")
    /\ discarded' = discarded + cost
    /\ NextBackend
    /\ UNCHANGED <<mode, ranked, last_error, cost, history>>

\* record_success stands inside the try: if it raises, the attempt has failed.
SuccessLost ==
    /\ pc = "answered" /\ MayFail
    /\ Took(0)
    /\ faulted' = TRUE
    /\ last_error' = "broken"
    /\ pc' = "failing"
    /\ UNCHANGED <<mode, ranked, place, discarded, cost, told, asked, incurred, throttled, fast>>

-----------------------------------------------------------------------------
(* A failed attempt of execute, or start of a stream, which is not retried *)

\* 2**attempt; no pause follows the last attempt.
Pause == IF attempt = 0 THEN 1 ELSE 2

\* Mutant: the pauses are twice as long.
BackoffDoubled == Lesser(2 * Pause, Greater(0, Remaining))

\* Adapters raise an AdapterException without the response, so no Retry-After
\* reaches the router.
Backoff == Lesser(Pause, Greater(0, Remaining))

\* Mutants: one attempt too many; every failed attempt is reported; a throttled
\* attempt is repeated at once, and not counted.
RetryOnceMore ==
    /\ mode = "execute" /\ pc = "failing"
    /\ attempt <= max_retries
    /\ Took(Backoff)
    /\ attempt' = attempt + 1
    /\ pc' = "ready"
    /\ UNCHANGED <<mode, ranked, rank, last_error, discarded, cost, told, history>>

RetryReported ==
    /\ mode = "execute" /\ pc = "failing"
    /\ attempt < max_retries
    /\ Took(Backoff) /\ Tell("failure")
    /\ attempt' = attempt + 1
    /\ pc' = "ready"
    /\ UNCHANGED <<mode, ranked, rank, last_error, discarded, cost, history>>

RetryUncounted ==
    /\ mode = "execute" /\ pc = "failing"
    /\ attempt < max_retries
    /\ IF last_error = "throttled" THEN UNCHANGED <<elapsed, attempt>>
                                   ELSE Took(Backoff) /\ attempt' = attempt + 1
    /\ pc' = "ready"
    /\ UNCHANGED <<mode, ranked, rank, last_error, discarded, cost, told, history>>

Retry ==
    /\ mode = "execute" /\ pc = "failing"
    /\ attempt < max_retries
    /\ Took(Backoff)
    /\ attempt' = attempt + 1
    /\ pc' = "ready"
    /\ UNCHANGED <<mode, ranked, rank, last_error, discarded, cost, told, history>>

GivesUp == mode = "stream" \/ attempt = max_retries

Blames == mode = "stream" \/ last_error # "throttled"

\* A 429 is not held against a backend, except at a stream's start.
Spare ==
    /\ pc = "failing" /\ GivesUp /\ ~Blames
    /\ throttled' = throttled \cup {rank}
    /\ NextBackend
    /\ UNCHANGED <<mode, elapsed, ranked, last_error, discarded, cost, told,
                   asked, incurred, fast, faulted>>

Blame ==
    /\ pc = "failing" /\ GivesUp /\ Blames
    /\ Took(0) /\ Tell("failure")
    /\ NextBackend
    /\ UNCHANGED <<mode, ranked, last_error, discarded, cost, history>>

\* record_failure stands in the except clause: if it raises, so does the router.
BlameLost ==
    /\ pc = "failing" /\ GivesUp /\ Blames /\ MayFail
    /\ Took(0)
    /\ faulted' = TRUE
    /\ pc' = "error"
    /\ UNCHANGED <<mode, ranked, place, last_error, discarded, cost, told,
                   asked, incurred, throttled, fast>>

-----------------------------------------------------------------------------
(* execute_stream *)

Open(duration) ==
    /\ mode = "stream" /\ pc = "ready"
    /\ duration <= Timeout
    /\ Took(duration)
    /\ asked' = elapsed
    /\ UNCHANGED <<mode, ranked, place, discarded, cost, told, incurred, throttled, fast, faulted>>

FirstChunk(duration) ==
    /\ Open(duration)
    /\ pc' = "streaming"
    /\ UNCHANGED last_error

\* An error, an empty stream, or no chunk in time.
NotStarted(duration, error) ==
    /\ Open(duration)
    /\ error = "timeout" => duration = Timeout
    /\ last_error' = error
    /\ pc' = "failing"

\* The deadline of a chunk is looked at when the chunk is there.
Chunk(duration) ==
    /\ pc = "streaming"
    /\ Took(duration)
    /\ pc' = IF Timeout - elapsed' <= 0 THEN "stopping" ELSE "streaming"
    /\ UNCHANGED <<mode, ranked, place, last_error, discarded, cost, told, history>>

Finish(duration) ==
    /\ pc = "streaming"
    /\ Took(duration) /\ Tell("success")
    /\ pc' = "returned"
    /\ UNCHANGED <<mode, ranked, place, last_error, discarded, cost, history>>

\* The backend breaks off, or the success cannot be saved: nobody is told.
Interrupt(duration) ==
    /\ pc = "streaming"
    /\ Took(duration)
    /\ pc' = "broken"
    /\ UNCHANGED <<mode, ranked, place, last_error, discarded, cost, told, history>>

Stop ==
    /\ pc = "stopping"
    /\ Took(0)
    /\ \/ Tell("failure") /\ pc' = "timedout" /\ UNCHANGED faulted
       \/ MayFail /\ faulted' = TRUE /\ pc' = "error" /\ UNCHANGED told
    /\ UNCHANGED <<mode, ranked, place, last_error, discarded, cost,
                   asked, incurred, throttled, fast>>

\* The client goes, and what the stream awaits is cancelled; or the output filter
\* ends it.
Leave ==
    /\ mode = "stream" /\ pc \notin Ended
    /\ pc' = "left"
    /\ UNCHANGED <<mode, elapsed, ranked, place, last_error, discarded, cost, told, history>>

-----------------------------------------------------------------------------

Execute ==
    \/ Expire \/ Hang \/ Accept \/ Escalate \/ SuccessLost
    \/ \E duration \in Durations :
          \/ \E price \in Costs : Answer(duration, price)
          \/ \E error \in Errors : Raise(duration, error)

Stream ==
    \/ Stop \/ Leave
    \/ \E duration \in Durations :
          \/ FirstChunk(duration)
          \/ \E error \in Errors \ {"none"} : NotStarted(duration, error)
          \/ Chunk(duration) \/ Finish(duration) \/ Interrupt(duration)

Fail == Retry \/ Spare \/ Blame \/ BlameLost

Next == (\E n \in 0..Backends : Rank(n)) \/ RankLost \/ Execute \/ Stream \/ Fail

Spec == Init /\ [][Next]_vars

(***************************************************************************)
(* Every await of execute comes back: wait_for sees to the backends, and   *)
(* the executor to the ledger.  A stream waits for its backend and its     *)
(* client, so nothing is assumed of it.                                    *)
(***************************************************************************)
FairSpec == Spec /\ WF_vars(mode = "execute" /\ Next)

-----------------------------------------------------------------------------
(* Correctness *)

\* execute returns or raises by its deadline, but for the lateness of its last call,
\* of the breaker's answer and of a pause (router.py:526-528, "an attempt may never
\* outlive the request's own budget").
EndsInTime ==
    mode = "execute" /\ pc \in Ended => elapsed <= TotalDeadline + 3 * Late

\* execute comes to an end; the pipeline's fairness rests on it.
Ends == mode = "execute" ~> pc \in Ended

\* What an answer is billed at is the cost of every answer its request received,
\* those the cascade discarded included; one is only forgotten when the ledger
\* failed (router.py:513-516).
CostsBilled == mode = "execute" /\ pc = "returned" /\ ~faulted => Bill = incurred

\* Breakers count requests, not attempts (tests/test_routing_resilience.py:161): in
\* one request each is told at most once.
OneReport == \A b \in 1..Backends : Len(told[b]) <= 1

\* A request that finds no backend has gone through all of them, and each breaker
\* knows its part: it was told, unless its backend was only throttled.
AllTried ==
    mode = "execute" /\ pc = "failed" =>
        \A b \in 1..ranked : told[b] # <<>> <=> b \notin throttled

\* The sizing claim of configs/circuit_breaker.yaml:15: after a fast failover the
\* second backend has a full attempt.
FullSecondAttempt ==
    mode = "execute" /\ pc = "ready" /\ rank = 2 /\ attempt = 0 /\ fast =>
        attempt_timeout = Timeout

(* What they rest on *)

\* How late each place may be reached.
InTime ==
    mode = "execute" =>
        /\ pc \notin {"streaming", "stopping"}
        /\ pc = "ranking" => elapsed = 0
        /\ pc = "answered" => elapsed <= TotalDeadline + Late
        /\ pc = "failing"  => elapsed <= TotalDeadline + 2 * Late
        /\ elapsed <= TotalDeadline + 3 * Late

\* Until a request ends nobody is told of its backend or of those behind, and
\* each backend before it was either told or throttled.
Reporting ==
    /\ pc \notin Ended =>
        /\ \A b \in 1..Backends : b >= rank => told[b] = <<>> /\ b \notin throttled
        /\ \A b \in 1..Backends : b < rank => (told[b] # <<>> <=> b \notin throttled)
    /\ OneReport
    /\ AllTried
    /\ pc = "ranking" => rank = 1
    /\ pc \notin {"ranking", "error", "failed", "left"} => rank <= ranked

\* Money received is the answer in hand and what was discarded.
Accounted ==
    mode = "execute" /\ ~faulted =>
        incurred = discarded + (IF pc \in {"answered", "returned"} THEN cost ELSE 0)

IndInv == TypeOK /\ InTime /\ Reporting /\ Accounted

-----------------------------------------------------------------------------
(* What the configuration says, and a run refutes *)

\* configs/circuit_breaker.yaml:5, request_timeout_sec is the "ceiling on a single
\* attempt against one backend": a stream is timed out on a backend, and the backend
\* blamed, only if it has had that long.
TimeoutIsOwn == pc = "timedout" => elapsed - asked >= Timeout
=============================================================================
