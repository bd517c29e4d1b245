# LLM gateway: TLA+ models and proofs

This directory models the parts of the gateway (`src/`) whose correctness depends on
the order in which things happen: what a client's budget goes through while its
requests run, the circuit breakers that decide which backends are asked, the attempts,
timeouts and failovers of asking them, the order they are asked in and what is held for
it, a streamed answer's way through the output filters, and the limiter, cache and key
pool a request meets on its way. TLC checks small instances; TLAPS proves the most
important safety properties for every value of the constants. `PROJECT.json` lists
runs, mutants, findings, hazards, theorems, and the source lines behind each
definition.

## 1. The system

A FastAPI process (`gateway/main.py`) takes OpenAI-style chat requests, reserves their
estimated cost in a SQLite ledger, has a router call one of several backends, and
bills the real cost. One asyncio event loop runs all handlers; every ledger call is
handed to a thread of the default executor (`asyncio.to_thread`).

| Component | State | Operations | Talks to |
|---|---|---|---|
| Budget ledger (`ledger/store.py`, `policy/budget.py`) | tables `budgets` (limits, two spend counters, two reset stamps), `requests` (bills), `reservations` (open holds) | check and reserve, record, reclaim stale holds, change limits, read with reset | everything below, under one `threading.Lock` per process |
| Spend pipeline (`main.py`, `ledger/async_queue.py`) | per request: estimate, `reconciled`; queue of 10000 items, one worker | reserve, answer, hand over the cost (queue, or directly when it is full), settle in `try`/`except`/`finally` of a stream, sweep | ledger, router |
| Circuit breaker (`policy/circuit_breaker.py`) | one row per backend: state, failures, time of the last | `can_request`, `record_success`, `record_failure`, each a read and a write | ledger; asked by the router, told by the router, the health loop, two endpoints |
| Router (`policy/router.py`) | latency averages, round-robin counter | rank; `execute` (3 attempts per backend, failover, cascade, deadline); `execute_stream` | breakers, adapters |
| Rate limiter (`store.py`, `auth.py`) | `rate_limit_log`, one row per admitted request | prune, count, admit | ledger |
| Authentication (`auth.py`) | set of known key digests | verify, reload | ledger |
| Prompt cache (`policy/cache.py`) | LRU map with ages | get, set | handler |
| Vault and output filters (`policy/pii.py`, `policy/guardrails.py`) | text held back per stream | feed, flush | handler |
| Key pool (`policy/key_pool.py`) | cooldown per provider key | next key | adapters |
| Configuration (`config_manager.py`) | adapters, strategy, budgets | reload | router, ledger |
| Adapters, telemetry, dashboard, evals | none of their own that the gateway reads | | |

What makes each correct:

* Ledger: counters are the sum of bills and open holds of their period; nobody is
  admitted over a limit, nobody refused below it; a reset, a settlement and the sweep
  never take the same money back twice.
* Pipeline: every hold ends; every answer is billed once, however many clauses of the
  stream try; the sweep leaves running requests alone.
* Breaker: its columns agree under lost updates; it opens on a failing backend; a
  half-open one resolves; one trial at a time; throttling is not failing.
* Router: no attempt outlives the deadline; a slow backend is failed over; what a
  cascade throws away is billed; no bill is far from its hold, wherever failover ends; no
  backend is left out of the measurements for good.
* Rate limiter: never more than the limit in any window, no refusal over refused calls.
  Cache: bounded, evicts what was used longest ago, forgets nothing else early. Filters:
  however the text is cut, what comes out is what the whole text would have shown.
  Key pool: every usable key gets its turn. Reload: a running request keeps a usable
  adapter.

Hard behaviours are listed as `hazards` in `PROJECT.json`, each at its line.

## 2. Modules

    Tally ── LedgerStore ─┬─ BudgetPipeline ─┬─ MCBudgetPipeline ── MCReleased
      │                   │                  ├─ BudgetPipelineProofs
      │                   │                  └─ implements ─> BudgetAccount
      │                   └─ LedgerStatements ─┬─ MCServing
      │                                        └─ LedgerStatementsProofs
      └── TallyProofs (used by BudgetPipelineProofs, LedgerStatementsProofs,
                       PolicyProofs and AnswerStreamProofs)
    CircuitBreaker ─┬─ MCCircuitBreaker       RouterExecute ─┬─ MCRouterExecute
                    └─ CircuitBreakerProofs                  └─ RouterExecuteProofs
    AnswerText ── AnswerStream ─┬─ MCAnswerStream
                                ├─ AnswerStreamProofs
                                └─ implements ─> WholeAnswer
    RateLimiter, PromptCache, KeyPool ── MCServing
       │  └─ implements ─> SlidingWindow
       └── RateLimiterProofs
    Ranking ── MCRanking
    PromptCache, KeyPool, Ranking ── PolicyProofs

**Tally** defines `Total(S, amount, max)`, a sum over a finite set without recursion:
the number of coins `<<x, n>>` with `n` in `1..amount[x]`. Sums by cardinality are
within reach of the prover's finite-set theorems.

**LedgerStore** is the budget side of the ledger. A budget row is a function of the
period: `limit_usd[k]["day"]` is `daily_limit_usd`, `spend[k]["month"]` is
`spend_month`, `last_reset[k]["day"]` is `last_reset_date`. Money is a whole number of
units (the code uses floats; nothing here depends on fractions). Each call is one
step, because one gateway process makes it under `_write_lock` (LedgerStatements says
what that rests on). The history variable `adrift` has the counters that some settlement
has corrected by a hold they did not carry (see the finding DoubleRefund), until their
next reset; the properties are exact elsewhere.

**LedgerStatements** has the same tables and the calls statement by statement, made by
threads that wait for `_write_lock`. Connections are in autocommit mode, so the lock is
all that holds a call together: a statement that raises (`StatementRaises`) or a `Kill`
leaves what was executed before. `torn` is history, the counters of such calls until
their next reset.

| Call | Statements |
|---|---|
| `check_and_reserve_budget` | `SelectBudget`, `ResetRow`, `Refused` or `Increment`, `InsertHold` |
| `record_request` | `InsertBill`, `Adjust`, `DropHold` |
| `reclaim_stale_reservations` | `TakeCutoff` (before the lock), `ListHolds`, `GiveBack` for each, `DeleteStale` |

**BudgetPipeline** is the life of requests around it. `pc` is where a request is:
`new`, `running`, in one of the clauses `try`, `except`, `finally` with its cost to hand
over, `ended`. An answer that is not streamed has only the first clause.

| Action | Code |
|---|---|
| `Admit`, `Refuse` | `check_and_reserve` in the preflight, main.py:714-767 |
| `Respond`, `StreamError`, `Leave` | the backend's answer; the stream's exception; an HTTP error, or a stream never started |
| `HandOver` | `AsyncLedgerQueue.record_request`: `put_nowait`, or a direct write begun |
| `Disconnect`, `OnError` | which clause runs next |
| `WriteDirect`, `DirectError` | the awaited write ends or raises |
| `WorkerGet`, `WorkerPersist`, `WorkerError` | `_worker_loop` |
| `ReclaimLoop`, `Restart`, `Crash` | sweep, `lifespan`, kill |
| `PatchBudget`, `ReloadBudgets` | the admin endpoints |
| `Tick`, `Midnight` | `time.time()` and the UTC date, which move independently |

The hand-over of a cost is part of the same event-loop step as the end of the answer,
so `Tick` waits for it; it does not wait for the queue, the worker or a direct write.
A direct write is a thread: a disconnect cancels the handler that awaits it, and
either leaves the thread to finish or, if the thread had not begun, cancels it too.

**BudgetAccount** says what all of this is for, without counters, stamps, queues,
threads or crashes. A request is `fresh`, `holding`, `over` or `billed`, is `worth` its
hold or its cost, and is `counted` in the periods of its key. `Admit` needs room for it,
`Refuse` the lack of it, `Settle` replaces its hold by its cost once, `Release` is the
sweep, and whoever is looked at opens the account for today. BudgetPipeline implements
it under `stageOf`, `worthOf` and `countedOf`: `RecordRequest` is `Settle`, or a stutter
when the row is there already; `ReclaimLoop` and `Restart` are `Release`; queue, worker,
disconnects and crashes stutter. `astray` is `adrift`: only there is the sum unknown.

**CircuitBreaker** is one backend's breaker. Every operation is a read step and a
write step of an agent (`op` has what was read and when). Requests ask twice, in the
preflight that prices their hold and in the router's own ranking, then report as
`execute` or `execute_stream` do. Monitors (health loop, `/health/backends`, the admin
reset) report without asking.

**RouterExecute** is one request in the router, `execute` if it is buffered and
`execute_stream` if not. A step is an await with the seconds it took. `pc` is at the
head of the loop (`ready`), after a call (`answered`, `failing`), in a stream
(`streaming`, `stopping`) or at one of the ways out. Requests share only the breakers
and a latency average, so one request is enough; `told` is what the breakers hear, and
CircuitBreaker takes it from there. `incurred`, `throttled`, `asked`, `fast` and
`faulted` are history.

| Action | Code |
|---|---|
| `Rank`, `RankLost` | `get_ranked_adapters`, and the ledger raising in it |
| `Expire` | `DeadlineExceededException` |
| `Answer`, `Raise`, `Hang` | the three ends of `wait_for(adapter.complete(...))` |
| `Accept`, `Escalate`, `SuccessLost` | after `record_success`: return, cascade on, or the ledger raises |
| `Retry`, `Spare`, `Blame`, `BlameLost` | after a failure: pause, next backend without or with `record_failure`, or the ledger raises |
| `FirstChunk`, `NotStarted`, `Chunk`, `Stop`, `Finish`, `Interrupt`, `Leave` | `execute_stream` |

What one module assumes of another: BudgetPipeline lets a buffered request answer
within `Deadline`, and is fair to it, because of `EndsInTime` and `Ends`; CircuitBreaker
has a request report once, because of `OneReport`, and lets it stay silent where
RouterExecute does (throttled, expired, broken off). BudgetPipeline takes the estimate
as given and, in the run Released, as honest; `BillInProportion` says how far it may fall
short of a bill, and `HeldForDearest` that it may.

**Ranking** is where a request goes and what is held for it: the four filters of
`get_ranked_adapters`, its five orders, and the two times a request is ranked, once by
the preflight that prices the hold and once by the router. Between the two, breakers
turn (`BreakerTurns`) and latencies grow old (`GoesStale`). `average` is a function on
the backends measured lately, so a stale measurement is one that is not there. The
regular expressions that judge a prompt's complexity are a field of the request.

| Action | Code |
|---|---|
| `Price`, `PriceNothing` | the preflight, main.py:714-763 |
| `Route`, `RouteFails` | `get_ranked_adapters` in `execute` |
| `Measured`, `Done` | an answer updates `latency_ema`; any other end |
| `BreakerTurns`, `GoesStale` | the breakers; `latency_recheck_sec` |

**AnswerText** has what the output filters do to a text, on sequences of characters:
redaction of secrets, the leak check, `emit_boundary`, `restore_text`, `_boundary`. There
is one pattern of each kind, as small as its splitting needs. A substitution gives each
character a mark, and `Marked` keeps the marks that are not `Nothing`, without recursion:
the `n`-th is the one with `n - 1` before it. **AnswerStream** is
`stream_generator` around them: pieces arrive (`Chunk`, `LastChunk`), a leak stops the
stream (`Stop`), the tail is drained (`DrainTail`), the text is billed and cached
(`Settle`), or a client or backend breaks it off (`Break`) between any two steps.
**WholeAnswer** is the abstract promise: what the client has is always a beginning of
what the whole-string filters (`sanitize_completion`, `restore_text`) would show of the
text so far, and all of it when the answer is complete. `ImplementsWholeAnswer` is the
refinement. The two filters of a stream are checked against the functions that the
buffered path applies, so a reader may take "streamed" and "buffered" as one thing.

**RateLimiter** is `check_rate_limit` statement by statement: a call takes the time
(`Arrive`), waits for the lock and prunes (`Prune`), counts (`Count`), compares and
inserts (`AdmitCaller`, `RefuseCaller`), or a statement raises (`StatementFails`).
Limits change (`ChangeLimit`) and processes are restarted (`RestartProcess`) meanwhile.
**SlidingWindow** is what it promises: no window holds more than the limit. The mapping
is `letThroughAt`, the stamp of every admitted call. Since the stamp is read before the
lock is waited for, a late call is counted from its own past, and the promise holds for
windows of `Minute - MaxWait`.

**PromptCache** is `get` and `set` and the requests around them, which miss together,
store late, and evict each other's entries. **KeyPool** is `get_next_key` with keys
that cool down. **MCServing** puts limiter, cache, pool and the ledger's statements into one
run: they share no state, so a behaviour exercises one of them (`unit`), and their state
spaces add up instead of multiplying.

## 3. What is checked

Passing runs (one instance answers several questions, so a run has several properties):

| Run | Properties | Shows |
|---|---|---|
| Books | `IndInv`, `BooksExact`, `NoHoldAfterBill` | counters equal bills plus holds through full queues, repeated and failed writes, sweeps, resets, crashes, changes of limits |
| | `AdmissionWithinLimit`, `RefusalJustified` | no admission over a limit in force; no refusal over money neither spent nor held |
| | `ReclaimSparesBuffered` | no sweep takes the hold of a buffered answer in flight |
| Released | `WithinLimit` | with honest estimates and fixed limits no period ever exceeds one |
| | `HoldsReleased` | every hold ends |
| | `ImplementsAccount` | the counters are as good as a list of requests that each count for what they are worth |
| | `StreamBilled` | a stream that ended, failed or was abandoned is billed by whichever clause's write succeeds; `lost` (MCReleased) has those for which none is left, or that the worker or a crash has dropped |
| Breaker | `RowAgrees`, `IndInv` | the row's columns agree under every interleaving |
| | `Trips` | lost updates cannot keep a backend that only fails in service |
| | `HalfOpenResolves`, `Recovers` | half-open does not last; a backend that only succeeds is taken back |
| Router | `IndInv`, `EndsInTime`, `Ends` | `execute` ends, and by its deadline, however its backends and the ledger fail |
| | `CostsBilled` | the cascade's discarded answers are billed with the one returned |
| | `OneReport`, `AllTried` | no breaker is told twice; a request that runs out of backends told each one's breaker, throttled backends aside |
| | `FullSecondAttempt` | the 60 and 90 s of the configuration leave a second backend a full attempt if the first one's attempts take at most 5 s each, every await one second late |
| Ranking | `BillInProportion`, `RouteInv` | a bill outgrows the hold no faster than the tokens the provider reports outgrow those the hold was priced for, whichever of the backends it was priced over answers |
| | `EveryoneMeasured` | `latency_first` leaves no backend unmeasured that every request could reach |
| Streams | `ImplementsWholeAnswer` | streamed and buffered filters show the same text, however it is cut |
| | `NoLeakPassed` | a leaked phrase never reaches the client or the cache whole |
| | `ReplayIsTheSame`, `TypeOK` | the cache entry, restored, is what the first client saw; no restored value is billed or cached |
| Serving | `LimiterInv`, `ImplementsSlidingWindow` | the log implements a sliding window under late calls, failed statements, restarts, changed limits |
| | `RefusedOverAnswered` | a client that polls while refused does not keep itself out |
| | `LeastRecentFirst`, `CacheInv`, `NoEarlyMiss` | the cache evicts the key used longest ago; a request misses only what is too old or was pushed out by that many other keys |
| | `EveryKeyInTurn`, `PoolInv` | a usable provider key is given before the others are given twice, whatever is skipped |
| | `BooksUntorn`, `StatementsInv` | under the lock a call is as good as one step; one cut short leaves only its own counters wrong, and those only until their next reset |
| | `CheckHoldsWhenUsed` | what a reservation compared with the limit is what it increments |

Violated, as the code stands (`findings`):

| Run | Property, and who states it | What happens |
|---|---|---|
| DoubleRefund | `NoDoubleRefund`, store.py:826 | `record_request` subtracts yesterday's hold from today's counter |
| TrialDenied | `TrialGoesThrough`, circuit_breaker.py:14 | the pricing ranking takes the half-open slot from its own request |
| StreamTimeout | `TimeoutIsOwn`, circuit_breaker.yaml:5 | after a hung first backend the second one is timed out at its second chunk, and blamed |
| PartialBilled | `SentIsBilled`, guardrails.py:348 | a client that leaves a stream half read is billed for an empty answer |
| Underheld | `HeldForDearest`, main.py:733 | the hold is priced at the backend whose two rates add up to most; with the rates of backends.yaml.example another one is quoted at 2.7 times as much |

Each property of a passing run has a mutant, a variant of one definition with a
plausible bug, that violates it. Mutants stand in the modules just before the
definition they vary and are used nowhere else.

### Bounds

* `MaxTime` bounds the clock, `MaxDay` the dates. With `StaleAfter` 1 a hold can be
  taken at two different times and go stale before the clock ends; `EarlyEnough` keeps
  later admissions out, so that every hold can still be swept (without it liveness
  would fail for want of time). `MaxDay` 1 gives every reset of the day, with and
  without one of the month; the proofs have no such bounds.
* `QueueMax` 1 makes the queue full with one item behind the one being written;
  `MaxAmount` 1 or 2 gives zero and non-zero, equal and different holds and costs.
  Limits of 1 to 3 units are reached by two requests.
* Two requests of one client, one buffered and one streamed: double billing needs one
  request and its own repeated hand-over, a missed limit needs two, and a sweep needs a
  stale hold and a second request whose hold must stay.
* In Serving the ledger's `StaleAfter` is 0, so that a hold is stale one second after it
  was taken; two threads and two requests of one client are enough for any two calls to
  overlap.
  Threads and requests are symmetric. One client: every statement but the sweep's names
  one key.
* `MaxFailures` is where the model's failure count saturates (`Increment`). The code
  only asks whether the count has reached the threshold, and `MaxFailures` is not below
  it, so nothing that is asked differs. `FailureThreshold` 2 is the least with a count
  below it that is not zero; the findings' runs use 1 where one failure suffices. Two
  requests and the health loop lose each other's updates in every order.
* The router runs with the configured 60 and 90 seconds and eleven durations around
  its edges: nothing, the border of fast (5), an adapter's own read timeout (10), what
  a first timeout leaves (27 to 30), and a whole attempt. `Late` 1 makes every await a
  second late or not. Two backends give a first, a next and a last one. The cascade is
  always allowed; other strategies are the behaviours without `Escalate`.
* Ranking has three backends that differ in everything the ranking looks at, no one of
  them dearest for both prompt and answer, and three kinds of request: one that fits all,
  one that prefers two of them, one that is large and names a model. A round robin's
  counter is taken modulo `Rounds`, which every number of backends divides. `Reported`
  has token counts below, at and above all that a hold is priced for. Underheld has the
  rates of backends.yaml.example, exactly, in units of 5E-8 dollars a token, and a prompt
  of 10 tokens by any tokenizer (the three are configured alike).
* Texts have up to `MaxLen` 6 characters in pieces of up to `MaxChunk` 2. Lengths keep
  the order they have in the code (`MinHoldback` 1, one less than a starter; `MinBody` 1;
  `MaxSpan` 5; `MaxTokenLen` 4): six characters are enough for a secret cut in three
  with something before and after it, for a placeholder cut in three, for a redaction
  beside an open bracket, and for a leaked phrase twice over. The texts are `Plain`: no
  starter inside a word, no secret that with the held back end is as long as the watched
  span, no bare name split from its neighbour. Outside them the code is known to differ (section 5).
* The limiter has a window of 3, a wait of 1, a clock to 6 and three calls under limits
  of 1 and 2: a window ends, and a call is late by the whole wait, with the limit
  reached. The cache has four keys for two entries, a TTL of 2 and two requests: enough
  for an entry to be evicted, to expire, and to be stored twice. The pool has three keys
  and cooldowns up to 3.
* Deadlock is not checked: with clock and dates bounded and each request or call made
  once (pipeline, router, stream, limiter) or the clock stopped, the models may rightly
  come to rest.

### Fairness

`FairSpec` of BudgetPipeline: the event loop runs what is runnable (hand-over, worker),
executor threads finish their statement, the clock and the sweep's timer go on, a
supervisor restarts the process, and `router.execute` returns or raises, as its
deadline forces it to. Nothing is assumed of streams, clients, operators or dates. No
action is strongly fair. `ReleasedSpec` is the same with the history variable `lost`.

`FairSpec` of CircuitBreaker: requests run on and clients keep sending; the health loop
comes round (it catches every exception and sleeps 60 s). What a backend answers is
left open, and so is the clock.

`FairSpec` of RouterExecute: the awaits of `execute` come back, since `wait_for` bounds
every call. Streams, which wait for backend and client, are not fair.

`RouteFairness` of Ranking, for `latency_first` alone: requests of every kind keep
coming and are served, and a backend that is tried first again and again sometimes
answers one that is not streamed (strong fairness: each is an offer that comes and
goes). The first is the environment's; the second excludes a backend that never
answers, which its breaker takes out. Nothing is assumed of breakers or of the age of
measurements, and `EveryoneMeasured` speaks of behaviours in which both settle.

AnswerStream and the modules of Serving are checked for safety only.

## 4. What is proved

All theorems hold for any finite set of requests, any keys, limits, queue size,
thresholds, deadlines and clock bounds that meet the `ASSUME`s of the modules.

* `TypeCorrect`: `Spec => []TypeOK`.
* `PipelineInvariant`: `Spec => []IndInv`, and from it `BooksAlwaysExact`
  (`[]BooksExact`) and `BilledHoldNothing` (`[]NoHoldAfterBill`). Neither is inductive
  alone. `IndInv` adds: `StampsOrdered` (no hold or bill is stamped later than its
  counter, no counter later than the calendar: otherwise a reset could pull old bills
  into the new period); `NewIsClean` (a request not yet admitted has no hold, bill or
  item: otherwise an admission could overwrite a hold); `HeldAsEstimated` (what the
  handler will release is what the ledger holds: otherwise settlement would be off by
  the difference). The proof has one step per action; the arithmetic is in
  `TallyProofs` (adding, removing and changing one member of a sum; disjoint unions).
* `AdmissionIsWithinLimit`, `RefusalIsJustified`: the action properties, from `IndInv`:
  where the books are exact, what `Fits` compares is what was paid and is held.
* CircuitBreakerProofs: `BreakerInvariant`, and from it `BreakerTypeCorrect` and
  `ColumnsAlwaysAgree` (`[]RowAgrees`). `IndInv` adds that what an agent has read
  agreed, and still does as time passes, and that an agent writes only in the place of
  the code that does.
* RouterExecuteProofs: `RouterInvariant`, and from it `ExecuteEndsInTime`
  (`[]EndsInTime`), `ReportsOnce` (`[]OneReport`), `ReportsAll` (`[]AllTried`) and
  `CostsAreBilled` (`[]CostsBilled`), for any number of backends, timeouts, durations
  and lateness. `IndInv` adds how late each place of the loop may be reached (`InTime`),
  that no backend is told before its turn ends and each one before it was told or
  throttled (`Reporting`), and that money received is the answer in hand plus what was
  discarded (`Accounted`).
* `SecondBackendHasFullAttempt` (`[]FullSecondAttempt`), in the same module: the
  invariant `FirstInTime` bounds when the `n`-th attempt on the first backend can begin
  (`Begins`), given that those before it were fast.
* BudgetPipelineProofs also proves two promises from what makes them true, and a
  refinement. `PeriodsWithinLimit` (`[]WithinLimit`) assumes that limits are left alone
  (`FixedLimits`) and answers cost no more than their hold (`HonestEstimates`);
  `LimitInv` adds that whatever is on its way to the ledger, in the queue, with the
  worker or in a direct write, costs no more than was reserved (`CostsCovered`).
  `SweepSparesBuffered` (`ReclaimSparesBuffered`) assumes `Deadline <= StaleAfter`
  (`SweepWaits`) and needs that a running buffered request has nothing on its way
  (`RunningIsClean`) and a hold no older than the deadline (`RunningIsYoung`).
* `PipelineImplementsAccount` (`ImplementsAccount`), in the same module and under no
  condition: every step of the pipeline is one of BudgetAccount or leaves `stageOf`,
  `worthOf` and `countedOf` alone. One lemma per operation of the ledger (`AdmitMaps`,
  `RefuseMaps`, `SettleMaps`, `ReleaseMaps`) from `IndInv`; `AccountUsed` says that the
  sum over requests is bills plus holds, since none is both.
* RateLimiterProofs, for any calls, limits, window, wait and clock, in one process
  (`OneProcess`, the hypothesis of each theorem): `LimiterInvariant`
  (`[]LimiterInv`), `LimiterImplementsWindow` (the refinement: every step of the limiter
  is an `Admit` of SlidingWindow or leaves `letThroughAt` alone) and `RefusalsAreOwed`.
  That windows are bounded is not inductive: `LimiterInv` adds that the lock is held
  between statements (`LockHeld`), so that a count still holds when it is compared
  (`CountHolds`), that the log lacks only rows too old to matter to any call still to
  come (`LogIsRecent`), and that a call's stamp is at most `MaxWait` old
  (`StampsAreRecent`), which bounds how far out of order rows are.

* LedgerStatementsProofs, for any number of threads, requests and clients:
  `StatementsInvariant` (`[]StatementsInv`), and from it `BooksExactBetweenCalls`
  (`[]BooksUntorn`) and `CheckedRowIsIncremented` (`CheckHoldsWhenUsed`). Between two
  statements the books are wrong by what the call has done and not yet done;
  `StatementsInv` says by how much at each statement (`BooksAtStatement`), that only the
  thread with the lock is there (`OneInside`), that what it has read still stands
  (`CallsSound`), and that no row is stamped later than its counter (`RowsInOrder`) or
  written for a request nobody made (`RowsAskedFor`).
* PolicyProofs, for any number of keys, entries and requests: `CacheInvariant`
  (`[]CacheInv`), and from it `CacheOrdered` (`[]LeastRecentFirst`) and
  `NothingForgottenEarly` (`NoEarlyMiss`). `CacheInv` adds that a key behind another was
  used since (`OrderedByUse`), and that an absent key had its whole lifetime or was
  followed by a full cache of others (`GoneForAReason`).
* PolicyProofs, for any finite set of provider keys: `PoolInvariant` (`[]PoolInv`), and
  from it `EveryKeyIsGiven` (`[]EveryKeyInTurn`). `TurnsToCome` adds up how often a key
  was passed over and how many turns it is away: never more than the pool's size. The
  index is counted modulo `Turns`, which every size of the pool divides, so that starting
  over is invisible (`TurnsStartOver`); the code's index is unbounded.
* PolicyProofs, for any backends, kinds of request, rates and windows: `RouteInvariant`
  (`[]RouteInv`), and from it `BillsStayInProportion` (`[]BillInProportion`). `RouteInv`
  adds that the hold is the price of the dearest backend it was priced over
  (`HeldAtDearest`), although breakers and latencies have changed since. That a ranking
  has every candidate once (`RankedHasEach`) rests on `DistinctPlaces`: in a strict order
  of a finite set, the number of earlier members is a different one for each.
  What the theorem says of money: bills are for the tokens the provider reports, holds
  for the gateway's own count, and all the code knows of the costliest backend is that
  its two rates add up to most. So a prompt of `p` and an answer of `a` tokens, for a
  hold over counts of at least `l`, cost at most `max(p, a) / l` times the hold
  (`SumsInProportion`), and no less is true of all rates: with one backend that charges
  for the longer part only and another for the shorter, at the same rate, a bill comes to
  just that. It has no condition on rates, caps or strategy, and one on the answering
  backend: that it was ranked when the hold was priced.

* AnswerStreamProofs, for answers of any length, cut into pieces anyhow, with or without
  a vault mapping, and for all lengths that `TextAssumption` allows (a held back end of at
  least one, room for a placeholder that lacks only its bracket): `TypeCorrect`
  (`[]TypeOK`) and `NoLeakEver` (`[]NoLeakPassed`). `NoLeakInv` adds that released and
  pending text together are no leak (`Unleaked`), and that nothing that follows makes a
  leak of what was sent and is held that would not make one of what was released
  (`Passes`); `LeakThrough` says that a substitution which marks what it removes makes no
  leak.
* In the same module, for texts that are `Plain` (`PlainOnly`, the hypothesis of both):
  `ReplayIsSame` (`[]ReplayIsTheSame`) and the refinement `StreamImplementsWhole`
  (`ImplementsWholeAnswer`). Everything rests on when a text can be filtered in parts:
  `RedactSplit`, where no secret goes on beyond the first part (`Ended`), and
  `RestoreSplit`, where no name is at the edge (`Loose`). `FilteredInv` adds that what is
  released is the redaction of what came before the pending text, in which every secret
  has ended (`FilterReading`), that what was sent is the restoration of what came before
  the held text, which does not cut a placeholder (`Between`), and that a complete answer
  was all shown (`AllShown`). Each of the three parts of `Plain` is needed: `EmitEnds` (no
  secret goes on past `EmitBoundary`) needs that starters do not stand inside words and
  that secrets fit the watched span; `BoundaryEnds` (what `_boundary` lets through does not
  end in a name) that names are in brackets, which redaction leaves as it was
  (`BoundRedact`). The proof also uses that `MinHoldback` is not 0: with nothing held back
  a starter can be cut between its two characters.

No safety property of a run is left without a theorem. Only model-checked are the liveness
properties (`HoldsReleased`, `StreamBilled`, `Trips`, `HalfOpenResolves`, `Recovers`,
`Ends`, `EveryoneMeasured`), which rest on fairness and ENABLED, outside the prover's
reach, and that `Marked` is `SelectSeq`, whose recursion is.

## 5. What is abstracted, and not modelled

* Ledger calls are atomic in BudgetPipeline, which a live process keeps under its lock
  (`BooksUntorn`). What a kill or an error within a call leaves behind is in
  LedgerStatements. Two gateway processes on one ledger are not checked; the Dockerfile
  starts one.
* Only keys that have a budget row; `update_budget_limits` of an unknown key inserts
  one. `get_budget`, which resets periods too with a date it took before the lock, is
  called by tests only.
* BudgetPipeline's estimate is any amount, and its costs are at most the estimate in
  runs with `Overrun = FALSE`. Ranking says how far bills may exceed holds.
* Holds are not negative: `max_tokens` is taken to be a number from 0 up, although the
  handler takes it from the body as it is (main.py:753).
* The cached answer's zero-cost record, and shutdown (`stop`).
* The router's calls are outcomes: adapters turn every provider error into a new
  exception without its response, so no Retry-After reaches the router and a pause is 1
  or 2 s. What a provider charges for a call that timed out is unknown to the gateway.
  A hung backend uses up the deadline in two attempts, so `execute` neither fails over
  nor reports it: the model has that (`Expire`), and `AllTried` does not speak of it.
  The latency average that `execute` updates is left to the ranking.
* The breaker model has one backend; a request that another backend serves instead, or
  whose deadline passes first, is the outcome `unreported`.
* Text: one pattern of a kind. The runs take texts of up to six characters, the proofs any
  text; outside the `Plain` ones only types and leaks are covered. Masking of prompts and
  input guardrails are functions of one prompt.
* `MarkRateLimited` of the pool is called by tests only, and is in the model because the
  pool is built for it. In the gateway as it runs no key cools down, and `EveryKeyInTurn`
  is about a plain round robin.
* The exchange of adapters by a reload. Authentication, telemetry, feedback, dashboard,
  evaluations and load test: pure I/O or data.

### Also seen

Behaviours of the code that the models show or had to step around, each of them
narrower than a finding, or against no more than an expectation:

* A buffered request that fails leaves its hold to the sweep (main.py:1088), and the
  sweep takes the hold of a stream that runs longer than its threshold (store.py:802).
* Two requests that both read an open breaker after its cooldown both go through
  (circuit_breaker.py:91-98): "1 request allowed" is one read and one write.
* A 429 at the start of a stream counts against the breaker (router.py:690-696); in
  `execute` it does not (router.py:630-640).
* An adapter's exception does not carry the provider's response, so no Retry-After is
  ever found (router.py:615).
* A reservation whose last statement fails, or that is killed before it, leaves spend
  without a hold, for no sweep to find (store.py:752-754, "Same transaction as the
  increment above", on a connection in autocommit mode): `StatementRaises` after
  `Increment`. `BooksUntorn` says how far such damage goes.
* Two gateway processes on one ledger exceed limits: each counts or checks under its own
  lock, and connections are in autocommit mode (auth.py:126-128, "no TOCTOU between count
  and insert", "consistent across all threads/workers on the same DB file").
* A limit of 0 requests per minute refuses all, where a budget of 0 means none.
* In one process, too, a call that waited for the lock while a later one pruned may count
  one call less than its window had: hence `Minute - MaxWait`.
* A round robin takes two turns per request, one for the price and one for the call
  (README.md:108, "Even distribution"): of two backends one gets every call.
* A hold without `max_tokens` is priced at 256 tokens, by the backend whose two rates add
  up to most; a cascade's discarded answers come on top, as bills of their own for
  `BillInProportion`. A backend whose breaker closes between the two rankings was never
  priced, and the property does not speak of it.
* The capability filter comes before the window filter and only the latter has no way
  back, so a request may be refused although a healthy backend has the window
  (router.py:361-418).
* A cache hit is billed under the id of the answer it replays: its record meets the
  primary key and is dropped (main.py:636). The key leaves out `stop`, the response
  format and the required capabilities, and an answer is stored under the model that was
  asked for, not the one that answered.
* A stream differs from the whole-string filters on texts that are not `Plain`: a starter
  inside a word is redacted when it comes first in what is pending, a bare placeholder
  can be cut in two, and a secret longer than the watched span is redacted in part.
* A backend removed by a reload while it streams is billed nothing (main.py:171-179), and
  its client is closed under requests that still use it (main.py:537).

## 6. Plan

Done: the ledger's calls and their statements, the pipeline, breaker, router, ranking and
price, filters, limiter, cache, pool; all their safety properties and refinements are
proved. Next: **QueueLifecycle** (start, stop, and what a shutdown leaves) and
**ConfigReload** (adapters and key set under running requests).
