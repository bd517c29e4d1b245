-------------------------- MODULE BudgetPipeline --------------------------
(***************************************************************************)
(* What happens to a client's budget while its requests run: the chat      *)
(* completions handler (gateway/main.py) takes a hold before the backend   *)
(* call and hands the real cost to AsyncLedgerQueue                        *)
(* (gateway/ledger/async_queue.py) after it; one worker drains the queue   *)
(* into the ledger, a full queue makes the handler write for itself, a     *)
(* sweep returns holds nobody will settle, days end, operators change      *)
(* limits, and the process dies and comes back.                            *)
(*                                                                         *)
(* A streamed response settles in up to three places of its generator, the *)
(* try block and the except and finally clauses; the same three names are  *)
(* the values of pc in which a request is handing over its cost.  A        *)
(* response that is not streamed has only the first.                       *)
(***************************************************************************)
EXTENDS LedgerStore, Sequences

CONSTANTS
    Streaming,    \* the requests with "stream": true
    QueueMax,     \* maxsize of the queue
    Deadline,     \* total_deadline_sec
    ConfigLimit,  \* the limits in configs/budgets.yaml
    PatchLimits,  \* the limits an admin may PATCH in ({}: none does)
    Overrun,      \* whether a response may cost more than was reserved
    MayCrash,     \* whether the process may be killed
    MayFail,      \* whether a backend call or a database write may fail for good
    MaxTime,      \* bound on now
    MaxDay        \* bound on the days and months that pass

ASSUME PipelineAssumption ==
    /\ Streaming \subseteq Requests
    /\ QueueMax \in Nat \ {0}
    /\ Deadline \in Nat
    /\ ConfigLimit \in [Keys -> [Periods -> Nat]]
    /\ PatchLimits \subseteq [Periods -> Nat]
    /\ Overrun \in BOOLEAN
    /\ MayCrash \in BOOLEAN
    /\ MayFail \in BOOLEAN
    /\ MaxTime \in Nat
    /\ MaxDay \in Nat

VARIABLES
    pc,      \* where each request is
    est,     \* estimated_cost, the amount it reserved
    queue,   \* AsyncLedgerQueue.queue
    taken,   \* the item the worker has dequeued and is persisting
    direct,  \* direct writes under way, begun when the queue was full
    up       \* whether the process runs

pipelineVars == <<pc, est, queue, taken, direct, up>>
vars == <<ledgerVars, pipelineVars>>

Stages == {"try", "except", "finally"}
Places == {"new", "running", "ended"} \cup Stages

\* An item remembers the clause that handed it over; a queued item does not
\* need it, a direct write reports back to it.
Items == [req : Requests, cost : Amounts, at : Stages]

TypeOK ==
    /\ LedgerTypeOK
    /\ pc \in [Requests -> Places]
    /\ est \in [Requests -> Amounts]
    /\ queue \in Seq(Items)
    /\ taken \subseteq Items
    /\ direct \subseteq Items
    /\ up \in BOOLEAN

Init ==
    /\ LedgerInit(ConfigLimit)
    /\ pc = [r \in Requests |-> "new"]
    /\ est = [r \in Requests |-> 0]
    /\ queue = <<>>
    /\ taken = {}
    /\ direct = {}
    /\ up = TRUE

-----------------------------------------------------------------------------
(* The request: preflight and the backend call *)

\* A clock bound only: a hold taken later could not go stale before MaxTime.
EarlyEnough == now + StaleAfter < MaxTime

Admit(r, amount) ==
    /\ up
    /\ pc[r] = "new"
    /\ EarlyEnough
    /\ Reserve(r, amount)
    /\ est' = [est EXCEPT ![r] = amount]
    /\ pc' = [pc EXCEPT ![r] = "running"]
    /\ UNCHANGED <<queue, taken, direct, up>>

\* 429
Refuse(r, amount) ==
    /\ up
    /\ pc[r] = "new"
    /\ EarlyEnough
    /\ RefuseReservation(r, amount)
    /\ pc' = [pc EXCEPT ![r] = "ended"]
    /\ UNCHANGED <<est, queue, taken, direct, up>>

Goto(r, place) ==
    /\ pc' = [pc EXCEPT ![r] = place]
    /\ UNCHANGED <<ledgerVars, est, queue, taken, direct, up>>

\* router.execute returned, or the stream came to its end.
Respond(r) ==
    /\ pc[r] = "running"
    /\ Goto(r, "try")

\* router.execute raised, and the handler answers with an HTTP error; or the
\* client left before the stream's generator was first resumed, so that none
\* of its clauses runs.  Nobody hands over anything.
Leave(r) ==
    /\ MayFail
    /\ pc[r] = "running"
    /\ Goto(r, "ended")

\* The backend failed or timed out in the middle of the stream.
StreamError(r) ==
    /\ r \in Streaming
    /\ pc[r] = "running"
    /\ Goto(r, "except")

-----------------------------------------------------------------------------
(* The request: handing over its cost, AsyncLedgerQueue.record_request      *)

Awaiting(r) == \E i \in direct : i.req = r /\ i.at = pc[r]

Room == Len(queue) < QueueMax

Costs(r) == IF Overrun THEN Amounts ELSE 0..est[r]

HandOver(r, cost) ==
    LET item == [req |-> r, cost |-> cost, at |-> pc[r]] IN
    /\ pc[r] \in Stages
    /\ ~Awaiting(r)
    /\ IF Room
       THEN /\ queue' = Append(queue, item)
            /\ pc' = [pc EXCEPT ![r] = "ended"]
            /\ UNCHANGED direct
       ELSE /\ direct' = direct \cup {item}
            /\ UNCHANGED <<queue, pc>>
    /\ UNCHANGED <<ledgerVars, est, taken, up>>

\* Mutant: the stream settles in its try and except clauses only.
OnDisconnectNothing(r) == "ended"

OnDisconnect(r) == IF pc[r] = "finally" THEN "ended" ELSE "finally"

\* GeneratorExit or CancelledError: only the finally clause still runs.  A
\* direct write that a thread has begun goes on without its caller; one that
\* waits for a thread is cancelled with it.
Disconnect(r) ==
    /\ r \in Streaming
    /\ \/ pc[r] = "running"
       \/ pc[r] \in Stages /\ Awaiting(r)
    /\ direct' \in {direct, {i \in direct : ~(i.req = r /\ i.at = pc[r])}}
    /\ pc' = [pc EXCEPT ![r] = OnDisconnect(r)]
    /\ UNCHANGED <<ledgerVars, est, queue, taken, up>>

\* Mutant: a write that raises is not repeated.
OnErrorNothing(r, stage) == "ended"

\* The clause that runs when the write awaited in this one raises.
OnError(r, stage) ==
    IF r \notin Streaming THEN "ended"
    ELSE CASE stage = "try"     -> "except"
           [] stage = "except"  -> "finally"
           [] stage = "finally" -> "ended"

Resume(i, place) ==
    pc' = IF pc[i.req] = i.at THEN [pc EXCEPT ![i.req] = place] ELSE pc

WriteDirect(i) ==
    /\ i \in direct
    /\ RecordRequest(i.req, i.cost, est[i.req])
    /\ Resume(i, IF requests[i.req] = NoRow THEN "ended" ELSE OnError(i.req, i.at))
    /\ direct' = direct \ {i}
    /\ UNCHANGED <<est, queue, taken, up>>

\* The database refuses the write (locked, full), before it changed a row.
DirectError(i) ==
    /\ MayFail
    /\ i \in direct
    /\ Resume(i, OnError(i.req, i.at))
    /\ direct' = direct \ {i}
    /\ UNCHANGED <<ledgerVars, est, queue, taken, up>>

-----------------------------------------------------------------------------
(* The worker, AsyncLedgerQueue._worker_loop *)

WorkerGet ==
    /\ up
    /\ taken = {}
    /\ queue # <<>>
    /\ taken' = {Head(queue)}
    /\ queue' = Tail(queue)
    /\ UNCHANGED <<ledgerVars, pc, est, direct, up>>

WorkerPersist(i) ==
    /\ i \in taken
    /\ RecordRequest(i.req, i.cost, est[i.req])
    /\ taken' = {}
    /\ UNCHANGED <<pc, est, queue, direct, up>>

\* "Error persisting ledger queue item": logged, and the item is gone.
WorkerError(i) ==
    /\ MayFail
    /\ i \in taken
    /\ taken' = {}
    /\ UNCHANGED <<ledgerVars, pc, est, queue, direct, up>>

-----------------------------------------------------------------------------
(* Housekeeping, operators and the environment *)

ReclaimLoop ==
    /\ up
    /\ Stale # {}
    /\ ReclaimStaleReservations
    /\ UNCHANGED pipelineVars

PatchBudget(k, limits) ==
    /\ up
    /\ UpdateBudgetLimits(k, limits)
    /\ UNCHANGED pipelineVars

\* POST /admin/reload-config.
ReloadBudgets ==
    /\ up
    /\ LoadBudgets(ConfigLimit)
    /\ UNCHANGED pipelineVars

Crash ==
    /\ MayCrash
    /\ up
    /\ up' = FALSE
    /\ queue' = <<>>
    /\ taken' = {}
    /\ direct' = {}
    /\ pc' = [r \in Requests |-> IF pc[r] = "new" THEN "new" ELSE "ended"]
    /\ UNCHANGED <<ledgerVars, est>>

\* lifespan: the configured limits are loaded, then the ledger is swept.
Restart ==
    /\ ~up
    /\ up' = TRUE
    /\ limit_usd' = ConfigLimit
    /\ Sweep
    /\ UNCHANGED <<pc, est, queue, taken, direct>>

\* router.execute gives up at its deadline.  execute_stream looks at the clock
\* when a chunk arrives, and is suspended while its client does not read.
Overdue(r) ==
    /\ r \notin Streaming
    /\ pc[r] = "running"
    /\ reservations[r] # NoRow
    /\ now >= reservations[r].reserved_at + Deadline

\* Nothing is awaited between an answer and put_nowait: it takes no time.
HandingOver(r) == pc[r] \in Stages /\ ~Awaiting(r)

Tick ==
    /\ now < MaxTime
    /\ \A r \in Requests : ~Overdue(r) /\ ~HandingOver(r)
    /\ now' = now + 1
    /\ UNCHANGED <<budgets, requests, reservations, calendar, adrift, pipelineVars>>

\* A UTC day ends, and perhaps the month with it.
Midnight ==
    /\ calendar["day"] < MaxDay
    /\ \E month \in {calendar["month"], calendar["month"] + 1} :
          calendar' = [day |-> calendar["day"] + 1, month |-> month]
    /\ UNCHANGED <<budgets, requests, reservations, now, adrift, pipelineVars>>

-----------------------------------------------------------------------------

RequestStep(r) ==
    \/ \E amount \in Amounts : Admit(r, amount) \/ Refuse(r, amount)
    \/ Respond(r)
    \/ Leave(r)
    \/ StreamError(r)
    \/ Disconnect(r)
    \/ \E cost \in Costs(r) : HandOver(r, cost)

WriterStep ==
    \/ \E i \in direct : WriteDirect(i) \/ DirectError(i)
    \/ WorkerGet
    \/ \E i \in taken : WorkerPersist(i) \/ WorkerError(i)

OperatorStep ==
    \/ \E k \in Keys, limits \in PatchLimits : PatchBudget(k, limits)
    \/ ReloadBudgets

Next ==
    \/ \E r \in Requests : RequestStep(r)
    \/ WriterStep
    \/ ReclaimLoop
    \/ OperatorStep
    \/ Crash
    \/ Restart
    \/ Tick
    \/ Midnight

Spec == Init /\ [][Next]_vars

(***************************************************************************)
(* Fairness.  The event loop runs what is runnable: a handler that has its *)
(* answer hands it over, the worker loop drains the queue, threads of the  *)
(* default executor finish their statement.  Time passes, the sweep's      *)
(* timer fires, a supervisor restarts a dead process, and router.execute   *)
(* returns or raises by its deadline.  Nothing is assumed of streams,      *)
(* clients, operators, or the calendar.                                    *)
(***************************************************************************)
Finish(r) == r \notin Streaming /\ (Respond(r) \/ Leave(r))

Fairness ==
    /\ \A r \in Requests : /\ WF_vars(\E cost \in Costs(r) : HandOver(r, cost))
                           /\ WF_vars(Finish(r))
    /\ WF_vars(\E i \in direct : WriteDirect(i) \/ DirectError(i))
    /\ WF_vars(WorkerGet)
    /\ WF_vars(\E i \in taken : WorkerPersist(i) \/ WorkerError(i))
    /\ WF_vars(ReclaimLoop)
    /\ WF_vars(Restart)
    /\ WF_vars(Tick)

FairSpec == Spec /\ Fairness

-----------------------------------------------------------------------------
(* Correctness *)

\* The books balance: unless a settlement has corrected it by a hold it does
\* not carry, each counter is the bills of its period plus the holds open in
\* it, through queueing, failed and repeated writes, sweeps, resets and
\* crashes.  (store.py: check_and_reserve_budget, record_request,
\* reclaim_stale_reservations.)
BooksExact ==
    \A k \in Keys, p \in Periods :
        <<k, p>> \notin adrift => spend[k][p] = PaidTotal(k, p) + HeldTotal(k, p)

\* A billed request holds nothing, although several clauses of a stream may
\* each have written for it and the sweep runs at any time: the money is
\* never counted as paid and as held.
NoHoldAfterBill ==
    \A r \in Requests : requests[r] # NoRow => reservations[r] = NoRow

Admits(r) == reservations[r] = NoRow /\ reservations'[r] # NoRow

\* Requests in flight cannot collectively overshoot a limit by admission: a
\* step that takes a hold leaves the bills and holds of the current day and
\* month within the limits then in force.
AdmitsWithinLimit ==
    \A r \in Requests : Admits(r) =>
        \A p \in Periods :
            LET k == KeyOf[r] IN
            <<k, p>> \notin adrift' /\ limit_usd[k][p] # 0 =>
                PaidTotal(k, p)' + HeldTotal(k, p)' <= limit_usd[k][p]
AdmissionWithinLimit == [][AdmitsWithinLimit]_vars

\* Nobody is turned away over money that was neither spent nor is held: at a
\* 429, on counters that are not adrift, the bills and holds of the period and
\* the estimate together exceed a limit.
RefusesJustly ==
    \A r \in Requests, amount \in Amounts : Refuse(r, amount) =>
        \E p \in Periods :
            LET k == KeyOf[r] IN
            \/ <<k, p>> \in adrift'
            \/ limit_usd[k][p] # 0 /\ PaidTotal(k, p)' + HeldTotal(k, p)' + amount > limit_usd[k][p]
RefusalJustified == [][RefusesJustly]_vars

\* With limits that stay put and answers that cost no more than was reserved,
\* a period never exceeds its limit, settlement by settlement.
WithinLimit ==
    \A k \in Keys, p \in Periods :
        <<k, p>> \notin adrift /\ limit_usd[k][p] # 0 =>
            PaidTotal(k, p) + HeldTotal(k, p) <= limit_usd[k][p]

\* The sweep returns no hold of a request that is still being answered.
Spares(S) ==
    \A r \in S : pc[r] = "running" /\ pc'[r] = "running" /\ reservations[r] # NoRow
                    => reservations'[r] # NoRow

\* ... for answers that are not streamed, which the deadline bounds.
ReclaimSparesBuffered == [][Spares(Requests \ Streaming)]_vars

\* No hold is for ever: whoever dropped it, settlement or the sweep ends it.
HoldsReleased ==
    \A r \in Requests : reservations[r] # NoRow ~> reservations[r] = NoRow

-----------------------------------------------------------------------------
(* The inductive invariant behind BooksExact *)

\* No stamp is ahead of its counter and no counter ahead of the calendar, so
\* that a reset leaves nothing of the old period in the new one's books.
StampsOrdered ==
    \A p \in Periods :
        /\ \A k \in Keys : last_reset[k][p] <= calendar[p]
        /\ \A r \in Requests :
              /\ reservations[r] # NoRow => reservations[r].stamp[p] <= last_reset[KeyOf[r]][p]
              /\ requests[r] # NoRow => requests[r].stamp[p] <= last_reset[KeyOf[r]][p]

\* A request that has not been admitted has left no trace.
Handed(r) == \/ \E i \in taken \cup direct : i.req = r
             \/ \E n \in 1..Len(queue) : queue[n].req = r

NewIsClean ==
    \A r \in Requests : pc[r] = "new" =>
        reservations[r] = NoRow /\ requests[r] = NoRow /\ ~Handed(r)

\* What the handler will release is what the ledger holds.
HeldAsEstimated ==
    \A r \in Requests : reservations[r] # NoRow => reservations[r].amount = est[r]

IndInv ==
    /\ TypeOK
    /\ StampsOrdered
    /\ NewIsClean
    /\ HeldAsEstimated
    /\ NoHoldAfterBill
    /\ BooksExact

-----------------------------------------------------------------------------
(* What all of it amounts to: an account of single requests *)

stageOf ==
    [r \in Requests |-> IF requests[r] # NoRow THEN "billed"
                        ELSE IF reservations[r] # NoRow THEN "holding"
                        ELSE IF pc[r] = "new" THEN "fresh" ELSE "over"]

worthOf == [r \in Requests |-> IF requests[r] # NoRow THEN Cost[r] ELSE Amount[r]]

countedOf == [k \in Keys |-> [p \in Periods |-> Held(k, p) \cup Paid(k, p)]]

Account == INSTANCE BudgetAccount WITH
    limit <- limit_usd, today <- calendar, opened <- last_reset, astray <- adrift,
    stage <- stageOf, worth <- worthOf, counted <- countedOf

\* Two counters per key, zeroed when somebody looks, corrected by differences, and
\* written by handlers, worker and sweep in any order, are as good as a list of
\* requests that each count for what they are worth.
ImplementsAccount == Account!Spec

-----------------------------------------------------------------------------
(* What comments of the code say, and the runs refute *)

\* store.py:825, of a counter that was reset since the hold was taken:
\* "subtracting again would refund spend twice".  So a counter is never below
\* the holds that are open in it.
NoDoubleRefund ==
    \A k \in Keys, p \in Periods : spend[k][p] >= HeldTotal(k, p)
=============================================================================
