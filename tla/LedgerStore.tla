---------------------------- MODULE LedgerStore ----------------------------
(***************************************************************************)
(* The budget side of the SQLite ledger (gateway/ledger/store.py): the     *)
(* tables budgets, requests and reservations, and the calls that change    *)
(* them.  Each call runs under LedgerStore._write_lock, so in one gateway  *)
(* process it is one step here.                                            *)
(*                                                                         *)
(* Money is a whole number of units.  The daily and the monthly counter    *)
(* go through the same code with different columns, so a budget row is a   *)
(* function of the period: limit_usd[k]["day"] is daily_limit_usd,         *)
(* spend[k]["month"] is spend_month, last_reset[k]["day"] is               *)
(* last_reset_date, and calendar["day"] is the UTC date of the clock.      *)
(***************************************************************************)
EXTENDS Tally

CONSTANTS
    Keys,        \* client keys (their digests)
    Requests,    \* gateway request ids (uuid4), each used by one request
    KeyOf,       \* the client key each request is sent with
    MaxAmount,   \* the largest estimate or cost of one request
    StaleAfter,  \* stale_after_sec
    NoRow        \* a primary key with no row in a table

Periods == {"day", "month"}
Amounts == 0..MaxAmount
Never   == -1    \* NULL in last_reset_date / last_reset_month

(***************************************************************************)
(* A hold is a row of reservations; a bill is a row of requests, with its  *)
(* cost and the counters (stamp) its cost went to.  The key of both is     *)
(* KeyOf of the request.                                                   *)
(***************************************************************************)
Stamps == [Periods -> Int]
Holds  == [amount : Amounts, stamp : Stamps, reserved_at : Nat]
Bills  == [cost : Amounts, stamp : Stamps]

ASSUME LedgerAssumption ==
    /\ IsFiniteSet(Requests)
    /\ KeyOf \in [Requests -> Keys]
    /\ MaxAmount \in Nat
    /\ StaleAfter \in Nat
    /\ NoRow \notin Holds
    /\ NoRow \notin Bills

VARIABLES
    limit_usd,     \* [Keys -> [Periods -> Nat]]  0: no limit is enforced
    spend,         \* [Keys -> [Periods -> Int]]
    last_reset,    \* [Keys -> [Periods -> Int]]
    requests,      \* [Requests -> Bills \cup {NoRow}]
    reservations,  \* [Requests -> Holds \cup {NoRow}]
    now,           \* time.time()
    calendar,      \* the UTC day and month of the clock
    adrift         \* history: counters a settlement has corrected by a hold
                   \* they do not carry (see Detached), until their next reset

budgets    == <<limit_usd, spend, last_reset>>
ledgerVars == <<budgets, requests, reservations, now, calendar, adrift>>

LedgerTypeOK ==
    /\ limit_usd \in [Keys -> [Periods -> Nat]]
    /\ spend \in [Keys -> [Periods -> Int]]
    /\ last_reset \in [Keys -> Stamps]
    /\ requests \in [Requests -> Bills \cup {NoRow}]
    /\ reservations \in [Requests -> Holds \cup {NoRow}]
    /\ now \in Nat
    /\ calendar \in [Periods -> Nat]
    /\ adrift \subseteq Keys \X Periods

(***************************************************************************)
(* Rows as load_budgets_from_config inserts them (stamped with the current *)
(* period) or as the admin endpoint does (no stamp).                       *)
(***************************************************************************)
LedgerInit(limits) ==
    /\ limit_usd = limits
    /\ spend = [k \in Keys |-> [p \in Periods |-> 0]]
    /\ now = 0
    /\ calendar = [p \in Periods |-> 0]
    /\ last_reset \in [Keys -> {calendar, [p \in Periods |-> Never]}]
    /\ requests = [r \in Requests |-> NoRow]
    /\ reservations = [r \in Requests |-> NoRow]
    /\ adrift = {}

-----------------------------------------------------------------------------
(* check_and_reserve_budget *)

NeedsReset(k, p) == last_reset[k][p] # calendar[p]

\* Mutant: the period is stamped as current, its counter not zeroed.
SpendNotReset(k) == spend[k]

SpendAfterReset(k) ==
    [p \in Periods |-> IF NeedsReset(k, p) THEN 0 ELSE spend[k][p]]

\* Mutant: the counters are zeroed, the period not stamped.
ResetUnstamped(k) == UNCHANGED <<last_reset, adrift>>

\* The period reset, part of every check whether it admits or refuses.
ResetPeriods(k) ==
    /\ last_reset' = [last_reset EXCEPT ![k] = calendar]
    /\ adrift' = adrift \ {<<k, p>> : p \in {q \in Periods : NeedsReset(k, q)}}

\* Mutants: the check forgets the amount asked for; it turns away a request that
\* would just fit; it looks at the day alone.
FitsAlready(k, amount) ==
    \A p \in Periods : limit_usd[k][p] # 0 => SpendAfterReset(k)[p] <= limit_usd[k][p]

FitsBelow(k, amount) ==
    \A p \in Periods : limit_usd[k][p] # 0 =>
        SpendAfterReset(k)[p] + amount < limit_usd[k][p]

FitsDay(k, amount) ==
    limit_usd[k]["day"] # 0 => SpendAfterReset(k)["day"] + amount <= limit_usd[k]["day"]

Fits(k, amount) ==
    \A p \in Periods : limit_usd[k][p] # 0 =>
        SpendAfterReset(k)[p] + amount <= limit_usd[k][p]

Reserve(r, amount) ==
    LET k == KeyOf[r] IN
    /\ Fits(k, amount)
    /\ ResetPeriods(k)
    /\ spend' = [spend EXCEPT ![k] =
                    [p \in Periods |-> SpendAfterReset(k)[p] + amount]]
    /\ reservations' = [reservations EXCEPT ![r] =
                           [amount |-> amount, stamp |-> calendar, reserved_at |-> now]]
    /\ UNCHANGED <<limit_usd, requests, now, calendar>>

\* BudgetExceededException, raised after "commit any reset".
RefuseReservation(r, amount) ==
    LET k == KeyOf[r] IN
    /\ ~Fits(k, amount)
    /\ ResetPeriods(k)
    /\ spend' = [spend EXCEPT ![k] = SpendAfterReset(k)]
    /\ UNCHANGED <<limit_usd, requests, reservations, now, calendar>>

-----------------------------------------------------------------------------
(* record_request *)

HoldOpen(r, p) ==
    /\ reservations[r] # NoRow
    /\ reservations[r].stamp[p] = last_reset[KeyOf[r]][p]

\* The counters that a settlement of r corrects by a hold they do not carry:
\* the hold was reclaimed, or taken before the counter's last reset.
Detached(r, reserved) ==
    IF reserved = 0 THEN {}
    ELSE {<<KeyOf[r], p>> : p \in {q \in Periods : ~HoldOpen(r, q)}}

\* Mutant: the hold is not deleted.
RecordKeepingHold(r, cost, reserved) ==
    LET k == KeyOf[r] IN
    IF requests[r] # NoRow
    THEN UNCHANGED ledgerVars
    ELSE /\ requests' = [requests EXCEPT ![r] = [cost |-> cost, stamp |-> last_reset[k]]]
         /\ spend' = [spend EXCEPT ![k] =
                         [p \in Periods |-> spend[k][p] + (cost - reserved)]]
         /\ adrift' = adrift \cup Detached(r, reserved)
         /\ UNCHANGED <<limit_usd, last_reset, reservations, now, calendar>>

\* A second row with the same id is an IntegrityError at the INSERT, before
\* any counter has changed.
RecordRequest(r, cost, reserved) ==
    LET k == KeyOf[r] IN
    IF requests[r] # NoRow
    THEN UNCHANGED ledgerVars
    ELSE /\ requests' = [requests EXCEPT ![r] = [cost |-> cost, stamp |-> last_reset[k]]]
         /\ spend' = [spend EXCEPT ![k] =
                         [p \in Periods |-> spend[k][p] + (cost - reserved)]]
         /\ reservations' = [reservations EXCEPT ![r] = NoRow]
         /\ adrift' = adrift \cup Detached(r, reserved)
         /\ UNCHANGED <<limit_usd, last_reset, now, calendar>>

-----------------------------------------------------------------------------
(* reclaim_stale_reservations *)

Amount == [r \in Requests |-> IF reservations[r] = NoRow THEN 0 ELSE reservations[r].amount]
Cost   == [r \in Requests |-> IF requests[r] = NoRow THEN 0 ELSE requests[r].cost]

\* Mutants: any hold taken before this second is stale; a hold is stale only
\* while some counter carries it.
StaleAtOnce == {r \in Requests :
                  /\ reservations[r] # NoRow
                  /\ reservations[r].reserved_at < now}

StaleWhileOpen == {r \in Requests :
                     /\ reservations[r] # NoRow
                     /\ reservations[r].reserved_at < now - StaleAfter
                     /\ \E p \in Periods : HoldOpen(r, p)}

Stale == {r \in Requests :
            /\ reservations[r] # NoRow
            /\ reservations[r].reserved_at < now - StaleAfter}

Refundable(k, p) == {r \in Stale : KeyOf[r] = k /\ HoldOpen(r, p)}

AtLeastZero(x) == IF x > 0 THEN x ELSE 0

\* One UPDATE per stale hold that some counter still carries; each UPDATE
\* takes MAX(0, ...) of both counters.
SpendAfterReclaim(k) ==
    IF \E p \in Periods, r \in Stale : r \in Refundable(k, p) /\ reservations[r].amount # 0
    THEN [p \in Periods |->
            AtLeastZero(spend[k][p] - Total(Refundable(k, p), Amount, MaxAmount))]
    ELSE spend[k]

ReservationsAfterReclaim ==
    [r \in Requests |-> IF r \in Stale THEN NoRow ELSE reservations[r]]

\* The sweep, whatever happens to the limits in the same step (see Restart in
\* BudgetPipeline, where startup has just reloaded them).
Sweep ==
    /\ spend' = [k \in Keys |-> SpendAfterReclaim(k)]
    /\ reservations' = ReservationsAfterReclaim
    /\ UNCHANGED <<last_reset, requests, now, calendar, adrift>>

ReclaimStaleReservations == Sweep /\ UNCHANGED limit_usd

-----------------------------------------------------------------------------
(* update_budget_limits and load_budgets_from_config: on rows that exist,  *)
(* both change the limits and nothing else                                 *)

UpdateBudgetLimits(k, limits) ==
    /\ limit_usd' = [limit_usd EXCEPT ![k] = limits]
    /\ UNCHANGED <<spend, last_reset, requests, reservations, now, calendar, adrift>>

LoadBudgets(limits) ==
    /\ limit_usd' = limits
    /\ UNCHANGED <<spend, last_reset, requests, reservations, now, calendar, adrift>>

-----------------------------------------------------------------------------
(* What the counters are for: the money that the ledger says was spent, or *)
(* may still be, in the period a counter is in.                            *)

Held(k, p) == {r \in Requests : KeyOf[r] = k /\ HoldOpen(r, p)}
Paid(k, p) == {r \in Requests :
                 /\ KeyOf[r] = k
                 /\ requests[r] # NoRow
                 /\ requests[r].stamp[p] = last_reset[k][p]}

HeldTotal(k, p) == Total(Held(k, p), Amount, MaxAmount)
PaidTotal(k, p) == Total(Paid(k, p), Cost, MaxAmount)
=============================================================================
