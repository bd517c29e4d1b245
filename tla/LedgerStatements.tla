-------------------------- MODULE LedgerStatements --------------------------
(***************************************************************************)
(* The calls of LedgerStore statement by statement.  Connections are in    *)
(* autocommit mode (_get_connection), so a call is not a transaction: what *)
(* holds its statements together is _write_lock, and nothing does if one   *)
(* of them raises or the process is killed.                                *)
(*                                                                         *)
(* A step is one statement that writes, with the reads and tests before    *)
(* it; the first step of a call takes the lock, the last one releases it.  *)
(* Threads are those of the default executor of one gateway process.       *)
(***************************************************************************)
EXTENDS LedgerStore

CONSTANTS
    Threads,
    Nobody,        \* nobody holds the lock
    BudgetLimits,  \* the configured limits
    Overspend,     \* an answer may cost more than was reserved
    MaxNow,        \* bound on the clock
    MaxDay         \* bound on the calendar

ASSUME StatementsAssumption ==
    /\ Nobody \notin Threads
    /\ BudgetLimits \in [Keys -> [Periods -> Nat]]
    /\ Overspend \in BOOLEAN
    /\ MaxNow \in Nat /\ MaxDay \in Nat

VARIABLES
    holder,   \* who holds _write_lock
    call,     \* what each thread has under way
    handler,  \* of each request: "new", "asking", "open" (its hold was taken), "gone"
    est,      \* the amount it asked for, its reserved_cost
    torn      \* history: counters of calls that were cut short between two
              \* of their statements, until their next reset

statementVars == <<holder, call, handler, est, torn>>
callVars == <<ledgerVars, statementVars>>

Idle == [at |-> "idle"]

StatementsInit ==
    /\ LedgerInit(BudgetLimits)
    /\ holder = Nobody
    /\ call = [t \in Threads |-> Idle]
    /\ handler = [r \in Requests |-> "new"]
    /\ est = [r \in Requests |-> 0]
    /\ torn = {}

Both(k) == {<<k, p>> : p \in Periods}

\* Mutant: the lock is not waited for.
EnterUnlocked(t, started) ==
    /\ holder' = holder
    /\ call' = [call EXCEPT ![t] = started]

\* with self._write_lock
Enter(t, started) ==
    /\ holder = Nobody
    /\ holder' = t
    /\ call' = [call EXCEPT ![t] = started]

GoOn(t, place) ==
    /\ call' = [call EXCEPT ![t].at = place]
    /\ UNCHANGED holder

Return(t) ==
    /\ holder' = Nobody
    /\ call' = [call EXCEPT ![t] = Idle]

-----------------------------------------------------------------------------
(* check_and_reserve_budget: SELECT, UPDATE of the stamps and counters if a *)
(* period is over, UPDATE of the counters, INSERT of the hold               *)

Verdict(r, amount) == IF Fits(KeyOf[r], amount) THEN "increment" ELSE "refuse"

\* The row is read once; everything after is computed from what was read.
SelectBudget(t, r, amount) ==
    LET k == KeyOf[r]
        verdict == Verdict(r, amount)
    IN
    /\ call[t] = Idle
    /\ handler[r] = "new"
    /\ Enter(t, [at |-> IF \E p \in Periods : NeedsReset(k, p) THEN "reset" ELSE verdict,
                 req |-> r, verdict |-> verdict,
                 row |-> SpendAfterReset(k), stamp |-> calendar])
    /\ handler' = [handler EXCEPT ![r] = "asking"]
    /\ est' = [est EXCEPT ![r] = amount]
    /\ UNCHANGED <<ledgerVars, torn>>

ResetRow(t) ==
    LET k == KeyOf[call[t].req]
        over == {<<k, p>> : p \in {q \in Periods : last_reset[k][q] # call[t].stamp[q]}}
    IN
    /\ call[t].at = "reset"
    /\ spend' = [spend EXCEPT ![k] = call[t].row]
    /\ last_reset' = [last_reset EXCEPT ![k] = call[t].stamp]
    /\ adrift' = adrift \ over
    /\ torn' = torn \ over
    /\ GoOn(t, call[t].verdict)
    /\ UNCHANGED <<limit_usd, requests, reservations, now, calendar, handler, est>>

\* BudgetExceededException
Refused(t) ==
    /\ call[t].at = "refuse"
    /\ handler' = [handler EXCEPT ![call[t].req] = "gone"]
    /\ Return(t)
    /\ UNCHANGED <<ledgerVars, est, torn>>

Increment(t) ==
    LET r == call[t].req IN
    /\ call[t].at = "increment"
    /\ spend' = [spend EXCEPT ![KeyOf[r]] = [p \in Periods |-> @[p] + est[r]]]
    /\ GoOn(t, "hold")
    /\ UNCHANGED <<limit_usd, last_reset, requests, reservations, now, calendar, adrift,
                   handler, est, torn>>

InsertHold(t) ==
    LET r == call[t].req IN
    /\ call[t].at = "hold"
    /\ reservations' = [reservations EXCEPT ![r] =
            [amount |-> est[r], stamp |-> call[t].stamp, reserved_at |-> now]]
    /\ handler' = [handler EXCEPT ![r] = "open"]
    /\ Return(t)
    /\ UNCHANGED <<budgets, requests, now, calendar, adrift, est, torn>>

-----------------------------------------------------------------------------
(* record_request: INSERT of the bill, UPDATE of the counters, DELETE of    *)
(* the hold.  The clauses of a stream may call it more than once; the       *)
(* second INSERT meets the primary key.                                     *)

InsertBill(t, r, cost) ==
    /\ call[t] = Idle
    /\ handler[r] = "open"
    /\ requests[r] = NoRow
    /\ Overspend \/ cost <= est[r]
    /\ Enter(t, [at |-> "adjust", req |-> r])
    /\ requests' = [requests EXCEPT ![r] =
            [cost |-> cost, stamp |-> last_reset[KeyOf[r]]]]
    /\ UNCHANGED <<budgets, reservations, now, calendar, adrift, handler, est, torn>>

Adjust(t) ==
    LET r == call[t].req IN
    /\ call[t].at = "adjust"
    /\ spend' = [spend EXCEPT ![KeyOf[r]] =
            [p \in Periods |-> @[p] + (requests[r].cost - est[r])]]
    /\ adrift' = adrift \cup Detached(r, est[r])
    /\ GoOn(t, "drop")
    /\ UNCHANGED <<limit_usd, last_reset, requests, reservations, now, calendar,
                   handler, est, torn>>

DropHold(t) ==
    LET r == call[t].req IN
    /\ call[t].at = "drop"
    /\ reservations' = [reservations EXCEPT ![r] = NoRow]
    /\ handler' = [handler EXCEPT ![r] = "gone"]
    /\ Return(t)
    /\ UNCHANGED <<budgets, requests, now, calendar, adrift, est, torn>>

-----------------------------------------------------------------------------
(* reclaim_stale_reservations: the cutoff is taken before the lock, the     *)
(* stale holds are listed, given back one by one, and deleted together      *)

OlderThan(cutoff) ==
    {r \in Requests : reservations[r] # NoRow /\ reservations[r].reserved_at < cutoff}

TakeCutoff(t) ==
    /\ call[t] = Idle
    /\ call' = [call EXCEPT ![t] = [at |-> "cutoff", cutoff |-> now - StaleAfter]]
    /\ UNCHANGED <<ledgerVars, holder, handler, est, torn>>

ListHolds(t) ==
    /\ call[t].at = "cutoff"
    /\ Enter(t, [at |-> "refund", cutoff |-> call[t].cutoff, given |-> {},
                 rows |-> OlderThan(call[t].cutoff)])
    /\ UNCHANGED <<ledgerVars, handler, est, torn>>

\* Mutant: the hold is given back whether the counter carries it or not.
GivenAnyway(r, p) == reservations[r].amount

\* A hold that no counter carries any more is passed over without an UPDATE.
Given(r, p) == IF HoldOpen(r, p) THEN reservations[r].amount ELSE 0

GiveBack(t, r) ==
    LET k == KeyOf[r] IN
    /\ call[t].at = "refund"
    /\ r \in call[t].rows
    /\ spend' = IF \A p \in Periods : Given(r, p) = 0
                THEN spend
                ELSE [spend EXCEPT ![k] =
                         [p \in Periods |-> AtLeastZero(@[p] - Given(r, p))]]
    /\ call' = [call EXCEPT ![t].rows = @ \ {r}, ![t].given = @ \cup {r}]
    /\ UNCHANGED <<limit_usd, last_reset, requests, reservations, now, calendar, adrift,
                   holder, handler, est, torn>>

DeleteStale(t) ==
    /\ call[t].at = "refund"
    /\ call[t].rows = {}
    /\ reservations' = [r \in Requests |->
            IF r \in OlderThan(call[t].cutoff) THEN NoRow ELSE reservations[r]]
    /\ Return(t)
    /\ UNCHANGED <<budgets, requests, now, calendar, adrift, handler, est, torn>>

-----------------------------------------------------------------------------
(* Errors, kills, time                                                      *)

\* The counters of a call that has written something and not all of it.
Unfinished(t) ==
    CASE call[t].at \in {"hold", "adjust", "drop"} -> Both(KeyOf[call[t].req])
      [] call[t].at = "refund" ->
            {c \in Keys \X Periods :
               \E r \in call[t].given : KeyOf[r] = c[1] /\ HoldOpen(r, c[2])}
      [] OTHER -> {}

\* A statement raises (disk full, file locked for 30 s).  What was executed
\* before stays; a failed reservation is an error to the client, a failed
\* record may be repeated.
StatementRaises(t) ==
    /\ holder = t
    /\ call[t].at # "refuse"
    /\ torn' = torn \cup Unfinished(t)
    /\ handler' = IF call[t].at \in {"reset", "increment", "hold"}
                  THEN [handler EXCEPT ![call[t].req] = "gone"]
                  ELSE handler
    /\ Return(t)
    /\ UNCHANGED <<ledgerVars, est>>

\* The process is killed and started again.
Kill ==
    /\ torn' = torn \cup UNION {Unfinished(t) : t \in Threads}
    /\ handler' = [r \in Requests |-> IF handler[r] = "new" THEN "new" ELSE "gone"]
    /\ call' = [t \in Threads |-> Idle]
    /\ holder' = Nobody
    /\ UNCHANGED <<ledgerVars, est>>

Tick ==
    /\ now < MaxNow
    /\ now' = now + 1
    /\ UNCHANGED <<budgets, requests, reservations, calendar, adrift, statementVars>>

Midnight ==
    /\ calendar["day"] < MaxDay
    /\ \E month \in {calendar["month"], calendar["month"] + 1} :
          calendar' = [day |-> calendar["day"] + 1, month |-> month]
    /\ UNCHANGED <<budgets, requests, reservations, now, adrift, statementVars>>

Statement(t) ==
    \/ \E r \in Requests, amount \in Amounts :
          SelectBudget(t, r, amount) \/ InsertBill(t, r, amount)
    \/ ResetRow(t) \/ Refused(t) \/ Increment(t) \/ InsertHold(t)
    \/ Adjust(t) \/ DropHold(t)
    \/ TakeCutoff(t) \/ ListHolds(t) \/ DeleteStale(t)
    \/ \E r \in Requests : GiveBack(t, r)
    \/ StatementRaises(t)

StatementsNext == (\E t \in Threads : Statement(t)) \/ Kill \/ Tick \/ Midnight

StatementsSpec == StatementsInit /\ [][StatementsNext]_callVars

-----------------------------------------------------------------------------
(* The inductive invariant: why the books are exact between calls *)

\* What a call keeps between its statements.
Asks     == [at : {"reset", "increment", "refuse", "hold"}, req : Requests,
             verdict : {"increment", "refuse"}, row : [Periods -> Int], stamp : Stamps]
Settles  == [at : {"adjust", "drop"}, req : Requests]
Cutoffs  == [at : {"cutoff"}, cutoff : Int]
Reclaims == [at : {"refund"}, cutoff : Int, given : SUBSET Requests, rows : SUBSET Requests]
Calls    == {Idle} \cup Asks \cup Settles \cup Cutoffs \cup Reclaims

StatementsTypeOK ==
    /\ LedgerTypeOK
    /\ limit_usd = BudgetLimits
    /\ holder \in Threads \cup {Nobody}
    /\ call \in [Threads -> Calls]
    /\ handler \in [Requests -> {"new", "asking", "open", "gone"}]
    /\ est \in [Requests -> Amounts]
    /\ torn \subseteq Keys \X Periods

\* No thread is between the statements of a call but the one with the lock.
OneInside == \A t \in Threads : holder = t <=> call[t].at \notin {"idle", "cutoff"}

\* Rows are written for the period their counter is in, which is not ahead of
\* the clock: a row is never of a period that a reset has yet to come to.
RowsInOrder ==
    /\ \A k \in Keys, p \in Periods : last_reset[k][p] <= calendar[p]
    /\ \A r \in Requests, p \in Periods :
          /\ reservations[r] # NoRow => reservations[r].stamp[p] <= last_reset[KeyOf[r]][p]
          /\ requests[r] # NoRow => requests[r].stamp[p] <= last_reset[KeyOf[r]][p]

\* A request has its rows after it asked, and its hold is what it asked for.
RowsAskedFor ==
    \A r \in Requests :
        /\ handler[r] \in {"new", "asking"} => reservations[r] = NoRow /\ requests[r] = NoRow
        /\ reservations[r] # NoRow => reservations[r].amount = est[r]

\* A reservation under way goes by a row that is still what the table holds.
AskSound(c) ==
    LET k == KeyOf[c.req] IN
    /\ handler[c.req] = "asking"
    /\ \A p \in Periods : last_reset[k][p] <= c.stamp[p] /\ c.stamp[p] <= calendar[p]
    /\ c.verdict = "increment" =>
          \A p \in Periods :
              BudgetLimits[k][p] # 0 => c.row[p] + est[c.req] <= BudgetLimits[k][p]
    /\ c.at = "reset" =>
          \A p \in Periods : c.row[p] = IF last_reset[k][p] # c.stamp[p] THEN 0 ELSE spend[k][p]
    /\ c.at # "reset" => last_reset[k] = c.stamp
    /\ c.at = "increment" => c.verdict = "increment" /\ spend[k] = c.row

\* A settlement under way has its bill, for the period its counter is in.
SettleSound(c) ==
    /\ handler[c.req] = "open"
    /\ requests[c.req] # NoRow
    /\ c.at = "adjust" => requests[c.req].stamp = last_reset[KeyOf[c.req]]

\* The holds a reclaim has listed are there until it deletes them.
ReclaimSound(c) ==
    /\ c.rows \cup c.given = OlderThan(c.cutoff)
    /\ c.rows \cap c.given = {}

CallsSound ==
    \A t \in Threads :
        /\ call[t] \in Asks => AskSound(call[t])
        /\ call[t] \in Settles => SettleSound(call[t])
        /\ call[t] \in Reclaims => ReclaimSound(call[t])

\* Requests whose amount is in the counters before their hold is in its table,
\* whose bill is in its table before its cost is in the counters, and whose hold
\* is in its table after the counters gave it back.
Counted(k) == {r \in Requests : KeyOf[r] = k
                 /\ \E t \in Threads : call[t].at = "hold" /\ call[t].req = r}
Uncharged  == {r \in Requests : \E t \in Threads : call[t].at = "adjust" /\ call[t].req = r}
Returned   == {r \in Requests : \E t \in Threads :
                 \/ call[t].at = "drop" /\ call[t].req = r
                 \/ call[t].at = "refund" /\ r \in call[t].given}

\* At every statement, the books are exact but for the one call under way.
BooksAtStatement ==
    \A k \in Keys, p \in Periods :
        <<k, p>> \notin adrift \cup torn =>
            spend[k][p] = Total(Paid(k, p) \ Uncharged, Cost, MaxAmount)
                            + Total(Held(k, p) \ Returned, Amount, MaxAmount)
                            + Total(Counted(k), est, MaxAmount)

StatementsInv ==
    /\ StatementsTypeOK
    /\ OneInside
    /\ RowsInOrder
    /\ RowsAskedFor
    /\ CallsSound
    /\ BooksAtStatement

-----------------------------------------------------------------------------
(* Correctness *)

\* Between calls the books are exact, whatever was cut short: a call that is
\* left half done is out by its key's counters, and only until they are next
\* reset (the statements of check_and_reserve_budget, record_request and
\* reclaim_stale_reservations, and the lock around them).
BooksUntorn ==
    holder = Nobody =>
        \A k \in Keys, p \in Periods :
            <<k, p>> \notin adrift \cup torn => spend[k][p] = PaidTotal(k, p) + HeldTotal(k, p)

\* What a reservation compared with its limit is what it increments: no
\* other call, and no midnight, comes between (check_and_reserve_budget).
CheckHoldsWhenUsed ==
    [][\A t \in Threads :
         call[t].at = "increment" /\ call'[t].at = "hold" =>
            LET k == KeyOf[call[t].req] IN
            \A p \in Periods : limit_usd[k][p] # 0 => spend'[k][p] <= limit_usd[k][p]
      ]_callVars
=============================================================================
