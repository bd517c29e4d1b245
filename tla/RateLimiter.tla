----------------------------- MODULE RateLimiter -----------------------------
(***************************************************************************)
(* check_rate_limit (gateway/ledger/store.py), which verify_api_key        *)
(* (gateway/auth.py) awaits for every request, for one client's key.       *)
(*                                                                         *)
(* A call runs in a thread of its process: it takes the time, waits for    *)
(* _write_lock, prunes the log, counts it, reads the limit and inserts its *)
(* row.  The connection is in autocommit mode, so with a second process on *)
(* the same file, whose lock is its own, each statement stands alone.      *)
(***************************************************************************)
EXTENDS Integers, FiniteSets

CONSTANTS
    Callers,    \* the requests made with the key
    Processes,  \* gateway processes on one ledger
    home,       \* the process that serves each of them
    Limits,     \* values requests_per_minute may take
    MostRPM,    \* the largest of them
    Minute,     \* the window, 60 seconds in the code
    MaxWait,    \* longest time between a call's time.time() and its last statement
    MaxTime,    \* bound on the clock
    Unlocked    \* nobody holds the lock

ASSUME LimiterAssumption ==
    /\ IsFiniteSet(Callers)
    /\ home \in [Callers -> Processes]
    /\ Limits \subseteq Int /\ Limits # {}
    /\ MostRPM \in Nat /\ \A l \in Limits : l <= MostRPM
    /\ Minute \in Nat
    /\ MaxWait \in 0..Minute
    /\ MaxTime \in Nat
    /\ Unlocked \notin Callers

VARIABLES
    clock,  \* time.time()
    limit,  \* budgets.requests_per_minute of the key
    rows,   \* rate_limit_log: the callers whose row is in it, at their stamp
    lock,   \* _write_lock of each process
    step,   \* where each call is
    stamp,  \* its now
    count   \* its count

limiterVars == <<clock, limit, rows, lock, step, stamp, count>>

LimiterInit ==
    /\ clock = 0
    /\ limit \in Limits
    /\ rows = {}
    /\ lock = [p \in Processes |-> Unlocked]
    /\ step = [c \in Callers |-> "new"]
    /\ stamp = [c \in Callers |-> 0]
    /\ count = [c \in Callers |-> 0]

Waiting(c) == step[c] \in {"stamped", "pruned", "counted"}

\* Rows of the window that ends at c's stamp.  Others may be younger than c.
Recent(c) == {d \in rows : stamp[d] >= stamp[c] - Minute}

-----------------------------------------------------------------------------

Arrive(c) ==
    /\ step[c] = "new"
    /\ step' = [step EXCEPT ![c] = "stamped"]
    /\ stamp' = [stamp EXCEPT ![c] = clock]
    /\ UNCHANGED <<clock, limit, rows, lock, count>>

\* Mutant: rows are pruned as soon as they are as old as half the window.
PrunedEarly(c) == {d \in rows : stamp[d] >= stamp[c] - Minute \div 2}

Pruned(c) == Recent(c)

Prune(c) ==
    /\ step[c] = "stamped"
    /\ lock[home[c]] = Unlocked
    /\ lock' = [lock EXCEPT ![home[c]] = c]
    /\ rows' = Pruned(c)
    /\ step' = [step EXCEPT ![c] = "pruned"]
    /\ UNCHANGED <<clock, limit, stamp, count>>

Count(c) ==
    /\ step[c] = "pruned"
    /\ count' = [count EXCEPT ![c] = Cardinality(Recent(c))]
    /\ step' = [step EXCEPT ![c] = "counted"]
    /\ UNCHANGED <<clock, limit, rows, lock, stamp>>

\* Mutant: the limit itself is let through once more.
FullAbove(c) == count[c] > limit

Full(c) == count[c] >= limit

Release(c) == lock' = [lock EXCEPT ![home[c]] = Unlocked]

AdmitCaller(c) ==
    /\ step[c] = "counted"
    /\ ~Full(c)
    /\ rows' = rows \cup {c}
    /\ step' = [step EXCEPT ![c] = "admitted"]
    /\ Release(c)
    /\ UNCHANGED <<clock, limit, stamp, count>>

\* Mutant: a refused call leaves a row too.
RowsWithRefused(c) == rows \cup {c}

RowsAfterRefusal(c) == rows

\* HTTP 429
RefuseCaller(c) ==
    /\ step[c] = "counted"
    /\ Full(c)
    /\ rows' = RowsAfterRefusal(c)
    /\ step' = [step EXCEPT ![c] = "refused"]
    /\ Release(c)
    /\ UNCHANGED <<clock, limit, stamp, count>>

\* A statement raises, for instance because another process has the file
\* locked: the request ends in an error, after what was executed before.
StatementFails(c) ==
    /\ step[c] \in {"pruned", "counted"}
    /\ step' = [step EXCEPT ![c] = "failed"]
    /\ Release(c)
    /\ UNCHANGED <<clock, limit, rows, stamp, count>>

\* PATCH of the budget, or a reload of the configuration
ChangeLimit(p) ==
    /\ lock[p] = Unlocked
    /\ limit' \in Limits \ {limit}
    /\ UNCHANGED <<clock, rows, lock, step, stamp, count>>

\* The process is killed and started again: the log outlives it.
RestartProcess(p) ==
    /\ \E c \in Callers : home[c] = p /\ Waiting(c)
    /\ step' = [c \in Callers |-> IF home[c] = p /\ Waiting(c) THEN "failed" ELSE step[c]]
    /\ lock' = [lock EXCEPT ![p] = Unlocked]
    /\ UNCHANGED <<clock, limit, rows, stamp, count>>

Second ==
    /\ clock < MaxTime
    /\ \A c \in Callers : Waiting(c) => clock < stamp[c] + MaxWait
    /\ clock' = clock + 1
    /\ UNCHANGED <<limit, rows, lock, step, stamp, count>>

LimiterNext ==
    \/ \E c \in Callers : \/ Arrive(c) \/ Prune(c) \/ Count(c)
                          \/ AdmitCaller(c) \/ RefuseCaller(c) \/ StatementFails(c)
    \/ \E p \in Processes : ChangeLimit(p) \/ RestartProcess(p)
    \/ Second

LimiterSpec == LimiterInit /\ [][LimiterNext]_limiterVars

-----------------------------------------------------------------------------
(* Correctness *)

LimiterTypeOK ==
    /\ clock \in Nat
    /\ limit \in Limits
    /\ rows \subseteq Callers
    /\ lock \in [Processes -> Callers \cup {Unlocked}]
    /\ step \in [Callers -> {"new", "stamped", "pruned", "counted", "admitted",
                             "refused", "failed"}]
    /\ stamp \in [Callers -> Nat]
    /\ count \in [Callers -> Nat]

LetThrough == {c \in Callers : step[c] = "admitted"}

\* The lock is held by the call that is between two of its statements.
LockHeld ==
    \A c \in Callers : step[c] \in {"pruned", "counted"} <=> lock[home[c]] = c

\* The log has rows of admitted calls only, and misses only those that no
\* call to come can count.
LogIsRecent ==
    /\ rows \subseteq LetThrough
    /\ \A d \in LetThrough \ rows : stamp[d] < clock - Minute

\* A call's time is not in the future, and is not older than MaxWait while the
\* call is under way.
StampsAreRecent ==
    \A c \in Callers :
        /\ stamp[c] <= clock
        /\ Waiting(c) => clock <= stamp[c] + MaxWait

\* What a call has counted is still so when it compares it.
CountHolds == \A c \in Callers : step[c] = "counted" => count[c] = Cardinality(Recent(c))

\* The clock behind the stamps is read before the lock is waited for, so that
\* stamps reach the log out of order and a late one is counted from its own
\* past: windows are exact up to the longest wait.
Span == Minute - MaxWait

WindowAfter(c) == {d \in LetThrough : stamp[c] <= stamp[d] /\ stamp[d] <= stamp[c] + Span}

WindowsBounded == \A c \in LetThrough : Cardinality(WindowAfter(c)) <= MostRPM

\* The inductive invariant, for one process.
LimiterInv ==
    /\ LimiterTypeOK
    /\ LockHeld
    /\ LogIsRecent
    /\ StampsAreRecent
    /\ CountHolds
    /\ WindowsBounded

letThroughAt == [c \in Callers |-> IF c \in LetThrough THEN stamp[c] ELSE -1]

View == INSTANCE SlidingWindow WITH
    Requests <- Callers,
    Most     <- MostRPM,
    NotYet   <- -1,
    at       <- letThroughAt

\* The limiter keeps the promise of a sliding window, with calls waiting for the
\* lock, limits changed under them, statements that fail and restarts
\* (_check_rate_limit_sync).
ImplementsSlidingWindow == View!WindowSpec

\* A client is turned away only over requests that were answered: one that
\* polls while it is refused does not keep itself out (_check_rate_limit_sync
\* inserts after the comparison).
RefusedOverAnswered ==
    [][\A c \in Callers :
         step'[c] = "refused" /\ step[c] # "refused" =>
            Cardinality({d \in LetThrough : stamp[d] >= stamp[c] - Minute}) >= limit
      ]_limiterVars
=============================================================================
