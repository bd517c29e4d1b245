-------------------------- MODULE CircuitBreaker --------------------------
(***************************************************************************)
(* The circuit breaker of one backend (gateway/policy/circuit_breaker.py)  *)
(* and everybody who uses it: requests, which ask it twice (the preflight  *)
(* ranking that prices the hold, then the ranking of router.execute or     *)
(* execute_stream) and report how their call went; and monitors (the       *)
(* health loop, GET /health/backends, the admin reset), which report       *)
(* without asking.                                                         *)
(*                                                                         *)
(* The breaker lives in a database row.  Every operation reads the row,    *)
(* awaits, decides, and writes the whole row back; nothing keeps another   *)
(* operation from running in between.                                      *)
(***************************************************************************)
EXTENDS Integers

CONSTANTS
    Requests,          \* requests in flight at a time
    Streaming,         \* those with "stream": true
    Monitors,          \* health loop, health endpoint, admin reset
    FailureThreshold,  \* failure_threshold
    Cooldown,          \* cooldown_period_sec
    Outcomes,          \* what a call of the backend may come to
    Health,            \* what a health check may find
    MaxFailures,       \* consecutive_failures is counted up to here
    MaxTime            \* bound on the clock

AllOutcomes == {"answered", "broken", "throttled", "unreported"}

ASSUME BreakerAssumption ==
    /\ Streaming \subseteq Requests
    /\ Requests \cap Monitors = {}
    /\ FailureThreshold \in Nat \ {0}
    /\ Cooldown \in Nat
    /\ Outcomes \subseteq AllOutcomes
    /\ Health \subseteq BOOLEAN
    /\ MaxFailures \in Nat /\ MaxFailures >= FailureThreshold
    /\ MaxTime \in Nat

VARIABLES
    row,    \* circuit_breakers[backend_id]; no row reads as NewRow
    now,    \* time.time()
    phase,  \* where each request is
    op,     \* the breaker operation an agent is in the middle of
    trial   \* history: the requests that half-opened the breaker by their last
            \* question, or by the one before if half-open was the last answer

vars == <<row, now, phase, op, trial>>

Agents == Requests \cup Monitors
States == {"CLOSED", "OPEN", "HALF_OPEN"}
Rows   == [state : States, consecutive_failures : Nat, last_failure_time : Nat]
NewRow == [state |-> "CLOSED", consecutive_failures |-> 0, last_failure_time |-> 0]

Calls  == {"can_request", "record_success", "record_failure"}
Phases == {"new", "preflight", "priced", "ranking", "calling", "reporting", "served", "denied"}
Idle   == [call |-> "none"]
Busy   == [call : Calls, seen : Rows, at : Nat]

TypeOK ==
    /\ row \in Rows
    /\ now \in Nat
    /\ phase \in [Requests -> Phases]
    /\ op \in [Agents -> Busy \cup {Idle}]
    /\ trial \subseteq Requests

Init ==
    /\ row = NewRow
    /\ now = 0
    /\ phase = [r \in Requests |-> "new"]
    /\ op = [a \in Agents |-> Idle]
    /\ trial = {}

-----------------------------------------------------------------------------
(* The breaker: _get_state, then what the operation decides *)

Read(a, call) ==
    /\ op[a] = Idle
    /\ op' = [op EXCEPT ![a] = [call |-> call, seen |-> row, at |-> now]]

CooledDown(seen, time) == time - seen.last_failure_time >= Cooldown

\* Mutant: an open breaker half-opens at the first question.
ElapsedAtOnce(seen) == seen.state = "OPEN"

Elapsed(seen) == seen.state = "OPEN" /\ CooledDown(seen, now)

Allows(seen) == seen.state = "CLOSED" \/ Elapsed(seen)

\* The row that can_request leaves.
Asked(seen) == IF Elapsed(seen) THEN [seen EXCEPT !.state = "HALF_OPEN"] ELSE row

\* The code counts on, but only ever asks whether the threshold is reached.
Increment(failures) == IF failures < MaxFailures THEN failures + 1 ELSE failures

\* Mutants: the threshold is to be exceeded; a failure that does not open the
\* breaker is not saved; a failed trial leaves the breaker half-open.
FailedLate(seen, time) ==
    LET failures == Increment(seen.consecutive_failures) IN
    [state |-> IF seen.state = "HALF_OPEN" \/ failures > FailureThreshold
               THEN "OPEN" ELSE seen.state,
     consecutive_failures |-> failures,
     last_failure_time |-> time]

FailedUncounted(seen, time) ==
    IF Increment(seen.consecutive_failures) < FailureThreshold THEN seen
    ELSE [seen EXCEPT !.state = "OPEN", !.last_failure_time = time]

FailedTrialStays(seen, time) ==
    LET failures == Increment(seen.consecutive_failures) IN
    [state |-> IF seen.state = "CLOSED" /\ failures >= FailureThreshold
               THEN "OPEN" ELSE seen.state,
     consecutive_failures |-> failures,
     last_failure_time |-> time]

Failed(seen, time) ==
    LET failures == Increment(seen.consecutive_failures) IN
    [state |-> IF seen.state = "HALF_OPEN" \/ failures >= FailureThreshold
               THEN "OPEN" ELSE seen.state,
     consecutive_failures |-> failures,
     last_failure_time |-> time]

-----------------------------------------------------------------------------
(* Requests *)

\* main.py prices the hold with the backends that get_ranked_adapters offers.
Preflight(r) ==
    /\ phase[r] = "new"
    /\ Read(r, "can_request")
    /\ phase' = [phase EXCEPT ![r] = "preflight"]
    /\ UNCHANGED <<row, now, trial>>

\* Whatever the answer: with no backend the hold is zero.
Priced(r) ==
    /\ phase[r] = "preflight"
    /\ row' = Asked(op[r].seen)
    /\ trial' = IF Elapsed(op[r].seen) THEN trial \cup {r} ELSE trial
    /\ op' = [op EXCEPT ![r] = Idle]
    /\ phase' = [phase EXCEPT ![r] = "priced"]
    /\ UNCHANGED now

\* execute and execute_stream rank again.
Rank(r) ==
    /\ phase[r] = "priced"
    /\ Read(r, "can_request")
    /\ phase' = [phase EXCEPT ![r] = "ranking"]
    /\ UNCHANGED <<row, now, trial>>

LetThrough(r) ==
    /\ phase[r] = "ranking"
    /\ Allows(op[r].seen)
    /\ row' = Asked(op[r].seen)
    /\ trial' = IF Elapsed(op[r].seen) THEN trial \cup {r} ELSE trial \ {r}
    /\ op' = [op EXCEPT ![r] = Idle]
    /\ phase' = [phase EXCEPT ![r] = "calling"]
    /\ UNCHANGED now

Deny(r) ==
    /\ phase[r] = "ranking"
    /\ ~Allows(op[r].seen)
    /\ op' = [op EXCEPT ![r] = Idle]
    /\ phase' = [phase EXCEPT ![r] = "denied"]
    /\ trial' = IF op[r].seen.state = "HALF_OPEN" THEN trial ELSE trial \ {r}
    /\ UNCHANGED <<row, now>>

\* The last attempt of a call that is not streamed, or a stream's start and
\* end.  A stream's start counts any exception; execute does not count a 429.
\* Nobody reports a call that was never made because another backend served or
\* the deadline passed first, nor a stream that broke or was abandoned after
\* its first chunk.
Reports(r, outcome) ==
    CASE outcome = "answered"   -> {"record_success"}
      [] outcome = "broken"     -> {"record_failure"}
      [] outcome = "throttled"  -> IF r \in Streaming THEN {"record_failure"} ELSE {}
      [] outcome = "unreported" -> {}

Report(r, outcome) ==
    /\ phase[r] = "calling"
    /\ \E call \in Reports(r, outcome) : Read(r, call)
    /\ phase' = [phase EXCEPT ![r] = "reporting"]
    /\ UNCHANGED <<row, now, trial>>

StaySilent(r, outcome) ==
    /\ phase[r] = "calling"
    /\ Reports(r, outcome) = {}
    /\ phase' = [phase EXCEPT ![r] = "served"]
    /\ UNCHANGED <<row, now, op, trial>>

\* Mutant: a success closes the breaker only when it was half-open.
WriteAfterTrial(a) ==
    /\ \/ /\ op[a].call = "record_success"
          /\ row' = IF op[a].seen.state = "HALF_OPEN" THEN NewRow ELSE row
       \/ /\ op[a].call = "record_failure"
          /\ \E time \in op[a].at..now : row' = Failed(op[a].seen, time)
    /\ op' = [op EXCEPT ![a] = Idle]

\* The write of record_success or record_failure.
Write(a) ==
    /\ \/ /\ op[a].call = "record_success"
          /\ row' = NewRow
       \/ /\ op[a].call = "record_failure"
          /\ \E time \in op[a].at..now : row' = Failed(op[a].seen, time)
    /\ op' = [op EXCEPT ![a] = Idle]

Reported(r) ==
    /\ phase[r] = "reporting"
    /\ Write(r)
    /\ phase' = [phase EXCEPT ![r] = "served"]
    /\ UNCHANGED <<now, trial>>

\* The client's next request.
Again(r) ==
    /\ phase[r] \in {"served", "denied"}
    /\ phase' = [phase EXCEPT ![r] = "new"]
    /\ trial' = trial \ {r}
    /\ UNCHANGED <<row, now, op>>

-----------------------------------------------------------------------------
(* Monitors, and the clock *)

Check(m, healthy) ==
    /\ Read(m, IF healthy THEN "record_success" ELSE "record_failure")
    /\ UNCHANGED <<row, now, phase, trial>>

Checked(m) ==
    /\ op[m] # Idle
    /\ Write(m)
    /\ UNCHANGED <<now, phase, trial>>

Tick ==
    /\ now < MaxTime
    /\ now' = now + 1
    /\ UNCHANGED <<row, phase, op, trial>>

-----------------------------------------------------------------------------

Ask(r) == Preflight(r) \/ Priced(r) \/ Rank(r) \/ LetThrough(r) \/ Deny(r)

Answer(r) == \/ \E outcome \in Outcomes : Report(r, outcome) \/ StaySilent(r, outcome)
             \/ Reported(r)

Next ==
    \/ \E r \in Requests : Ask(r) \/ Answer(r) \/ Again(r)
    \/ \E m \in Monitors : (\E healthy \in Health : Check(m, healthy)) \/ Checked(m)
    \/ Tick

Spec == Init /\ [][Next]_vars

(***************************************************************************)
(* Fairness.  Requests and database threads run on, clients keep sending,  *)
(* and the health loop comes round every minute.  Whether a backend        *)
(* answers, and when the clock moves, is left open.                        *)
(***************************************************************************)
Fairness ==
    /\ \A r \in Requests : WF_vars(Ask(r)) /\ WF_vars(Answer(r)) /\ WF_vars(Again(r))
    /\ \A m \in Monitors : /\ WF_vars(\E healthy \in Health : Check(m, healthy))
                           /\ WF_vars(Checked(m))

FairSpec == Spec /\ Fairness

-----------------------------------------------------------------------------
(* Correctness *)

\* The columns of a row agree, although every write puts back columns read
\* earlier: a breaker is closed exactly when it counts fewer failures than the
\* threshold, and a half-open one has cooled down since the last of them.
ColumnsAgree(w, time) ==
    /\ w.state = "CLOSED" <=> w.consecutive_failures < FailureThreshold
    /\ w.state = "HALF_OPEN" => CooledDown(w, time)

RowAgrees == ColumnsAgree(row, now)

\* What keeps them so: what an agent has read agrees too, and it writes only what
\* its place in the code has it write.
Calling(r) ==
    CASE phase[r] \in {"preflight", "ranking"} -> op[r].call = "can_request"
      [] phase[r] = "reporting" -> op[r].call \in {"record_success", "record_failure"}
      [] OTHER -> op[r] = Idle

IndInv ==
    /\ TypeOK
    /\ RowAgrees
    /\ \A a \in Agents : op[a] # Idle => ColumnsAgree(op[a].seen, now)
    /\ \A r \in Requests : Calling(r)

\* The steps that write a report.
Fails    == \E a \in Agents : op[a].call = "record_failure" /\ op'[a] = Idle
Succeeds == \E a \in Agents : op[a].call = "record_success" /\ op'[a] = Idle

\* A backend of which only failures are reported is out of service for good:
\* failures are lost between a read and a write, and a late one may even close an
\* open breaker, but not again and again.
Trips ==
    []<><<Fails>>_vars /\ <>[][~Succeeds]_vars => <>[](row.state # "CLOSED")

\* A half-open breaker does not stay so, although its trial request may end
\* without a report: the health loop settles it.
HalfOpenResolves == row.state = "HALF_OPEN" ~> row.state # "HALF_OPEN"

\* A backend of which only successes are reported is back in service for good,
\* although requests may half-open it once more by a row read before it recovered.
Recovers ==
    []<><<Succeeds>>_vars /\ <>[][~Fails]_vars => <>[](row.state = "CLOSED")

-----------------------------------------------------------------------------
(* What comments of the code say, and the runs refute *)

\* circuit_breaker.py:14: half-open means "1 request allowed through": the
\* request whose question half-opened the breaker is not the one denied.
TrialGoesThrough == \A r \in trial : phase[r] # "denied"
=============================================================================
