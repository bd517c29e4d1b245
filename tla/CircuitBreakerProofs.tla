----------------------- MODULE CircuitBreakerProofs -----------------------
(***************************************************************************)
(* The circuit breaker, for any number of requests and monitors, any       *)
(* threshold and cooldown, and every interleaving of their reads and       *)
(* writes.                                                                 *)
(***************************************************************************)
EXTENDS CircuitBreaker, TLAPS

USE BreakerAssumption

LEMMA BusyOrIdle ==
    ASSUME NEW o \in Busy \cup {Idle}
    PROVE  /\ o.call \in Calls => o \in Busy
           /\ o # Idle <=> o \in Busy
           /\ o = Idle => o.call \notin Calls
BY DEF Busy, Idle, Calls

LEMMA NewRowAgrees == \A t \in Nat : NewRow \in Rows /\ ColumnsAgree(NewRow, t)
BY DEF NewRow, Rows, States, ColumnsAgree

\* A row that agreed when it was read still does, and so does what is made
\* of it.
LEMMA AgreeLater ==
    ASSUME NEW w \in Rows, NEW t \in Nat, NEW u \in Nat, u >= t, ColumnsAgree(w, t)
    PROVE  ColumnsAgree(w, u)
BY DEF ColumnsAgree, CooledDown, Rows

LEMMA AskedAgrees ==
    ASSUME row \in Rows, ColumnsAgree(row, now), now \in Nat,
           NEW w \in Rows, ColumnsAgree(w, now)
    PROVE  Asked(w) \in Rows /\ ColumnsAgree(Asked(w), now)
<1>1. CASE Elapsed(w)
  <2>1. Asked(w) = [state |-> "HALF_OPEN", consecutive_failures |-> w.consecutive_failures,
                    last_failure_time |-> w.last_failure_time]
    BY <1>1 DEF Asked, Rows
  <2> QED
    BY <1>1, <2>1 DEF Elapsed, ColumnsAgree, CooledDown, Rows, States
<1>2. CASE ~Elapsed(w)
  BY <1>2 DEF Asked
<1> QED
  BY <1>1, <1>2

LEMMA FailedAgrees ==
    ASSUME NEW w \in Rows, NEW t \in Nat, ColumnsAgree(w, t), NEW time \in Nat
    PROVE  Failed(w, time) \in Rows /\ ColumnsAgree(Failed(w, time), t)
<1>1. w.consecutive_failures \in Nat /\ w.state \in States
  BY DEF Rows
<1>2. Increment(w.consecutive_failures) \in Nat
  BY <1>1 DEF Increment
<1>3. w.state # "CLOSED" => Increment(w.consecutive_failures) >= FailureThreshold
  BY <1>1 DEF ColumnsAgree, Increment, States
<1> QED
  BY <1>1, <1>2, <1>3 DEF Failed, ColumnsAgree, Rows, States

LEMMA InitInv == Init => IndInv
<1> SUFFICES ASSUME Init PROVE IndInv
  OBVIOUS
<1>1. TypeOK
  BY NewRowAgrees DEF Init, TypeOK, Phases
<1>2. RowAgrees
  BY NewRowAgrees DEF Init, RowAgrees
<1>3. \A a \in Agents : op[a] = Idle
  BY DEF Init
<1>4. \A r \in Requests : Calling(r)
  BY <1>3 DEF Init, Calling, Agents
<1> QED
  BY <1>1, <1>2, <1>3, <1>4 DEF IndInv

LEMMA ReadStep ==
    ASSUME IndInv, NEW a \in Agents, NEW call \in Calls, Read(a, call), UNCHANGED <<row, now>>
    PROVE  /\ op' \in [Agents -> Busy \cup {Idle}]
           /\ RowAgrees'
           /\ \A b \in Agents : op'[b] # Idle => ColumnsAgree(op'[b].seen, now')
<1> DEFINE busy == [call |-> call, seen |-> row, at |-> now]
<1>1. busy \in Busy /\ busy.seen = row
  BY DEF Busy, IndInv, TypeOK
<1>2. op' = [op EXCEPT ![a] = busy]
  BY DEF Read
<1> HIDE DEF busy
<1> QED
  BY <1>1, <1>2 DEF IndInv, TypeOK, RowAgrees

\* A step that ends an operation, leaving a row that agrees.
LEMMA EndStep ==
    ASSUME IndInv, NEW a \in Agents, op' = [op EXCEPT ![a] = Idle], UNCHANGED now,
           row' \in Rows, ColumnsAgree(row', now)
    PROVE  /\ op' \in [Agents -> Busy \cup {Idle}]
           /\ RowAgrees'
           /\ \A b \in Agents : op'[b] # Idle => ColumnsAgree(op'[b].seen, now')
BY DEF IndInv, TypeOK, RowAgrees

LEMMA WriteAgrees ==
    ASSUME IndInv, NEW a \in Agents, Write(a)
    PROVE  row' \in Rows /\ ColumnsAgree(row', now)
<1>0. now \in Nat
  BY DEF IndInv, TypeOK
<1>1. CASE op[a].call = "record_success" /\ row' = NewRow
  BY <1>0, <1>1, NewRowAgrees
<1>2. CASE /\ op[a].call = "record_failure"
           /\ \E time \in op[a].at..now : row' = Failed(op[a].seen, time)
  <2>1. op[a] \in Busy
    BY <1>2, BusyOrIdle DEF IndInv, TypeOK, Calls
  <2>2. op[a].seen \in Rows /\ ColumnsAgree(op[a].seen, now) /\ op[a].at \in Nat
    BY <2>1, BusyOrIdle DEF IndInv, TypeOK, Busy
  <2>3. PICK time \in op[a].at..now : row' = Failed(op[a].seen, time)
    BY <1>2
  <2>4. time \in Nat
    BY <2>2, <2>3
  <2> QED
    BY <1>0, <2>2, <2>3, <2>4, FailedAgrees
<1> QED
  BY <1>1, <1>2 DEF Write

LEMMA NextInv ==
    ASSUME IndInv, [Next]_vars
    PROVE  IndInv'
<1>1. TypeOK /\ Requests \subseteq Agents /\ Monitors \subseteq Agents
  BY DEF IndInv, Agents
<1>2. ASSUME NEW r \in Requests, Preflight(r) \/ Rank(r)
      PROVE  IndInv'
  <2>1. Read(r, "can_request") /\ UNCHANGED <<row, now, trial>> /\ r \in Agents
    BY <1>1, <1>2 DEF Preflight, Rank
  <2>2. /\ op' \in [Agents -> Busy \cup {Idle}]
        /\ RowAgrees'
        /\ \A b \in Agents : op'[b] # Idle => ColumnsAgree(op'[b].seen, now')
    BY <2>1, ReadStep DEF Calls
  <2>3. \A q \in Requests : Calling(q)'
    BY <1>1, <1>2 DEF IndInv, TypeOK, Calling, Read, Preflight, Rank
  <2>4. phase' \in [Requests -> Phases]
    BY <1>1, <1>2 DEF TypeOK, Preflight, Rank, Phases
  <2> QED
    BY <1>1, <2>1, <2>2, <2>3, <2>4 DEF IndInv, TypeOK
<1>3. ASSUME NEW r \in Requests, Priced(r) \/ LetThrough(r)
      PROVE  IndInv'
  <2>1. op[r] # Idle /\ op[r] \in Busy /\ r \in Agents
    BY <1>1, <1>3, BusyOrIdle DEF IndInv, TypeOK, Calling, Priced, LetThrough, Calls
  <2>2. row' \in Rows /\ ColumnsAgree(row', now)
    <3>1. op[r].seen \in Rows /\ ColumnsAgree(op[r].seen, now)
      BY <2>1 DEF IndInv, Busy
    <3>2. row' = Asked(op[r].seen)
      BY <1>3 DEF Priced, LetThrough
    <3> QED
      BY <1>1, <3>1, <3>2, AskedAgrees DEF IndInv, TypeOK, RowAgrees
  <2>3. op' = [op EXCEPT ![r] = Idle] /\ UNCHANGED now
    BY <1>3 DEF Priced, LetThrough
  <2>4. /\ op' \in [Agents -> Busy \cup {Idle}]
        /\ RowAgrees'
        /\ \A b \in Agents : op'[b] # Idle => ColumnsAgree(op'[b].seen, now')
    BY <2>1, <2>2, <2>3, EndStep
  <2>5. \A q \in Requests : Calling(q)'
    BY <1>1, <1>3, <2>3 DEF IndInv, TypeOK, Calling, Priced, LetThrough
  <2>6. phase' \in [Requests -> Phases] /\ trial' \subseteq Requests
    BY <1>1, <1>3 DEF TypeOK, Priced, LetThrough, Phases
  <2> QED
    BY <1>1, <2>2, <2>3, <2>4, <2>5, <2>6 DEF IndInv, TypeOK
<1>4. ASSUME NEW r \in Requests, Deny(r)
      PROVE  IndInv'
  <2>1. op' = [op EXCEPT ![r] = Idle] /\ UNCHANGED <<row, now>> /\ r \in Agents
    BY <1>1, <1>4 DEF Deny
  <2>2. /\ op' \in [Agents -> Busy \cup {Idle}]
        /\ RowAgrees'
        /\ \A b \in Agents : op'[b] # Idle => ColumnsAgree(op'[b].seen, now')
    BY <1>1, <2>1, EndStep DEF IndInv, TypeOK, RowAgrees
  <2>3. \A q \in Requests : Calling(q)'
    BY <1>1, <1>4, <2>1 DEF IndInv, TypeOK, Calling, Deny
  <2>4. phase' \in [Requests -> Phases] /\ trial' \subseteq Requests
    BY <1>1, <1>4 DEF TypeOK, Deny, Phases
  <2> QED
    BY <1>1, <2>1, <2>2, <2>3, <2>4 DEF IndInv, TypeOK
<1>5. ASSUME NEW r \in Requests, NEW outcome \in Outcomes, Report(r, outcome)
      PROVE  IndInv'
  <2>1. PICK call \in Reports(r, outcome) : Read(r, call)
    BY <1>5 DEF Report
  <2>2. call \in {"record_success", "record_failure"}
    BY DEF Reports, AllOutcomes
  <2>3. UNCHANGED <<row, now, trial>> /\ r \in Agents
    BY <1>1, <1>5 DEF Report
  <2>4. /\ op' \in [Agents -> Busy \cup {Idle}]
        /\ RowAgrees'
        /\ \A b \in Agents : op'[b] # Idle => ColumnsAgree(op'[b].seen, now')
    BY <2>1, <2>2, <2>3, ReadStep DEF Calls
  <2>5. \A q \in Requests : Calling(q)'
    BY <1>1, <1>5, <2>1, <2>2 DEF IndInv, TypeOK, Calling, Read, Report
  <2>6. phase' \in [Requests -> Phases]
    BY <1>1, <1>5 DEF TypeOK, Report, Phases
  <2> QED
    BY <1>1, <2>3, <2>4, <2>5, <2>6 DEF IndInv, TypeOK
<1>6. ASSUME NEW r \in Requests, NEW outcome \in Outcomes, StaySilent(r, outcome)
      PROVE  IndInv'
  <2>1. UNCHANGED <<row, now, op, trial>> /\ phase' \in [Requests -> Phases]
    BY <1>1, <1>6 DEF StaySilent, TypeOK, Phases
  <2>2. \A q \in Requests : Calling(q)'
    BY <1>1, <1>6 DEF IndInv, TypeOK, Calling, StaySilent
  <2> QED
    BY <1>1, <2>1, <2>2 DEF IndInv, TypeOK, RowAgrees
<1>7. ASSUME NEW r \in Requests, Reported(r)
      PROVE  IndInv'
  <2>1. row' \in Rows /\ ColumnsAgree(row', now) /\ r \in Agents
    BY <1>1, <1>7, WriteAgrees DEF Reported
  <2>2. op' = [op EXCEPT ![r] = Idle] /\ UNCHANGED <<now, trial>>
    BY <1>7 DEF Reported, Write
  <2>3. /\ op' \in [Agents -> Busy \cup {Idle}]
        /\ RowAgrees'
        /\ \A b \in Agents : op'[b] # Idle => ColumnsAgree(op'[b].seen, now')
    BY <2>1, <2>2, EndStep
  <2>4. \A q \in Requests : Calling(q)'
    BY <1>1, <1>7, <2>2 DEF IndInv, TypeOK, Calling, Reported
  <2>5. phase' \in [Requests -> Phases]
    BY <1>1, <1>7 DEF TypeOK, Reported, Phases
  <2> QED
    BY <1>1, <2>1, <2>2, <2>3, <2>4, <2>5 DEF IndInv, TypeOK
<1>8. ASSUME NEW r \in Requests, Again(r)
      PROVE  IndInv'
  <2>1. UNCHANGED <<row, now, op>> /\ trial' \subseteq Requests /\ phase' \in [Requests -> Phases]
    BY <1>1, <1>8 DEF Again, TypeOK, Phases
  <2>2. \A q \in Requests : Calling(q)'
    BY <1>1, <1>8 DEF IndInv, TypeOK, Calling, Again
  <2> QED
    BY <1>1, <2>1, <2>2 DEF IndInv, TypeOK, RowAgrees
<1>9. ASSUME NEW m \in Monitors, NEW healthy \in Health, Check(m, healthy)
      PROVE  IndInv'
  <2>1. PICK call \in Calls : Read(m, call)
    BY <1>9 DEF Check, Calls
  <2>2. UNCHANGED <<row, now, phase, trial>> /\ m \in Agents
    BY <1>1, <1>9 DEF Check
  <2>3. /\ op' \in [Agents -> Busy \cup {Idle}]
        /\ RowAgrees'
        /\ \A b \in Agents : op'[b] # Idle => ColumnsAgree(op'[b].seen, now')
    BY <2>1, <2>2, ReadStep
  <2>4. \A q \in Requests : Calling(q)'
    <3>1. \A q \in Requests : op'[q] = op[q]
      BY <1>1, <2>1 DEF Read, TypeOK
    <3> QED
      BY <2>2, <3>1 DEF IndInv, Calling
  <2> QED
    BY <1>1, <2>2, <2>3, <2>4 DEF IndInv, TypeOK
<1>10. ASSUME NEW m \in Monitors, Checked(m)
       PROVE  IndInv'
  <2>1. row' \in Rows /\ ColumnsAgree(row', now) /\ m \in Agents
    BY <1>1, <1>10, WriteAgrees DEF Checked
  <2>2. op' = [op EXCEPT ![m] = Idle] /\ UNCHANGED <<now, phase, trial>>
    BY <1>10 DEF Checked, Write
  <2>3. /\ op' \in [Agents -> Busy \cup {Idle}]
        /\ RowAgrees'
        /\ \A b \in Agents : op'[b] # Idle => ColumnsAgree(op'[b].seen, now')
    BY <2>1, <2>2, EndStep
  <2>4. \A q \in Requests : Calling(q)'
    <3>1. \A q \in Requests : op'[q] = op[q]
      BY <1>1, <2>2 DEF TypeOK
    <3> QED
      BY <2>2, <3>1 DEF IndInv, Calling
  <2> QED
    BY <1>1, <2>1, <2>2, <2>3, <2>4 DEF IndInv, TypeOK
<1>11. CASE Tick
  <2>1. now \in Nat /\ now' \in Nat /\ now' >= now /\ UNCHANGED <<row, phase, op, trial>>
    BY <1>1, <1>11 DEF Tick, TypeOK
  <2>2. RowAgrees'
    BY <1>1, <2>1, AgreeLater DEF IndInv, RowAgrees, TypeOK
  <2>3. ASSUME NEW a \in Agents, op'[a] # Idle
        PROVE  ColumnsAgree(op'[a].seen, now')
    <3>1. op[a].seen \in Rows /\ ColumnsAgree(op[a].seen, now)
      BY <1>1, <2>1, <2>3, BusyOrIdle DEF IndInv, TypeOK, Busy
    <3> QED
      BY <2>1, <3>1, AgreeLater
  <2>4. \A q \in Requests : Calling(q)'
    BY <2>1 DEF IndInv, Calling
  <2> QED
    BY <1>1, <2>1, <2>2, <2>3, <2>4 DEF IndInv, TypeOK
<1>12. CASE UNCHANGED vars
  BY <1>1, <1>12 DEF vars, IndInv, TypeOK, RowAgrees, Calling
<1> QED
  BY <1>2, <1>3, <1>4, <1>5, <1>6, <1>7, <1>8, <1>9, <1>10, <1>11, <1>12
     DEF Next, Ask, Answer

\* What an agent has read agrees, still does when it writes, and an agent writes
\* only from the place of the code that does: the row and the agents' views stay
\* related as IndInv says.
THEOREM BreakerInvariant == Spec => []IndInv
<1>1. Init => IndInv
  BY InitInv
<1>2. IndInv /\ [Next]_vars => IndInv'
  BY NextInv
<1> QED
  BY <1>1, <1>2, PTL DEF Spec

\* The row and the operations under way keep their types.
THEOREM BreakerTypeCorrect == Spec => []TypeOK
<1>1. IndInv => TypeOK
  BY DEF IndInv
<1> QED
  BY <1>1, BreakerInvariant, PTL

\* In every state the breaker's columns agree: no interleaving of reads and
\* writes leaves an open breaker below its threshold, a closed one above it, or
\* a half-open one that has not cooled down.
THEOREM ColumnsAlwaysAgree == Spec => []RowAgrees
<1>1. IndInv => RowAgrees
  BY DEF IndInv
<1> QED
  BY <1>1, BreakerInvariant, PTL
=============================================================================
