----------------------- MODULE LedgerStatementsProofs -----------------------
(***************************************************************************)
(* The ledger's calls statement by statement, for every number of threads, *)
(* keys and requests and every bound: between calls the books are exact,   *)
(* whatever was cut short, and a reservation is judged by the counters it  *)
(* goes on to increment.  The inductive invariant is StatementsInv.        *)
(***************************************************************************)
EXTENDS LedgerStatements, TallyProofs

USE LedgerAssumption, StatementsAssumption

-----------------------------------------------------------------------------
(* What a call is, by the place it is at *)

LEMMA CallShape ==
    ASSUME NEW c \in Calls
    PROVE  /\ c.at \in {"idle", "cutoff", "reset", "increment", "refuse", "hold",
                        "adjust", "drop", "refund"}
           /\ c.at \in {"reset", "increment", "refuse", "hold"} <=> c \in Asks
           /\ c.at \in {"adjust", "drop"} <=> c \in Settles
           /\ c.at = "cutoff" <=> c \in Cutoffs
           /\ c.at = "refund" <=> c \in Reclaims
           /\ c.at = "idle" <=> c = Idle
<1>1. CASE c = Idle
  BY <1>1 DEF Idle, Asks, Settles, Cutoffs, Reclaims
<1>2. CASE c \in Asks
  BY <1>2 DEF Idle, Asks, Settles, Cutoffs, Reclaims
<1>3. CASE c \in Settles
  BY <1>3 DEF Idle, Asks, Settles, Cutoffs, Reclaims
<1>4. CASE c \in Cutoffs
  BY <1>4 DEF Idle, Asks, Settles, Cutoffs, Reclaims
<1>5. CASE c \in Reclaims
  BY <1>5 DEF Idle, Asks, Settles, Cutoffs, Reclaims
<1> QED
  BY <1>1, <1>2, <1>3, <1>4, <1>5 DEF Calls

LEMMA AskParts ==
    ASSUME NEW c \in Asks
    PROVE  /\ c.req \in Requests
           /\ c.verdict \in {"increment", "refuse"}
           /\ c.row \in [Periods -> Int]
           /\ c.stamp \in Stamps
BY DEF Asks

LEMMA AskMoved ==
    ASSUME NEW c \in Asks, NEW place \in {"reset", "increment", "refuse", "hold"},
           NEW d, d = [c EXCEPT !.at = place]
    PROVE  /\ d \in Asks
           /\ d.at = place /\ d.req = c.req /\ d.verdict = c.verdict
           /\ d.row = c.row /\ d.stamp = c.stamp
BY DEF Asks

LEMMA SettleParts ==
    ASSUME NEW c \in Settles
    PROVE  c.req \in Requests
BY DEF Settles

LEMMA SettleMoved ==
    ASSUME NEW c \in Settles, NEW d, d = [c EXCEPT !.at = "drop"]
    PROVE  d \in Settles /\ d.at = "drop" /\ d.req = c.req
BY DEF Settles

LEMMA ReclaimParts ==
    ASSUME NEW c \in Reclaims
    PROVE  /\ c.cutoff \in Int
           /\ c.given \in SUBSET Requests
           /\ c.rows \in SUBSET Requests
BY DEF Reclaims

LEMMA ReclaimMoved ==
    ASSUME NEW c \in Reclaims, NEW r \in Requests,
           NEW d, d = [c EXCEPT !.rows = @ \ {r}, !.given = @ \cup {r}]
    PROVE  /\ d \in Reclaims
           /\ d.at = "refund" /\ d.cutoff = c.cutoff
           /\ d.given = c.given \cup {r} /\ d.rows = c.rows \ {r}
BY DEF Reclaims

-----------------------------------------------------------------------------
(* Types *)

LEMMA InitType == StatementsInit => StatementsTypeOK
<1> SUFFICES ASSUME StatementsInit PROVE StatementsTypeOK
  OBVIOUS
<1>1. last_reset \in [Keys -> Stamps]
  BY DEF StatementsInit, LedgerInit, Stamps, Never
<1>2. LedgerTypeOK
  BY <1>1 DEF StatementsInit, LedgerInit, LedgerTypeOK
<1> QED
  BY <1>2 DEF StatementsInit, LedgerInit, StatementsTypeOK, Calls, Amounts

\* The stamps and counters a check computes.
LEMMA CheckedRow ==
    ASSUME LedgerTypeOK, NEW k \in Keys
    PROVE  calendar \in Stamps /\ SpendAfterReset(k) \in [Periods -> Int]
BY DEF LedgerTypeOK, Stamps, SpendAfterReset

LEMMA StatementType ==
    ASSUME StatementsTypeOK, CallsSound, NEW t \in Threads, Statement(t)
    PROVE  StatementsTypeOK'
<1> USE DEF StatementsTypeOK
<1> DEFINE c == call[t]
<1>0. /\ c \in Calls
      /\ \A d \in Calls : [call EXCEPT ![t] = d] \in [Threads -> Calls]
      /\ Idle \in Calls
      /\ Asks \cup Settles \cup Cutoffs \cup Reclaims \subseteq Calls
  BY DEF Calls
<1>1. ASSUME NEW r \in Requests, NEW amount \in Amounts, SelectBudget(t, r, amount)
      PROVE  StatementsTypeOK'
  <2> DEFINE k == KeyOf[r]
  <2>1. calendar \in Stamps /\ SpendAfterReset(k) \in [Periods -> Int]
    BY CheckedRow
  <2>2. \A place \in {"reset", "increment", "refuse"}, v \in {"increment", "refuse"} :
           [at |-> place, req |-> r, verdict |-> v,
            row |-> SpendAfterReset(k), stamp |-> calendar] \in Asks
    BY <2>1 DEF Asks
  <2>3. PICK d \in Asks : holder' = t /\ call' = [call EXCEPT ![t] = d]
    BY <1>1, <2>2 DEF SelectBudget, Enter, Verdict
  <2> QED
    BY <1>0, <1>1, <2>3 DEF SelectBudget, ledgerVars, budgets, LedgerTypeOK
<1>2. ASSUME NEW r \in Requests, NEW cost \in Amounts, InsertBill(t, r, cost)
      PROVE  StatementsTypeOK'
  <2>1. [cost |-> cost, stamp |-> last_reset[KeyOf[r]]] \in Bills
    BY DEF Bills, LedgerTypeOK
  <2>2. requests' \in [Requests -> Bills \cup {NoRow}]
    BY <1>2, <2>1 DEF InsertBill, LedgerTypeOK
  <2>3. [at |-> "adjust", req |-> r] \in Calls
    BY DEF Settles, Calls
  <2> QED
    BY <1>0, <1>2, <2>2, <2>3 DEF InsertBill, Enter, budgets, LedgerTypeOK
<1>3. ASSUME ResetRow(t)
      PROVE  StatementsTypeOK'
  <2>1. c \in Asks
    BY <1>0, <1>3, CallShape DEF ResetRow
  <2>2. KeyOf[c.req] \in Keys /\ c.row \in [Periods -> Int] /\ c.stamp \in Stamps
    BY <2>1, AskParts
  <2>3. spend' \in [Keys -> [Periods -> Int]] /\ last_reset' \in [Keys -> Stamps]
    BY <1>3, <2>2 DEF ResetRow, LedgerTypeOK
  <2>4. [c EXCEPT !.at = c.verdict] \in Calls
    BY <1>0, <2>1, AskParts, AskMoved
  <2>5. call' \in [Threads -> Calls] /\ holder' = holder
    BY <1>0, <1>3, <2>4 DEF ResetRow, GoOn
  <2>6. adrift' \subseteq Keys \X Periods /\ torn' \subseteq Keys \X Periods
    BY <1>3 DEF ResetRow, LedgerTypeOK
  <2>7. UNCHANGED <<limit_usd, requests, reservations, now, calendar, handler, est>>
    BY <1>3 DEF ResetRow
  <2> QED
    BY <2>3, <2>5, <2>6, <2>7 DEF LedgerTypeOK
<1>4. ASSUME Increment(t)
      PROVE  StatementsTypeOK'
  <2>1. c \in Asks
    BY <1>0, <1>4, CallShape DEF Increment
  <2>2. c.req \in Requests /\ KeyOf[c.req] \in Keys /\ est[c.req] \in Int
    BY <2>1, AskParts DEF Amounts
  <2>3. spend' \in [Keys -> [Periods -> Int]]
    BY <1>4, <2>2 DEF Increment, LedgerTypeOK
  <2>4. [c EXCEPT !.at = "hold"] \in Calls
    BY <1>0, <2>1, AskMoved
  <2> QED
    BY <1>0, <1>4, <2>3, <2>4 DEF Increment, GoOn, LedgerTypeOK
<1>5. ASSUME InsertHold(t)
      PROVE  StatementsTypeOK'
  <2>1. c \in Asks
    BY <1>0, <1>5, CallShape DEF InsertHold
  <2>2. c.req \in Requests /\ c.stamp \in Stamps
    BY <2>1, AskParts
  <2>3. [amount |-> est[c.req], stamp |-> c.stamp, reserved_at |-> now] \in Holds
    BY <2>2 DEF Holds, LedgerTypeOK
  <2>4. reservations' \in [Requests -> Holds \cup {NoRow}]
    BY <1>5, <2>3 DEF InsertHold, LedgerTypeOK
  <2> QED
    BY <1>0, <1>5, <2>2, <2>4 DEF InsertHold, Return, budgets, LedgerTypeOK
<1>6. ASSUME Adjust(t)
      PROVE  StatementsTypeOK'
  <2>1. c \in Settles
    BY <1>0, <1>6, CallShape DEF Adjust
  <2>2. c.req \in Requests /\ KeyOf[c.req] \in Keys
    BY <2>1, SettleParts
  <2>3. requests[c.req].cost - est[c.req] \in Int
    <3>1. requests[c.req] # NoRow
      BY <2>1 DEF CallsSound, SettleSound
    <3> QED
      BY <2>2, <3>1 DEF LedgerTypeOK, Bills, Amounts
  <2>4. spend' \in [Keys -> [Periods -> Int]]
    BY <1>6, <2>2, <2>3 DEF Adjust, LedgerTypeOK
  <2>5. adrift' \subseteq Keys \X Periods
    BY <1>6, <2>2 DEF Adjust, Detached, LedgerTypeOK
  <2>6. [c EXCEPT !.at = "drop"] \in Calls
    BY <1>0, <2>1, SettleMoved
  <2>7. call' \in [Threads -> Calls] /\ holder' = holder
    BY <1>0, <1>6, <2>6 DEF Adjust, GoOn
  <2>8. UNCHANGED <<limit_usd, last_reset, requests, reservations, now, calendar,
                    handler, est, torn>>
    BY <1>6 DEF Adjust
  <2> QED
    BY <2>4, <2>5, <2>7, <2>8 DEF LedgerTypeOK
<1>7. ASSUME DropHold(t)
      PROVE  StatementsTypeOK'
  <2>1. c.req \in Requests
    BY <1>0, <1>7, CallShape, SettleParts DEF DropHold
  <2> QED
    BY <1>0, <1>7, <2>1 DEF DropHold, Return, budgets, LedgerTypeOK
<1>8. ASSUME Refused(t)
      PROVE  StatementsTypeOK'
  <2>1. c.req \in Requests
    BY <1>0, <1>8, CallShape, AskParts DEF Refused
  <2> QED
    BY <1>0, <1>8, <2>1 DEF Refused, Return, ledgerVars, budgets, LedgerTypeOK
<1>9. ASSUME TakeCutoff(t)
      PROVE  StatementsTypeOK'
  <2>1. [at |-> "cutoff", cutoff |-> now - StaleAfter] \in Calls
    BY DEF LedgerTypeOK, Cutoffs, Calls
  <2> QED
    BY <1>0, <1>9, <2>1 DEF TakeCutoff, ledgerVars, budgets, LedgerTypeOK
<1>10. ASSUME ListHolds(t)
       PROVE  StatementsTypeOK'
  <2>1. c.cutoff \in Int
    BY <1>0, <1>10, CallShape DEF ListHolds, Cutoffs
  <2>2. [at |-> "refund", cutoff |-> c.cutoff, given |-> {},
         rows |-> OlderThan(c.cutoff)] \in Calls
    BY <2>1 DEF OlderThan, Reclaims, Calls
  <2> QED
    BY <1>0, <1>10, <2>2 DEF ListHolds, Enter, ledgerVars, budgets, LedgerTypeOK
<1>11. ASSUME NEW r \in Requests, GiveBack(t, r)
       PROVE  StatementsTypeOK'
  <2>1. c \in Reclaims
    BY <1>0, <1>11, CallShape DEF GiveBack
  <2>2. [c EXCEPT !.rows = @ \ {r}, !.given = @ \cup {r}] \in Calls
    BY <1>0, <2>1, ReclaimMoved
  <2>3. call' \in [Threads -> Calls]
    <3>1. call' = [call EXCEPT ![t] = [c EXCEPT !.rows = @ \ {r}, !.given = @ \cup {r}]]
      BY <1>11 DEF GiveBack
    <3> QED
      BY <1>0, <2>2, <3>1
  <2>4. reservations[r] # NoRow => reservations[r].amount \in Int
    BY DEF LedgerTypeOK, Holds, Amounts
  <2>5. \A p \in Periods : AtLeastZero(spend[KeyOf[r]][p] - Given(r, p)) \in Int
    BY <2>4 DEF AtLeastZero, Given, HoldOpen, LedgerTypeOK
  <2>6. spend' \in [Keys -> [Periods -> Int]]
    BY <1>11, <2>5 DEF GiveBack, LedgerTypeOK
  <2> QED
    BY <1>11, <2>3, <2>6 DEF GiveBack, LedgerTypeOK
<1>12. ASSUME DeleteStale(t)
       PROVE  StatementsTypeOK'
  BY <1>0, <1>12 DEF DeleteStale, Return, budgets, LedgerTypeOK
<1>13. ASSUME StatementRaises(t)
       PROVE  StatementsTypeOK'
  <2>1. torn' \subseteq Keys \X Periods
    <3>1. c.at \in {"hold", "adjust", "drop"} => c.req \in Requests
      BY <1>0, CallShape, AskParts, SettleParts
    <3> QED
      BY <1>13, <3>1 DEF StatementRaises, Unfinished, Both
  <2>2. handler' \in [Requests -> {"new", "asking", "open", "gone"}]
    BY <1>13 DEF StatementRaises
  <2> QED
    BY <1>0, <1>13, <2>1, <2>2 DEF StatementRaises, Return, ledgerVars, budgets, LedgerTypeOK
<1> QED
  BY <1>1, <1>2, <1>3, <1>4, <1>5, <1>6, <1>7, <1>8, <1>9, <1>10, <1>11, <1>12, <1>13
     DEF Statement

LEMMA NextType ==
    ASSUME StatementsTypeOK, CallsSound, [StatementsNext]_callVars
    PROVE  StatementsTypeOK'
<1>1. ASSUME Kill
      PROVE  StatementsTypeOK'
  <2>1. Idle \in Calls
    BY DEF Calls
  <2>2. \A t \in Threads : Unfinished(t) \subseteq Keys \X Periods
    <3> SUFFICES ASSUME NEW t \in Threads
                 PROVE  Unfinished(t) \subseteq Keys \X Periods
      OBVIOUS
    <3>1. call[t].at \in {"hold", "adjust", "drop"} => call[t].req \in Requests
      BY CallShape, AskParts, SettleParts DEF StatementsTypeOK
    <3> QED
      BY <3>1 DEF Unfinished, Both
  <2>3. torn' \subseteq Keys \X Periods
    BY <1>1, <2>2 DEF Kill, StatementsTypeOK
  <2> QED
    BY <1>1, <2>1, <2>3 DEF Kill, StatementsTypeOK, ledgerVars, budgets, LedgerTypeOK
<1>2. ASSUME Tick \/ Midnight \/ UNCHANGED callVars
      PROVE  StatementsTypeOK'
  <2>1. calendar' \in [Periods -> Nat]
    BY <1>2 DEF Tick, Midnight, callVars, ledgerVars, StatementsTypeOK, LedgerTypeOK, Periods
  <2> QED
    BY <1>2, <2>1 DEF Tick, Midnight, callVars, ledgerVars, budgets, statementVars,
                      StatementsTypeOK, LedgerTypeOK
<1> QED
  BY <1>1, <1>2, StatementType DEF StatementsNext

-----------------------------------------------------------------------------
(* The lock *)

\* A statement moves its own thread's call, and either takes the lock, keeps
\* it, or gives it back; a cutoff is taken outside it.
LEMMA Moves ==
    ASSUME StatementsTypeOK, CallsSound, OneInside, NEW t \in Threads, Statement(t)
    PROVE  /\ \A u \in Threads \ {t} : call'[u] = call[u]
           /\ \/ /\ holder = Nobody /\ holder' = t
                 /\ call'[t].at \notin {"idle", "cutoff"}
              \/ /\ holder = t /\ holder' = t
                 /\ call'[t].at \notin {"idle", "cutoff"}
              \/ holder = t /\ holder' = Nobody /\ call'[t] = Idle
              \/ TakeCutoff(t)
<1> USE DEF StatementsTypeOK
<1> DEFINE c == call[t]
<1>0. c \in Calls
  OBVIOUS
<1>1. ASSUME NEW r \in Requests, NEW amount \in Amounts, SelectBudget(t, r, amount)
      PROVE  /\ holder = Nobody /\ holder' = t /\ call'[t].at \notin {"idle", "cutoff"}
             /\ \A u \in Threads \ {t} : call'[u] = call[u]
  BY <1>1 DEF SelectBudget, Enter, Verdict
<1>2. ASSUME NEW r \in Requests, NEW cost \in Amounts, InsertBill(t, r, cost)
      PROVE  /\ holder = Nobody /\ holder' = t /\ call'[t].at \notin {"idle", "cutoff"}
             /\ \A u \in Threads \ {t} : call'[u] = call[u]
  BY <1>2 DEF InsertBill, Enter
<1>3. ASSUME ListHolds(t)
      PROVE  /\ holder = Nobody /\ holder' = t /\ call'[t].at \notin {"idle", "cutoff"}
             /\ \A u \in Threads \ {t} : call'[u] = call[u]
  BY <1>3 DEF ListHolds, Enter
<1>4. ASSUME ResetRow(t) \/ Increment(t)
      PROVE  /\ holder = t /\ holder' = t /\ call'[t].at \notin {"idle", "cutoff"}
             /\ \A u \in Threads \ {t} : call'[u] = call[u]
  <2>1. c \in Asks
    BY <1>0, <1>4, CallShape DEF ResetRow, Increment
  <2>2. c.at \notin {"idle", "cutoff"} /\ holder = t
    BY <1>4 DEF ResetRow, Increment, OneInside
  <2>3. PICK place \in {"increment", "refuse", "hold"} :
           holder' = holder /\ call' = [call EXCEPT ![t] = [c EXCEPT !.at = place]]
    BY <1>4, <2>1, AskParts DEF ResetRow, Increment, GoOn
  <2> QED
    BY <2>1, <2>2, <2>3, AskMoved
<1>5. ASSUME Adjust(t)
      PROVE  /\ holder = t /\ holder' = t /\ call'[t].at \notin {"idle", "cutoff"}
             /\ \A u \in Threads \ {t} : call'[u] = call[u]
  <2>1. c \in Settles
    BY <1>0, <1>5, CallShape DEF Adjust
  <2>2. c.at \notin {"idle", "cutoff"} /\ holder = t
    BY <1>5 DEF Adjust, OneInside
  <2>3. holder' = holder /\ call' = [call EXCEPT ![t] = [c EXCEPT !.at = "drop"]]
    BY <1>5 DEF Adjust, GoOn
  <2> QED
    BY <2>1, <2>2, <2>3, SettleMoved
<1>6. ASSUME NEW r \in Requests, GiveBack(t, r)
      PROVE  /\ holder = t /\ holder' = t /\ call'[t].at \notin {"idle", "cutoff"}
             /\ \A u \in Threads \ {t} : call'[u] = call[u]
  <2>1. c \in Reclaims
    BY <1>0, <1>6, CallShape DEF GiveBack
  <2>2. c.at \notin {"idle", "cutoff"} /\ holder = t
    BY <1>6 DEF GiveBack, OneInside
  <2>3. /\ holder' = holder
        /\ call' = [call EXCEPT ![t] = [c EXCEPT !.rows = @ \ {r}, !.given = @ \cup {r}]]
    BY <1>6 DEF GiveBack
  <2> QED
    BY <2>1, <2>2, <2>3, ReclaimMoved
<1>7. ASSUME Refused(t) \/ InsertHold(t) \/ DropHold(t) \/ DeleteStale(t) \/ StatementRaises(t)
      PROVE  /\ holder = t /\ holder' = Nobody /\ call'[t] = Idle
             /\ \A u \in Threads \ {t} : call'[u] = call[u]
  <2>1. holder = t
    BY <1>7 DEF Refused, InsertHold, DropHold, DeleteStale, StatementRaises, OneInside
  <2> QED
    BY <1>7, <2>1 DEF Refused, InsertHold, DropHold, DeleteStale, StatementRaises, Return
<1>8. ASSUME TakeCutoff(t)
      PROVE  \A u \in Threads \ {t} : call'[u] = call[u]
  BY <1>8 DEF TakeCutoff
<1> QED
  BY <1>1, <1>2, <1>3, <1>4, <1>5, <1>6, <1>7, <1>8 DEF Statement

LEMMA NextInside ==
    ASSUME StatementsTypeOK, CallsSound, OneInside, [StatementsNext]_callVars
    PROVE  OneInside'
<1>1. ASSUME NEW t \in Threads, Statement(t)
      PROVE  OneInside'
  <2>1. ASSUME TakeCutoff(t)
        PROVE  OneInside'
    <3>1. call[t].at = "idle" /\ holder' = holder /\ call'[t].at = "cutoff"
      BY <2>1 DEF TakeCutoff, Idle, StatementsTypeOK
    <3> QED
      BY <1>1, <3>1, Moves DEF OneInside
  <2> QED
    BY <1>1, <2>1, Moves DEF OneInside, Idle
<1>2. ASSUME Kill
      PROVE  OneInside'
  BY <1>2 DEF Kill, OneInside, Idle
<1>3. ASSUME Tick \/ Midnight \/ UNCHANGED callVars
      PROVE  OneInside'
  BY <1>3 DEF Tick, Midnight, callVars, statementVars, OneInside
<1> QED
  BY <1>1, <1>2, <1>3 DEF StatementsNext

-----------------------------------------------------------------------------
(* The rows *)

LEMMA StampTypes ==
    ASSUME LedgerTypeOK
    PROVE  /\ \A k \in Keys, p \in Periods : last_reset[k][p] \in Int
           /\ \A p \in Periods : calendar[p] \in Int
           /\ \A r \in Requests, p \in Periods :
                 /\ reservations[r] # NoRow => reservations[r].stamp[p] \in Int
                 /\ requests[r] # NoRow => requests[r].stamp[p] \in Int
BY DEF LedgerTypeOK, Stamps, Holds, Bills

LEMMA StatementKeepsOrder ==
    ASSUME StatementsTypeOK, RowsInOrder, CallsSound, NEW t \in Threads, Statement(t)
    PROVE  RowsInOrder'
<1> DEFINE c == call[t]
<1>0. c \in Calls /\ LedgerTypeOK
  BY DEF StatementsTypeOK
<1>1. ASSUME NEW r \in Requests, NEW cost \in Amounts, InsertBill(t, r, cost)
      PROVE  RowsInOrder'
  <2>1. requests'[r].stamp = last_reset[KeyOf[r]]
    BY <1>0, <1>1 DEF InsertBill, LedgerTypeOK
  <2>2. \A x \in Requests \ {r} : requests'[x] = requests[x]
    BY <1>0, <1>1 DEF InsertBill, LedgerTypeOK
  <2> QED
    BY <1>0, <1>1, <2>1, <2>2, StampTypes DEF InsertBill, budgets, RowsInOrder
<1>2. ASSUME ResetRow(t)
      PROVE  RowsInOrder'
  <2>1. c \in Asks
    BY <1>0, <1>2, CallShape DEF ResetRow
  <2> DEFINE k == KeyOf[c.req]
  <2>2. k \in Keys /\ \A p \in Periods : c.stamp[p] \in Int
    BY <2>1, AskParts DEF Stamps
  <2>3. \A p \in Periods : last_reset[k][p] <= c.stamp[p] /\ c.stamp[p] <= calendar[p]
    BY <2>1 DEF CallsSound, AskSound
  <2>4. /\ last_reset'[k] = c.stamp
        /\ \A x \in Keys \ {k} : last_reset'[x] = last_reset[x]
    BY <1>0, <1>2, <2>2 DEF ResetRow, LedgerTypeOK
  <2>5. \A x \in Keys, p \in Periods :
           last_reset[x][p] <= last_reset'[x][p] /\ last_reset'[x][p] <= calendar[p]
    BY <1>0, <2>2, <2>3, <2>4, StampTypes DEF RowsInOrder
  <2>6. \A x \in Keys, p \in Periods : last_reset'[x][p] \in Int
    BY <1>0, <2>2, <2>4, StampTypes
  <2>7. requests' = requests /\ reservations' = reservations /\ calendar' = calendar
    BY <1>2 DEF ResetRow
  <2>8. ASSUME NEW x \in Requests, NEW p \in Periods
        PROVE  /\ reservations[x] # NoRow => reservations[x].stamp[p] <= last_reset'[KeyOf[x]][p]
               /\ requests[x] # NoRow => requests[x].stamp[p] <= last_reset'[KeyOf[x]][p]
    <3>1. /\ reservations[x] # NoRow => reservations[x].stamp[p] <= last_reset[KeyOf[x]][p]
          /\ requests[x] # NoRow => requests[x].stamp[p] <= last_reset[KeyOf[x]][p]
      BY DEF RowsInOrder
    <3>2. \A a, b, e \in Int : a <= b /\ b <= e => a <= e
      OBVIOUS
    <3>3. KeyOf[x] \in Keys
      OBVIOUS
    <3> QED
      BY <1>0, <2>5, <2>6, <3>1, <3>2, <3>3, StampTypes
  <2> QED
    BY <2>5, <2>7, <2>8 DEF RowsInOrder
<1>3. ASSUME InsertHold(t)
      PROVE  RowsInOrder'
  <2>1. c \in Asks
    BY <1>0, <1>3, CallShape DEF InsertHold
  <2>2. c.req \in Requests /\ last_reset[KeyOf[c.req]] = c.stamp
    BY <1>3, <2>1, AskParts DEF CallsSound, AskSound, InsertHold
  <2>3. reservations'[c.req].stamp = c.stamp
    BY <1>0, <1>3, <2>2 DEF InsertHold, LedgerTypeOK
  <2>4. \A x \in Requests \ {c.req} : reservations'[x] = reservations[x]
    BY <1>0, <1>3, <2>2 DEF InsertHold, LedgerTypeOK
  <2> QED
    BY <1>0, <1>3, <2>2, <2>3, <2>4, StampTypes DEF InsertHold, budgets, RowsInOrder
<1>4. ASSUME DropHold(t) \/ DeleteStale(t)
      PROVE  RowsInOrder'
  <2>1. \A x \in Requests : reservations'[x] \in {NoRow, reservations[x]}
    BY <1>0, <1>4 DEF DropHold, DeleteStale, LedgerTypeOK
  <2>2. last_reset' = last_reset /\ requests' = requests /\ calendar' = calendar
    BY <1>4 DEF DropHold, DeleteStale, budgets
  <2> QED
    BY <2>1, <2>2 DEF RowsInOrder
<1>5. ASSUME \/ \E r \in Requests, amount \in Amounts : SelectBudget(t, r, amount)
             \/ \E r \in Requests : GiveBack(t, r)
             \/ Refused(t) \/ Increment(t) \/ Adjust(t)
             \/ TakeCutoff(t) \/ ListHolds(t) \/ StatementRaises(t)
      PROVE  RowsInOrder'
  <2>1. UNCHANGED <<last_reset, requests, reservations, calendar>>
    BY <1>5 DEF SelectBudget, GiveBack, Refused, Increment, Adjust, TakeCutoff, ListHolds,
                StatementRaises, ledgerVars, budgets
  <2> QED
    BY <2>1 DEF RowsInOrder
<1> QED
  BY <1>1, <1>2, <1>3, <1>4, <1>5 DEF Statement

LEMMA NextInOrder ==
    ASSUME StatementsTypeOK, RowsInOrder, CallsSound, [StatementsNext]_callVars
    PROVE  RowsInOrder'
<1>1. ASSUME Midnight
      PROVE  RowsInOrder'
  <2>1. \A p \in Periods : calendar'[p] \in Int /\ calendar[p] <= calendar'[p]
    BY <1>1 DEF Midnight, StatementsTypeOK, LedgerTypeOK, Periods
  <2>2. last_reset' = last_reset /\ requests' = requests /\ reservations' = reservations
    BY <1>1 DEF Midnight, budgets
  <2>3. \A a, b, e \in Int : a <= b /\ b <= e => a <= e
    OBVIOUS
  <2>4. \A k \in Keys, p \in Periods : last_reset[k][p] <= calendar'[p]
    BY <2>1, <2>3, StampTypes DEF RowsInOrder, StatementsTypeOK
  <2> QED
    BY <2>2, <2>4 DEF RowsInOrder
<1>2. ASSUME Kill \/ Tick \/ UNCHANGED callVars
      PROVE  RowsInOrder'
  BY <1>2 DEF Kill, Tick, callVars, ledgerVars, budgets, RowsInOrder
<1> QED
  BY <1>1, <1>2, StatementKeepsOrder DEF StatementsNext

LEMMA StatementKeepsAskedFor ==
    ASSUME StatementsTypeOK, RowsAskedFor, CallsSound, NEW t \in Threads, Statement(t)
    PROVE  RowsAskedFor'
<1> DEFINE c == call[t]
<1>0. /\ c \in Calls
      /\ handler \in [Requests -> {"new", "asking", "open", "gone"}]
      /\ est \in [Requests -> Amounts]
      /\ requests \in [Requests -> Bills \cup {NoRow}]
      /\ reservations \in [Requests -> Holds \cup {NoRow}]
  BY DEF StatementsTypeOK, LedgerTypeOK
<1>1. ASSUME NEW r \in Requests, NEW amount \in Amounts, SelectBudget(t, r, amount)
      PROVE  RowsAskedFor'
  <2>1. requests' = requests /\ reservations' = reservations
    BY <1>1 DEF SelectBudget, ledgerVars
  <2>2. reservations[r] = NoRow /\ requests[r] = NoRow
    BY <1>1 DEF SelectBudget, RowsAskedFor
  <2>3. \A x \in Requests \ {r} : handler'[x] = handler[x] /\ est'[x] = est[x]
    BY <1>0, <1>1 DEF SelectBudget
  <2> QED
    BY <2>1, <2>2, <2>3 DEF RowsAskedFor
<1>2. ASSUME NEW r \in Requests, NEW cost \in Amounts, InsertBill(t, r, cost)
      PROVE  RowsAskedFor'
  <2>1. handler[r] = "open" /\ \A x \in Requests \ {r} : requests'[x] = requests[x]
    BY <1>0, <1>2 DEF InsertBill
  <2> QED
    BY <1>2, <2>1 DEF InsertBill, RowsAskedFor
<1>3. ASSUME InsertHold(t)
      PROVE  RowsAskedFor'
  <2>1. c \in Asks
    BY <1>0, <1>3, CallShape DEF InsertHold
  <2>2. c.req \in Requests
    BY <2>1, AskParts
  <2>3. handler'[c.req] = "open" /\ reservations'[c.req].amount = est[c.req]
    BY <1>0, <1>3, <2>2 DEF InsertHold
  <2>4. \A x \in Requests \ {c.req} :
           handler'[x] = handler[x] /\ reservations'[x] = reservations[x]
    BY <1>0, <1>3, <2>2 DEF InsertHold
  <2> QED
    BY <1>3, <2>3, <2>4 DEF InsertHold, RowsAskedFor
<1>4. ASSUME DropHold(t) \/ DeleteStale(t) \/ Refused(t) \/ StatementRaises(t)
      PROVE  RowsAskedFor'
  <2>1. /\ \A x \in Requests : reservations'[x] \in {NoRow, reservations[x]}
        /\ requests' = requests /\ est' = est
    BY <1>0, <1>4
       DEF DropHold, DeleteStale, Refused, StatementRaises, ledgerVars
  <2>2. \A x \in Requests : handler'[x] \in {handler[x], "gone"}
    BY <1>0, <1>4 DEF DropHold, DeleteStale, Refused, StatementRaises
  <2> QED
    BY <2>1, <2>2 DEF RowsAskedFor
<1>5. ASSUME \/ \E r \in Requests : GiveBack(t, r)
             \/ ResetRow(t) \/ Increment(t) \/ Adjust(t) \/ TakeCutoff(t) \/ ListHolds(t)
      PROVE  RowsAskedFor'
  <2>1. UNCHANGED <<requests, reservations, handler, est>>
    BY <1>5 DEF GiveBack, ResetRow, Increment, Adjust, TakeCutoff, ListHolds, ledgerVars
  <2> QED
    BY <2>1 DEF RowsAskedFor
<1> QED
  BY <1>1, <1>2, <1>3, <1>4, <1>5 DEF Statement

LEMMA NextAskedFor ==
    ASSUME StatementsTypeOK, RowsAskedFor, CallsSound, [StatementsNext]_callVars
    PROVE  RowsAskedFor'
<1>1. ASSUME Kill
      PROVE  RowsAskedFor'
  BY <1>1 DEF Kill, ledgerVars, RowsAskedFor
<1>2. ASSUME Tick \/ Midnight \/ UNCHANGED callVars
      PROVE  RowsAskedFor'
  BY <1>2 DEF Tick, Midnight, callVars, ledgerVars, statementVars, RowsAskedFor
<1> QED
  BY <1>1, <1>2, StatementKeepsAskedFor DEF StatementsNext

-----------------------------------------------------------------------------
(* The calls under way *)

\* Whoever is outside has nothing to be sound about.
LEMMA OutsideIsSound ==
    ASSUME NEW c \in Calls, c.at \in {"idle", "cutoff"}
    PROVE  c \notin Asks /\ c \notin Settles /\ c \notin Reclaims
BY CallShape

\* While one thread is inside, or takes the lock, the others are outside.
LEMMA OthersOutside ==
    ASSUME StatementsTypeOK, OneInside, NEW t \in Threads, holder \in {t, Nobody}
    PROVE  \A u \in Threads \ {t} : call[u].at \in {"idle", "cutoff"}
BY DEF OneInside

LEMMA SelectIsSound ==
    ASSUME StatementsTypeOK, RowsInOrder, NEW t \in Threads,
           NEW r \in Requests, NEW amount \in Amounts, SelectBudget(t, r, amount)
    PROVE  call'[t] \in Asks /\ AskSound(call[t])'
<1> DEFINE k == KeyOf[r]
           d == call'[t]
<1>1. /\ d = [at |-> IF \E p \in Periods : NeedsReset(k, p) THEN "reset" ELSE Verdict(r, amount),
               req |-> r, verdict |-> Verdict(r, amount),
               row |-> SpendAfterReset(k), stamp |-> calendar]
      /\ UNCHANGED <<spend, last_reset, calendar>>
      /\ handler'[r] = "asking" /\ est'[r] = amount
  BY DEF SelectBudget, Enter, StatementsTypeOK, ledgerVars, budgets
<1>2. calendar \in Stamps /\ SpendAfterReset(k) \in [Periods -> Int]
  BY CheckedRow DEF StatementsTypeOK
<1>3. d \in Asks
  BY <1>1, <1>2 DEF Asks, Verdict
<1>4. d.req = r /\ d.verdict = Verdict(r, amount) /\ d.row = SpendAfterReset(k) /\ d.stamp = calendar
  BY <1>1
<1>5. \A p \in Periods : last_reset[k][p] <= calendar[p] /\ calendar[p] <= calendar[p]
  BY StampTypes DEF RowsInOrder, StatementsTypeOK
<1>6. d.verdict = "increment" =>
         \A p \in Periods : BudgetLimits[k][p] # 0 => d.row[p] + amount <= BudgetLimits[k][p]
  BY <1>4 DEF Verdict, Fits, StatementsTypeOK
<1>7. d.at = "reset" =>
         \A p \in Periods : d.row[p] = IF last_reset[k][p] # d.stamp[p] THEN 0 ELSE spend[k][p]
  BY <1>4 DEF SpendAfterReset, NeedsReset
<1>8. d.at # "reset" => last_reset[k] = d.stamp /\ spend[k] = d.row
  <2> SUFFICES ASSUME d.at # "reset"
               PROVE  last_reset[k] = d.stamp /\ spend[k] = d.row
    OBVIOUS
  <2>1. \A p \in Periods : last_reset[k][p] = calendar[p]
    BY <1>1 DEF NeedsReset
  <2>2. last_reset[k] \in [Periods -> Int] /\ spend[k] \in [Periods -> Int]
    BY DEF StatementsTypeOK, LedgerTypeOK, Stamps
  <2>3. last_reset[k] = calendar
    BY <1>2, <2>1, <2>2 DEF Stamps
  <2>4. SpendAfterReset(k) = spend[k]
    BY <2>1, <2>2 DEF SpendAfterReset, NeedsReset
  <2> QED
    BY <1>4, <2>3, <2>4
<1>9. d.at = "increment" => d.verdict = "increment"
  BY <1>1
<1> HIDE DEF d
<1> QED
  BY <1>1, <1>3, <1>4, <1>5, <1>6, <1>7, <1>8, <1>9 DEF AskSound, d

LEMMA ResetIsSound ==
    ASSUME StatementsTypeOK, CallsSound, NEW t \in Threads, ResetRow(t)
    PROVE  call'[t] \in Asks /\ AskSound(call[t])'
<1> DEFINE c == call[t]
           d == call'[t]
           k == KeyOf[c.req]
<1>1. c \in Asks /\ c.at = "reset"
  BY CallShape DEF ResetRow, StatementsTypeOK
<1>2. AskSound(c)
  BY <1>1 DEF CallsSound
<1>3. d = [c EXCEPT !.at = c.verdict]
  BY DEF ResetRow, GoOn, StatementsTypeOK
<1>4. /\ d \in Asks /\ d.at = c.verdict /\ d.req = c.req /\ d.verdict = c.verdict
      /\ d.row = c.row /\ d.stamp = c.stamp
  BY <1>1, <1>3, AskParts, AskMoved
<1>5. k \in Keys /\ c.req \in Requests
  BY <1>1, AskParts
<1>6. last_reset'[k] = c.stamp /\ spend'[k] = c.row
  BY <1>5 DEF ResetRow, StatementsTypeOK, LedgerTypeOK
<1>7. UNCHANGED <<calendar, handler, est>>
  BY DEF ResetRow
<1>8. \A p \in Periods : c.stamp[p] <= c.stamp[p]
  BY <1>1, AskParts DEF Stamps
<1>9. c.verdict # "reset"
  BY <1>1, AskParts
<1> QED
  BY <1>2, <1>4, <1>6, <1>7, <1>8, <1>9 DEF AskSound

LEMMA IncrementIsSound ==
    ASSUME StatementsTypeOK, CallsSound, NEW t \in Threads, Increment(t)
    PROVE  call'[t] \in Asks /\ AskSound(call[t])'
<1> DEFINE c == call[t]
           d == call'[t]
<1>1. c \in Asks /\ c.at = "increment"
  BY CallShape DEF Increment, StatementsTypeOK
<1>2. AskSound(c)
  BY <1>1 DEF CallsSound
<1>3. d = [c EXCEPT !.at = "hold"]
  BY DEF Increment, GoOn, StatementsTypeOK
<1>4. /\ d \in Asks /\ d.at = "hold" /\ d.req = c.req /\ d.verdict = c.verdict
      /\ d.row = c.row /\ d.stamp = c.stamp
  BY <1>1, <1>3, AskMoved
<1>5. UNCHANGED <<last_reset, calendar, handler, est>>
  BY DEF Increment
<1> QED
  BY <1>1, <1>2, <1>4, <1>5 DEF AskSound

LEMMA StatementKeepsSound ==
    ASSUME StatementsTypeOK, OneInside, RowsInOrder, CallsSound, NEW t \in Threads, Statement(t)
    PROVE  CallsSound'
<1> DEFINE c == call[t]
           d == call'[t]
           Sound == /\ d \in Asks => AskSound(c)'
                    /\ d \in Settles => SettleSound(c)'
                    /\ d \in Reclaims => ReclaimSound(c)'
<1>a. \A u \in Threads : call[u] \in Calls
  BY DEF StatementsTypeOK
<1>b. \A e \in Asks : e \notin Settles /\ e \notin Reclaims
  BY DEF Asks, Settles, Reclaims
<1>c. \A e \in Settles : e \notin Asks /\ e \notin Reclaims
  BY DEF Asks, Settles, Reclaims
<1>d. \A e \in Reclaims : e \notin Asks /\ e \notin Settles
  BY DEF Asks, Settles, Reclaims
<1>1. CASE TakeCutoff(t)
  <2>1. \A u \in Threads \ {t} : call'[u] = call[u]
    BY <1>1, Moves
  <2>2. d = [at |-> "cutoff", cutoff |-> now - StaleAfter]
    BY <1>1 DEF TakeCutoff, StatementsTypeOK
  <2>3. d \notin Asks /\ d \notin Settles /\ d \notin Reclaims
    BY <2>2 DEF Asks, Settles, Reclaims
  <2>4. UNCHANGED <<ledgerVars, handler, est>>
    BY <1>1 DEF TakeCutoff
  <2> QED
    BY <2>1, <2>3, <2>4
       DEF CallsSound, AskSound, SettleSound, ReclaimSound, OlderThan, ledgerVars, budgets
<1>2. CASE ~TakeCutoff(t)
  <2>1. /\ \A u \in Threads \ {t} : call'[u] = call[u]
        /\ holder \in {t, Nobody}
    BY <1>2, Moves
  <2>2. \A u \in Threads \ {t} :
           call'[u] \notin Asks /\ call'[u] \notin Settles /\ call'[u] \notin Reclaims
    BY <1>a, <2>1, OthersOutside, OutsideIsSound
  <2> SUFFICES Sound
    BY <2>2 DEF CallsSound
  <2>3. ASSUME NEW r \in Requests, NEW amount \in Amounts, SelectBudget(t, r, amount)
        PROVE  Sound
    BY <1>b, <2>3, SelectIsSound
  <2>4. CASE ResetRow(t)
    BY <1>b, <2>4, ResetIsSound
  <2>5. CASE Increment(t)
    BY <1>b, <2>5, IncrementIsSound
  <2>6. ASSUME NEW r \in Requests, NEW cost \in Amounts, InsertBill(t, r, cost)
        PROVE  Sound
    <3>1. d = [at |-> "adjust", req |-> r]
      BY <2>6 DEF InsertBill, Enter, StatementsTypeOK
    <3>2. d \in Settles /\ d.req = r
      BY <3>1 DEF Settles
    <3>3. /\ requests'[r] = [cost |-> cost, stamp |-> last_reset[KeyOf[r]]]
          /\ handler'[r] = "open" /\ last_reset' = last_reset
      BY <2>6 DEF InsertBill, budgets, StatementsTypeOK, LedgerTypeOK
    <3>4. requests'[r] \in Bills
      BY <3>3 DEF Bills, StatementsTypeOK, LedgerTypeOK
    <3>5. requests'[r] # NoRow /\ requests'[r].stamp = last_reset[KeyOf[r]]
      BY <3>3, <3>4
    <3> QED
      BY <1>c, <3>2, <3>3, <3>5 DEF SettleSound
  <2>7. CASE Adjust(t)
    <3>1. c \in Settles /\ SettleSound(c)
      BY <1>a, <2>7, CallShape DEF Adjust, CallsSound
    <3>2. d = [c EXCEPT !.at = "drop"]
      BY <2>7 DEF Adjust, GoOn, StatementsTypeOK
    <3>3. d \in Settles /\ d.at = "drop" /\ d.req = c.req
      BY <3>1, <3>2, SettleMoved
    <3>4. UNCHANGED <<handler, requests>>
      BY <2>7 DEF Adjust
    <3> QED
      BY <1>c, <3>1, <3>3, <3>4 DEF SettleSound
  <2>8. CASE ListHolds(t)
    <3>1. c.cutoff \in Int
      BY <1>a, <2>8, CallShape DEF ListHolds, Cutoffs
    <3>2. d = [at |-> "refund", cutoff |-> c.cutoff, given |-> {},
               rows |-> OlderThan(c.cutoff)]
      BY <2>8 DEF ListHolds, Enter, StatementsTypeOK
    <3>3. d \in Reclaims
      BY <3>1, <3>2 DEF OlderThan, Reclaims
    <3>4. reservations' = reservations
      BY <2>8 DEF ListHolds, ledgerVars
    <3> QED
      BY <1>d, <3>2, <3>3, <3>4 DEF ReclaimSound, OlderThan
  <2>9. ASSUME NEW r \in Requests, GiveBack(t, r)
        PROVE  Sound
    <3>0. c \in Reclaims
      BY <1>a, <2>9, CallShape DEF GiveBack
    <3>1. ReclaimSound(c) /\ r \in c.rows
      BY <2>9, <3>0 DEF GiveBack, CallsSound
    <3>2. d = [c EXCEPT !.rows = @ \ {r}, !.given = @ \cup {r}]
      BY <2>9 DEF GiveBack, StatementsTypeOK
    <3>3. /\ d \in Reclaims /\ d.cutoff = c.cutoff
          /\ d.given = c.given \cup {r} /\ d.rows = c.rows \ {r}
      <4> HIDE DEF d, Sound
      <4> QED
        BY <3>0, <3>2 DEF Reclaims
    <3>4. reservations' = reservations
      BY <2>9 DEF GiveBack
    <3> QED
      BY <1>d, <3>1, <3>3, <3>4 DEF ReclaimSound, OlderThan
  <2>10. CASE Refused(t) \/ InsertHold(t) \/ DropHold(t) \/ DeleteStale(t) \/ StatementRaises(t)
    <3>1. d = Idle
      BY <2>10 DEF Refused, InsertHold, DropHold, DeleteStale, StatementRaises, Return,
                   StatementsTypeOK
    <3> QED
      BY <3>1 DEF Idle, Asks, Settles, Reclaims
  <2> QED
    BY <1>2, <2>3, <2>4, <2>5, <2>6, <2>7, <2>8, <2>9, <2>10 DEF Statement
<1> QED
  BY <1>1, <1>2

LEMMA NextSound ==
    ASSUME StatementsTypeOK, OneInside, RowsInOrder, CallsSound, [StatementsNext]_callVars
    PROVE  CallsSound'
<1>1. ASSUME Kill
      PROVE  CallsSound'
  BY <1>1 DEF Kill, CallsSound, Idle, Asks, Settles, Reclaims
<1>2. ASSUME Midnight
      PROVE  CallsSound'
  <2>1. \A p \in Periods : calendar[p] \in Int /\ calendar'[p] \in Int /\ calendar[p] <= calendar'[p]
    BY <1>2 DEF Midnight, StatementsTypeOK, LedgerTypeOK, Periods
  <2>2. UNCHANGED <<spend, last_reset, requests, reservations, call, handler, est>>
    BY <1>2 DEF Midnight, budgets, statementVars
  <2>3. ASSUME NEW c \in Asks, AskSound(c)
        PROVE  AskSound(c)'
    <3>1. \A p \in Periods : c.stamp[p] \in Int
      BY AskParts DEF Stamps
    <3>2. \A p \in Periods : c.stamp[p] <= calendar'[p]
      <4>1. \A x, y, z \in Int : x <= y /\ y <= z => x <= z
        OBVIOUS
      <4> QED
        BY <2>1, <2>3, <3>1, <4>1 DEF AskSound
    <3> QED
      BY <2>2, <2>3, <3>2 DEF AskSound
  <2> QED
    BY <2>2, <2>3 DEF CallsSound, SettleSound, ReclaimSound, OlderThan
<1>3. ASSUME Tick \/ UNCHANGED callVars
      PROVE  CallsSound'
  <2>1. UNCHANGED <<spend, last_reset, requests, reservations, calendar, call, handler, est>>
    BY <1>3 DEF Tick, callVars, ledgerVars, budgets, statementVars
  <2> QED
    BY <2>1 DEF CallsSound, AskSound, SettleSound, ReclaimSound, OlderThan
<1> QED
  BY <1>1, <1>2, <1>3, StatementKeepsSound DEF StatementsNext
-----------------------------------------------------------------------------
(* The books, statement by statement *)

\* What one call keeps out of the books.
CountedBy(c, k) == {r \in Requests : KeyOf[r] = k /\ c.at = "hold" /\ c.req = r}
UnchargedBy(c)  == {r \in Requests : c.at = "adjust" /\ c.req = r}
ReturnedBy(c)   == {r \in Requests : \/ c.at = "drop" /\ c.req = r
                                     \/ c.at = "refund" /\ r \in c.given}

\* The call of the thread with the lock is all there is.
LEMMA OneCallOut ==
    ASSUME StatementsTypeOK, CallsSound, OneInside, NEW t \in Threads, Statement(t),
           ~TakeCutoff(t), NEW k
    PROVE  /\ Counted(k) = CountedBy(call[t], k) /\ Counted(k)' = CountedBy(call'[t], k)
           /\ Uncharged = UnchargedBy(call[t]) /\ Uncharged' = UnchargedBy(call'[t])
           /\ Returned = ReturnedBy(call[t]) /\ Returned' = ReturnedBy(call'[t])
<1>1. /\ \A u \in Threads \ {t} : call'[u] = call[u]
      /\ holder \in {t, Nobody}
  BY Moves
<1>2. \A u \in Threads \ {t} : call[u].at \in {"idle", "cutoff"} /\ call'[u].at \in {"idle", "cutoff"}
  BY <1>1, OthersOutside
<1> QED
  BY <1>2 DEF Counted, CountedBy, Uncharged, UnchargedBy, Returned, ReturnedBy

LEMMA AmountsOfRows ==
    ASSUME LedgerTypeOK, NEW r \in Requests
    PROVE  /\ Amount[r] \in 0..MaxAmount
           /\ Cost[r] \in 0..MaxAmount
           /\ reservations[r] # NoRow => Amount[r] = reservations[r].amount
           /\ requests[r] # NoRow => Cost[r] = requests[r].cost
BY DEF LedgerTypeOK, Amount, Cost, Holds, Bills, Amounts

LEMMA FiniteRows ==
    ASSUME NEW k, NEW p
    PROVE  /\ IsFiniteSet(Paid(k, p)) /\ IsFiniteSet(Paid(k, p) \ Uncharged)
           /\ IsFiniteSet(Held(k, p)) /\ IsFiniteSet(Held(k, p) \ Returned)
           /\ IsFiniteSet(Counted(k))
<1>1. /\ Paid(k, p) \subseteq Requests /\ Paid(k, p) \ Uncharged \subseteq Requests
      /\ Held(k, p) \subseteq Requests /\ Held(k, p) \ Returned \subseteq Requests
      /\ Counted(k) \subseteq Requests
  BY DEF Paid, Held, Counted
<1> QED
  BY <1>1, FS_Subset

\* What one row adds to a total.
LEMMA PaidWithout ==
    ASSUME LedgerTypeOK, NEW k, NEW p, NEW r \in Paid(k, p)
    PROVE  Total(Paid(k, p), Cost, MaxAmount)
              = Total(Paid(k, p) \ {r}, Cost, MaxAmount) + Cost[r]
<1>1. r \in Requests
  BY DEF Paid
<1>2. Cost[r] \in 0..MaxAmount
  BY <1>1, AmountsOfRows
<1>3. IsFiniteSet(Paid(k, p))
  BY FiniteRows
<1> QED
  BY <1>2, <1>3, TotalWithout

LEMMA HeldWithout ==
    ASSUME LedgerTypeOK, NEW S, S \subseteq Requests, NEW r \in S
    PROVE  Total(S, Amount, MaxAmount) = Total(S \ {r}, Amount, MaxAmount) + Amount[r]
<1>1. Amount[r] \in 0..MaxAmount
  BY AmountsOfRows
<1>2. IsFiniteSet(S)
  BY FS_Subset
<1> QED
  BY <1>1, <1>2, TotalWithout

\* A counter that stays, over rows that stay, is as exact as it was.
LEMMA BooksKept ==
    ASSUME BooksAtStatement, NEW k \in Keys, NEW p \in Periods,
           <<k, p>> \notin adrift \cup torn,
           spend'[k][p] = spend[k][p],
           (Paid(k, p) \ Uncharged)' = Paid(k, p) \ Uncharged,
           (Held(k, p) \ Returned)' = Held(k, p) \ Returned,
           Counted(k)' = Counted(k),
           \A r \in Paid(k, p) \ Uncharged : Cost'[r] = Cost[r],
           \A r \in Held(k, p) \ Returned : Amount'[r] = Amount[r],
           \A r \in Counted(k) : est'[r] = est[r]
    PROVE  spend'[k][p] = Total(Paid(k, p) \ Uncharged, Cost, MaxAmount)'
                            + Total(Held(k, p) \ Returned, Amount, MaxAmount)'
                            + Total(Counted(k), est, MaxAmount)'
<1>1. Total(Paid(k, p) \ Uncharged, Cost', MaxAmount)
         = Total(Paid(k, p) \ Uncharged, Cost, MaxAmount)
  BY TotalCongruence
<1>2. Total(Held(k, p) \ Returned, Amount', MaxAmount)
         = Total(Held(k, p) \ Returned, Amount, MaxAmount)
  BY TotalCongruence
<1>3. Total(Counted(k), est', MaxAmount) = Total(Counted(k), est, MaxAmount)
  BY TotalCongruence
<1> QED
  BY <1>1, <1>2, <1>3 DEF BooksAtStatement

\* The same where no row changes, and what is under way stays or is of others.
LEMMA RowsKept ==
    ASSUME BooksAtStatement, NEW k \in Keys, NEW p \in Periods,
           <<k, p>> \notin adrift \cup torn,
           spend'[k][p] = spend[k][p], last_reset'[k][p] = last_reset[k][p],
           UNCHANGED <<requests, reservations>>,
           (Paid(k, p) \cap Uncharged)' = Paid(k, p) \cap Uncharged,
           (Held(k, p) \cap Returned)' = Held(k, p) \cap Returned,
           Counted(k)' = Counted(k),
           \A r \in Counted(k) : est'[r] = est[r]
    PROVE  spend'[k][p] = Total(Paid(k, p) \ Uncharged, Cost, MaxAmount)'
                            + Total(Held(k, p) \ Returned, Amount, MaxAmount)'
                            + Total(Counted(k), est, MaxAmount)'
<1>1. Paid(k, p)' = Paid(k, p) /\ Held(k, p)' = Held(k, p)
  BY DEF Paid, Held, HoldOpen
<1>2. Cost' = Cost /\ Amount' = Amount
  BY DEF Cost, Amount
<1>3. (Paid(k, p) \ Uncharged)' = Paid(k, p) \ Uncharged
  BY <1>1
<1>4. (Held(k, p) \ Returned)' = Held(k, p) \ Returned
  BY <1>1
<1> QED
  BY <1>2, <1>3, <1>4, BooksKept

\* In each of the lemmas below, a statement's counter is one that is exact after it.
Exact(k, p) == spend[k][p] = Total(Paid(k, p) \ Uncharged, Cost, MaxAmount)
                               + Total(Held(k, p) \ Returned, Amount, MaxAmount)
                               + Total(Counted(k), est, MaxAmount)

\* Nothing is out before a call's first write.
LEMMA NothingOut ==
    ASSUME NEW c, c.at \notin {"hold", "adjust", "drop", "refund"}, NEW k
    PROVE  CountedBy(c, k) = {} /\ UnchargedBy(c) = {} /\ ReturnedBy(c) = {}
BY DEF CountedBy, UnchargedBy, ReturnedBy

LEMMA SelectBooks ==
    ASSUME StatementsInv, NEW t \in Threads, NEW r \in Requests, NEW amount \in Amounts,
           SelectBudget(t, r, amount), Statement(t), ~TakeCutoff(t),
           NEW k \in Keys, NEW p \in Periods, <<k, p>> \notin (adrift \cup torn)'
    PROVE  Exact(k, p)'
<1>1. call[t].at = "idle" /\ call'[t].at \in {"reset", "increment", "refuse"}
  BY DEF SelectBudget, Enter, Verdict, Idle, StatementsInv, StatementsTypeOK
<1>2. /\ Counted(k) = {} /\ Uncharged = {} /\ Returned = {}
      /\ Counted(k)' = {} /\ Uncharged' = {} /\ Returned' = {}
  BY <1>1, OneCallOut, NothingOut DEF StatementsInv
<1>3. UNCHANGED <<spend, last_reset, requests, reservations, adrift, torn>>
  BY DEF SelectBudget, ledgerVars, budgets
<1> QED
  BY <1>2, <1>3, RowsKept DEF Exact, StatementsInv

LEMMA ResetBooks ==
    ASSUME StatementsInv, NEW t \in Threads, ResetRow(t), Statement(t), ~TakeCutoff(t),
           NEW k \in Keys, NEW p \in Periods, <<k, p>> \notin (adrift \cup torn)'
    PROVE  Exact(k, p)'
<1>0. /\ StatementsTypeOK /\ OneInside /\ RowsInOrder /\ RowsAskedFor /\ CallsSound
      /\ BooksAtStatement
  BY DEF StatementsInv
<1> DEFINE c == call[t]
           own == KeyOf[c.req]
<1>1. c \in Asks /\ c.at = "reset" /\ AskSound(c) /\ LedgerTypeOK
  BY <1>0, CallShape DEF ResetRow, StatementsTypeOK, CallsSound
<1>2. own \in Keys /\ c.verdict \in {"increment", "refuse"} /\ \A q \in Periods : c.stamp[q] \in Int
  BY <1>1, AskParts DEF Stamps
<1>3. call'[t].at \in {"increment", "refuse"}
  <2>1. call'[t] = [c EXCEPT !.at = c.verdict]
    BY <1>0 DEF ResetRow, GoOn, StatementsTypeOK
  <2> QED
    BY <1>1, <1>2, <2>1, AskMoved
<1>4. /\ Counted(k) = {} /\ Uncharged = {} /\ Returned = {}
      /\ Counted(k)' = {} /\ Uncharged' = {} /\ Returned' = {}
  <2>1. c.at \notin {"hold", "adjust", "drop", "refund"}
    BY <1>1
  <2>2. call'[t].at \notin {"hold", "adjust", "drop", "refund"}
    BY <1>3
  <2> QED
    BY <1>0, <2>1, <2>2, OneCallOut, NothingOut
<1>5. /\ UNCHANGED <<requests, reservations>>
      /\ last_reset' = [last_reset EXCEPT ![own] = c.stamp]
      /\ spend' = [spend EXCEPT ![own] = c.row]
      /\ adrift' = adrift \ {<<own, q>> : q \in {q \in Periods : last_reset[own][q] # c.stamp[q]}}
      /\ torn' = torn \ {<<own, q>> : q \in {q \in Periods : last_reset[own][q] # c.stamp[q]}}
  BY DEF ResetRow
<1>6. CASE k = own /\ last_reset[k][p] # c.stamp[p]
  <2>1. last_reset'[k][p] = c.stamp[p] /\ spend'[k][p] = 0
    BY <1>1, <1>2, <1>5, <1>6 DEF LedgerTypeOK, AskSound
  <2>2. ASSUME NEW x \in Requests, KeyOf[x] = k
        PROVE  /\ reservations[x] # NoRow => reservations[x].stamp[p] # c.stamp[p]
               /\ requests[x] # NoRow => requests[x].stamp[p] # c.stamp[p]
    <3>1. last_reset[k][p] <= c.stamp[p] /\ last_reset[k][p] \in Int
      BY <1>1, <1>6, StampTypes DEF AskSound
    <3>2. /\ reservations[x] # NoRow => reservations[x].stamp[p] <= last_reset[k][p]
          /\ requests[x] # NoRow => requests[x].stamp[p] <= last_reset[k][p]
      BY <1>0, <2>2 DEF RowsInOrder
    <3>3. \A u, v, w \in Int : u <= v /\ v <= w /\ v # w => u # w
      OBVIOUS
    <3> QED
      BY <1>1, <1>2, <1>6, <3>1, <3>2, <3>3, StampTypes
  <2>3. Paid(k, p)' = {} /\ Held(k, p)' = {}
    BY <1>5, <2>1, <2>2 DEF Paid, Held, HoldOpen
  <2>4. /\ Total({}, Cost', MaxAmount) = 0 /\ Total({}, Amount', MaxAmount) = 0
        /\ Total({}, est', MaxAmount) = 0
    BY TotalEmpty
  <2>5. (Paid(k, p) \ Uncharged)' = {} /\ (Held(k, p) \ Returned)' = {}
    BY <2>3
  <2>6. /\ Total(Paid(k, p) \ Uncharged, Cost, MaxAmount)' = 0
        /\ Total(Held(k, p) \ Returned, Amount, MaxAmount)' = 0
        /\ Total(Counted(k), est, MaxAmount)' = 0
    BY <1>4, <2>4, <2>5
  <2> QED
    BY <2>1, <2>6 DEF Exact
<1>7. CASE ~(k = own /\ last_reset[k][p] # c.stamp[p])
  <2>1. last_reset'[k][p] = last_reset[k][p] /\ spend'[k][p] = spend[k][p]
    BY <1>1, <1>2, <1>5, <1>7 DEF LedgerTypeOK, AskSound
  <2>2. <<k, p>> \notin adrift \cup torn
    BY <1>5, <1>7
  <2> QED
    BY <1>0, <1>4, <1>5, <2>1, <2>2, RowsKept DEF Exact
<1> QED
  BY <1>6, <1>7

LEMMA IncrementBooks ==
    ASSUME StatementsInv, NEW t \in Threads, Increment(t), Statement(t), ~TakeCutoff(t),
           NEW k \in Keys, NEW p \in Periods, <<k, p>> \notin (adrift \cup torn)'
    PROVE  Exact(k, p)'
<1>0. /\ StatementsTypeOK /\ OneInside /\ RowsInOrder /\ RowsAskedFor /\ CallsSound
      /\ BooksAtStatement
  BY DEF StatementsInv
<1> DEFINE c == call[t]
           r == c.req
<1>1. c \in Asks /\ c.at = "increment" /\ LedgerTypeOK
  BY <1>0, CallShape DEF Increment, StatementsTypeOK
<1>2. r \in Requests /\ KeyOf[r] \in Keys /\ est[r] \in 0..MaxAmount
  BY <1>0, <1>1, AskParts DEF StatementsTypeOK, Amounts
<1>3. call'[t].at = "hold" /\ call'[t].req = r
  <2>1. call'[t] = [c EXCEPT !.at = "hold"]
    BY <1>0 DEF Increment, GoOn, StatementsTypeOK
  <2> QED
    BY <1>1, <2>1, AskMoved
<1>4. /\ Counted(k) = {} /\ Uncharged = {} /\ Returned = {}
      /\ Uncharged' = {} /\ Returned' = {}
      /\ Counted(k)' = {x \in {r} : KeyOf[x] = k}
  <2>1. Counted(k) = {} /\ Uncharged = {} /\ Returned = {}
    BY <1>0, <1>1, OneCallOut, NothingOut
  <2>2. /\ UnchargedBy(call'[t]) = {} /\ ReturnedBy(call'[t]) = {}
        /\ CountedBy(call'[t], k) = {x \in {r} : KeyOf[x] = k}
    BY <1>2, <1>3 DEF CountedBy, UnchargedBy, ReturnedBy
  <2> QED
    BY <1>0, <2>1, <2>2, OneCallOut
<1>5. /\ UNCHANGED <<last_reset, requests, reservations, adrift, torn, est>>
      /\ spend' = [spend EXCEPT ![KeyOf[r]] = [q \in Periods |-> @[q] + est[r]]]
  BY DEF Increment
<1>6. CASE k # KeyOf[r]
  <2>1. spend'[k][p] = spend[k][p] /\ Counted(k)' = {}
    BY <1>1, <1>4, <1>5, <1>6 DEF LedgerTypeOK
  <2> QED
    BY <1>0, <1>4, <1>5, <2>1, RowsKept DEF Exact
<1>7. CASE k = KeyOf[r]
  <2>1. spend'[k][p] = spend[k][p] + est[r] /\ Counted(k)' = {r}
    BY <1>1, <1>2, <1>4, <1>5, <1>7 DEF LedgerTypeOK
  <2>2. Total({r}, est, MaxAmount) = est[r] /\ Total({}, est, MaxAmount) = 0
    BY <1>2, TotalSingleton, TotalEmpty
  <2>3. spend[k][p] = Total(Paid(k, p), Cost, MaxAmount) + Total(Held(k, p), Amount, MaxAmount) + 0
    <3>1. <<k, p>> \notin adrift \cup torn
      BY <1>5
    <3>2. Paid(k, p) \ Uncharged = Paid(k, p) /\ Held(k, p) \ Returned = Held(k, p)
      BY <1>4
    <3>3. Exact(k, p)
      BY <1>0, <3>1 DEF BooksAtStatement, Exact
    <3> QED
      BY <1>4, <2>2, <3>2, <3>3 DEF Exact
  <2>4. /\ Paid(k, p)' = Paid(k, p) /\ Held(k, p)' = Held(k, p)
        /\ Cost' = Cost /\ Amount' = Amount /\ est' = est
    BY <1>5 DEF Paid, Held, HoldOpen, Cost, Amount
  <2>5. /\ Total(Paid(k, p), Cost, MaxAmount) \in Nat /\ Total(Held(k, p), Amount, MaxAmount) \in Nat
    BY FiniteRows, TotalNat
  <2> QED
    <3>1. Total(Paid(k, p) \ Uncharged, Cost, MaxAmount)' = Total(Paid(k, p), Cost, MaxAmount)
      BY <1>4, <2>4
    <3>2. Total(Held(k, p) \ Returned, Amount, MaxAmount)' = Total(Held(k, p), Amount, MaxAmount)
      BY <1>4, <2>4
    <3>3. Total(Counted(k), est, MaxAmount)' = est[r]
      BY <2>1, <2>2, <2>4
    <3>4. est[r] \in Int
      BY <1>2
    <3> QED
      BY <2>1, <2>3, <2>5, <3>1, <3>2, <3>3, <3>4 DEF Exact
<1> QED
  BY <1>6, <1>7

LEMMA InsertHoldBooks ==
    ASSUME StatementsInv, NEW t \in Threads, InsertHold(t), Statement(t), ~TakeCutoff(t),
           NEW k \in Keys, NEW p \in Periods, <<k, p>> \notin (adrift \cup torn)'
    PROVE  Exact(k, p)'
<1>0. /\ StatementsTypeOK /\ OneInside /\ RowsInOrder /\ RowsAskedFor /\ CallsSound
      /\ BooksAtStatement
  BY DEF StatementsInv
<1> DEFINE c == call[t]
           r == c.req
<1>1. c \in Asks /\ c.at = "hold" /\ AskSound(c) /\ LedgerTypeOK
  BY <1>0, CallShape DEF InsertHold, StatementsTypeOK, CallsSound
<1>2. r \in Requests /\ est[r] \in 0..MaxAmount /\ c.stamp \in Stamps
  BY <1>0, <1>1, AskParts DEF StatementsTypeOK, Amounts
<1>3. call'[t].at = "idle"
  BY <1>0 DEF InsertHold, Return, Idle, StatementsTypeOK
<1>4. /\ Uncharged = {} /\ Returned = {} /\ Uncharged' = {} /\ Returned' = {}
      /\ Counted(k)' = {} /\ Counted(k) = {x \in {r} : KeyOf[x] = k}
  <2>1. Counted(k)' = {} /\ Uncharged' = {} /\ Returned' = {}
    BY <1>0, <1>3, OneCallOut, NothingOut
  <2>2. /\ UnchargedBy(c) = {} /\ ReturnedBy(c) = {}
        /\ CountedBy(c, k) = {x \in {r} : KeyOf[x] = k}
    BY <1>1, <1>2 DEF CountedBy, UnchargedBy, ReturnedBy
  <2> QED
    BY <1>0, <2>1, <2>2, OneCallOut
<1>5. /\ UNCHANGED <<spend, last_reset, requests, adrift, torn, est>>
      /\ reservations' = [reservations EXCEPT ![r] =
                            [amount |-> est[r], stamp |-> c.stamp, reserved_at |-> now]]
  BY DEF InsertHold, budgets
<1>6. /\ reservations[r] = NoRow
      /\ reservations'[r] # NoRow /\ reservations'[r].amount = est[r]
      /\ reservations'[r].stamp = last_reset[KeyOf[r]]
      /\ \A x \in Requests \ {r} : reservations'[x] = reservations[x]
  <2>1. [amount |-> est[r], stamp |-> c.stamp, reserved_at |-> now] \in Holds
    BY <1>1, <1>2 DEF Holds, LedgerTypeOK, Amounts
  <2>2. reservations[r] = NoRow
    BY <1>0, <1>1, <1>2 DEF AskSound, RowsAskedFor
  <2>3. last_reset[KeyOf[r]] = c.stamp
    BY <1>1 DEF AskSound
  <2> QED
    BY <1>1, <1>2, <1>5, <2>1, <2>2, <2>3 DEF LedgerTypeOK
<1>7. Paid(k, p)' = Paid(k, p) /\ Cost' = Cost
  BY <1>5 DEF Paid, Cost
<1>8. \A x \in Held(k, p) : Amount'[x] = Amount[x] /\ x # r
  BY <1>6 DEF Held, HoldOpen, Amount
<1>9. CASE k # KeyOf[r]
  <2>1. Held(k, p)' = Held(k, p) /\ Counted(k) = {}
    BY <1>4, <1>5, <1>6, <1>9 DEF Held, HoldOpen
  <2>2. (Paid(k, p) \ Uncharged)' = Paid(k, p) \ Uncharged
    BY <1>4, <1>7
  <2>3. (Held(k, p) \ Returned)' = Held(k, p) \ Returned
    BY <1>4, <2>1
  <2> QED
    BY <1>0, <1>4, <1>5, <1>7, <1>8, <2>1, <2>2, <2>3, BooksKept DEF Exact
<1>10. CASE k = KeyOf[r]
  <2>1. Held(k, p)' = Held(k, p) \cup {r} /\ r \notin Held(k, p) /\ Counted(k) = {r}
    BY <1>2, <1>4, <1>5, <1>6, <1>10 DEF Held, HoldOpen
  <2>2. Amount'[r] = est[r]
    BY <1>2, <1>6 DEF Amount
  <2>3. Total(Held(k, p) \cup {r}, Amount', MaxAmount)
           = Total(Held(k, p), Amount, MaxAmount) + Amount'[r]
    <3>1. IsFiniteSet(Held(k, p)) /\ Amount'[r] \in 0..MaxAmount
      BY <1>2, <2>2, FiniteRows
    <3>2. r \notin Held(k, p) /\ \A x \in Held(k, p) : Amount'[x] = Amount[x]
      BY <1>8, <2>1
    <3> QED
      <4> DEFINE S == Held(k, p)
                 after == Amount'
      <4>1. IsFiniteSet(S) /\ r \notin S /\ after[r] \in 0..MaxAmount
        BY <3>1, <3>2
      <4>2. \A x \in S : after[x] = Amount[x]
        BY <3>2
      <4>3. Total(S \cup {r}, after, MaxAmount) = Total(S, Amount, MaxAmount) + after[r]
        <5> HIDE DEF S, after, r
        <5> QED
          BY <4>1, <4>2, TotalOneMore
      <4> QED
        BY <4>3
  <2>4. Total({r}, est, MaxAmount) = est[r] /\ Total({}, est', MaxAmount) = 0
    BY <1>2, TotalSingleton, TotalEmpty
  <2>5. spend[k][p] = Total(Paid(k, p), Cost, MaxAmount) + Total(Held(k, p), Amount, MaxAmount) + est[r]
    <3>1. <<k, p>> \notin adrift \cup torn
      BY <1>5
    <3>2. Paid(k, p) \ Uncharged = Paid(k, p) /\ Held(k, p) \ Returned = Held(k, p)
      BY <1>4
    <3>3. Exact(k, p)
      BY <1>0, <3>1 DEF BooksAtStatement, Exact
    <3> QED
      BY <2>1, <2>4, <3>2, <3>3 DEF Exact
  <2>6. /\ Total(Paid(k, p), Cost, MaxAmount) \in Nat /\ Total(Held(k, p), Amount, MaxAmount) \in Nat
    BY FiniteRows, TotalNat
  <2> QED
    <3>1. Total(Paid(k, p) \ Uncharged, Cost, MaxAmount)' = Total(Paid(k, p), Cost, MaxAmount)
      BY <1>4, <1>7
    <3>2. Total(Held(k, p) \ Returned, Amount, MaxAmount)'
             = Total(Held(k, p), Amount, MaxAmount) + est[r]
      <4>1. (Held(k, p) \ Returned)' = Held(k, p) \cup {r}
        BY <1>4, <2>1
      <4> QED
        BY <2>2, <2>3, <4>1
    <3>3. Total(Counted(k), est, MaxAmount)' = 0
      BY <1>4, <2>4
    <3>4. est[r] \in Int /\ spend' = spend
      BY <1>2, <1>5
    <3> QED
      BY <2>5, <2>6, <3>1, <3>2, <3>3, <3>4 DEF Exact
<1> QED
  BY <1>9, <1>10

LEMMA InsertBillBooks ==
    ASSUME StatementsInv, NEW t \in Threads, NEW r \in Requests, NEW cost \in Amounts,
           InsertBill(t, r, cost), Statement(t), ~TakeCutoff(t),
           NEW k \in Keys, NEW p \in Periods, <<k, p>> \notin (adrift \cup torn)'
    PROVE  Exact(k, p)'
<1>0. StatementsTypeOK /\ OneInside /\ CallsSound /\ BooksAtStatement
  BY DEF StatementsInv
<1>1. call[t].at = "idle" /\ call'[t].at = "adjust" /\ call'[t].req = r
  BY <1>0 DEF InsertBill, Enter, Idle, StatementsTypeOK
<1>2. /\ Counted(k) = {} /\ Uncharged = {} /\ Returned = {}
      /\ Counted(k)' = {} /\ Uncharged' = {r} /\ Returned' = {}
  <2>1. Counted(k) = {} /\ Uncharged = {} /\ Returned = {}
    BY <1>0, <1>1, OneCallOut, NothingOut
  <2>2. /\ CountedBy(call'[t], k) = {} /\ UnchargedBy(call'[t]) = {r}
        /\ ReturnedBy(call'[t]) = {}
    BY <1>1 DEF CountedBy, UnchargedBy, ReturnedBy
  <2> QED
    BY <1>0, <2>1, <2>2, OneCallOut
<1>3. /\ UNCHANGED <<spend, last_reset, reservations, adrift, torn, est>>
      /\ requests[r] = NoRow
      /\ \A x \in Requests \ {r} : requests'[x] = requests[x]
  BY <1>0 DEF InsertBill, budgets, StatementsTypeOK, LedgerTypeOK
<1>4. r \notin Paid(k, p) /\ Paid(k, p)' \ {r} = Paid(k, p)
  BY <1>3 DEF Paid
<1>5. \A x \in Paid(k, p) : Cost'[x] = Cost[x]
  BY <1>3, <1>4 DEF Cost, Paid
<1>6. Held(k, p)' = Held(k, p) /\ Amount' = Amount
  BY <1>3 DEF Held, HoldOpen, Amount
<1>7. (Paid(k, p) \ Uncharged)' = Paid(k, p) \ Uncharged
  BY <1>2, <1>4
<1>8. (Held(k, p) \ Returned)' = Held(k, p) \ Returned
  BY <1>2, <1>6
<1>9. <<k, p>> \notin adrift \cup torn /\ spend'[k][p] = spend[k][p]
  BY <1>3
<1> QED
  BY <1>0, <1>2, <1>5, <1>6, <1>7, <1>8, <1>9, BooksKept DEF Exact

LEMMA AdjustBooks ==
    ASSUME StatementsInv, NEW t \in Threads, Adjust(t), Statement(t), ~TakeCutoff(t),
           NEW r, r = call[t].req,
           NEW k \in Keys, NEW p \in Periods, <<k, p>> \notin (adrift \cup torn)'
    PROVE  Exact(k, p)'
<1>0. StatementsTypeOK /\ OneInside /\ RowsAskedFor /\ CallsSound /\ BooksAtStatement
  BY DEF StatementsInv
<1>1. call[t] \in Settles /\ call[t].at = "adjust" /\ SettleSound(call[t]) /\ LedgerTypeOK
  BY <1>0, CallShape DEF Adjust, StatementsTypeOK, CallsSound
<1>2. /\ r \in Requests /\ KeyOf[r] \in Keys /\ est[r] \in 0..MaxAmount
      /\ requests[r] # NoRow /\ requests[r].stamp = last_reset[KeyOf[r]]
      /\ requests[r].cost = Cost[r] /\ Cost[r] \in 0..MaxAmount
  <2>1. r \in Requests
    BY <1>1, SettleParts
  <2> QED
    BY <1>0, <1>1, <2>1, AmountsOfRows DEF SettleSound, StatementsTypeOK, Amounts
<1>3. call'[t].at = "drop" /\ call'[t].req = r
  <2>1. call'[t] = [call[t] EXCEPT !.at = "drop"]
    BY <1>0 DEF Adjust, GoOn, StatementsTypeOK
  <2> QED
    BY <1>1, <2>1, SettleMoved
<1>4. /\ Counted(k) = {} /\ Uncharged = {r} /\ Returned = {}
      /\ Counted(k)' = {} /\ Uncharged' = {} /\ Returned' = {r}
  <2>1. /\ CountedBy(call[t], k) = {} /\ UnchargedBy(call[t]) = {r} /\ ReturnedBy(call[t]) = {}
    BY <1>1, <1>2 DEF CountedBy, UnchargedBy, ReturnedBy
  <2>2. /\ CountedBy(call'[t], k) = {} /\ UnchargedBy(call'[t]) = {} /\ ReturnedBy(call'[t]) = {r}
    BY <1>2, <1>3 DEF CountedBy, UnchargedBy, ReturnedBy
  <2> QED
    BY <1>0, <2>1, <2>2, OneCallOut
<1>5. /\ UNCHANGED <<last_reset, requests, reservations, torn, est>>
      /\ spend' = [spend EXCEPT ![KeyOf[r]] = [q \in Periods |-> @[q] + (requests[r].cost - est[r])]]
      /\ adrift' = adrift \cup Detached(r, est[r])
  BY DEF Adjust
<1>6. /\ Paid(k, p)' = Paid(k, p) /\ Held(k, p)' = Held(k, p)
      /\ Cost' = Cost /\ Amount' = Amount /\ <<k, p>> \notin adrift \cup torn
  BY <1>5 DEF Paid, Held, HoldOpen, Cost, Amount
<1>7. CASE k # KeyOf[r]
  <2>1. spend'[k][p] = spend[k][p]
    BY <1>1, <1>5, <1>7 DEF LedgerTypeOK
  <2>2. r \notin Paid(k, p) /\ r \notin Held(k, p)
    BY <1>7 DEF Paid, Held
  <2>3. (Paid(k, p) \cap Uncharged)' = Paid(k, p) \cap Uncharged
    BY <1>4, <2>2
  <2>4. (Held(k, p) \cap Returned)' = Held(k, p) \cap Returned
    BY <1>4, <1>6, <2>2
  <2> QED
    BY <1>0, <1>4, <1>5, <1>6, <2>1, <2>3, <2>4, RowsKept DEF Exact
<1>8. CASE k = KeyOf[r]
  <2> DEFINE P == Paid(k, p) \ {r}
             H == Held(k, p) \ {r}
             paid == Total(P, Cost, MaxAmount)
             held == Total(H, Amount, MaxAmount)
  <2>1. spend'[k][p] = spend[k][p] + (Cost[r] - est[r])
    BY <1>1, <1>2, <1>5, <1>8 DEF LedgerTypeOK
  <2>2. IsFiniteSet(P) /\ IsFiniteSet(H)
    BY FiniteRows, FS_Subset
  <2>3. paid \in Nat /\ held \in Nat
    BY <2>2, TotalNat
  <2>4. Total(Paid(k, p), Cost, MaxAmount) = paid + Cost[r]
    <3>1. r \in Paid(k, p)
      BY <1>2, <1>8 DEF Paid
    <3> QED
      BY <1>1, <3>1, PaidWithout
  <2>5. Total(Held(k, p), Amount, MaxAmount) = held + est[r]
    <3>1. CASE HoldOpen(r, p)
      <4>1. r \in Held(k, p)
        BY <1>2, <1>8, <3>1 DEF Held
      <4>2. Amount[r] = est[r] /\ Amount[r] \in 0..MaxAmount
        BY <1>0, <1>1, <1>2, <3>1, AmountsOfRows DEF HoldOpen, RowsAskedFor
      <4>3. Held(k, p) \subseteq Requests
        BY DEF Held
      <4> QED
        BY <1>1, <4>1, <4>2, <4>3, HeldWithout
    <3>2. CASE ~HoldOpen(r, p)
      <4>1. est[r] = 0
        BY <1>5, <1>8, <3>2 DEF Detached
      <4>2. Held(k, p) = H
        BY <3>2 DEF Held
      <4>3. Total(Held(k, p), Amount, MaxAmount) = held
        BY <4>2, Zenon
      <4> QED
        BY <2>3, <4>1, <4>3
    <3> QED
      BY <3>1, <3>2
  <2>6. Total({}, est, MaxAmount) = 0
    BY TotalEmpty
  <2>7. spend[k][p] = paid + (held + est[r]) + 0
    <3>1. Exact(k, p)
      BY <1>0, <1>6 DEF BooksAtStatement, Exact
    <3>2. Paid(k, p) \ Uncharged = P /\ Held(k, p) \ Returned = Held(k, p)
      BY <1>4
    <3> QED
      BY <1>4, <2>5, <2>6, <3>1, <3>2 DEF Exact
  <2>8. /\ Total(Paid(k, p) \ Uncharged, Cost, MaxAmount)' = paid + Cost[r]
        /\ Total(Held(k, p) \ Returned, Amount, MaxAmount)' = held
        /\ Total(Counted(k), est, MaxAmount)' = 0
    <3>1. (Paid(k, p) \ Uncharged)' = Paid(k, p) /\ (Held(k, p) \ Returned)' = H
      BY <1>4, <1>6
    <3> QED
      BY <1>4, <1>5, <1>6, <2>4, <2>6, <3>1
  <2>9. Cost[r] \in Int /\ est[r] \in Int
    BY <1>2
  <2> QED
    <3> HIDE DEF P, H, paid, held
    <3> QED
      BY <2>1, <2>3, <2>7, <2>8, <2>9 DEF Exact
<1> QED
  BY <1>7, <1>8

LEMMA DropHoldBooks ==
    ASSUME StatementsInv, NEW t \in Threads, DropHold(t), Statement(t), ~TakeCutoff(t),
           NEW r, r = call[t].req,
           NEW k \in Keys, NEW p \in Periods, <<k, p>> \notin (adrift \cup torn)'
    PROVE  Exact(k, p)'
<1>0. StatementsTypeOK /\ OneInside /\ CallsSound /\ BooksAtStatement
  BY DEF StatementsInv
<1>1. call[t] \in Settles /\ call[t].at = "drop" /\ r \in Requests /\ LedgerTypeOK
  BY <1>0, CallShape, SettleParts DEF DropHold, StatementsTypeOK
<1>2. /\ Counted(k) = {} /\ Uncharged = {} /\ Returned = {r}
      /\ Counted(k)' = {} /\ Uncharged' = {} /\ Returned' = {}
  <2>1. call'[t].at = "idle"
    BY <1>0 DEF DropHold, Return, Idle, StatementsTypeOK
  <2>2. /\ CountedBy(call[t], k) = {} /\ UnchargedBy(call[t]) = {} /\ ReturnedBy(call[t]) = {r}
    BY <1>1 DEF CountedBy, UnchargedBy, ReturnedBy
  <2>3. Counted(k)' = {} /\ Uncharged' = {} /\ Returned' = {}
    BY <1>0, <2>1, OneCallOut, NothingOut
  <2> QED
    BY <1>0, <2>2, <2>3, OneCallOut
<1>3. /\ UNCHANGED <<spend, last_reset, requests, adrift, torn, est>>
      /\ reservations' = [reservations EXCEPT ![r] = NoRow]
  BY DEF DropHold, budgets
<1>4. /\ reservations'[r] = NoRow
      /\ \A x \in Requests \ {r} : reservations'[x] = reservations[x]
  BY <1>1, <1>3 DEF LedgerTypeOK
<1>5. Held(k, p)' = Held(k, p) \ {r}
  BY <1>3, <1>4 DEF Held, HoldOpen
<1>6. \A x \in Held(k, p) \ {r} : Amount'[x] = Amount[x]
  BY <1>4 DEF Amount, Held
<1>7. Paid(k, p)' = Paid(k, p) /\ Cost' = Cost
  BY <1>3 DEF Paid, Cost
<1>8. (Paid(k, p) \ Uncharged)' = Paid(k, p) \ Uncharged
  BY <1>2, <1>7
<1>9. (Held(k, p) \ Returned)' = Held(k, p) \ Returned
  BY <1>2, <1>5
<1>10. <<k, p>> \notin adrift \cup torn /\ spend'[k][p] = spend[k][p]
  BY <1>3
<1> QED
  BY <1>0, <1>2, <1>6, <1>7, <1>8, <1>9, <1>10, BooksKept DEF Exact

LEMMA RefusedBooks ==
    ASSUME StatementsInv, NEW t \in Threads, Refused(t), Statement(t), ~TakeCutoff(t),
           NEW k \in Keys, NEW p \in Periods, <<k, p>> \notin (adrift \cup torn)'
    PROVE  Exact(k, p)'
<1>1. call[t].at = "refuse" /\ call'[t].at = "idle"
  BY DEF Refused, Return, Idle, StatementsInv, StatementsTypeOK
<1>2. /\ Counted(k) = {} /\ Uncharged = {} /\ Returned = {}
      /\ Counted(k)' = {} /\ Uncharged' = {} /\ Returned' = {}
  BY <1>1, OneCallOut, NothingOut DEF StatementsInv
<1>3. UNCHANGED <<spend, last_reset, requests, reservations, adrift, torn>>
  BY DEF Refused, ledgerVars, budgets
<1> QED
  BY <1>2, <1>3, RowsKept DEF Exact, StatementsInv

LEMMA ListHoldsBooks ==
    ASSUME StatementsInv, NEW t \in Threads, ListHolds(t), Statement(t), ~TakeCutoff(t),
           NEW k \in Keys, NEW p \in Periods, <<k, p>> \notin (adrift \cup torn)'
    PROVE  Exact(k, p)'
<1>1. call[t].at = "cutoff" /\ call'[t].at = "refund" /\ call'[t].given = {}
  BY DEF ListHolds, Enter, StatementsInv, StatementsTypeOK
<1>2. /\ Counted(k) = {} /\ Uncharged = {} /\ Returned = {}
      /\ Counted(k)' = {} /\ Uncharged' = {} /\ Returned' = {}
  <2>1. call[t].at \notin {"hold", "adjust", "drop", "refund"}
    BY <1>1
  <2>2. Counted(k) = {} /\ Uncharged = {} /\ Returned = {}
    BY <2>1, OneCallOut, NothingOut DEF StatementsInv
  <2>3. /\ CountedBy(call'[t], k) = {} /\ UnchargedBy(call'[t]) = {}
        /\ ReturnedBy(call'[t]) = {}
    BY <1>1 DEF CountedBy, UnchargedBy, ReturnedBy
  <2> QED
    BY <2>2, <2>3, OneCallOut DEF StatementsInv
<1>3. UNCHANGED <<spend, last_reset, requests, reservations, adrift, torn>>
  BY DEF ListHolds, ledgerVars, budgets
<1> QED
  BY <1>2, <1>3, RowsKept DEF Exact, StatementsInv

\* A counter that is exact has been given back no more than it carries: the
\* MAX(0, ...) of the UPDATE never takes effect on it.
LEMMA GiveBackBooks ==
    ASSUME StatementsInv, NEW t \in Threads, NEW r \in Requests, GiveBack(t, r),
           Statement(t), ~TakeCutoff(t),
           NEW k \in Keys, NEW p \in Periods, <<k, p>> \notin (adrift \cup torn)'
    PROVE  Exact(k, p)'
<1>0. StatementsTypeOK /\ OneInside /\ CallsSound /\ BooksAtStatement /\ LedgerTypeOK
  BY DEF StatementsInv, StatementsTypeOK
<1> DEFINE c == call[t]
<1>1. c \in Reclaims /\ c.at = "refund" /\ ReclaimSound(c) /\ r \in c.rows
  BY <1>0, CallShape DEF GiveBack, StatementsTypeOK, CallsSound
<1>2. /\ call'[t].at = "refund" /\ call'[t].given = c.given \cup {r}
      /\ r \notin c.given /\ c.given \subseteq Requests
  <2>1. call'[t] = [c EXCEPT !.rows = @ \ {r}, !.given = @ \cup {r}]
    BY <1>0 DEF GiveBack, StatementsTypeOK
  <2>2. r \in Requests /\ c.given \subseteq Requests /\ r \notin c.given
    BY <1>1, ReclaimParts DEF ReclaimSound
  <2>3. call'[t].at = c.at /\ call'[t].given = c.given \cup {r}
    BY <1>1, <2>1 DEF Reclaims
  <2> QED
    BY <1>1, <2>2, <2>3
<1>3. /\ Counted(k) = {} /\ Uncharged = {} /\ Counted(k)' = {} /\ Uncharged' = {}
      /\ Returned = c.given /\ Returned' = c.given \cup {r}
  <2>1. /\ CountedBy(c, k) = {} /\ UnchargedBy(c) = {} /\ ReturnedBy(c) = c.given
    BY <1>1, <1>2 DEF CountedBy, UnchargedBy, ReturnedBy
  <2>2. /\ CountedBy(call'[t], k) = {} /\ UnchargedBy(call'[t]) = {}
        /\ ReturnedBy(call'[t]) = c.given \cup {r}
    BY <1>2 DEF CountedBy, UnchargedBy, ReturnedBy
  <2> QED
    BY <1>0, <2>1, <2>2, OneCallOut
<1>4. /\ UNCHANGED <<last_reset, requests, reservations, adrift, torn, est>>
      /\ Paid(k, p)' = Paid(k, p) /\ Held(k, p)' = Held(k, p)
      /\ Cost' = Cost /\ Amount' = Amount /\ <<k, p>> \notin adrift \cup torn
  BY DEF GiveBack, Paid, Held, HoldOpen, Cost, Amount
<1> DEFINE H    == Held(k, p) \ c.given
           paid == Total(Paid(k, p), Cost, MaxAmount)
           held == Total(H, Amount, MaxAmount)
<1>5. H \subseteq Requests /\ IsFiniteSet(H) /\ held \in Nat /\ paid \in Nat
  <2>1. IsFiniteSet(H)
    BY <1>3, FiniteRows
  <2>2. IsFiniteSet(Paid(k, p))
    BY FiniteRows
  <2>3. H \subseteq Requests
    BY DEF Held
  <2> QED
    BY <2>1, <2>2, <2>3, TotalNat
<1>6. spend[k][p] = paid + held
  <2>1. Exact(k, p)
    BY <1>0, <1>4 DEF BooksAtStatement, Exact
  <2>2. Total({}, est, MaxAmount) = 0
    BY TotalEmpty
  <2>3. Paid(k, p) \ Uncharged = Paid(k, p) /\ Held(k, p) \ Returned = H
    BY <1>3
  <2> QED
    BY <1>3, <1>5, <2>1, <2>2, <2>3 DEF Exact
<1>7. /\ Total(Paid(k, p) \ Uncharged, Cost, MaxAmount)' = paid
      /\ Total(Held(k, p) \ Returned, Amount, MaxAmount)' = Total(H \ {r}, Amount, MaxAmount)
      /\ Total(Counted(k), est, MaxAmount)' = 0
  <2>1. (Paid(k, p) \ Uncharged)' = Paid(k, p)
    BY <1>3, <1>4
  <2>2. (Held(k, p) \ Returned)' = H \ {r}
    BY <1>3, <1>4
  <2>3. Total({}, est, MaxAmount) = 0
    BY TotalEmpty
  <2> QED
    BY <1>3, <1>4, <2>1, <2>2, <2>3
<1>8. spend'[k][p] = spend[k][p] \/ (k = KeyOf[r] /\ spend'[k][p] = AtLeastZero(spend[k][p] - Given(r, p)))
  BY <1>0 DEF GiveBack, LedgerTypeOK
<1>9. k = KeyOf[r] => spend'[k][p] = AtLeastZero(spend[k][p] - Given(r, p))
  <2>1. CASE \A q \in Periods : Given(r, q) = 0
    <3>1. spend[k][p] \in Nat /\ spend' = spend /\ Given(r, p) = 0
      BY <1>5, <1>6, <2>1 DEF GiveBack
    <3>2. \A n \in Nat : n = AtLeastZero(n - 0)
      BY DEF AtLeastZero
    <3> QED
      BY <3>1, <3>2
  <2>2. CASE ~\A q \in Periods : Given(r, q) = 0
    BY <1>0, <2>2 DEF GiveBack, LedgerTypeOK
  <2> QED
    BY <2>1, <2>2
<1>10. CASE r \in H
  <2>1. k = KeyOf[r] /\ Given(r, p) = Amount[r] /\ Amount[r] \in 0..MaxAmount
    BY <1>0, <1>10, AmountsOfRows DEF Held, Given, HoldOpen
  <2>2. held = Total(H \ {r}, Amount, MaxAmount) + Amount[r]
    BY <1>0, <1>5, <1>10, HeldWithout
  <2>3. Total(H \ {r}, Amount, MaxAmount) \in Nat
    <3>1. IsFiniteSet(H \ {r})
      BY <1>5, FS_Subset
    <3> QED
      BY <3>1, TotalNat
  <2>4. spend'[k][p] = paid + Total(H \ {r}, Amount, MaxAmount)
    <3> DEFINE rest == Total(H \ {r}, Amount, MaxAmount)
               given == Amount[r]
    <3>1. given \in Nat /\ rest \in Nat /\ paid \in Nat /\ held = rest + given
      BY <1>5, <2>1, <2>2, <2>3
    <3>2. spend[k][p] - given = paid + rest
      <4> HIDE DEF paid, held, rest, given
      <4> QED
        BY <1>6, <3>1
    <3>3. AtLeastZero(paid + rest) = paid + rest
      <4> HIDE DEF paid, rest
      <4> QED
        BY <3>1 DEF AtLeastZero
    <3> QED
      BY <1>9, <2>1, <3>2, <3>3
  <2>5. Total(H \ {r}, Amount, MaxAmount) + 0 = Total(H \ {r}, Amount, MaxAmount)
    BY <2>3
  <2> QED
    <3> HIDE DEF paid, H
    <3> QED
      BY <1>5, <1>7, <2>3, <2>4 DEF Exact
<1>11. CASE r \notin H
  <2>1. H \ {r} = H
    BY <1>11
  <2>2. k = KeyOf[r] => Given(r, p) = 0
    BY <1>2, <1>11 DEF Held, Given
  <2>3. \A n \in Nat : AtLeastZero(n - 0) = n
    BY DEF AtLeastZero
  <2>4. spend'[k][p] = paid + held
    <3>1. paid + held \in Nat
      BY <1>5
    <3> QED
      BY <1>6, <1>8, <1>9, <2>2, <2>3, <3>1
  <2>5. Total(Held(k, p) \ Returned, Amount, MaxAmount)' = held
    BY <1>7, <2>1
  <2> QED
    <3> HIDE DEF paid, held, H
    <3> QED
      BY <1>5, <1>7, <2>4, <2>5 DEF Exact
<1> QED
  BY <1>10, <1>11

\* What is deleted is what was given back: no hold came or went since the list.
LEMMA DeleteStaleBooks ==
    ASSUME StatementsInv, NEW t \in Threads, DeleteStale(t), Statement(t), ~TakeCutoff(t),
           NEW k \in Keys, NEW p \in Periods, <<k, p>> \notin (adrift \cup torn)'
    PROVE  Exact(k, p)'
<1>0. StatementsTypeOK /\ OneInside /\ CallsSound /\ BooksAtStatement /\ LedgerTypeOK
  BY DEF StatementsInv, StatementsTypeOK
<1> DEFINE c == call[t]
<1>1. c \in Reclaims /\ c.at = "refund" /\ ReclaimSound(c) /\ c.rows = {}
  BY <1>0, CallShape DEF DeleteStale, StatementsTypeOK, CallsSound
<1>2. c.given \subseteq Requests /\ OlderThan(c.cutoff) = c.given
  BY <1>1, ReclaimParts DEF ReclaimSound
<1>3. /\ Counted(k) = {} /\ Uncharged = {} /\ Returned = c.given
      /\ Counted(k)' = {} /\ Uncharged' = {} /\ Returned' = {}
  <2>1. call'[t].at = "idle"
    BY <1>0 DEF DeleteStale, Return, Idle, StatementsTypeOK
  <2>2. /\ CountedBy(c, k) = {} /\ UnchargedBy(c) = {} /\ ReturnedBy(c) = c.given
    BY <1>1, <1>2 DEF CountedBy, UnchargedBy, ReturnedBy
  <2>3. Counted(k)' = {} /\ Uncharged' = {} /\ Returned' = {}
    BY <1>0, <2>1, OneCallOut, NothingOut
  <2> QED
    BY <1>0, <2>2, <2>3, OneCallOut
<1>4. /\ UNCHANGED <<spend, last_reset, requests, adrift, torn, est>>
      /\ \A x \in Requests : reservations'[x] = IF x \in c.given THEN NoRow ELSE reservations[x]
  BY <1>2 DEF DeleteStale, budgets
<1>5. Held(k, p)' = Held(k, p) \ c.given
  BY <1>4 DEF Held, HoldOpen
<1>6. \A x \in Held(k, p) \ c.given : Amount'[x] = Amount[x]
  BY <1>4 DEF Amount, Held
<1>7. Paid(k, p)' = Paid(k, p) /\ Cost' = Cost
  BY <1>4 DEF Paid, Cost
<1>8. (Paid(k, p) \ Uncharged)' = Paid(k, p) \ Uncharged
  BY <1>3, <1>7
<1>9. (Held(k, p) \ Returned)' = Held(k, p) \ Returned
  BY <1>3, <1>5
<1>10. <<k, p>> \notin adrift \cup torn /\ spend'[k][p] = spend[k][p]
  BY <1>4
<1> QED
  BY <1>0, <1>3, <1>6, <1>7, <1>8, <1>9, <1>10, BooksKept DEF Exact

\* A counter that no cut-short call leaves torn has nothing of it outstanding.
LEMMA NothingUnfinished ==
    ASSUME StatementsTypeOK, NEW k \in Keys, NEW p \in Periods,
           \A t \in Threads : <<k, p>> \notin Unfinished(t)
    PROVE  /\ Counted(k) = {}
           /\ Paid(k, p) \cap Uncharged = {}
           /\ Held(k, p) \cap Returned = {}
<1>1. \A t \in Threads : call[t].at \in {"hold", "adjust", "drop"} => KeyOf[call[t].req] # k
  BY DEF Unfinished, Both
<1>2. \A t \in Threads : call[t].at = "refund" =>
         \A r \in call[t].given : ~(KeyOf[r] = k /\ HoldOpen(r, p))
  <2> SUFFICES ASSUME NEW t \in Threads, call[t].at = "refund", NEW r \in call[t].given,
                      KeyOf[r] = k, HoldOpen(r, p)
               PROVE  FALSE
    OBVIOUS
  <2>1. Unfinished(t) = {c \in Keys \X Periods :
                           \E x \in call[t].given : KeyOf[x] = c[1] /\ HoldOpen(x, c[2])}
    BY DEF Unfinished
  <2> QED
    BY <2>1
<1> QED
  BY <1>1, <1>2 DEF Counted, Uncharged, Returned, Paid, Held

LEMMA CutShortBooks ==
    ASSUME StatementsInv, NEW k \in Keys, NEW p \in Periods,
           <<k, p>> \notin adrift \cup torn,
           \A t \in Threads : <<k, p>> \notin Unfinished(t),
           Counted(k)' = {}, Uncharged' = {}, Returned' = {}, UNCHANGED ledgerVars
    PROVE  Exact(k, p)'
<1>1. StatementsTypeOK /\ BooksAtStatement
  BY DEF StatementsInv
<1>2. /\ Counted(k) = {} /\ Paid(k, p) \cap Uncharged = {} /\ Held(k, p) \cap Returned = {}
  BY <1>1, NothingUnfinished
<1>3. UNCHANGED <<spend, last_reset, requests, reservations>>
  BY DEF ledgerVars, budgets
<1>4. /\ (Paid(k, p) \cap Uncharged)' = Paid(k, p) \cap Uncharged
      /\ (Held(k, p) \cap Returned)' = Held(k, p) \cap Returned
  BY <1>2
<1> QED
  BY <1>1, <1>2, <1>3, <1>4, RowsKept DEF Exact

LEMMA RaisesBooks ==
    ASSUME StatementsInv, NEW t \in Threads, StatementRaises(t), Statement(t), ~TakeCutoff(t),
           NEW k \in Keys, NEW p \in Periods, <<k, p>> \notin (adrift \cup torn)'
    PROVE  Exact(k, p)'
<1>0. StatementsTypeOK /\ OneInside /\ CallsSound
  BY DEF StatementsInv
<1>1. call'[t].at = "idle" /\ holder = t
  BY <1>0 DEF StatementRaises, Return, Idle, StatementsTypeOK
<1>2. Counted(k)' = {} /\ Uncharged' = {} /\ Returned' = {}
  BY <1>0, <1>1, OneCallOut, NothingOut
<1>3. <<k, p>> \notin adrift \cup torn /\ <<k, p>> \notin Unfinished(t) /\ UNCHANGED ledgerVars
  BY DEF StatementRaises, ledgerVars
<1>4. \A u \in Threads \ {t} : <<k, p>> \notin Unfinished(u)
  BY <1>0, <1>1, OthersOutside DEF Unfinished
<1> QED
  BY <1>2, <1>3, <1>4, CutShortBooks

LEMMA KillBooks ==
    ASSUME StatementsInv, Kill,
           NEW k \in Keys, NEW p \in Periods, <<k, p>> \notin (adrift \cup torn)'
    PROVE  Exact(k, p)'
<1>1. \A t \in Threads : call'[t].at = "idle"
  BY DEF Kill, Idle
<1>2. Counted(k)' = {} /\ Uncharged' = {} /\ Returned' = {}
  BY <1>1 DEF Counted, Uncharged, Returned
<1>3. UNCHANGED ledgerVars /\ torn' = torn \cup UNION {Unfinished(t) : t \in Threads}
  BY DEF Kill
<1>4. <<k, p>> \notin adrift \cup torn /\ \A t \in Threads : <<k, p>> \notin Unfinished(t)
  BY <1>3 DEF ledgerVars
<1> QED
  BY <1>2, <1>3, <1>4, CutShortBooks

\* Time, and a reclaim that has only taken its cutoff, are nothing to the books.
LEMMA OutsideBooks ==
    ASSUME StatementsInv, UNCHANGED <<spend, last_reset, requests, reservations, adrift, torn, est>>,
           call' = call \/ \E t \in Threads : TakeCutoff(t),
           NEW k \in Keys, NEW p \in Periods, <<k, p>> \notin (adrift \cup torn)'
    PROVE  Exact(k, p)'
<1>1. \A t \in Threads : call'[t] = call[t] \/ (call[t].at = "idle" /\ call'[t].at = "cutoff")
  BY DEF TakeCutoff, Idle, StatementsInv, StatementsTypeOK
<1>2. Counted(k)' = Counted(k) /\ Uncharged' = Uncharged /\ Returned' = Returned
  <2>1. \A t \in Threads, x \in Requests :
           /\ (call'[t].at = "hold" /\ call'[t].req = x) <=> (call[t].at = "hold" /\ call[t].req = x)
           /\ (call'[t].at = "adjust" /\ call'[t].req = x)
                 <=> (call[t].at = "adjust" /\ call[t].req = x)
           /\ (call'[t].at = "drop" /\ call'[t].req = x) <=> (call[t].at = "drop" /\ call[t].req = x)
           /\ (call'[t].at = "refund" /\ x \in call'[t].given)
                 <=> (call[t].at = "refund" /\ x \in call[t].given)
    BY <1>1
  <2>2. Counted(k)' = Counted(k)
    BY <2>1 DEF Counted
  <2>3. Uncharged' = Uncharged
    BY <2>1 DEF Uncharged
  <2>4. Returned' = Returned
    BY <2>1 DEF Returned
  <2> QED
    BY <2>2, <2>3, <2>4
<1>3. Paid(k, p)' = Paid(k, p) /\ Held(k, p)' = Held(k, p)
  BY DEF Paid, Held, HoldOpen
<1>4. /\ (Paid(k, p) \cap Uncharged)' = Paid(k, p) \cap Uncharged
      /\ (Held(k, p) \cap Returned)' = Held(k, p) \cap Returned
  BY <1>2, <1>3
<1>5. BooksAtStatement /\ <<k, p>> \notin adrift \cup torn
  BY DEF StatementsInv
<1> QED
  BY <1>2, <1>4, <1>5, RowsKept DEF Exact

LEMMA NextBooks ==
    ASSUME StatementsInv, [StatementsNext]_callVars
    PROVE  BooksAtStatement'
<1> SUFFICES ASSUME NEW k \in Keys, NEW p \in Periods, <<k, p>> \notin (adrift \cup torn)'
             PROVE  Exact(k, p)'
  BY DEF BooksAtStatement, Exact
<1>1. ASSUME NEW t \in Threads, Statement(t), ~TakeCutoff(t)
      PROVE  Exact(k, p)'
  <2>1. CASE \E r \in Requests, amount \in Amounts : SelectBudget(t, r, amount)
    BY <1>1, <2>1, SelectBooks
  <2>2. CASE \E r \in Requests, cost \in Amounts : InsertBill(t, r, cost)
    BY <1>1, <2>2, InsertBillBooks
  <2>3. CASE ResetRow(t)
    BY <1>1, <2>3, ResetBooks
  <2>4. CASE Refused(t)
    BY <1>1, <2>4, RefusedBooks
  <2>5. CASE Increment(t)
    BY <1>1, <2>5, IncrementBooks
  <2>6. CASE InsertHold(t)
    BY <1>1, <2>6, InsertHoldBooks
  <2>7. CASE Adjust(t)
    BY <1>1, <2>7, AdjustBooks
  <2>8. CASE DropHold(t)
    BY <1>1, <2>8, DropHoldBooks
  <2>9. CASE ListHolds(t)
    BY <1>1, <2>9, ListHoldsBooks
  <2>10. CASE DeleteStale(t)
    BY <1>1, <2>10, DeleteStaleBooks
  <2>11. CASE \E r \in Requests : GiveBack(t, r)
    BY <1>1, <2>11, GiveBackBooks
  <2>12. CASE StatementRaises(t)
    BY <1>1, <2>12, RaisesBooks
  <2> QED
    BY <1>1, <2>1, <2>2, <2>3, <2>4, <2>5, <2>6, <2>7, <2>8, <2>9, <2>10, <2>11, <2>12
       DEF Statement
<1>2. CASE \E t \in Threads : TakeCutoff(t)
  <2>1. UNCHANGED <<spend, last_reset, requests, reservations, adrift, torn, est>>
    BY <1>2 DEF TakeCutoff, ledgerVars, budgets
  <2> QED
    BY <1>2, <2>1, OutsideBooks
<1>3. CASE Kill
  BY <1>3, KillBooks
<1>4. CASE Tick \/ Midnight \/ UNCHANGED callVars
  <2>1. UNCHANGED <<spend, last_reset, requests, reservations, adrift, torn, est>> /\ call' = call
    BY <1>4 DEF Tick, Midnight, callVars, ledgerVars, budgets, statementVars
  <2> QED
    BY <2>1, OutsideBooks
<1> QED
  BY <1>1, <1>2, <1>3, <1>4 DEF StatementsNext

-----------------------------------------------------------------------------
(* The theorems *)

LEMMA InitInv == StatementsInit => StatementsInv
<1> SUFFICES ASSUME StatementsInit PROVE StatementsInv
  OBVIOUS
<1>1. StatementsTypeOK
  BY InitType
<1>2. /\ \A t \in Threads : call[t].at = "idle" /\ call[t] = Idle
      /\ holder = Nobody
      /\ \A r \in Requests : requests[r] = NoRow /\ reservations[r] = NoRow
      /\ \A k \in Keys, p \in Periods : spend[k][p] = 0 /\ last_reset[k][p] <= calendar[p]
  BY DEF StatementsInit, LedgerInit, Idle, Never
<1>3. OneInside
  BY <1>2 DEF OneInside
<1>4. RowsInOrder /\ RowsAskedFor
  BY <1>2 DEF RowsInOrder, RowsAskedFor
<1>5. CallsSound
  BY <1>1, <1>2, OutsideIsSound DEF CallsSound, StatementsTypeOK
<1>6. BooksAtStatement
  <2> SUFFICES ASSUME NEW k \in Keys, NEW p \in Periods
               PROVE  Exact(k, p)
    BY DEF BooksAtStatement, Exact
  <2>1. /\ Paid(k, p) \ Uncharged = {} /\ Held(k, p) \ Returned = {} /\ Counted(k) = {}
    BY <1>2 DEF Paid, Held, HoldOpen, Counted
  <2>2. /\ Total({}, Cost, MaxAmount) = 0 /\ Total({}, Amount, MaxAmount) = 0
        /\ Total({}, est, MaxAmount) = 0
    BY TotalEmpty
  <2>3. /\ Total(Paid(k, p) \ Uncharged, Cost, MaxAmount) = 0
        /\ Total(Held(k, p) \ Returned, Amount, MaxAmount) = 0
        /\ Total(Counted(k), est, MaxAmount) = 0
    BY <2>1, <2>2
  <2> QED
    BY <1>2, <2>3 DEF Exact
<1> QED
  BY <1>1, <1>3, <1>4, <1>5, <1>6 DEF StatementsInv

LEMMA NextInv == StatementsInv /\ [StatementsNext]_callVars => StatementsInv'
<1> SUFFICES ASSUME StatementsInv, [StatementsNext]_callVars PROVE StatementsInv'
  OBVIOUS
<1>1. /\ StatementsTypeOK /\ OneInside /\ RowsInOrder /\ RowsAskedFor /\ CallsSound
  BY DEF StatementsInv
<1>2. StatementsTypeOK' /\ OneInside'
  BY <1>1, NextType, NextInside
<1>3. RowsInOrder' /\ RowsAskedFor'
  BY <1>1, NextInOrder, NextAskedFor
<1>4. CallsSound'
  BY <1>1, NextSound
<1>5. BooksAtStatement'
  BY NextBooks
<1> QED
  BY <1>2, <1>3, <1>4, <1>5 DEF StatementsInv

\* At every statement of check_and_reserve_budget, record_request and
\* reclaim_stale_reservations the counters of a key are its bills and its holds,
\* but for the amount of the one call that has the lock; the calls under way hold
\* nothing the tables have moved past.
THEOREM StatementsInvariant == StatementsSpec => []StatementsInv
<1>1. StatementsInit => StatementsInv
  BY InitInv
<1>2. StatementsInv /\ [StatementsNext]_callVars => StatementsInv'
  BY NextInv
<1> QED
  BY <1>1, <1>2, PTL DEF StatementsSpec

\* Whenever no call has the lock, whatever raised or was killed before, a key's
\* counters are the sum of its bills and its holds, but for the counters of the
\* calls that were cut short, until their reset.
THEOREM BooksExactBetweenCalls == StatementsSpec => []BooksUntorn
<1>1. StatementsInv => BooksUntorn
  <2> SUFFICES ASSUME StatementsInv, holder = Nobody, NEW k \in Keys, NEW p \in Periods,
                      <<k, p>> \notin adrift \cup torn
               PROVE  spend[k][p] = PaidTotal(k, p) + HeldTotal(k, p)
    BY DEF BooksUntorn
  <2>1. \A t \in Threads : call[t].at \in {"idle", "cutoff"}
    BY DEF StatementsInv, OneInside
  <2>2. Counted(k) = {} /\ Uncharged = {} /\ Returned = {}
    BY <2>1 DEF Counted, Uncharged, Returned
  <2>3. Exact(k, p)
    BY DEF StatementsInv, BooksAtStatement, Exact
  <2>4. Total({}, est, MaxAmount) = 0
    BY TotalEmpty
  <2>5. Paid(k, p) \ Uncharged = Paid(k, p) /\ Held(k, p) \ Returned = Held(k, p)
    BY <2>2
  <2>6. Total(Paid(k, p), Cost, MaxAmount) \in Nat /\ Total(Held(k, p), Amount, MaxAmount) \in Nat
    BY FiniteRows, TotalNat
  <2> QED
    BY <2>2, <2>3, <2>4, <2>5, <2>6 DEF Exact, PaidTotal, HeldTotal
<1> QED
  BY <1>1, StatementsInvariant, PTL

\* The UPDATE of check_and_reserve_budget takes a counter no further than its
\* limit: the row its SELECT read is the row it increments.
THEOREM CheckedRowIsIncremented == StatementsSpec => CheckHoldsWhenUsed
<1> DEFINE Checked(t) ==
      call[t].at = "increment" /\ call'[t].at = "hold" =>
         LET k == KeyOf[call[t].req] IN
         \A p \in Periods : limit_usd[k][p] # 0 => spend'[k][p] <= limit_usd[k][p]
<1>1. StatementsInv /\ [StatementsNext]_callVars => [\A t \in Threads : Checked(t)]_callVars
  <2> SUFFICES ASSUME StatementsInv, StatementsNext, NEW t \in Threads,
                      call[t].at = "increment", call'[t].at = "hold"
               PROVE  \A p \in Periods : limit_usd[KeyOf[call[t].req]][p] # 0 =>
                         spend'[KeyOf[call[t].req]][p] <= limit_usd[KeyOf[call[t].req]][p]
    BY DEF callVars
  <2>0. StatementsTypeOK /\ OneInside /\ CallsSound
    BY DEF StatementsInv
  <2>1. Increment(t)
    <3>1. ~Kill /\ ~Tick /\ ~Midnight
      BY DEF Kill, Tick, Midnight, statementVars, Idle
    <3>2. PICK u \in Threads : Statement(u)
      BY <3>1 DEF StatementsNext
    <3>3. u = t
      BY <2>0, <3>2, Moves
    <3>4. /\ \A x, amount : ~SelectBudget(t, x, amount) /\ ~InsertBill(t, x, amount)
          /\ \A x \in Requests : ~GiveBack(t, x)
      BY DEF SelectBudget, InsertBill, GiveBack, Idle
    <3>5. /\ ~ResetRow(t) /\ ~Refused(t) /\ ~InsertHold(t) /\ ~Adjust(t) /\ ~DropHold(t)
          /\ ~TakeCutoff(t) /\ ~ListHolds(t) /\ ~DeleteStale(t)
      BY DEF ResetRow, Refused, InsertHold, Adjust, DropHold, TakeCutoff, ListHolds, DeleteStale,
             Idle
    <3>6. ~StatementRaises(t)
      BY <2>0 DEF StatementRaises, Return, Idle, StatementsTypeOK
    <3> QED
      BY <3>2, <3>3, <3>4, <3>5, <3>6 DEF Statement
  <2>2. call[t] \in Asks /\ AskSound(call[t])
    BY <2>0, CallShape DEF StatementsTypeOK, CallsSound
  <2> DEFINE r == call[t].req
             k == KeyOf[r]
  <2>3. r \in Requests /\ k \in Keys
    BY <2>2, AskParts
  <2>4. /\ spend[k] = call[t].row
        /\ \A p \in Periods : BudgetLimits[k][p] # 0 => call[t].row[p] + est[r] <= BudgetLimits[k][p]
    BY <2>2 DEF AskSound
  <2>5. \A p \in Periods : spend'[k][p] = call[t].row[p] + est[r]
    BY <2>0, <2>1, <2>3, <2>4 DEF Increment, StatementsTypeOK, LedgerTypeOK
  <2>6. limit_usd = BudgetLimits
    BY <2>0 DEF StatementsTypeOK
  <2> QED
    BY <2>4, <2>5, <2>6
<1> QED
  BY <1>1, StatementsInvariant, PTL DEF StatementsSpec, CheckHoldsWhenUsed

=============================================================================
