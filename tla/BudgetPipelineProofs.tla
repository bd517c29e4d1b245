----------------------- MODULE BudgetPipelineProofs -----------------------
(***************************************************************************)
(* The budget pipeline, for every number of keys and requests and every    *)
(* bound: type correctness, exact books, and admission within the limits;  *)
(* two promises that hold under conditions (a period stays within its      *)
(* limit if limits are left alone and no answer costs more than its hold,  *)
(* the sweep spares buffered answers if it waits for at least as long as   *)
(* router.execute may take); and the refinement of BudgetAccount.          *)
(***************************************************************************)
EXTENDS BudgetPipeline, TallyProofs

USE LedgerAssumption, PipelineAssumption

-----------------------------------------------------------------------------
(* Types *)

LEMMA SubsetTotalNat ==
    ASSUME NEW S \in SUBSET Requests, NEW f
    PROVE  Total(S, f, MaxAmount) \in Nat
<1>1. IsFiniteSet(S)
  BY FS_Subset
<1> QED
  BY <1>1, TotalNat

LEMMA CalendarIsStamp ==
    ASSUME LedgerTypeOK
    PROVE  calendar \in Stamps
BY DEF LedgerTypeOK, Stamps

LEMMA ResetType ==
    ASSUME LedgerTypeOK, NEW k \in Keys, ResetPeriods(k)
    PROVE  last_reset' \in [Keys -> Stamps] /\ adrift' \subseteq Keys \X Periods
BY CalendarIsStamp DEF LedgerTypeOK, ResetPeriods

LEMMA SpendAfterResetType ==
    ASSUME LedgerTypeOK, NEW k \in Keys
    PROVE  SpendAfterReset(k) \in [Periods -> Int]
BY DEF LedgerTypeOK, SpendAfterReset

LEMMA ReserveType ==
    ASSUME LedgerTypeOK, NEW r \in Requests, NEW amount \in Amounts, Reserve(r, amount)
    PROVE  LedgerTypeOK'
<1> DEFINE k == KeyOf[r]
           hold == [amount |-> amount, stamp |-> calendar, reserved_at |-> now]
<1>1. k \in Keys
  OBVIOUS
<1>2. last_reset' \in [Keys -> Stamps] /\ adrift' \subseteq Keys \X Periods
  BY <1>1, ResetType DEF Reserve
<1>3. [p \in Periods |-> SpendAfterReset(k)[p] + amount] \in [Periods -> Int]
  BY <1>1, SpendAfterResetType DEF Amounts
<1>4. spend' \in [Keys -> [Periods -> Int]]
  BY <1>1, <1>3 DEF Reserve, LedgerTypeOK
<1>5. hold \in Holds
  BY CalendarIsStamp DEF Holds, LedgerTypeOK
<1>6. reservations' \in [Requests -> Holds \cup {NoRow}]
  BY <1>5 DEF Reserve, LedgerTypeOK
<1> QED
  BY <1>2, <1>4, <1>6 DEF Reserve, LedgerTypeOK

LEMMA RefuseType ==
    ASSUME LedgerTypeOK, NEW r \in Requests, NEW amount \in Amounts,
           RefuseReservation(r, amount)
    PROVE  LedgerTypeOK'
<1> DEFINE k == KeyOf[r]
<1>1. k \in Keys
  OBVIOUS
<1>2. last_reset' \in [Keys -> Stamps] /\ adrift' \subseteq Keys \X Periods
  BY <1>1, ResetType DEF RefuseReservation
<1>3. spend' \in [Keys -> [Periods -> Int]]
  BY <1>1, SpendAfterResetType DEF RefuseReservation, LedgerTypeOK
<1> QED
  BY <1>2, <1>3 DEF RefuseReservation, LedgerTypeOK

LEMMA RecordType ==
    ASSUME LedgerTypeOK, NEW r \in Requests, NEW cost \in Amounts, NEW reserved \in Amounts,
           RecordRequest(r, cost, reserved)
    PROVE  LedgerTypeOK'
<1> DEFINE k == KeyOf[r]
           bill == [cost |-> cost, stamp |-> last_reset[k]]
<1>1. k \in Keys
  OBVIOUS
<1>2. CASE requests[r] # NoRow
  BY <1>2 DEF RecordRequest, ledgerVars, budgets, LedgerTypeOK
<1>3. CASE requests[r] = NoRow
  <2>1. bill \in Bills
    BY <1>1 DEF Bills, LedgerTypeOK
  <2>2. requests' \in [Requests -> Bills \cup {NoRow}]
    <3>1. requests' = [requests EXCEPT ![r] = bill]
      BY <1>3 DEF RecordRequest
    <3> HIDE DEF bill
    <3> QED
      BY <2>1, <3>1 DEF LedgerTypeOK
  <2>3. [p \in Periods |-> spend[k][p] + (cost - reserved)] \in [Periods -> Int]
    BY <1>1 DEF LedgerTypeOK, Amounts
  <2>4. spend' \in [Keys -> [Periods -> Int]]
    BY <1>1, <1>3, <2>3 DEF RecordRequest, LedgerTypeOK
  <2>5. reservations' \in [Requests -> Holds \cup {NoRow}]
    BY <1>3 DEF RecordRequest, LedgerTypeOK
  <2>6. adrift' \subseteq Keys \X Periods
    BY <1>1, <1>3 DEF RecordRequest, LedgerTypeOK, Detached
  <2> QED
    BY <1>3, <2>2, <2>4, <2>5, <2>6 DEF RecordRequest, LedgerTypeOK
<1> QED
  BY <1>2, <1>3

LEMMA SweepType ==
    ASSUME LedgerTypeOK, Sweep
    PROVE  /\ spend' \in [Keys -> [Periods -> Int]]
           /\ reservations' \in [Requests -> Holds \cup {NoRow}]
<1>1. ASSUME NEW k \in Keys
      PROVE  SpendAfterReclaim(k) \in [Periods -> Int]
  <2>1. ASSUME NEW p \in Periods
        PROVE  AtLeastZero(spend[k][p] - Total(Refundable(k, p), Amount, MaxAmount)) \in Int
    <3>1. Refundable(k, p) \in SUBSET Requests
      BY DEF Refundable, Stale
    <3>2. Total(Refundable(k, p), Amount, MaxAmount) \in Nat
      BY <3>1, SubsetTotalNat
    <3> QED
      BY <3>2 DEF AtLeastZero, LedgerTypeOK
  <2> QED
    BY <2>1 DEF SpendAfterReclaim, LedgerTypeOK
<1> QED
  BY <1>1 DEF Sweep, ReservationsAfterReclaim, LedgerTypeOK

LEMMA InitType == Init => TypeOK
<1> SUFFICES ASSUME Init PROVE TypeOK
  OBVIOUS
<1>1. last_reset \in [Keys -> Stamps]
  BY DEF Init, LedgerInit, Stamps, Never
<1>2. LedgerTypeOK
  BY <1>1 DEF Init, LedgerInit, LedgerTypeOK
<1> QED
  BY <1>2 DEF Init, TypeOK, Places, Amounts

LEMMA CostsAreAmounts ==
    ASSUME TypeOK, NEW r \in Requests, NEW cost \in Costs(r)
    PROVE  cost \in Amounts
BY DEF TypeOK, Costs, Amounts

LEMMA NextType ==
    ASSUME TypeOK, [Next]_vars
    PROVE  TypeOK'
<1> USE DEF TypeOK
<1>1. ASSUME NEW r \in Requests, NEW amount \in Amounts, Admit(r, amount)
      PROVE  TypeOK'
  <2>1. LedgerTypeOK'
    BY <1>1, ReserveType DEF Admit
  <2> QED
    BY <1>1, <2>1 DEF Admit, Places
<1>2. ASSUME NEW r \in Requests, NEW amount \in Amounts, Refuse(r, amount)
      PROVE  TypeOK'
  <2>1. LedgerTypeOK'
    BY <1>2, RefuseType DEF Refuse
  <2> QED
    BY <1>2, <2>1 DEF Refuse, Places
<1>3. ASSUME NEW r \in Requests, Respond(r) \/ Leave(r) \/ StreamError(r)
      PROVE  TypeOK'
  <2>1. LedgerTypeOK'
    BY <1>3 DEF Respond, Leave, StreamError, Goto, ledgerVars, budgets, LedgerTypeOK
  <2> QED
    BY <1>3, <2>1 DEF Respond, Leave, StreamError, Goto, Places, Stages
<1>4. ASSUME NEW r \in Requests, Disconnect(r)
      PROVE  TypeOK'
  <2>1. LedgerTypeOK'
    BY <1>4 DEF Disconnect, ledgerVars, budgets, LedgerTypeOK
  <2>2. direct' \subseteq Items
    BY <1>4 DEF Disconnect
  <2>3. pc' \in [Requests -> Places]
    BY <1>4 DEF Disconnect, OnDisconnect, Places, Stages
  <2> QED
    BY <1>4, <2>1, <2>2, <2>3 DEF Disconnect, OnDisconnect
<1>5. ASSUME NEW r \in Requests, NEW cost \in Costs(r), HandOver(r, cost)
      PROVE  TypeOK'
  <2> DEFINE item == [req |-> r, cost |-> cost, at |-> pc[r]]
  <2>1. LedgerTypeOK'
    BY <1>5 DEF HandOver, ledgerVars, budgets, LedgerTypeOK
  <2>2. item \in Items
    BY <1>5, CostsAreAmounts DEF HandOver, Items
  <2>3. /\ queue' = Append(queue, item) \/ queue' = queue
        /\ direct' = direct \cup {item} \/ direct' = direct
        /\ pc' = [pc EXCEPT ![r] = "ended"] \/ pc' = pc
        /\ UNCHANGED <<est, taken, up>>
    BY <1>5 DEF HandOver
  <2> HIDE DEF item
  <2>4. queue' \in Seq(Items)
    <3>1. queue \in Seq(Items)
      OBVIOUS
    <3>2. Append(queue, item) \in Seq(Items)
      BY <2>2, <3>1
    <3> QED
      BY <2>3, <3>1, <3>2
  <2>5. pc' \in [Requests -> Places]
    BY <2>3 DEF Places
  <2> QED
    BY <2>1, <2>2, <2>3, <2>4, <2>5
<1>6. ASSUME NEW i \in direct, WriteDirect(i) \/ DirectError(i)
      PROVE  TypeOK'
  <2>1. i.req \in Requests /\ i.cost \in Amounts /\ i.at \in Stages /\ est[i.req] \in Amounts
    BY DEF Items
  <2>2. LedgerTypeOK'
    BY <1>6, <2>1, RecordType
       DEF WriteDirect, DirectError, ledgerVars, budgets, LedgerTypeOK
  <2>3. pc' \in [Requests -> Places]
    BY <1>6, <2>1 DEF WriteDirect, DirectError, Resume, OnError, Places, Stages
  <2> QED
    BY <1>6, <2>2, <2>3 DEF WriteDirect, DirectError
<1>7. ASSUME WorkerGet
      PROVE  TypeOK'
  <2>1. LedgerTypeOK'
    BY <1>7 DEF WorkerGet, ledgerVars, budgets, LedgerTypeOK
  <2>2. Head(queue) \in Items /\ Tail(queue) \in Seq(Items)
    BY <1>7 DEF WorkerGet
  <2> QED
    BY <1>7, <2>1, <2>2 DEF WorkerGet
<1>8. ASSUME NEW i \in taken, WorkerPersist(i) \/ WorkerError(i)
      PROVE  TypeOK'
  <2>1. i.req \in Requests /\ i.cost \in Amounts /\ est[i.req] \in Amounts
    BY DEF Items
  <2>2. LedgerTypeOK'
    BY <1>8, <2>1, RecordType
       DEF WorkerPersist, WorkerError, ledgerVars, budgets, LedgerTypeOK
  <2> QED
    BY <1>8, <2>2 DEF WorkerPersist, WorkerError
<1>9. ASSUME ReclaimLoop \/ Restart
      PROVE  TypeOK'
  <2>1. LedgerTypeOK'
    BY <1>9, SweepType
       DEF ReclaimLoop, Restart, ReclaimStaleReservations, Sweep, LedgerTypeOK
  <2> QED
    BY <1>9, <2>1 DEF ReclaimLoop, Restart, pipelineVars
<1>10. ASSUME OperatorStep
       PROVE  TypeOK'
  <2>1. LedgerTypeOK'
    BY <1>10 DEF OperatorStep, PatchBudget, ReloadBudgets, UpdateBudgetLimits, LoadBudgets,
                 LedgerTypeOK
  <2> QED
    BY <1>10, <2>1 DEF OperatorStep, PatchBudget, ReloadBudgets, pipelineVars
<1>11. ASSUME Crash
       PROVE  TypeOK'
  <2>1. LedgerTypeOK'
    BY <1>11 DEF Crash, ledgerVars, budgets, LedgerTypeOK
  <2>2. pc' \in [Requests -> Places]
    BY <1>11 DEF Crash, Places
  <2>3. queue' \in Seq(Items)
    BY <1>11 DEF Crash
  <2>4. est' = est /\ taken' = {} /\ direct' = {} /\ up' \in BOOLEAN
    BY <1>11 DEF Crash
  <2> QED
    BY <2>1, <2>2, <2>3, <2>4
<1>12. ASSUME Tick \/ Midnight \/ UNCHANGED vars
       PROVE  TypeOK'
  <2>1. calendar' \in [Periods -> Nat]
    BY <1>12 DEF Tick, Midnight, vars, ledgerVars, LedgerTypeOK, Periods
  <2>2. LedgerTypeOK'
    BY <1>12, <2>1 DEF Tick, Midnight, vars, ledgerVars, budgets, LedgerTypeOK
  <2> QED
    BY <1>12, <2>2 DEF Tick, Midnight, vars, pipelineVars
<1> HIDE DEF TypeOK
<1>13. ASSUME NEW r \in Requests, RequestStep(r)
       PROVE  TypeOK'
  BY <1>1, <1>2, <1>3, <1>4, <1>5, <1>13 DEF RequestStep
<1>14. ASSUME WriterStep
       PROVE  TypeOK'
  BY <1>6, <1>7, <1>8, <1>14 DEF WriterStep
<1> QED
  BY <1>9, <1>10, <1>11, <1>12, <1>13, <1>14 DEF Next

\* Every variable keeps its type, and no total it counts leaves the naturals.
THEOREM TypeCorrect == Spec => []TypeOK
<1>1. Init => TypeOK
  BY InitType
<1>2. TypeOK /\ [Next]_vars => TypeOK'
  BY NextType
<1> QED
  BY <1>1, <1>2, PTL DEF Spec

-----------------------------------------------------------------------------
(* Books: what each ledger operation does to the totals of a counter *)

LEMMA AmountsOfHolds ==
    ASSUME LedgerTypeOK, NEW r \in Requests
    PROVE  /\ Amount[r] \in 0..MaxAmount
           /\ Cost[r] \in 0..MaxAmount
           /\ reservations[r] # NoRow => Amount[r] = reservations[r].amount
           /\ requests[r] # NoRow => Cost[r] = requests[r].cost
BY DEF LedgerTypeOK, Amount, Cost, Holds, Bills, Amounts

\* A counter whose period and whose rows stay keeps its totals.
LEMMA TotalsFrame ==
    ASSUME NEW k \in Keys, NEW p \in Periods,
           last_reset'[k][p] = last_reset[k][p],
           \A r \in Requests : KeyOf[r] = k =>
               reservations'[r] = reservations[r] /\ requests'[r] = requests[r]
    PROVE  /\ HeldTotal(k, p)' = HeldTotal(k, p)
           /\ PaidTotal(k, p)' = PaidTotal(k, p)
<1>1. Held(k, p)' = Held(k, p) /\ \A r \in Held(k, p) : Amount'[r] = Amount[r]
  BY DEF Held, HoldOpen, Amount
<1>2. Paid(k, p)' = Paid(k, p) /\ \A r \in Paid(k, p) : Cost'[r] = Cost[r]
  BY DEF Paid, Cost
<1>3. Total(Held(k, p), Amount', MaxAmount) = Total(Held(k, p), Amount, MaxAmount)
  BY <1>1, TotalCongruence
<1>4. Total(Paid(k, p), Cost', MaxAmount) = Total(Paid(k, p), Cost, MaxAmount)
  BY <1>2, TotalCongruence
<1> QED
  BY <1>1, <1>2, <1>3, <1>4 DEF HeldTotal, PaidTotal

LEMMA TotalsNat ==
    ASSUME NEW k \in Keys, NEW p \in Periods
    PROVE  HeldTotal(k, p) \in Nat /\ PaidTotal(k, p) \in Nat
<1>1. Held(k, p) \in SUBSET Requests /\ Paid(k, p) \in SUBSET Requests
  BY DEF Held, Paid
<1> QED
  BY <1>1, SubsetTotalNat DEF HeldTotal, PaidTotal

\* Adding a member to a set of requests adds its amount to the total.
LEMMA TotalAdd ==
    ASSUME NEW S \in SUBSET Requests, NEW r \in Requests, r \notin S,
           NEW f, NEW g, \A x \in S : g[x] = f[x], g[r] \in 0..MaxAmount
    PROVE  Total(S \cup {r}, g, MaxAmount) = Total(S, f, MaxAmount) + g[r]
<1>1. IsFiniteSet(S) /\ MaxAmount \in Nat
  BY FS_Subset
<1>2. r \notin S /\ (\A x \in S : g[x] = f[x]) /\ g[r] \in 0..MaxAmount
  OBVIOUS
<1> QED
  BY ONLY <1>1, <1>2, TotalOneMore

\* The rows of k in the calendar's period p, whatever its counter's stamp says.
HeldNow(k, p) == {r \in Requests : /\ KeyOf[r] = k
                                   /\ reservations[r] # NoRow
                                   /\ reservations[r].stamp[p] = calendar[p]}
PaidNow(k, p) == {r \in Requests : /\ KeyOf[r] = k
                                   /\ requests[r] # NoRow
                                   /\ requests[r].stamp[p] = calendar[p]}

\* A counter whose period is over has none of them; any other, just those.
LEMMA NowRows ==
    ASSUME LedgerTypeOK, StampsOrdered, NEW k \in Keys, NEW p \in Periods
    PROVE  /\ NeedsReset(k, p) => HeldNow(k, p) = {} /\ PaidNow(k, p) = {}
           /\ ~NeedsReset(k, p) => HeldNow(k, p) = Held(k, p) /\ PaidNow(k, p) = Paid(k, p)
<1>1. ASSUME NeedsReset(k, p)
      PROVE  HeldNow(k, p) = {} /\ PaidNow(k, p) = {}
  <2>1. last_reset[k][p] \in Int /\ calendar[p] \in Nat /\ last_reset[k][p] < calendar[p]
    <3>1. last_reset[k] \in [Periods -> Int] /\ calendar[p] \in Nat
      BY DEF LedgerTypeOK, Stamps
    <3>2. last_reset[k][p] <= calendar[p] /\ last_reset[k][p] # calendar[p]
      BY <1>1 DEF NeedsReset, StampsOrdered
    <3>3. last_reset[k][p] \in Int
      BY <3>1
    <3>4. \A x, y \in Int : x <= y /\ x # y => x < y
      OBVIOUS
    <3>5. calendar[p] \in Int
      BY <3>1
    <3> QED
      BY <3>1, <3>2, <3>3, <3>4, <3>5, Zenon
  <2>2. ASSUME NEW r \in Requests, KeyOf[r] = k
        PROVE  /\ reservations[r] # NoRow => reservations[r].stamp[p] # calendar[p]
               /\ requests[r] # NoRow => requests[r].stamp[p] # calendar[p]
    <3>1. reservations[r] # NoRow => reservations[r].stamp[p] \in Int
      BY DEF LedgerTypeOK, Holds, Stamps
    <3>2. requests[r] # NoRow => requests[r].stamp[p] \in Int
      BY DEF LedgerTypeOK, Bills, Stamps
    <3> QED
      BY <2>1, <2>2, <3>1, <3>2 DEF StampsOrdered
  <2> QED
    BY <2>2 DEF HeldNow, PaidNow
<1>2. ASSUME ~NeedsReset(k, p)
      PROVE  HeldNow(k, p) = Held(k, p) /\ PaidNow(k, p) = Paid(k, p)
  BY <1>2 DEF NeedsReset, HeldNow, PaidNow, Held, HoldOpen, Paid
<1> QED
  BY <1>1, <1>2

\* The counter that a check works with carries exactly those rows.
LEMMA ResetBooks ==
    ASSUME LedgerTypeOK, StampsOrdered, BooksExact,
           NEW k \in Keys, NEW p \in Periods,
           NeedsReset(k, p) \/ <<k, p>> \notin adrift
    PROVE  SpendAfterReset(k)[p] = Total(PaidNow(k, p), Cost, MaxAmount)
                                     + Total(HeldNow(k, p), Amount, MaxAmount)
<1>1. CASE NeedsReset(k, p)
  <2>1. HeldNow(k, p) = {} /\ PaidNow(k, p) = {}
    BY <1>1, NowRows
  <2>2. SpendAfterReset(k)[p] = 0
    BY <1>1 DEF SpendAfterReset
  <2> QED
    BY <2>1, <2>2, TotalEmpty
<1>2. CASE ~NeedsReset(k, p)
  <2>1. HeldNow(k, p) = Held(k, p) /\ PaidNow(k, p) = Paid(k, p)
    BY <1>2, NowRows
  <2>2. SpendAfterReset(k)[p] = spend[k][p]
    BY <1>2 DEF SpendAfterReset
  <2> QED
    BY <1>2, <2>1, <2>2 DEF BooksExact, HeldTotal, PaidTotal
<1> QED
  BY <1>1, <1>2

LEMMA ReserveBooks ==
    ASSUME LedgerTypeOK, StampsOrdered, BooksExact,
           NEW r \in Requests, NEW amount \in Amounts, Reserve(r, amount),
           reservations[r] = NoRow
    PROVE  BooksExact'
<1> DEFINE c == KeyOf[r]
<1>1. SUFFICES ASSUME NEW k \in Keys, NEW p \in Periods, <<k, p>> \notin adrift'
               PROVE  spend'[k][p] = PaidTotal(k, p)' + HeldTotal(k, p)'
  BY DEF BooksExact
<1>2. CASE k # c
  <2>1. last_reset'[k] = last_reset[k] /\ spend'[k] = spend[k] /\ <<k, p>> \notin adrift
    BY <1>1, <1>2 DEF Reserve, ResetPeriods, LedgerTypeOK
  <2>2. \A x \in Requests : KeyOf[x] = k =>
           reservations'[x] = reservations[x] /\ requests'[x] = requests[x]
    BY <1>2 DEF Reserve, LedgerTypeOK
  <2> QED
    BY <2>1, <2>2, TotalsFrame DEF BooksExact
<1>3. CASE k = c
  <2>1. NeedsReset(k, p) \/ <<k, p>> \notin adrift
    BY <1>1, <1>3 DEF Reserve, ResetPeriods
  <2>2. SpendAfterReset(k)[p] = Total(PaidNow(k, p), Cost, MaxAmount)
                                  + Total(HeldNow(k, p), Amount, MaxAmount)
    BY <2>1, ResetBooks
  <2>3. last_reset'[k] = calendar /\ spend'[k][p] = SpendAfterReset(k)[p] + amount
    BY <1>3 DEF Reserve, ResetPeriods, LedgerTypeOK
  <2>4. /\ reservations'[r] # NoRow
        /\ reservations'[r].amount = amount
        /\ reservations'[r].stamp = calendar
        /\ \A x \in Requests \ {r} : reservations'[x] = reservations[x]
    <3>1. [amount |-> amount, stamp |-> calendar, reserved_at |-> now] \in Holds
      BY CalendarIsStamp DEF Holds, LedgerTypeOK
    <3> QED
      BY <3>1 DEF Reserve, LedgerTypeOK
  <2>5. Held(k, p)' = HeldNow(k, p) \cup {r} /\ r \notin HeldNow(k, p)
    BY <1>3, <2>3, <2>4 DEF Held, HoldOpen, HeldNow
  <2>6. Paid(k, p)' = PaidNow(k, p) /\ Cost' = Cost
    BY <2>3 DEF Reserve, Paid, PaidNow, Cost
  <2>7. Amount'[r] = amount /\ \A x \in HeldNow(k, p) : Amount'[x] = Amount[x]
    BY <2>4, <2>5 DEF Amount, HeldNow
  <2>8. Total(HeldNow(k, p) \cup {r}, Amount', MaxAmount)
           = Total(HeldNow(k, p), Amount, MaxAmount) + Amount'[r]
    <3>1. HeldNow(k, p) \in SUBSET Requests /\ Amount'[r] \in 0..MaxAmount
      BY <2>7 DEF HeldNow, Amounts
    <3> QED
      BY <2>5, <2>7, <3>1, TotalAdd
  <2>9. HeldTotal(k, p)' = Total(HeldNow(k, p), Amount, MaxAmount) + amount
    BY <2>5, <2>7, <2>8 DEF HeldTotal
  <2>10. PaidTotal(k, p)' = Total(PaidNow(k, p), Cost, MaxAmount)
    BY <2>6 DEF PaidTotal
  <2>11. /\ Total(HeldNow(k, p), Amount, MaxAmount) \in Nat
         /\ Total(PaidNow(k, p), Cost, MaxAmount) \in Nat
         /\ amount \in Nat
    <3>1. HeldNow(k, p) \in SUBSET Requests /\ PaidNow(k, p) \in SUBSET Requests
      BY DEF HeldNow, PaidNow
    <3> QED
      BY <3>1, SubsetTotalNat DEF Amounts
  <2> QED
    BY <2>2, <2>3, <2>9, <2>10, <2>11
<1> QED
  BY <1>2, <1>3

LEMMA RefuseBooks ==
    ASSUME LedgerTypeOK, StampsOrdered, BooksExact,
           NEW r \in Requests, NEW amount \in Amounts, RefuseReservation(r, amount)
    PROVE  BooksExact'
<1> DEFINE c == KeyOf[r]
<1>1. SUFFICES ASSUME NEW k \in Keys, NEW p \in Periods, <<k, p>> \notin adrift'
               PROVE  spend'[k][p] = PaidTotal(k, p)' + HeldTotal(k, p)'
  BY DEF BooksExact
<1>2. CASE k # c
  <2>1. last_reset'[k] = last_reset[k] /\ spend'[k] = spend[k] /\ <<k, p>> \notin adrift
    BY <1>1, <1>2 DEF RefuseReservation, ResetPeriods, LedgerTypeOK
  <2>2. \A x \in Requests : reservations'[x] = reservations[x] /\ requests'[x] = requests[x]
    BY DEF RefuseReservation
  <2> QED
    BY <2>1, <2>2, TotalsFrame DEF BooksExact
<1>3. CASE k = c
  <2>1. NeedsReset(k, p) \/ <<k, p>> \notin adrift
    BY <1>1, <1>3 DEF RefuseReservation, ResetPeriods
  <2>2. SpendAfterReset(k)[p] = Total(PaidNow(k, p), Cost, MaxAmount)
                                  + Total(HeldNow(k, p), Amount, MaxAmount)
    BY <2>1, ResetBooks
  <2>3. last_reset'[k] = calendar /\ spend'[k] = SpendAfterReset(k)
    BY <1>3 DEF RefuseReservation, ResetPeriods, LedgerTypeOK
  <2>4. Held(k, p)' = HeldNow(k, p) /\ Amount' = Amount
    BY <2>3 DEF RefuseReservation, Held, HoldOpen, HeldNow, Amount
  <2>5. Paid(k, p)' = PaidNow(k, p) /\ Cost' = Cost
    BY <2>3 DEF RefuseReservation, Paid, PaidNow, Cost
  <2> QED
    BY <2>2, <2>3, <2>4, <2>5 DEF HeldTotal, PaidTotal
<1> QED
  BY <1>2, <1>3

LEMMA RecordBooks ==
    ASSUME LedgerTypeOK, BooksExact,
           NEW r \in Requests, NEW cost \in Amounts, NEW reserved \in Amounts,
           RecordRequest(r, cost, reserved),
           reservations[r] # NoRow => reservations[r].amount = reserved
    PROVE  BooksExact'
<1> DEFINE c == KeyOf[r]
<1>1. CASE requests[r] # NoRow
  <2>1. UNCHANGED ledgerVars
    BY <1>1 DEF RecordRequest
  <2>2. ASSUME NEW k \in Keys, NEW p \in Periods
        PROVE  HeldTotal(k, p)' = HeldTotal(k, p) /\ PaidTotal(k, p)' = PaidTotal(k, p)
    BY <2>1, TotalsFrame DEF ledgerVars, budgets
  <2> QED
    BY <2>1, <2>2 DEF BooksExact, ledgerVars, budgets
<1>2. CASE requests[r] = NoRow
  <2>1. SUFFICES ASSUME NEW k \in Keys, NEW p \in Periods, <<k, p>> \notin adrift'
                 PROVE  spend'[k][p] = PaidTotal(k, p)' + HeldTotal(k, p)'
    BY DEF BooksExact
  <2>2. last_reset' = last_reset /\ <<k, p>> \notin adrift
    BY <1>2, <2>1 DEF RecordRequest
  <2>3. CASE k # c
    <3>1. spend'[k] = spend[k]
      BY <1>2, <2>3 DEF RecordRequest, LedgerTypeOK
    <3>2. \A x \in Requests : KeyOf[x] = k =>
             reservations'[x] = reservations[x] /\ requests'[x] = requests[x]
      BY <1>2, <2>3 DEF RecordRequest, LedgerTypeOK
    <3> QED
      BY <2>2, <3>1, <3>2, TotalsFrame DEF BooksExact
  <2>4. CASE k = c
    <3>1. spend'[k][p] = spend[k][p] + (cost - reserved)
      BY <1>2, <2>4 DEF RecordRequest, LedgerTypeOK
    <3>2. /\ requests'[r] # NoRow
          /\ requests'[r].cost = cost
          /\ requests'[r].stamp = last_reset[k]
          /\ \A x \in Requests \ {r} : requests'[x] = requests[x]
      <4>1. [cost |-> cost, stamp |-> last_reset[k]] \in Bills
        BY DEF Bills, LedgerTypeOK
      <4> QED
        BY <1>2, <2>4, <4>1 DEF RecordRequest, LedgerTypeOK
    <3>3. Paid(k, p)' = Paid(k, p) \cup {r} /\ r \notin Paid(k, p)
      BY <1>2, <2>2, <2>4, <3>2 DEF Paid
    <3>4. PaidTotal(k, p)' = PaidTotal(k, p) + cost
      <4>1. Paid(k, p) \in SUBSET Requests /\ r \notin Paid(k, p)
        BY <3>3 DEF Paid
      <4>2. Cost'[r] = cost
        BY <3>2 DEF Cost
      <4>3. \A x \in Paid(k, p) : Cost'[x] = Cost[x]
        BY <3>2, <3>3 DEF Cost, Paid
      <4>4. Cost'[r] \in 0..MaxAmount
        BY <4>2 DEF Amounts
      <4>5. Total(Paid(k, p) \cup {r}, Cost', MaxAmount) = Total(Paid(k, p), Cost, MaxAmount) + Cost'[r]
        <5>1. Total(Paid(k, p), Cost', MaxAmount) = Total(Paid(k, p), Cost, MaxAmount)
          BY <4>3, TotalCongruence
        <5>2. Total({r}, Cost', MaxAmount) = Cost'[r]
          BY <4>4, TotalSingleton
        <5>3. IsFiniteSet(Paid(k, p)) /\ IsFiniteSet({r}) /\ Paid(k, p) \cap {r} = {}
          BY <4>1, FS_Subset, FS_Singleton
        <5>4. Total(Paid(k, p) \cup {r}, Cost', MaxAmount)
                 = Total(Paid(k, p), Cost', MaxAmount) + Total({r}, Cost', MaxAmount)
          BY <5>3, TotalDisjointUnion
        <5> QED
          BY <5>1, <5>2, <5>4
      <4> QED
        BY <3>3, <4>2, <4>5 DEF PaidTotal
    <3>5. /\ reservations'[r] = NoRow
          /\ \A x \in Requests \ {r} : reservations'[x] = reservations[x]
      BY <1>2 DEF RecordRequest, LedgerTypeOK
    <3>6. Held(k, p)' = Held(k, p) \ {r}
      BY <2>2, <3>5 DEF Held, HoldOpen
    <3>7. \A x \in Held(k, p) \ {r} : Amount'[x] = Amount[x]
      BY <3>5 DEF Amount, Held
    <3>8. Total(Held(k, p) \ {r}, Amount', MaxAmount) = Total(Held(k, p) \ {r}, Amount, MaxAmount)
      BY <3>7, TotalCongruence
    <3>9. HeldTotal(k, p) = HeldTotal(k, p)' + reserved
      <4>1. HeldTotal(k, p)' = Total(Held(k, p) \ {r}, Amount, MaxAmount)
        BY <3>6, <3>8 DEF HeldTotal
      <4>2. CASE r \in Held(k, p)
        <5>1. Amount[r] = reserved /\ Amount[r] \in 0..MaxAmount
          BY <4>2, AmountsOfHolds DEF Held, HoldOpen
        <5>2. /\ Held(k, p) \ {r} \in SUBSET Requests
              /\ r \notin Held(k, p) \ {r}
              /\ (Held(k, p) \ {r}) \cup {r} = Held(k, p)
          BY <4>2 DEF Held
        <5>3. Total((Held(k, p) \ {r}) \cup {r}, Amount, MaxAmount)
                 = Total(Held(k, p) \ {r}, Amount, MaxAmount) + Amount[r]
          BY <5>1, <5>2, TotalAdd
        <5> QED
          BY <4>1, <5>1, <5>2, <5>3 DEF HeldTotal
      <4>3. CASE r \notin Held(k, p)
        <5>1. reserved = 0
          BY <1>2, <2>1, <2>4, <4>3 DEF RecordRequest, Detached, Held
        <5>2. Held(k, p) \ {r} = Held(k, p)
          BY <4>3
        <5>3. HeldTotal(k, p)' = HeldTotal(k, p)
          BY <4>1, <5>2 DEF HeldTotal
        <5> QED
          BY <5>1, <5>3, TotalsNat
      <4> QED
        BY <4>2, <4>3
    <3>10. HeldTotal(k, p)' \in Nat
      <4>1. Held(k, p) \ {r} \in SUBSET Requests
        BY DEF Held
      <4>2. Total(Held(k, p) \ {r}, Amount', MaxAmount) \in Nat
        BY <4>1, SubsetTotalNat
      <4> QED
        BY <3>6, <4>2 DEF HeldTotal
    <3>11. spend[k][p] = PaidTotal(k, p) + HeldTotal(k, p)
      BY <2>2 DEF BooksExact
    <3> QED
      BY <3>1, <3>4, <3>9, <3>10, <3>11, TotalsNat DEF Amounts
  <2> QED
    BY <2>3, <2>4
<1> QED
  BY <1>1, <1>2

\* The sweep takes from a counter what the holds it deletes had put there.
LEMMA SweepBooks ==
    ASSUME LedgerTypeOK, BooksExact, Sweep
    PROVE  BooksExact'
<1> SUFFICES ASSUME NEW k \in Keys, NEW p \in Periods, <<k, p>> \notin adrift'
             PROVE  spend'[k][p] = PaidTotal(k, p)' + HeldTotal(k, p)'
  BY DEF BooksExact
<1> DEFINE R == Refundable(k, p)
           refund == Total(R, Amount, MaxAmount)
<1>1. /\ last_reset' = last_reset /\ requests' = requests /\ <<k, p>> \notin adrift
      /\ spend'[k][p] = SpendAfterReclaim(k)[p]
      /\ \A r \in Requests : reservations'[r] = IF r \in Stale THEN NoRow ELSE reservations[r]
  BY DEF Sweep, ReservationsAfterReclaim
<1>2. R \in SUBSET Requests /\ R \subseteq Held(k, p) /\ R \subseteq Stale
  BY DEF Refundable, Stale, Held
<1>3. Held(k, p)' = Held(k, p) \ R
  BY <1>1 DEF Held, HoldOpen, Refundable, Stale
<1>4. PaidTotal(k, p)' = PaidTotal(k, p)
  BY <1>1 DEF PaidTotal, Paid, Cost
<1>5. HeldTotal(k, p)' = Total(Held(k, p) \ R, Amount, MaxAmount)
  <2>1. \A r \in Held(k, p) \ R : Amount'[r] = Amount[r]
    BY <1>1 DEF Held, HoldOpen, Refundable, Amount
  <2>2. Total(Held(k, p) \ R, Amount', MaxAmount) = Total(Held(k, p) \ R, Amount, MaxAmount)
    BY <2>1, TotalCongruence
  <2> QED
    BY <1>3, <2>2 DEF HeldTotal
<1>6. HeldTotal(k, p) = HeldTotal(k, p)' + refund
  <2>1. IsFiniteSet(R) /\ IsFiniteSet(Held(k, p) \ R)
    <3>1. Held(k, p) \ R \in SUBSET Requests
      BY DEF Held
    <3> QED
      BY <1>2, <3>1, FS_Subset
  <2>2. (Held(k, p) \ R) \cap R = {} /\ (Held(k, p) \ R) \cup R = Held(k, p)
    BY <1>2
  <2>3. Total((Held(k, p) \ R) \cup R, Amount, MaxAmount)
           = Total(Held(k, p) \ R, Amount, MaxAmount) + refund
    BY <2>1, <2>2, TotalDisjointUnion
  <2> QED
    BY <1>5, <2>2, <2>3 DEF HeldTotal
<1>7. refund \in Nat /\ HeldTotal(k, p)' \in Nat /\ PaidTotal(k, p) \in Nat
  <2>1. Held(k, p) \ R \in SUBSET Requests
    BY DEF Held
  <2> QED
    BY <1>2, <1>5, <2>1, SubsetTotalNat, TotalsNat
<1>8. spend[k][p] = PaidTotal(k, p) + HeldTotal(k, p)
  BY <1>1 DEF BooksExact
<1>9. spend'[k][p] = spend[k][p] - refund
  <2>1. CASE \E q \in Periods, r \in Stale : r \in Refundable(k, q) /\ reservations[r].amount # 0
    <3>1. spend'[k][p] = AtLeastZero(spend[k][p] - refund)
      BY <1>1, <2>1 DEF SpendAfterReclaim
    <3>2. \A x \in Nat : AtLeastZero(x) = x
      BY DEF AtLeastZero
    <3>3. \A x, y, z, w \in Nat : y = z + w => (x + y) - w \in Nat
      OBVIOUS
    <3>4. HeldTotal(k, p) \in Nat
      BY TotalsNat
    <3> HIDE DEF refund
    <3>5. (PaidTotal(k, p) + HeldTotal(k, p)) - refund \in Nat
      BY <1>6, <1>7, <3>3, <3>4, Zenon
    <3> QED
      BY <1>8, <3>1, <3>2, <3>5, Zenon
  <2>2. CASE ~ \E q \in Periods, r \in Stale : r \in Refundable(k, q) /\ reservations[r].amount # 0
    <3>1. \A r \in R : Amount[r] = 0
      BY <1>2, <2>2 DEF Amount
    <3>2. refund = 0
      BY <3>1, TotalZero
    <3>3. spend'[k][p] = spend[k][p]
      <4>1. SpendAfterReclaim(k) = spend[k]
        BY <2>2, Zenon DEF SpendAfterReclaim
      <4> QED
        BY <1>1, <4>1
    <3> QED
      BY <1>6, <1>7, <1>8, <3>2, <3>3
  <2> QED
    BY <2>1, <2>2
<1> QED
  BY <1>4, <1>6, <1>7, <1>8, <1>9

LEMMA BooksFrame ==
    ASSUME BooksExact, UNCHANGED <<spend, last_reset, requests, reservations, adrift>>
    PROVE  BooksExact'
<1>1. ASSUME NEW k \in Keys, NEW p \in Periods
      PROVE  HeldTotal(k, p)' = HeldTotal(k, p) /\ PaidTotal(k, p)' = PaidTotal(k, p)
  BY TotalsFrame
<1> QED
  BY <1>1 DEF BooksExact

-----------------------------------------------------------------------------
(* The inductive invariant *)

LEMMA InitInv == Init => IndInv
<1> SUFFICES ASSUME Init PROVE IndInv
  OBVIOUS
<1>1. TypeOK
  BY InitType
<1>2. StampsOrdered
  <2>1. calendar = [p \in Periods |-> 0]
    BY DEF Init, LedgerInit
  <2>2. ASSUME NEW k \in Keys, NEW p \in Periods
        PROVE  last_reset[k][p] <= calendar[p]
    <3>1. last_reset[k] \in {calendar, [q \in Periods |-> -1]}
      BY DEF Init, LedgerInit, Never
    <3> QED
      BY <2>1, <3>1
  <2>3. \A r \in Requests : reservations[r] = NoRow /\ requests[r] = NoRow
    BY DEF Init, LedgerInit
  <2> QED
    BY <2>2, <2>3 DEF StampsOrdered
<1>3. NewIsClean /\ HeldAsEstimated /\ NoHoldAfterBill
  BY DEF Init, LedgerInit, NewIsClean, Handed, HeldAsEstimated, NoHoldAfterBill
<1>4. BooksExact
  <2>1. ASSUME NEW k \in Keys, NEW p \in Periods
        PROVE  Held(k, p) = {} /\ Paid(k, p) = {} /\ spend[k][p] = 0
    BY DEF Init, LedgerInit, Held, HoldOpen, Paid
  <2>2. ASSUME NEW k \in Keys, NEW p \in Periods
        PROVE  HeldTotal(k, p) = 0 /\ PaidTotal(k, p) = 0
    BY <2>1, TotalEmpty DEF HeldTotal, PaidTotal
  <2> QED
    BY <2>1, <2>2 DEF BooksExact
<1> QED
  BY <1>1, <1>2, <1>3, <1>4 DEF IndInv

\* Steps that leave the books alone.
LEMMA FrameStep ==
    ASSUME IndInv, TypeOK', NewIsClean',
           UNCHANGED <<spend, last_reset, requests, reservations, adrift, est>>,
           \A p \in Periods : calendar'[p] >= calendar[p]
    PROVE  IndInv'
<1>1. BooksExact'
  BY BooksFrame DEF IndInv
<1>2. HeldAsEstimated' /\ NoHoldAfterBill'
  BY DEF IndInv, HeldAsEstimated, NoHoldAfterBill
<1>3. StampsOrdered'
  <2>1. ASSUME NEW p \in Periods, NEW k \in Keys
        PROVE  last_reset'[k][p] <= calendar'[p]
    <3>1. last_reset[k] \in [Periods -> Int] /\ calendar[p] \in Nat /\ calendar'[p] \in Nat
      BY DEF IndInv, TypeOK, LedgerTypeOK, Stamps
    <3>2. last_reset[k][p] \in Int /\ last_reset[k][p] <= calendar[p]
      BY <3>1 DEF IndInv, StampsOrdered
    <3>3. \A x \in Int, y, z \in Nat : x <= y /\ z >= y => x <= z
      OBVIOUS
    <3> QED
      BY <3>1, <3>2, <3>3
  <2> QED
    BY <2>1 DEF IndInv, StampsOrdered
<1> QED
  BY <1>1, <1>2, <1>3 DEF IndInv

\* What a check leaves of the stamps, whether it takes a hold or not.
LEMMA ResetStamps ==
    ASSUME LedgerTypeOK, StampsOrdered, NEW c \in Keys, ResetPeriods(c), UNCHANGED calendar,
           NEW p \in Periods
    PROVE  /\ \A k \in Keys : last_reset'[k][p] <= calendar'[p]
           /\ \A r \in Requests :
                /\ reservations[r] # NoRow =>
                      reservations[r].stamp[p] <= last_reset'[KeyOf[r]][p]
                /\ requests[r] # NoRow => requests[r].stamp[p] <= last_reset'[KeyOf[r]][p]
<1> DEFINE L(k) == last_reset[k][p]
<1>1. \A k \in Keys : L(k) \in Int /\ L(k) <= calendar[p]
  BY DEF LedgerTypeOK, Stamps, StampsOrdered
<1>2. calendar[p] \in Int
  BY DEF LedgerTypeOK
<1>3. \A k \in Keys : last_reset'[k][p] = IF k = c THEN calendar[p] ELSE L(k)
  BY DEF ResetPeriods, LedgerTypeOK
<1>4. \A k \in Keys : last_reset'[k][p] \in Int /\ L(k) <= last_reset'[k][p]
                      /\ last_reset'[k][p] <= calendar[p]
  <2> HIDE DEF L
  <2> QED
    BY <1>1, <1>2, <1>3
<1>5. \A r \in Requests :
         /\ reservations[r] # NoRow =>
               reservations[r].stamp[p] \in Int /\ reservations[r].stamp[p] <= L(KeyOf[r])
         /\ requests[r] # NoRow =>
               requests[r].stamp[p] \in Int /\ requests[r].stamp[p] <= L(KeyOf[r])
  BY DEF LedgerTypeOK, Stamps, StampsOrdered, Holds, Bills
<1>6. \A x, y, z \in Int : x <= y /\ y <= z => x <= z
  OBVIOUS
<1> HIDE DEF L
<1> QED
  BY <1>1, <1>4, <1>5, <1>6

LEMMA AdmitStep ==
    ASSUME IndInv, NEW r \in Requests, NEW amount \in Amounts, Admit(r, amount), TypeOK'
    PROVE  IndInv'
<1>1. LedgerTypeOK /\ StampsOrdered /\ BooksExact
  BY DEF IndInv, TypeOK
<1>2. reservations[r] = NoRow /\ requests[r] = NoRow
  BY DEF IndInv, NewIsClean, Admit
<1>3. BooksExact'
  BY <1>1, <1>2, ReserveBooks DEF Admit
<1>4. /\ reservations'[r] # NoRow
      /\ reservations'[r].amount = amount
      /\ reservations'[r].stamp = calendar
      /\ \A x \in Requests \ {r} : reservations'[x] = reservations[x]
  <2>1. [amount |-> amount, stamp |-> calendar, reserved_at |-> now] \in Holds
    BY <1>1, CalendarIsStamp DEF Holds, LedgerTypeOK
  <2> QED
    BY <1>1, <2>1 DEF Admit, Reserve, LedgerTypeOK
<1>5. StampsOrdered'
  <2>1. ResetPeriods(KeyOf[r]) /\ UNCHANGED calendar /\ UNCHANGED requests
    BY DEF Admit, Reserve
  <2>2. last_reset'[KeyOf[r]] = calendar
    BY <1>1, <2>1 DEF ResetPeriods, LedgerTypeOK
  <2>3. \A p \in Periods : calendar[p] <= calendar[p]
    BY <1>1 DEF LedgerTypeOK
  <2> QED
    BY <1>1, <1>4, <2>1, <2>2, <2>3, ResetStamps DEF StampsOrdered
<1>6. NewIsClean'
  BY <1>4 DEF IndInv, NewIsClean, Handed, Admit, Reserve, TypeOK
<1>7. HeldAsEstimated' /\ NoHoldAfterBill'
  BY <1>2, <1>4 DEF IndInv, HeldAsEstimated, NoHoldAfterBill, Admit, Reserve, TypeOK
<1> QED
  BY <1>3, <1>5, <1>6, <1>7 DEF IndInv

LEMMA RefuseStep ==
    ASSUME IndInv, NEW r \in Requests, NEW amount \in Amounts, Refuse(r, amount), TypeOK'
    PROVE  IndInv'
<1>1. LedgerTypeOK /\ StampsOrdered /\ BooksExact
  BY DEF IndInv, TypeOK
<1>2. BooksExact'
  BY <1>1, RefuseBooks DEF Refuse
<1>3. StampsOrdered'
  <2>1. /\ ResetPeriods(KeyOf[r])
        /\ UNCHANGED <<calendar, requests, reservations>>
    BY DEF Refuse, RefuseReservation
  <2> QED
    BY <1>1, <2>1, ResetStamps DEF StampsOrdered
<1>4. NewIsClean' /\ HeldAsEstimated' /\ NoHoldAfterBill'
  BY DEF IndInv, NewIsClean, Handed, HeldAsEstimated, NoHoldAfterBill,
         Refuse, RefuseReservation, TypeOK
<1> QED
  BY <1>2, <1>3, <1>4 DEF IndInv

\* A write, by the worker or by a handler.
LEMMA RecordStep ==
    ASSUME IndInv, NEW i \in Items, UNCHANGED est,
           RecordRequest(i.req, i.cost, est[i.req])
    PROVE  /\ StampsOrdered' /\ HeldAsEstimated' /\ NoHoldAfterBill' /\ BooksExact'
           /\ \A x \in Requests : x # i.req =>
                 reservations'[x] = reservations[x] /\ requests'[x] = requests[x]
<1> DEFINE r == i.req
<1>1. r \in Requests /\ i.cost \in Amounts /\ est[r] \in Amounts /\ KeyOf[r] \in Keys
  BY DEF Items, IndInv, TypeOK
<1>2. LedgerTypeOK
  BY DEF IndInv, TypeOK
<1>3. BooksExact'
  BY <1>1, <1>2, RecordBooks DEF IndInv, HeldAsEstimated
<1>4. CASE requests[r] # NoRow
  BY <1>3, <1>4 DEF RecordRequest, ledgerVars, budgets, IndInv, StampsOrdered,
                    HeldAsEstimated, NoHoldAfterBill
<1>5. CASE requests[r] = NoRow
  <2>1. /\ reservations'[r] = NoRow
        /\ \A x \in Requests \ {r} :
              reservations'[x] = reservations[x] /\ requests'[x] = requests[x]
        /\ last_reset' = last_reset /\ calendar' = calendar
    <3> DEFINE bill == [cost |-> i.cost, stamp |-> last_reset[KeyOf[r]]]
    <3>1. /\ requests' = [requests EXCEPT ![r] = bill]
          /\ reservations' = [reservations EXCEPT ![r] = NoRow]
          /\ last_reset' = last_reset /\ calendar' = calendar
      BY <1>5 DEF RecordRequest
    <3> HIDE DEF bill
    <3> QED
      BY <1>1, <1>2, <3>1 DEF LedgerTypeOK
  <2>2. requests'[r].stamp = last_reset[KeyOf[r]]
    BY <1>1, <1>2, <1>5 DEF RecordRequest, LedgerTypeOK
  <2>3. \A p \in Periods : last_reset[KeyOf[r]][p] <= last_reset[KeyOf[r]][p]
    <3>1. \A p \in Periods : last_reset[KeyOf[r]][p] \in Int
      BY <1>1, <1>2 DEF LedgerTypeOK, Stamps
    <3>2. \A x \in Int : x <= x
      OBVIOUS
    <3> QED
      BY <3>1, <3>2
  <2>4. StampsOrdered'
    BY <2>1, <2>2, <2>3 DEF IndInv, StampsOrdered
  <2>5. HeldAsEstimated' /\ NoHoldAfterBill'
    BY <2>1 DEF IndInv, HeldAsEstimated, NoHoldAfterBill
  <2> QED
    BY <1>3, <2>1, <2>4, <2>5
<1> QED
  BY <1>4, <1>5

LEMMA SweepStep ==
    ASSUME IndInv, TypeOK', Sweep, UNCHANGED <<pc, est, queue, taken, direct>>
    PROVE  IndInv'
<1>1. BooksExact'
  BY SweepBooks DEF IndInv, TypeOK
<1>2. \A r \in Requests : reservations'[r] \in {NoRow, reservations[r]}
  BY DEF Sweep, ReservationsAfterReclaim
<1>3. StampsOrdered' /\ NewIsClean' /\ HeldAsEstimated' /\ NoHoldAfterBill'
  BY <1>2 DEF IndInv, Sweep, StampsOrdered, NewIsClean, Handed, HeldAsEstimated, NoHoldAfterBill
<1> QED
  BY <1>1, <1>3 DEF IndInv

LEMMA NextInv ==
    ASSUME IndInv, [Next]_vars
    PROVE  IndInv'
<1>1. TypeOK /\ TypeOK'
  BY NextType DEF IndInv
<1>2. \A p \in Periods : calendar[p] >= calendar[p] /\ calendar[p] + 1 >= calendar[p]
  BY <1>1 DEF TypeOK, LedgerTypeOK
<1>3. ASSUME NEW r \in Requests, RequestStep(r)
      PROVE  IndInv'
  <2>1. CASE \E amount \in Amounts : Admit(r, amount) \/ Refuse(r, amount)
    BY <1>1, <2>1, AdmitStep, RefuseStep
  <2>2. CASE Respond(r) \/ Leave(r) \/ StreamError(r)
    <3>1. NewIsClean'
      BY <1>1, <2>2 DEF Respond, Leave, StreamError, Goto, ledgerVars, IndInv, NewIsClean,
                        Handed, TypeOK
    <3> QED
      BY <1>1, <1>2, <2>2, <3>1, FrameStep
         DEF Respond, Leave, StreamError, Goto, ledgerVars, budgets
  <2>3. CASE Disconnect(r)
    <3>1. NewIsClean'
      <4>1. direct' \subseteq direct /\ UNCHANGED <<ledgerVars, est, queue, taken>>
        BY <2>3 DEF Disconnect
      <4>2. \A x \in Requests : pc'[x] = "new" => pc[x] = "new"
        BY <1>1, <2>3 DEF Disconnect, OnDisconnect, TypeOK
      <4> QED
        BY <4>1, <4>2 DEF IndInv, NewIsClean, Handed, ledgerVars
    <3> QED
      BY <1>1, <1>2, <2>3, <3>1, FrameStep DEF Disconnect, OnDisconnect, ledgerVars, budgets
  <2>4. ASSUME NEW cost \in Costs(r), HandOver(r, cost)
        PROVE  IndInv'
    <3>1. NewIsClean'
      <4> DEFINE item == [req |-> r, cost |-> cost, at |-> pc[r]]
      <4>1. /\ queue' = Append(queue, item) \/ queue' = queue
            /\ direct' = direct \cup {item} \/ direct' = direct
            /\ UNCHANGED <<ledgerVars, est, taken>>
        BY <2>4 DEF HandOver
      <4>2. \A x \in Requests : pc'[x] = "new" => pc[x] = "new" /\ x # r
        BY <1>1, <2>4 DEF HandOver, TypeOK, Stages
      <4>3. item.req = r
        OBVIOUS
      <4>4. ASSUME NEW x \in Requests, Handed(x)', x # r
            PROVE  Handed(x)
        <5> HIDE DEF item
        <5>1. queue \in Seq(Items)
          BY <1>1 DEF TypeOK
        <5>2. CASE \E i \in taken' \cup direct' : i.req = x
          BY <4>1, <4>3, <4>4, <5>2 DEF Handed
        <5>3. CASE \E n \in 1..Len(queue') : queue'[n].req = x
          <6>1. CASE queue' = queue
            BY <5>3, <6>1 DEF Handed
          <6>2. CASE queue' = Append(queue, item)
            <7>1. /\ Len(queue') = Len(queue) + 1
                  /\ queue'[Len(queue) + 1] = item
                  /\ \A n \in 1..Len(queue) : queue'[n] = queue[n]
              BY <5>1, <6>2
            <7>2. PICK n \in 1..Len(queue') : queue'[n].req = x
              BY <5>3
            <7>3. n \in 1..Len(queue) \/ n = Len(queue) + 1
              BY <5>1, <7>1
            <7> QED
              BY <4>3, <4>4, <7>1, <7>2, <7>3 DEF Handed
          <6> QED
            BY <4>1, <6>1, <6>2
        <5> QED
          BY <4>4, <5>2, <5>3 DEF Handed
      <4> QED
        BY <4>1, <4>2, <4>4 DEF IndInv, NewIsClean, ledgerVars
    <3> QED
      BY <1>1, <1>2, <2>4, <3>1, FrameStep DEF HandOver, ledgerVars, budgets
  <2> QED
    BY <1>3, <2>1, <2>2, <2>3, <2>4 DEF RequestStep
<1>4. ASSUME WriterStep
      PROVE  IndInv'
  <2>1. ASSUME NEW i \in direct, WriteDirect(i)
        PROVE  IndInv'
    <3>1. i \in Items /\ i.req \in Requests /\ pc[i.req] # "new"
      BY <1>1 DEF TypeOK, Items, IndInv, NewIsClean, Handed
    <3>2. /\ StampsOrdered' /\ HeldAsEstimated' /\ NoHoldAfterBill' /\ BooksExact'
          /\ \A x \in Requests : x # i.req =>
                reservations'[x] = reservations[x] /\ requests'[x] = requests[x]
      BY <2>1, <3>1, RecordStep DEF WriteDirect
    <3>3. \A x \in Requests : pc'[x] = "new" => pc[x] = "new" /\ x # i.req
      BY <1>1, <2>1, <3>1 DEF WriteDirect, Resume, OnError, TypeOK, Items, Stages
    <3>4. NewIsClean'
      BY <2>1, <3>2, <3>3 DEF WriteDirect, IndInv, NewIsClean, Handed
    <3> QED
      BY <1>1, <3>2, <3>4 DEF IndInv
  <2>2. ASSUME NEW i \in direct, DirectError(i)
        PROVE  IndInv'
    <3>1. i \in Items /\ i.req \in Requests /\ pc[i.req] # "new"
      BY <1>1 DEF TypeOK, Items, IndInv, NewIsClean, Handed
    <3>2. \A x \in Requests : pc'[x] = "new" => pc[x] = "new"
      BY <1>1, <2>2, <3>1 DEF DirectError, Resume, OnError, TypeOK, Items, Stages
    <3>3. NewIsClean'
      BY <2>2, <3>2 DEF DirectError, IndInv, NewIsClean, Handed, ledgerVars
    <3> QED
      BY <1>1, <1>2, <2>2, <3>3, FrameStep DEF DirectError, ledgerVars, budgets
  <2>3. CASE WorkerGet
    <3>1. NewIsClean'
      <4>1. queue \in Seq(Items) /\ queue # <<>>
        BY <1>1, <2>3 DEF TypeOK, WorkerGet
      <4>2. /\ taken' = {queue[1]} /\ 1 \in 1..Len(queue)
            /\ \A n \in 1..Len(queue') : n + 1 \in 1..Len(queue) /\ queue'[n] = queue[n + 1]
        BY <2>3, <4>1 DEF WorkerGet
      <4>3. ASSUME NEW x \in Requests, Handed(x)'
            PROVE  Handed(x)
        BY <2>3, <4>2, <4>3 DEF Handed, WorkerGet
      <4> QED
        BY <2>3, <4>3 DEF WorkerGet, ledgerVars, IndInv, NewIsClean
    <3> QED
      BY <1>1, <1>2, <2>3, <3>1, FrameStep DEF WorkerGet, ledgerVars, budgets
  <2>4. ASSUME NEW i \in taken, WorkerPersist(i)
        PROVE  IndInv'
    <3>1. i \in Items /\ i.req \in Requests /\ pc[i.req] # "new"
      BY <1>1 DEF TypeOK, Items, IndInv, NewIsClean, Handed
    <3>2. /\ StampsOrdered' /\ HeldAsEstimated' /\ NoHoldAfterBill' /\ BooksExact'
          /\ \A x \in Requests : x # i.req =>
                reservations'[x] = reservations[x] /\ requests'[x] = requests[x]
      BY <2>4, <3>1, RecordStep DEF WorkerPersist
    <3>3. NewIsClean'
      BY <2>4, <3>1, <3>2 DEF WorkerPersist, IndInv, NewIsClean, Handed
    <3> QED
      BY <1>1, <3>2, <3>3 DEF IndInv
  <2>5. ASSUME NEW i \in taken, WorkerError(i)
        PROVE  IndInv'
    <3>1. NewIsClean'
      BY <2>5 DEF WorkerError, IndInv, NewIsClean, Handed, ledgerVars
    <3> QED
      BY <1>1, <1>2, <2>5, <3>1, FrameStep DEF WorkerError, ledgerVars, budgets
  <2> QED
    BY <1>4, <2>1, <2>2, <2>3, <2>4, <2>5 DEF WriterStep
<1>5. CASE ReclaimLoop \/ Restart
  BY <1>1, <1>5, SweepStep DEF ReclaimLoop, Restart, ReclaimStaleReservations, pipelineVars
<1>6. CASE OperatorStep
  <2>1. UNCHANGED <<spend, last_reset, requests, reservations, adrift, calendar, pipelineVars>>
    BY <1>6 DEF OperatorStep, PatchBudget, ReloadBudgets, UpdateBudgetLimits, LoadBudgets
  <2>2. NewIsClean'
    BY <2>1 DEF IndInv, NewIsClean, Handed, pipelineVars
  <2> QED
    BY <1>1, <1>2, <2>1, <2>2, FrameStep DEF pipelineVars
<1>7. CASE Crash
  <2>1. NewIsClean'
    BY <1>1, <1>7 DEF Crash, IndInv, NewIsClean, Handed, ledgerVars, TypeOK
  <2> QED
    BY <1>1, <1>2, <1>7, <2>1, FrameStep DEF Crash, ledgerVars, budgets
<1>8. CASE Tick \/ Midnight \/ UNCHANGED vars
  <2>1. UNCHANGED <<spend, last_reset, requests, reservations, adrift, pipelineVars>>
    BY <1>8 DEF Tick, Midnight, vars, ledgerVars, budgets
  <2>2. NewIsClean'
    BY <2>1 DEF IndInv, NewIsClean, Handed, pipelineVars
  <2>3. \A p \in Periods : calendar'[p] \in {calendar[p], calendar[p] + 1}
    BY <1>8 DEF Tick, Midnight, vars, ledgerVars, Periods
  <2> QED
    BY <1>1, <1>2, <2>1, <2>2, <2>3, FrameStep DEF pipelineVars
<1> QED
  BY <1>3, <1>4, <1>5, <1>6, <1>7, <1>8 DEF Next

\* Holds, bills, stamps and what each request has handed over stay related as
\* IndInv says, whatever order the requests, writers, sweeps and crashes come in.
THEOREM PipelineInvariant == Spec => []IndInv
<1>1. Init => IndInv
  BY InitInv
<1>2. IndInv /\ [Next]_vars => IndInv'
  BY NextInv
<1> QED
  BY <1>1, <1>2, PTL DEF Spec

\* The books balance in every state, for any number of keys and requests, any
\* queue size, any estimates and costs, and with crashes, failed writes,
\* sweeps, resets and repeated hand-overs in any order.
THEOREM BooksAlwaysExact == Spec => []BooksExact
<1>1. IndInv => BooksExact
  BY DEF IndInv
<1> QED
  BY <1>1, PipelineInvariant, PTL

\* However often the clauses of a stream hand its cost over, a request that is
\* billed holds nothing.
THEOREM BilledHoldNothing == Spec => []NoHoldAfterBill
<1>1. IndInv => NoHoldAfterBill
  BY DEF IndInv
<1> QED
  BY <1>1, PipelineInvariant, PTL

-----------------------------------------------------------------------------
(* Admission *)

\* Only an admission creates a row of reservations.
LEMMA OnlyAdmitHolds ==
    ASSUME TypeOK, [Next]_vars, NEW r \in Requests, Admits(r)
    PROVE  \E amount \in Amounts : Admit(r, amount)
<1>1. reservations[r] = NoRow /\ reservations'[r] # NoRow
  BY DEF Admits
<1>2. ASSUME NEW x \in Requests, NEW amount \in Amounts, Admit(x, amount)
      PROVE  x = r
  BY <1>1, <1>2 DEF Admit, Reserve, TypeOK, LedgerTypeOK
<1>3. ASSUME NEW x \in Requests, NEW cost, NEW reserved, RecordRequest(x, cost, reserved)
      PROVE  FALSE
  BY <1>1, <1>3 DEF RecordRequest, ledgerVars, TypeOK, LedgerTypeOK
<1>4. \A i \in direct \cup taken : i.req \in Requests
  BY DEF TypeOK, Items
<1>5. ~Sweep
  BY <1>1 DEF Sweep, ReservationsAfterReclaim
<1>6. UNCHANGED reservations => FALSE
  BY <1>1
<1>7. \/ \E x \in Requests, amount \in Amounts : Admit(x, amount)
      \/ \E i \in direct : WriteDirect(i)
      \/ \E i \in taken : WorkerPersist(i)
      \/ Sweep
      \/ UNCHANGED reservations
  <2>1. ASSUME NEW x \in Requests, RequestStep(x)
        PROVE  (\E amount \in Amounts : Admit(x, amount)) \/ UNCHANGED reservations
    BY <2>1 DEF RequestStep, Refuse, RefuseReservation, Respond, Leave, StreamError, Goto,
                Disconnect, HandOver, ledgerVars
  <2>2. ASSUME WriterStep
        PROVE  \/ \E i \in direct : WriteDirect(i)
               \/ \E i \in taken : WorkerPersist(i)
               \/ UNCHANGED reservations
    BY <2>2 DEF WriterStep, DirectError, WorkerGet, WorkerError, ledgerVars
  <2>3. OperatorStep => UNCHANGED reservations
    BY DEF OperatorStep, PatchBudget, ReloadBudgets, UpdateBudgetLimits, LoadBudgets
  <2>4. Crash \/ Tick \/ Midnight \/ UNCHANGED vars => UNCHANGED reservations
    BY DEF Crash, Tick, Midnight, vars, ledgerVars
  <2>5. ReclaimLoop \/ Restart => Sweep
    BY DEF ReclaimLoop, ReclaimStaleReservations, Restart
  <2> QED
    BY <2>1, <2>2, <2>3, <2>4, <2>5 DEF Next
<1> QED
  BY <1>2, <1>3, <1>4, <1>5, <1>6, <1>7 DEF WriteDirect, WorkerPersist

LEMMA AdmitFits ==
    ASSUME TypeOK, BooksExact', NEW r \in Requests, NEW amount \in Amounts, Admit(r, amount),
           NEW p \in Periods, <<KeyOf[r], p>> \notin adrift', limit_usd[KeyOf[r]][p] # 0
    PROVE  PaidTotal(KeyOf[r], p)' + HeldTotal(KeyOf[r], p)' <= limit_usd[KeyOf[r]][p]
<1> DEFINE k == KeyOf[r]
<1>1. k \in Keys
  OBVIOUS
<1>2. spend'[k][p] = SpendAfterReset(k)[p] + amount
  BY <1>1 DEF Admit, Reserve, TypeOK, LedgerTypeOK
<1>3. SpendAfterReset(k)[p] + amount <= limit_usd[k][p]
  BY DEF Admit, Reserve, Fits
<1>4. spend'[k][p] = PaidTotal(k, p)' + HeldTotal(k, p)'
  BY <1>1 DEF BooksExact
<1> QED
  BY <1>2, <1>3, <1>4

\* However many requests are in flight, and whatever became of the others, an
\* admission leaves the period's bills and holds within the limits.
THEOREM AdmissionIsWithinLimit == Spec => AdmissionWithinLimit
<1>1. IndInv /\ [Next]_vars => [AdmitsWithinLimit]_vars
  <2> SUFFICES ASSUME IndInv, [Next]_vars
               PROVE  AdmitsWithinLimit
    OBVIOUS
  <2>1. TypeOK /\ BooksExact'
    BY NextInv DEF IndInv
  <2> QED
    BY <2>1, OnlyAdmitHolds, AdmitFits DEF AdmitsWithinLimit
<1> QED
  BY <1>1, PipelineInvariant, PTL DEF Spec, AdmissionWithinLimit

LEMMA RefuseJust ==
    ASSUME TypeOK, BooksExact', NEW r \in Requests, NEW amount \in Amounts, Refuse(r, amount)
    PROVE  \E p \in Periods :
              \/ <<KeyOf[r], p>> \in adrift'
              \/ /\ limit_usd[KeyOf[r]][p] # 0
                 /\ PaidTotal(KeyOf[r], p)' + HeldTotal(KeyOf[r], p)' + amount
                       > limit_usd[KeyOf[r]][p]
<1> DEFINE k == KeyOf[r]
<1>1. k \in Keys
  OBVIOUS
<1>2. PICK p \in Periods : /\ limit_usd[k][p] # 0
                           /\ ~(SpendAfterReset(k)[p] + amount <= limit_usd[k][p])
  BY DEF Refuse, RefuseReservation, Fits
<1>3. spend'[k] = SpendAfterReset(k)
  BY <1>1 DEF Refuse, RefuseReservation, TypeOK, LedgerTypeOK
<1>4. CASE <<k, p>> \notin adrift'
  <2>1. SpendAfterReset(k)[p] = PaidTotal(k, p)' + HeldTotal(k, p)'
    BY <1>1, <1>3, <1>4 DEF BooksExact
  <2>2. SpendAfterReset(k)[p] \in Int /\ limit_usd[k][p] \in Int /\ amount \in Int
    <3>1. LedgerTypeOK
      BY DEF TypeOK
    <3>2. SpendAfterReset(k) \in [Periods -> Int]
      BY <1>1, <3>1, SpendAfterResetType
    <3>3. limit_usd[k][p] \in Nat
      BY <1>1, <3>1 DEF LedgerTypeOK
    <3> QED
      BY <3>2, <3>3 DEF Amounts
  <2> QED
    BY <1>2, <2>1, <2>2
<1> QED
  BY <1>4

\* A 429 is always for money that the period's bills and holds account for.
THEOREM RefusalIsJustified == Spec => RefusalJustified
<1>1. IndInv /\ [Next]_vars => [RefusesJustly]_vars
  <2> SUFFICES ASSUME IndInv, [Next]_vars
               PROVE  RefusesJustly
    OBVIOUS
  <2>1. TypeOK /\ BooksExact'
    BY NextInv DEF IndInv
  <2> QED
    BY <2>1, RefuseJust DEF RefusesJustly
<1> QED
  BY <1>1, PipelineInvariant, PTL DEF Spec, RefusalJustified

-----------------------------------------------------------------------------
(* A queue *)


\* The queue after put_nowait has what it had, and the new item.
LEMMA Appended ==
    ASSUME NEW q \in Seq(Items), NEW e, NEW after, after = Append(q, e)
    PROVE  \A n \in 1..Len(after) : after[n] = e \/ (n \in 1..Len(q) /\ after[n] = q[n])
<1>1. /\ Len(after) = Len(q) + 1
      /\ after[Len(q) + 1] = e
      /\ \A n \in 1..Len(q) : after[n] = q[n]
  OBVIOUS
<1>2. \A n \in 1..Len(after) : n \in 1..Len(q) \/ n = Len(q) + 1
  BY <1>1
<1> QED
  BY <1>1, <1>2

-----------------------------------------------------------------------------
(* WithinLimit *)

FixedLimits     == PatchLimits = {}
HonestEstimates == ~Overrun

\* What is on its way to the ledger costs no more than is held for it.
CostsCovered ==
    /\ \A i \in taken \cup direct : i.cost <= est[i.req]
    /\ \A n \in 1..Len(queue) : queue[n].cost <= est[queue[n].req]

CountersWithinLimit ==
    \A k \in Keys, p \in Periods :
        <<k, p>> \notin adrift /\ ConfigLimit[k][p] # 0 => spend[k][p] <= ConfigLimit[k][p]

LimitInv ==
    /\ limit_usd = ConfigLimit
    /\ CostsCovered
    /\ CountersWithinLimit

LEMMA LimitsAreNat ==
    ASSUME NEW k \in Keys, NEW p \in Periods
    PROVE  ConfigLimit[k][p] \in Nat
BY PipelineAssumption

LEMMA InitLimit == Init => LimitInv
<1> SUFFICES ASSUME Init PROVE LimitInv
  OBVIOUS
<1>1. limit_usd = ConfigLimit /\ CostsCovered
  BY DEF Init, LedgerInit, CostsCovered
<1>2. CountersWithinLimit
  BY LimitsAreNat DEF Init, LedgerInit, CountersWithinLimit
<1> QED
  BY <1>1, <1>2 DEF LimitInv

\* The counters stay within the limits while money is only moved or given back.
LEMMA SpendFrame ==
    ASSUME CountersWithinLimit, UNCHANGED <<spend, adrift>>
    PROVE  CountersWithinLimit'
BY DEF CountersWithinLimit

LEMMA ReserveLimit ==
    ASSUME LedgerTypeOK, LimitInv, NEW r \in Requests, NEW amount \in Amounts,
           Reserve(r, amount)
    PROVE  CountersWithinLimit'
<1> SUFFICES ASSUME NEW k \in Keys, NEW p \in Periods,
                    <<k, p>> \notin adrift', ConfigLimit[k][p] # 0
             PROVE  spend'[k][p] <= ConfigLimit[k][p]
  BY DEF CountersWithinLimit
<1> DEFINE c == KeyOf[r]
<1>1. CASE k = c
  <2>1. spend'[k][p] = SpendAfterReset(k)[p] + amount
    BY <1>1 DEF Reserve, LedgerTypeOK
  <2>2. SpendAfterReset(k)[p] + amount <= limit_usd[k][p]
    BY <1>1 DEF Reserve, Fits, LimitInv
  <2> QED
    BY <2>1, <2>2 DEF LimitInv
<1>2. CASE k # c
  <2>1. spend'[k] = spend[k] /\ <<k, p>> \notin adrift
    BY <1>2 DEF Reserve, ResetPeriods, LedgerTypeOK
  <2> QED
    BY <2>1 DEF LimitInv, CountersWithinLimit
<1> QED
  BY <1>1, <1>2

LEMMA RefuseLimit ==
    ASSUME LedgerTypeOK, LimitInv, NEW r \in Requests, NEW amount \in Amounts,
           RefuseReservation(r, amount)
    PROVE  CountersWithinLimit'
<1> SUFFICES ASSUME NEW k \in Keys, NEW p \in Periods,
                    <<k, p>> \notin adrift', ConfigLimit[k][p] # 0
             PROVE  spend'[k][p] <= ConfigLimit[k][p]
  BY DEF CountersWithinLimit
<1> DEFINE c == KeyOf[r]
<1>1. CASE k = c /\ NeedsReset(k, p)
  <2>1. spend'[k][p] = 0
    BY <1>1 DEF RefuseReservation, SpendAfterReset, LedgerTypeOK
  <2> QED
    BY <2>1, LimitsAreNat
<1>2. CASE k = c /\ ~NeedsReset(k, p)
  <2>1. spend'[k][p] = spend[k][p] /\ <<k, p>> \notin adrift
    BY <1>2 DEF RefuseReservation, ResetPeriods, SpendAfterReset, LedgerTypeOK
  <2> QED
    BY <2>1 DEF LimitInv, CountersWithinLimit
<1>3. CASE k # c
  <2>1. spend'[k] = spend[k] /\ <<k, p>> \notin adrift
    BY <1>3 DEF RefuseReservation, ResetPeriods, LedgerTypeOK
  <2> QED
    BY <2>1 DEF LimitInv, CountersWithinLimit
<1> QED
  BY <1>1, <1>2, <1>3

LEMMA RecordLimit ==
    ASSUME LedgerTypeOK, LimitInv, NEW r \in Requests,
           NEW cost \in Amounts, NEW reserved \in Amounts, cost <= reserved,
           RecordRequest(r, cost, reserved)
    PROVE  CountersWithinLimit'
<1>1. CASE requests[r] # NoRow
  BY <1>1, SpendFrame DEF RecordRequest, ledgerVars, budgets, LimitInv
<1>2. CASE requests[r] = NoRow
  <2> SUFFICES ASSUME NEW k \in Keys, NEW p \in Periods,
                      <<k, p>> \notin adrift', ConfigLimit[k][p] # 0
               PROVE  spend'[k][p] <= ConfigLimit[k][p]
    BY DEF CountersWithinLimit
  <2>1. <<k, p>> \notin adrift
    BY <1>2 DEF RecordRequest
  <2>2. spend'[k][p] = spend[k][p] \/ spend'[k][p] = spend[k][p] + (cost - reserved)
    <3>1. spend' = [spend EXCEPT ![KeyOf[r]] =
                      [q \in Periods |-> spend[KeyOf[r]][q] + (cost - reserved)]]
      BY <1>2 DEF RecordRequest
    <3>2. spend \in [Keys -> [Periods -> Int]]
      BY DEF LedgerTypeOK
    <3>3. CASE k = KeyOf[r]
      BY <3>1, <3>2, <3>3
    <3>4. CASE k # KeyOf[r]
      BY <3>1, <3>2, <3>4
    <3> QED
      BY <3>3, <3>4
  <2>3. spend[k][p] \in Int /\ spend[k][p] <= ConfigLimit[k][p] /\ ConfigLimit[k][p] \in Int
    BY <2>1, LimitsAreNat DEF LimitInv, CountersWithinLimit, LedgerTypeOK
  <2>4. cost - reserved \in Int /\ cost - reserved <= 0
    BY DEF Amounts
  <2> QED
    BY <2>2, <2>3, <2>4
<1> QED
  BY <1>1, <1>2

LEMMA SweepLimit ==
    ASSUME LedgerTypeOK, LimitInv, Sweep
    PROVE  CountersWithinLimit'
<1> SUFFICES ASSUME NEW k \in Keys, NEW p \in Periods,
                    <<k, p>> \notin adrift', ConfigLimit[k][p] # 0
             PROVE  spend'[k][p] <= ConfigLimit[k][p]
  BY DEF CountersWithinLimit
<1> DEFINE refund == Total(Refundable(k, p), Amount, MaxAmount)
<1>1. spend[k][p] \in Int /\ spend[k][p] <= ConfigLimit[k][p] /\ ConfigLimit[k][p] \in Nat
  BY LimitsAreNat DEF Sweep, LimitInv, CountersWithinLimit, LedgerTypeOK
<1>2. refund \in Nat
  <2>1. Refundable(k, p) \in SUBSET Requests
    BY DEF Refundable, Stale
  <2> QED
    BY <2>1, SubsetTotalNat
<1>3. spend'[k][p] = spend[k][p] \/ spend'[k][p] = AtLeastZero(spend[k][p] - refund)
  BY DEF Sweep, SpendAfterReclaim
<1>4. AtLeastZero(spend[k][p] - refund) = 0 \/
      AtLeastZero(spend[k][p] - refund) = spend[k][p] - refund
  BY DEF AtLeastZero
<1> HIDE DEF refund
<1> QED
  BY <1>1, <1>2, <1>3, <1>4

LEMMA LimitStep ==
    ASSUME FixedLimits, HonestEstimates, IndInv, LimitInv, [Next]_vars
    PROVE  LimitInv'
<1> USE DEF FixedLimits
<1>1. TypeOK /\ LedgerTypeOK /\ NewIsClean
  BY DEF IndInv, TypeOK
<1>2. limit_usd' = ConfigLimit
  BY DEF LimitInv, Next, RequestStep, WriterStep, OperatorStep, Admit, Reserve, Refuse,
         RefuseReservation, Respond, Leave, StreamError, Goto, Disconnect, HandOver,
         WriteDirect, DirectError, RecordRequest, WorkerGet, WorkerPersist, WorkerError,
         ReclaimLoop, ReclaimStaleReservations, ReloadBudgets, LoadBudgets, Crash, Restart,
         Tick, Midnight, vars, ledgerVars, budgets
<1>3. \A i \in taken \cup direct : i \in Items /\ i.cost <= est[i.req]
  BY <1>1 DEF TypeOK, LimitInv, CostsCovered
<1>4. \A i \in taken \cup direct : /\ i.req \in Requests /\ i.cost \in Amounts
                                   /\ est[i.req] \in Amounts
  BY <1>1, <1>3 DEF TypeOK, Items
<1>5. CountersWithinLimit'
  <2>1. ASSUME NEW r \in Requests, NEW amount \in Amounts, Admit(r, amount) \/ Refuse(r, amount)
        PROVE  CountersWithinLimit'
    BY <1>1, <2>1, ReserveLimit, RefuseLimit DEF Admit, Refuse
  <2>2. ASSUME NEW r \in Requests,
               Respond(r) \/ Leave(r) \/ StreamError(r) \/ Disconnect(r)
                 \/ \E cost \in Costs(r) : HandOver(r, cost)
        PROVE  CountersWithinLimit'
    BY <2>2, SpendFrame DEF LimitInv, Respond, Leave, StreamError, Goto, Disconnect, HandOver,
            ledgerVars, budgets
  <2>3. ASSUME NEW i \in taken \cup direct, RecordRequest(i.req, i.cost, est[i.req])
        PROVE  CountersWithinLimit'
    BY <1>1, <1>3, <1>4, <2>3, RecordLimit
  <2>4. CASE WriterStep
    <3>1. \/ \E i \in taken \cup direct : RecordRequest(i.req, i.cost, est[i.req])
          \/ UNCHANGED <<spend, adrift>>
      BY <2>4 DEF WriterStep, WriteDirect, DirectError, WorkerGet, WorkerPersist, WorkerError,
              ledgerVars, budgets
    <3> QED
      BY <2>3, <3>1, SpendFrame DEF LimitInv
  <2>5. CASE ReclaimLoop \/ Restart
    BY <1>1, <2>5, SweepLimit DEF ReclaimLoop, ReclaimStaleReservations, Restart
  <2>6. CASE OperatorStep \/ Crash \/ Tick \/ Midnight \/ UNCHANGED vars
    BY <2>6, SpendFrame DEF LimitInv, OperatorStep, ReloadBudgets, LoadBudgets, Crash, Tick,
            Midnight, vars, ledgerVars, budgets
  <2> QED
    BY <2>1, <2>2, <2>4, <2>5, <2>6 DEF Next, RequestStep
<1>6. CostsCovered'
  <2>1. ASSUME NEW r \in Requests, NEW amount \in Amounts, Admit(r, amount)
        PROVE  CostsCovered'
    <3>1. ~Handed(r)
      BY <1>1, <2>1 DEF Admit, NewIsClean
    <3>2. \A x \in Requests : x # r => est'[x] = est[x]
      BY <1>1, <2>1 DEF Admit, TypeOK
    <3>3. \A i \in taken \cup direct : i.req # r /\ i.req \in Requests
      BY <1>4, <3>1 DEF Handed
    <3>4. \A n \in 1..Len(queue) : queue[n].req # r /\ queue[n].req \in Requests
      <4>1. \A n \in 1..Len(queue) : queue[n] \in Items
        BY <1>1 DEF TypeOK
      <4> QED
        BY <3>1, <4>1 DEF Handed, Items
    <3> QED
      BY <2>1, <3>2, <3>3, <3>4 DEF Admit, LimitInv, CostsCovered
  <2>2. ASSUME NEW r \in Requests, NEW cost \in Costs(r), HandOver(r, cost)
        PROVE  CostsCovered'
    <3> DEFINE item == [req |-> r, cost |-> cost, at |-> pc[r]]
    <3>1. cost <= est[r]
      BY <1>1, <2>2 DEF Costs, HonestEstimates, TypeOK
    <3>2. item.cost <= est[item.req]
      BY <3>1
    <3>3. CASE Room
      <4>1. queue' = Append(queue, item) /\ UNCHANGED <<taken, direct, est>>
        BY <2>2, <3>3 DEF HandOver
      <4>2. queue \in Seq(Items)
        BY <1>1 DEF TypeOK
      <4>3. \A n \in 1..Len(queue') : queue'[n] = item \/ (n \in 1..Len(queue) /\ queue'[n] = queue[n])
        BY <4>1, <4>2, Appended
      <4> HIDE DEF item
      <4> QED
        BY <3>2, <4>1, <4>3 DEF LimitInv, CostsCovered
    <3>4. CASE ~Room
      <4>1. direct' = direct \cup {item} /\ UNCHANGED <<taken, queue, est>>
        BY <2>2, <3>4 DEF HandOver
      <4> QED
        BY <3>2, <4>1 DEF LimitInv, CostsCovered
    <3> QED
      BY <3>3, <3>4
  <2>3. CASE WorkerGet
    <3>1. queue \in Seq(Items) /\ queue # <<>>
      BY <1>1, <2>3 DEF TypeOK, WorkerGet
    <3>2. /\ taken' = {queue[1]} /\ 1 \in 1..Len(queue)
          /\ \A n \in 1..Len(queue') : n + 1 \in 1..Len(queue) /\ queue'[n] = queue[n + 1]
      BY <2>3, <3>1 DEF WorkerGet
    <3> QED
      BY <2>3, <3>2 DEF WorkerGet, LimitInv, CostsCovered
  <2>4. CASE Crash
    BY <2>4 DEF Crash, CostsCovered
  <2>5. CASE \/ \E r \in Requests : \/ \E amount \in Amounts : Refuse(r, amount)
                                    \/ Respond(r) \/ Leave(r) \/ StreamError(r) \/ Disconnect(r)
             \/ \E i \in direct : WriteDirect(i) \/ DirectError(i)
             \/ \E i \in taken : WorkerPersist(i) \/ WorkerError(i)
             \/ ReclaimLoop \/ OperatorStep \/ Restart \/ Tick \/ Midnight \/ UNCHANGED vars
    <3>1. taken' \subseteq taken /\ direct' \subseteq direct /\ UNCHANGED <<est, queue>>
      BY <2>5 DEF Refuse, Respond, Leave, StreamError, Goto, Disconnect, WriteDirect, DirectError,
              WorkerPersist, WorkerError, ReclaimLoop, OperatorStep, PatchBudget, ReloadBudgets,
              Restart, Tick, Midnight, vars, pipelineVars
    <3> QED
      BY <3>1 DEF LimitInv, CostsCovered
  <2> QED
    BY <2>1, <2>2, <2>3, <2>4, <2>5 DEF Next, RequestStep, WriterStep
<1> QED
  BY <1>2, <1>5, <1>6 DEF LimitInv

\* If limits are left alone and no answer costs more than was reserved for it,
\* the bills and holds of a period never exceed its limit, whatever is settled,
\* swept, reset, repeated or lost; counters adrift excepted (check_and_reserve_budget).
THEOREM PeriodsWithinLimit ==
    ASSUME FixedLimits, HonestEstimates
    PROVE  Spec => []WithinLimit
<1>1. Init => LimitInv
  BY InitLimit
<1>2. IndInv /\ LimitInv /\ [Next]_vars => LimitInv'
  BY LimitStep
<1>3. IndInv /\ LimitInv => WithinLimit
  BY DEF IndInv, BooksExact, LimitInv, CountersWithinLimit, WithinLimit
<1> QED
  BY <1>1, <1>2, <1>3, PipelineInvariant, PTL DEF Spec

-----------------------------------------------------------------------------
(* ReclaimSparesBuffered *)

SweepWaits == Deadline <= StaleAfter

\* A request whose answer is still awaited has handed over nothing, and if it is
\* not streamed its hold is no older than the deadline.
RunningIsClean == \A r \in Requests : pc[r] = "running" => ~Handed(r)

RunningIsYoung ==
    \A r \in Requests \ Streaming :
        pc[r] = "running" /\ reservations[r] # NoRow => now <= reservations[r].reserved_at + Deadline

LEMMA InitYoung == Init => RunningIsClean /\ RunningIsYoung
BY DEF Init, RunningIsClean, RunningIsYoung

LEMMA CleanStep ==
    ASSUME IndInv, RunningIsClean, [Next]_vars
    PROVE  RunningIsClean'
<1>1. TypeOK /\ NewIsClean
  BY DEF IndInv
<1> SUFFICES ASSUME NEW r \in Requests, pc'[r] = "running"
             PROVE  ~Handed(r)'
  BY DEF RunningIsClean
<1>2. pc[r] \in {"new", "running"}
  BY <1>1 DEF Next, RequestStep, WriterStep, OperatorStep, Admit, Refuse, Respond, Leave,
     StreamError, Goto, Disconnect, HandOver, OnDisconnect, WriteDirect, DirectError, Resume,
     OnError, WorkerGet, WorkerPersist, WorkerError, ReclaimLoop, PatchBudget, ReloadBudgets,
     Crash, Restart, Tick, Midnight, vars, pipelineVars, TypeOK, Items, Stages
<1>3. ~Handed(r)
  BY <1>1, <1>2 DEF NewIsClean, RunningIsClean
<1>4. ASSUME NEW x \in Requests, NEW cost \in Costs(x), HandOver(x, cost)
      PROVE  ~Handed(r)'
  <2> DEFINE item == [req |-> x, cost |-> cost, at |-> pc[x]]
  <2>1. x # r
    BY <1>2, <1>4 DEF HandOver, Stages
  <2>2. CASE Room
    <3>1. /\ queue' = Append(queue, item) /\ UNCHANGED <<taken, direct>>
          /\ queue \in Seq(Items)
      BY <1>1, <1>4, <2>2 DEF HandOver, TypeOK
    <3>2. \A n \in 1..Len(queue') : queue'[n] = item \/ (n \in 1..Len(queue) /\ queue'[n] = queue[n])
      BY <3>1, Appended
    <3> QED
      BY <1>3, <2>1, <3>1, <3>2 DEF Handed
  <2>3. CASE ~Room
    <3>1. direct' = direct \cup {item} /\ UNCHANGED <<taken, queue>>
      BY <1>4, <2>3 DEF HandOver
    <3> QED
      BY <1>3, <2>1, <3>1 DEF Handed
  <2> QED
    BY <2>2, <2>3
<1>5. CASE WorkerGet
  <2>1. queue \in Seq(Items) /\ queue # <<>>
    BY <1>1, <1>5 DEF TypeOK, WorkerGet
  <2>2. /\ taken' = {queue[1]} /\ 1 \in 1..Len(queue) /\ direct' = direct
        /\ \A n \in 1..Len(queue') : n + 1 \in 1..Len(queue) /\ queue'[n] = queue[n + 1]
    BY <1>5, <2>1 DEF WorkerGet
  <2> QED
    BY <1>3, <2>2 DEF Handed
<1>6. CASE Crash
  BY <1>6 DEF Crash, Handed
<1>7. CASE \/ \E x \in Requests :
                \/ \E amount \in Amounts : Admit(x, amount) \/ Refuse(x, amount)
                \/ Respond(x) \/ Leave(x) \/ StreamError(x) \/ Disconnect(x)
           \/ \E i \in direct : WriteDirect(i) \/ DirectError(i)
           \/ \E i \in taken : WorkerPersist(i) \/ WorkerError(i)
           \/ ReclaimLoop \/ OperatorStep \/ Restart \/ Tick \/ Midnight \/ UNCHANGED vars
  <2>1. taken' \subseteq taken /\ direct' \subseteq direct /\ queue' = queue
    BY <1>7 DEF Admit, Refuse, Respond, Leave, StreamError, Goto, Disconnect, WriteDirect,
            DirectError, WorkerPersist, WorkerError, ReclaimLoop, OperatorStep, PatchBudget,
            ReloadBudgets, Restart, Tick, Midnight, vars, pipelineVars
  <2> QED
    BY <1>3, <2>1 DEF Handed
<1> QED
  BY <1>4, <1>5, <1>6, <1>7 DEF Next, RequestStep, WriterStep

LEMMA YoungStep ==
    ASSUME IndInv, RunningIsYoung, [Next]_vars
    PROVE  RunningIsYoung'
<1>1. TypeOK /\ LedgerTypeOK /\ now \in Nat /\ Deadline \in Nat
  BY PipelineAssumption DEF IndInv, TypeOK, LedgerTypeOK
<1> SUFFICES ASSUME NEW r \in Requests \ Streaming, pc'[r] = "running", reservations'[r] # NoRow
             PROVE  now' <= reservations'[r].reserved_at + Deadline
  BY DEF RunningIsYoung
<1>2. ASSUME NEW x \in Requests, NEW amount \in Amounts, Admit(x, amount), x = r
      PROVE  now' <= reservations'[r].reserved_at + Deadline
  <2>1. reservations'[r] = [amount |-> amount, stamp |-> calendar, reserved_at |-> now] /\ now' = now
    BY <1>1, <1>2 DEF Admit, Reserve, LedgerTypeOK
  <2> QED
    BY <1>1, <2>1
<1>3. ASSUME pc[r] = "running", reservations'[r] = reservations[r], now' = now
      PROVE  now' <= reservations'[r].reserved_at + Deadline
  BY <1>3 DEF RunningIsYoung
<1>4. CASE Tick
  <2>1. pc[r] = "running" /\ reservations'[r] = reservations[r] /\ now' = now + 1
    BY <1>4 DEF Tick, pipelineVars
  <2>2. ~(now >= reservations[r].reserved_at + Deadline)
    BY <1>4, <2>1 DEF Tick, Overdue
  <2>3. reservations[r].reserved_at \in Nat
    BY <1>1, <2>1 DEF LedgerTypeOK, Holds
  <2> QED
    BY <1>1, <2>1, <2>2, <2>3
<1>5. ASSUME ~Tick, \A amount \in Amounts : ~Admit(r, amount)
      PROVE  pc[r] = "running" /\ reservations'[r] = reservations[r] /\ now' = now
  <2>1. pc[r] = "running"
    BY <1>1, <1>5 DEF Next, RequestStep, WriterStep, OperatorStep, Admit, Refuse, Respond, Leave,
       StreamError, Goto, Disconnect, HandOver, OnDisconnect, WriteDirect, DirectError, Resume,
       OnError, WorkerGet, WorkerPersist, WorkerError, ReclaimLoop, PatchBudget, ReloadBudgets,
       Crash, Restart, Midnight, vars, pipelineVars, TypeOK, Items, Stages
  <2>2. now' = now
    BY <1>5 DEF Next, RequestStep, WriterStep, OperatorStep, Admit, Reserve, Refuse,
       RefuseReservation, Respond, Leave, StreamError, Goto, Disconnect, HandOver, WriteDirect,
       DirectError, RecordRequest, WorkerGet, WorkerPersist, WorkerError, ReclaimLoop,
       ReclaimStaleReservations, Sweep, PatchBudget, UpdateBudgetLimits, ReloadBudgets,
       LoadBudgets, Crash, Restart, Midnight, vars, ledgerVars
  <2>3. ASSUME NEW x \in Requests, NEW amount \in Amounts, Admit(x, amount)
        PROVE  reservations'[r] = reservations[r]
    BY <1>1, <1>5, <2>3 DEF Admit, Reserve, LedgerTypeOK
  <2>4. ASSUME NEW x \in Requests, NEW cost, NEW reserved, RecordRequest(x, cost, reserved)
        PROVE  reservations'[r] = reservations[r]
    BY <1>1, <2>4 DEF RecordRequest, ledgerVars, LedgerTypeOK
  <2>5. \A i \in direct \cup taken : i.req \in Requests
    BY <1>1 DEF TypeOK, Items
  <2>6. Sweep => reservations'[r] = reservations[r]
    BY DEF Sweep, ReservationsAfterReclaim
  <2>7. ASSUME NEW x \in Requests, RequestStep(x)
        PROVE  (\E amount \in Amounts : Admit(x, amount)) \/ UNCHANGED reservations
    BY <2>7 DEF RequestStep, Refuse, RefuseReservation, Respond, Leave, StreamError, Goto,
            Disconnect, HandOver, ledgerVars
  <2>8. WriterStep => \/ \E i \in direct \cup taken : RecordRequest(i.req, i.cost, est[i.req])
                      \/ UNCHANGED reservations
    BY DEF WriterStep, WriteDirect, WorkerPersist, DirectError, WorkerGet, WorkerError, ledgerVars
  <2>9. OperatorStep \/ Crash \/ Midnight \/ UNCHANGED vars => UNCHANGED reservations
    BY DEF OperatorStep, PatchBudget, ReloadBudgets, UpdateBudgetLimits, LoadBudgets, Crash,
           Midnight, vars, ledgerVars
  <2>10. ReclaimLoop \/ Restart => Sweep
    BY DEF ReclaimLoop, ReclaimStaleReservations, Restart
  <2> QED
    BY <1>5, <2>1, <2>2, <2>3, <2>4, <2>5, <2>6, <2>7, <2>8, <2>9, <2>10 DEF Next
<1> QED
  BY <1>2, <1>3, <1>4, <1>5

LEMMA SweepSpares ==
    ASSUME SweepWaits, IndInv, RunningIsClean, RunningIsYoung, [Next]_vars
    PROVE  Spares(Requests \ Streaming)
<1>1. TypeOK /\ LedgerTypeOK /\ now \in Nat /\ Deadline \in Nat /\ StaleAfter \in Nat
  BY PipelineAssumption, LedgerAssumption DEF IndInv, TypeOK, LedgerTypeOK
<1> SUFFICES ASSUME NEW r \in Requests \ Streaming, pc[r] = "running", pc'[r] = "running",
                    reservations[r] # NoRow, reservations'[r] = NoRow
             PROVE  FALSE
  BY DEF Spares
<1>2. r \notin Stale
  <2>1. reservations[r].reserved_at \in Nat
    BY <1>1 DEF LedgerTypeOK, Holds
  <2>2. now <= reservations[r].reserved_at + Deadline
    BY DEF RunningIsYoung
  <2> QED
    BY <1>1, <2>1, <2>2 DEF Stale, SweepWaits
<1>3. ~Sweep
  BY <1>2 DEF Sweep, ReservationsAfterReclaim
<1>4. \A i \in direct \cup taken : i.req \in Requests /\ i.req # r
  BY <1>1 DEF RunningIsClean, Handed, TypeOK, Items
<1>5. ASSUME NEW x \in Requests, x # r, NEW cost, NEW reserved, RecordRequest(x, cost, reserved)
      PROVE  FALSE
  BY <1>1, <1>5 DEF RecordRequest, ledgerVars, LedgerTypeOK
<1>6. ASSUME NEW x \in Requests, NEW amount \in Amounts, Admit(x, amount)
      PROVE  FALSE
  <2>1. [amount |-> amount, stamp |-> calendar, reserved_at |-> now] \in Holds
    BY <1>1, CalendarIsStamp DEF Holds
  <2>2. x # r => reservations'[r] = reservations[r]
    BY <1>1, <1>6 DEF Admit, Reserve, LedgerTypeOK
  <2>3. x = r => reservations'[r] # NoRow
    BY <1>1, <1>6, <2>1, LedgerAssumption DEF Admit, Reserve, LedgerTypeOK
  <2> QED
    BY <2>2, <2>3
<1>7. UNCHANGED reservations => FALSE
  OBVIOUS
<1>8. ASSUME NEW x \in Requests, RequestStep(x)
      PROVE  (\E amount \in Amounts : Admit(x, amount)) \/ UNCHANGED reservations
  BY <1>8 DEF RequestStep, Refuse, RefuseReservation, Respond, Leave, StreamError, Goto,
          Disconnect, HandOver, ledgerVars
<1>9. WriterStep => \/ \E i \in direct \cup taken : RecordRequest(i.req, i.cost, est[i.req])
                    \/ UNCHANGED reservations
  BY DEF WriterStep, WriteDirect, WorkerPersist, DirectError, WorkerGet, WorkerError, ledgerVars
<1>10. OperatorStep \/ Crash \/ Tick \/ Midnight \/ UNCHANGED vars => UNCHANGED reservations
  BY DEF OperatorStep, PatchBudget, ReloadBudgets, UpdateBudgetLimits, LoadBudgets, Crash,
         Tick, Midnight, vars, ledgerVars
<1>11. ReclaimLoop \/ Restart => Sweep
  BY DEF ReclaimLoop, ReclaimStaleReservations, Restart
<1> QED
  BY <1>3, <1>4, <1>5, <1>6, <1>7, <1>8, <1>9, <1>10, <1>11 DEF Next

\* If the sweep's threshold is not below router.execute's deadline, no sweep, at
\* startup or from the timer, takes the hold of a buffered answer still awaited,
\* and no late write of another clause settles it (main.py:216, store.py:788).
THEOREM SweepSparesBuffered ==
    ASSUME SweepWaits
    PROVE  Spec => ReclaimSparesBuffered
<1>1. Init => RunningIsClean /\ RunningIsYoung
  BY InitYoung
<1>2. IndInv /\ RunningIsClean /\ RunningIsYoung /\ [Next]_vars
        => RunningIsClean' /\ RunningIsYoung'
  BY CleanStep, YoungStep
<1>3. IndInv /\ RunningIsClean /\ RunningIsYoung /\ [Next]_vars
        => [Spares(Requests \ Streaming)]_vars
  BY SweepSpares
<1> QED
  BY <1>1, <1>2, <1>3, PipelineInvariant, PTL DEF Spec, ReclaimSparesBuffered

-----------------------------------------------------------------------------
(* ImplementsAccount: what the account of single requests shows of a state *)

\* Tally's totals, under the name they have inside the instance.
LEMMA SameTotal ==
    ASSUME NEW S, NEW f, NEW m
    PROVE  Account!Total(S, f, m) = Total(S, f, m)
<1>1. Account!Coins(S, f, m) = Coins(S, f, m)
  BY DEF Account!Coins, Coins
<1>2. ASSUME NEW T
      PROVE  Account!Cardinality(T) = Cardinality(T)
  BY DEF Account!Cardinality, Cardinality
<1> QED
  BY <1>1, <1>2 DEF Account!Total, Total

\* A function changed at one point only.
LEMMA ChangedAt ==
    ASSUME NEW D, NEW f, f = [x \in D |-> f[x]], NEW g, g = [x \in D |-> g[x]],
           NEW c \in D, NEW v, g[c] = v, \A x \in D : x # c => g[x] = f[x]
    PROVE  g = [f EXCEPT ![c] = v]
OBVIOUS

UsedAsBooked ==
    \A k \in Keys, p \in Periods : Account!Used(k, p) = PaidTotal(k, p) + HeldTotal(k, p)

\* A request counts for its hold or for its bill, never for both.
LEMMA AccountUsed == NoHoldAfterBill => UsedAsBooked
<1> SUFFICES ASSUME NoHoldAfterBill, NEW k \in Keys, NEW p \in Periods
             PROVE  Account!Used(k, p) = PaidTotal(k, p) + HeldTotal(k, p)
  BY DEF UsedAsBooked
<1>1. Account!Used(k, p) = Total(Held(k, p) \cup Paid(k, p), worthOf, MaxAmount)
  BY SameTotal DEF Account!Used, countedOf
<1>2. Held(k, p) \in SUBSET Requests /\ Paid(k, p) \in SUBSET Requests
  BY DEF Held, Paid
<1>3. IsFiniteSet(Held(k, p)) /\ IsFiniteSet(Paid(k, p)) /\ MaxAmount \in Nat
  BY <1>2, FS_Subset, LedgerAssumption
<1>4. Held(k, p) \cap Paid(k, p) = {}
  BY DEF Held, HoldOpen, Paid, NoHoldAfterBill
<1>5. \A r \in Held(k, p) : worthOf[r] = Amount[r]
  BY DEF Held, HoldOpen, NoHoldAfterBill, worthOf
<1>6. \A r \in Paid(k, p) : worthOf[r] = Cost[r]
  BY DEF Paid, worthOf
<1>7. Total(Held(k, p), worthOf, MaxAmount) = HeldTotal(k, p)
  BY <1>5, <1>3, TotalCongruence DEF HeldTotal
<1>8. Total(Paid(k, p), worthOf, MaxAmount) = PaidTotal(k, p)
  BY <1>6, <1>3, TotalCongruence DEF PaidTotal
<1>9. Total(Held(k, p) \cup Paid(k, p), worthOf, MaxAmount)
         = Total(Held(k, p), worthOf, MaxAmount) + Total(Paid(k, p), worthOf, MaxAmount)
  BY <1>3, <1>4, TotalDisjointUnion
<1> QED
  BY <1>1, <1>7, <1>8, <1>9, TotalsNat

LEMMA AccountUsedNext == NoHoldAfterBill' => UsedAsBooked'
BY AccountUsed, PTL

\* Steps that leave the account of every request as it was.
LEMMA AccountFrame ==
    ASSUME UNCHANGED <<requests, reservations, last_reset>>,
           \A r \in Requests : pc'[r] = "new" <=> pc[r] = "new"
    PROVE  UNCHANGED <<stageOf, worthOf, countedOf>>
<1>1. UNCHANGED stageOf
  BY DEF stageOf
<1>2. UNCHANGED worthOf
  BY DEF worthOf, Cost, Amount
<1>3. ASSUME NEW k \in Keys, NEW p \in Periods
      PROVE  Held(k, p)' = Held(k, p) /\ Paid(k, p)' = Paid(k, p)
  BY DEF Held, HoldOpen, Paid
<1>4. UNCHANGED countedOf
  BY <1>3 DEF countedOf
<1> QED
  BY <1>1, <1>2, <1>4

LEMMA CountedIs ==
    ASSUME NEW k \in Keys, NEW p \in Periods
    PROVE  countedOf[k][p] = Held(k, p) \cup Paid(k, p)
BY DEF countedOf

LEMMA InitAccount == Init => Account!Init
<1> SUFFICES ASSUME Init PROVE Account!Init
  OBVIOUS
<1>1. limit_usd \in [Keys -> [Periods -> Nat]] /\ last_reset \in [Keys -> [Periods -> Int]]
  BY InitType DEF TypeOK, LedgerTypeOK, Stamps
<1>2. calendar = [p \in Periods |-> 0] /\ adrift = {}
  BY DEF Init, LedgerInit
<1>3. \A r \in Requests : requests[r] = NoRow /\ reservations[r] = NoRow /\ pc[r] = "new"
  BY DEF Init, LedgerInit
<1>4. stageOf = [r \in Requests |-> "fresh"]
  BY <1>3 DEF stageOf
<1>5. worthOf = [r \in Requests |-> 0]
  BY <1>3 DEF worthOf, Amount
<1>6. ASSUME NEW k \in Keys, NEW p \in Periods
      PROVE  Held(k, p) \cup Paid(k, p) = {}
  BY <1>3 DEF Held, HoldOpen, Paid
<1>7. countedOf = [k \in Keys |-> [p \in Periods |-> {}]]
  BY <1>6 DEF countedOf
<1> QED
  BY <1>1, <1>2, <1>4, <1>5, <1>7 DEF Account!Init, Account!Limits

-----------------------------------------------------------------------------
(* ImplementsAccount: one operation of the ledger at a time *)

\* The account of k is opened for today; those in joining count from now on.
LEMMA OpenMaps ==
    ASSUME LedgerTypeOK, StampsOrdered, NEW c \in Keys, NEW joining,
           ResetPeriods(c), UNCHANGED <<limit_usd, calendar>>,
           \A p \in Periods : countedOf'[c][p] = joining \cup HeldNow(c, p) \cup PaidNow(c, p),
           \A k \in Keys \ {c}, p \in Periods : countedOf'[k][p] = countedOf[k][p]
    PROVE  Account!Open(c, joining)
<1>1. last_reset' = [last_reset EXCEPT ![c] = calendar]
  BY DEF ResetPeriods
<1>2. adrift' = adrift \ ({c} \X Account!Ended(c))
  <2>1. {<<c, p>> : p \in {q \in Periods : NeedsReset(c, q)}} = {c} \X Account!Ended(c)
    BY DEF NeedsReset, Account!Ended
  <2> QED
    BY <2>1 DEF ResetPeriods
<1>3. countedOf' = [countedOf EXCEPT ![c] =
                      [p \in Periods |->
                         joining \cup (IF p \in Account!Ended(c) THEN {} ELSE countedOf[c][p])]]
  <2> DEFINE new == [p \in Periods |->
                       joining \cup (IF p \in Account!Ended(c) THEN {} ELSE countedOf[c][p])]
  <2>1. ASSUME NEW p \in Periods
        PROVE  countedOf'[c][p] = new[p]
    <3>1. HeldNow(c, p) \cup PaidNow(c, p)
             = IF p \in Account!Ended(c) THEN {} ELSE countedOf[c][p]
      BY NowRows, CountedIs DEF NeedsReset, Account!Ended
    <3> QED
      BY <3>1
  <2>2. countedOf = [k \in Keys |-> countedOf[k]] /\ countedOf' = [k \in Keys |-> countedOf'[k]]
    BY DEF countedOf
  <2>3. countedOf'[c] = [p \in Periods |-> countedOf'[c][p]]
    BY DEF countedOf
  <2>4. countedOf'[c] = new
    BY <2>1, <2>3
  <2>5. ASSUME NEW k \in Keys, k # c
        PROVE  countedOf'[k] = countedOf[k]
    <3>1. /\ countedOf[k] = [p \in Periods |-> countedOf[k][p]]
          /\ countedOf'[k] = [p \in Periods |-> countedOf'[k][p]]
      BY DEF countedOf
    <3> QED
      BY <2>5, <3>1
  <2>6. countedOf' = [countedOf EXCEPT ![c] = new]
    <3> HIDE DEF new
    <3> QED
      BY <2>2, <2>4, <2>5, ChangedAt
  <2> QED
    BY <2>6
<1> QED
  BY <1>1, <1>2, <1>3 DEF Account!Open

LEMMA AdmitMaps ==
    ASSUME IndInv, IndInv', NEW r \in Requests, NEW amount \in Amounts, Admit(r, amount)
    PROVE  Account!Admit(r, amount)
<1> DEFINE c == KeyOf[r]
<1>0. c \in Keys
  BY LedgerAssumption
<1>1. LedgerTypeOK /\ StampsOrdered /\ TypeOK /\ BooksExact'
  BY DEF IndInv, TypeOK
<1>2. reservations[r] = NoRow /\ requests[r] = NoRow /\ pc[r] = "new"
  BY DEF IndInv, NewIsClean, Admit
<1>3. /\ reservations'[r] # NoRow
      /\ reservations'[r].amount = amount
      /\ reservations'[r].stamp = calendar
      /\ \A x \in Requests \ {r} : reservations'[x] = reservations[x]
      /\ requests' = requests
      /\ pc'[r] = "running" /\ \A x \in Requests \ {r} : pc'[x] = pc[x]
  <2>1. [amount |-> amount, stamp |-> calendar, reserved_at |-> now] \in Holds
    BY <1>1, CalendarIsStamp DEF Holds, LedgerTypeOK
  <2> QED
    BY <1>1, <2>1, LedgerAssumption DEF Admit, Reserve, LedgerTypeOK, TypeOK
<1>4. stageOf[r] = "fresh" /\ stageOf' = [stageOf EXCEPT ![r] = "holding"]
  <2>1. stageOf = [x \in Requests |-> stageOf[x]] /\ stageOf' = [x \in Requests |-> stageOf'[x]]
    BY DEF stageOf
  <2>2. stageOf'[r] = "holding"
    BY <1>2, <1>3 DEF stageOf
  <2>3. ASSUME NEW x \in Requests, x # r
        PROVE  stageOf'[x] = stageOf[x]
    BY <1>2, <1>3, <2>3 DEF stageOf
  <2>4. stageOf[r] = "fresh"
    BY <1>2 DEF stageOf
  <2> QED
    BY <2>1, <2>2, <2>3, <2>4, ChangedAt
<1>5. worthOf' = [worthOf EXCEPT ![r] = amount]
  BY <1>2, <1>3 DEF worthOf, Amount, Cost
<1>6. last_reset'[c] = calendar /\ \A k \in Keys \ {c} : last_reset'[k] = last_reset[k]
  BY <1>0, <1>1 DEF Admit, Reserve, ResetPeriods, LedgerTypeOK
<1>7. ASSUME NEW p \in Periods
      PROVE  countedOf'[c][p] = {r} \cup HeldNow(c, p) \cup PaidNow(c, p)
  <2>1. Held(c, p)' = HeldNow(c, p) \cup {r}
    BY <1>0, <1>3, <1>6 DEF Held, HoldOpen, HeldNow
  <2>2. Paid(c, p)' = PaidNow(c, p)
    BY <1>0, <1>3, <1>6 DEF Paid, PaidNow
  <2>3. countedOf'[c][p] = Held(c, p)' \cup Paid(c, p)'
    BY <1>0 DEF countedOf
  <2> QED
    BY <2>1, <2>2, <2>3
<1>8. ASSUME NEW k \in Keys \ {c}, NEW p \in Periods
      PROVE  countedOf'[k][p] = countedOf[k][p]
  <2>1. Held(k, p)' = Held(k, p) /\ Paid(k, p)' = Paid(k, p)
    BY <1>3, <1>6 DEF Held, HoldOpen, Paid
  <2> QED
    BY <2>1 DEF countedOf
<1>9. Account!Open(c, {r})
  BY <1>0, <1>1, <1>7, <1>8, OpenMaps DEF Admit, Reserve
<1>10. ASSUME NEW p \in Periods
       PROVE  \/ <<c, p>> \in adrift'
              \/ limit_usd[c][p] = 0
              \/ Account!Used(c, p)' <= limit_usd[c][p]
  <2>1. UsedAsBooked'
    BY AccountUsedNext DEF IndInv
  <2>2. Account!Used(c, p)' = PaidTotal(c, p)' + HeldTotal(c, p)'
    BY <1>0, <2>1 DEF UsedAsBooked
  <2> QED
    BY <1>1, <2>2, AdmitFits
<1> QED
  BY <1>4, <1>5, <1>9, <1>10 DEF Account!Admit

LEMMA RefuseMaps ==
    ASSUME IndInv, IndInv', NEW r \in Requests, NEW amount \in Amounts, Refuse(r, amount)
    PROVE  Account!Refuse(r, amount)
<1> DEFINE c == KeyOf[r]
<1>0. c \in Keys
  BY LedgerAssumption
<1>1. LedgerTypeOK /\ StampsOrdered /\ TypeOK /\ BooksExact'
  BY DEF IndInv, TypeOK
<1>2. reservations[r] = NoRow /\ requests[r] = NoRow /\ pc[r] = "new"
  BY DEF IndInv, NewIsClean, Refuse
<1>3. /\ reservations' = reservations /\ requests' = requests
      /\ pc'[r] = "ended" /\ \A x \in Requests \ {r} : pc'[x] = pc[x]
  BY <1>1 DEF Refuse, RefuseReservation, TypeOK
<1>4. stageOf[r] = "fresh" /\ stageOf' = [stageOf EXCEPT ![r] = "over"]
  <2>1. stageOf = [x \in Requests |-> stageOf[x]] /\ stageOf' = [x \in Requests |-> stageOf'[x]]
    BY DEF stageOf
  <2>2. stageOf'[r] = "over"
    BY <1>2, <1>3 DEF stageOf
  <2>3. ASSUME NEW x \in Requests, x # r
        PROVE  stageOf'[x] = stageOf[x]
    BY <1>2, <1>3, <2>3 DEF stageOf
  <2>4. stageOf[r] = "fresh"
    BY <1>2 DEF stageOf
  <2> QED
    BY <2>1, <2>2, <2>3, <2>4, ChangedAt
<1>5. UNCHANGED worthOf
  BY <1>3 DEF worthOf, Amount, Cost
<1>6. last_reset'[c] = calendar /\ \A k \in Keys \ {c} : last_reset'[k] = last_reset[k]
  BY <1>0, <1>1 DEF Refuse, RefuseReservation, ResetPeriods, LedgerTypeOK
<1>7. ASSUME NEW p \in Periods
      PROVE  countedOf'[c][p] = {} \cup HeldNow(c, p) \cup PaidNow(c, p)
  <2>1. Held(c, p)' = HeldNow(c, p) /\ Paid(c, p)' = PaidNow(c, p)
    BY <1>0, <1>3, <1>6 DEF Held, HoldOpen, HeldNow, Paid, PaidNow
  <2>2. countedOf'[c][p] = Held(c, p)' \cup Paid(c, p)'
    BY <1>0 DEF countedOf
  <2> QED
    BY <2>1, <2>2
<1>8. ASSUME NEW k \in Keys \ {c}, NEW p \in Periods
      PROVE  countedOf'[k][p] = countedOf[k][p]
  <2>1. Held(k, p)' = Held(k, p) /\ Paid(k, p)' = Paid(k, p)
    BY <1>3, <1>6 DEF Held, HoldOpen, Paid
  <2> QED
    BY <2>1 DEF countedOf
<1>9. Account!Open(c, {})
  BY <1>0, <1>1, <1>7, <1>8, OpenMaps DEF Refuse, RefuseReservation
<1>10. \E p \in Periods :
          \/ <<c, p>> \in adrift'
          \/ limit_usd[c][p] # 0 /\ Account!Used(c, p)' + amount > limit_usd[c][p]
  <2>1. UsedAsBooked'
    BY AccountUsedNext DEF IndInv
  <2>2. PICK p \in Periods :
          \/ <<c, p>> \in adrift'
          \/ limit_usd[c][p] # 0 /\ PaidTotal(c, p)' + HeldTotal(c, p)' + amount > limit_usd[c][p]
    BY <1>1, RefuseJust
  <2>3. Account!Used(c, p)' = PaidTotal(c, p)' + HeldTotal(c, p)'
    BY <1>0, <2>1 DEF UsedAsBooked
  <2> QED
    BY <2>2, <2>3
<1> QED
  BY <1>4, <1>5, <1>9, <1>10 DEF Account!Refuse

LEMMA SettleMaps ==
    ASSUME IndInv, NEW r \in Requests, NEW cost \in Amounts, NEW reserved \in Amounts,
           RecordRequest(r, cost, reserved), requests[r] = NoRow, pc[r] # "new",
           \A x \in Requests : pc'[x] = "new" <=> pc[x] = "new"
    PROVE  Account!Settle(r, cost)
<1> DEFINE c == KeyOf[r]
           bill == [cost |-> cost, stamp |-> last_reset[c]]
           lost == IF reserved = 0 THEN {} ELSE {p \in Periods : ~HoldOpen(r, p)}
<1>0. c \in Keys
  BY LedgerAssumption
<1>1. LedgerTypeOK /\ NoHoldAfterBill
  BY DEF IndInv, TypeOK
<1>2. bill \in Bills
  BY <1>0, <1>1 DEF LedgerTypeOK, Bills
<1>3. /\ requests' = [requests EXCEPT ![r] = bill]
      /\ reservations' = [reservations EXCEPT ![r] = NoRow]
      /\ adrift' = adrift \cup Detached(r, reserved)
      /\ UNCHANGED <<limit_usd, last_reset, calendar>>
  BY DEF RecordRequest
<1>4. /\ requests'[r] # NoRow /\ requests'[r].cost = cost /\ requests'[r].stamp = last_reset[c]
      /\ reservations'[r] = NoRow
      /\ \A x \in Requests \ {r} : requests'[x] = requests[x] /\ reservations'[x] = reservations[x]
  <2>1. bill # NoRow /\ bill.cost = cost /\ bill.stamp = last_reset[c]
    BY <1>2, LedgerAssumption
  <2> HIDE DEF bill
  <2> QED
    BY <1>1, <1>3, <2>1 DEF LedgerTypeOK
<1>5. stageOf[r] \in {"holding", "over"}
  BY DEF stageOf
<1>6. stageOf' = [stageOf EXCEPT ![r] = "billed"]
  <2>1. stageOf = [x \in Requests |-> stageOf[x]] /\ stageOf' = [x \in Requests |-> stageOf'[x]]
    BY DEF stageOf
  <2>2. stageOf'[r] = "billed"
    BY <1>4 DEF stageOf
  <2>3. ASSUME NEW x \in Requests, x # r
        PROVE  stageOf'[x] = stageOf[x]
    BY <1>4, <2>3 DEF stageOf
  <2> QED
    BY <2>1, <2>2, <2>3, ChangedAt
<1>7. worthOf' = [worthOf EXCEPT ![r] = cost]
  BY <1>4 DEF worthOf, Amount, Cost
<1>8. ASSUME NEW p \in Periods
      PROVE  countedOf'[c][p] = countedOf[c][p] \cup {r} /\ (~HoldOpen(r, p) => r \notin countedOf[c][p])
  <2>1. Held(c, p)' = Held(c, p) \ {r}
    BY <1>3, <1>4 DEF Held, HoldOpen
  <2>2. Paid(c, p)' = Paid(c, p) \cup {r} /\ r \notin Paid(c, p)
    BY <1>3, <1>4 DEF Paid
  <2>3. countedOf'[c][p] = Held(c, p)' \cup Paid(c, p)'
    BY <1>0 DEF countedOf
  <2>4. countedOf[c][p] = Held(c, p) \cup Paid(c, p)
    BY <1>0, CountedIs
  <2>5. ~HoldOpen(r, p) => r \notin Held(c, p)
    BY DEF Held
  <2> QED
    BY <2>1, <2>2, <2>3, <2>4, <2>5
<1>9. ASSUME NEW k \in Keys \ {c}, NEW p \in Periods
      PROVE  countedOf'[k][p] = countedOf[k][p]
  <2>1. Held(k, p)' = Held(k, p) /\ Paid(k, p)' = Paid(k, p)
    BY <1>3, <1>4 DEF Held, HoldOpen, Paid
  <2> QED
    BY <2>1 DEF countedOf
<1>10. countedOf' = [countedOf EXCEPT ![c] = [p \in Periods |-> countedOf[c][p] \cup {r}]]
  <2> DEFINE new == [p \in Periods |-> countedOf[c][p] \cup {r}]
  <2>1. countedOf = [k \in Keys |-> countedOf[k]] /\ countedOf' = [k \in Keys |-> countedOf'[k]]
    BY DEF countedOf
  <2>2. countedOf'[c] = [p \in Periods |-> countedOf'[c][p]]
    BY <1>0 DEF countedOf
  <2>3. countedOf'[c] = new
    BY <1>8, <2>2
  <2>4. ASSUME NEW k \in Keys, k # c
        PROVE  countedOf'[k] = countedOf[k]
    <3>1. /\ countedOf[k] = [p \in Periods |-> countedOf[k][p]]
          /\ countedOf'[k] = [p \in Periods |-> countedOf'[k][p]]
      BY DEF countedOf
    <3> QED
      BY <1>9, <2>4, <3>1
  <2>5. countedOf' = [countedOf EXCEPT ![c] = new]
    <3> HIDE DEF new
    <3> QED
      BY <1>0, <2>1, <2>3, <2>4, ChangedAt
  <2> QED
    BY <2>5
<1>11. /\ lost \in SUBSET {p \in Periods : r \notin countedOf[c][p]}
       /\ adrift' = adrift \cup ({c} \X lost)
  <2>1. lost \in SUBSET {p \in Periods : r \notin countedOf[c][p]}
    BY <1>8
  <2>2. Detached(r, reserved) = {c} \X lost
    BY DEF Detached
  <2> QED
    BY <1>3, <2>1, <2>2
<1> QED
  BY <1>3, <1>5, <1>6, <1>7, <1>10, <1>11 DEF Account!Settle

LEMMA ReleaseMaps ==
    ASSUME IndInv, Sweep, UNCHANGED pc
    PROVE  Account!Release(Stale)
<1>1. LedgerTypeOK /\ NoHoldAfterBill /\ NewIsClean
  BY DEF IndInv, TypeOK
<1>2. /\ \A r \in Requests : reservations'[r] = IF r \in Stale THEN NoRow ELSE reservations[r]
      /\ UNCHANGED <<last_reset, requests, calendar, adrift>>
  BY DEF Sweep, ReservationsAfterReclaim
<1>3. \A r \in Stale : /\ r \in Requests /\ reservations[r] # NoRow
                       /\ requests[r] = NoRow /\ pc[r] # "new"
  BY <1>1 DEF Stale, NoHoldAfterBill, NewIsClean
<1>4. \A r \in Stale : stageOf[r] = "holding"
  BY <1>3 DEF stageOf
<1>5. stageOf' = [r \in Requests |-> IF r \in Stale THEN "over" ELSE stageOf[r]]
  BY <1>2, <1>3 DEF stageOf
<1>6. worthOf' = [r \in Requests |-> IF r \in Stale THEN 0 ELSE worthOf[r]]
  BY <1>2, <1>3 DEF worthOf, Amount, Cost
<1>7. ASSUME NEW k \in Keys, NEW p \in Periods
      PROVE  Held(k, p)' \cup Paid(k, p)' = countedOf[k][p] \ Stale
  <2>1. Held(k, p)' = Held(k, p) \ Stale
    BY <1>2 DEF Held, HoldOpen
  <2>2. Paid(k, p)' = Paid(k, p) \ Stale
    BY <1>2, <1>3 DEF Paid
  <2> QED
    BY <2>1, <2>2, CountedIs
<1>8. countedOf' = [k \in Keys |-> [p \in Periods |-> countedOf[k][p] \ Stale]]
  BY <1>7 DEF countedOf
<1> QED
  BY <1>2, <1>4, <1>5, <1>6, <1>8 DEF Account!Release

-----------------------------------------------------------------------------
(* ImplementsAccount: the steps of the pipeline *)

\* A direct write or the worker's: a settlement, or a row that is there already.
LEMMA WriteMaps ==
    ASSUME IndInv, NEW i \in direct \cup taken, RecordRequest(i.req, i.cost, est[i.req]),
           \A x \in Requests : pc'[x] = "new" <=> pc[x] = "new"
    PROVE  [Account!Next]_(Account!account)
<1>1. i.req \in Requests /\ i.cost \in Amounts /\ est[i.req] \in Amounts /\ pc[i.req] # "new"
  BY DEF IndInv, TypeOK, Items, NewIsClean, Handed
<1>2. CASE requests[i.req] = NoRow
  BY <1>1, <1>2, SettleMaps DEF Account!Next, Account!Amounts, Amounts
<1>3. CASE requests[i.req] # NoRow
  <2>1. UNCHANGED ledgerVars
    BY <1>3 DEF RecordRequest
  <2> QED
    BY <2>1, AccountFrame DEF ledgerVars, budgets, Account!account
<1> QED
  BY <1>2, <1>3

LEMMA AccountStep ==
    ASSUME IndInv, IndInv', [Next]_vars
    PROVE  [Account!Next]_(Account!account)
<1>1. TypeOK /\ LedgerTypeOK
  BY DEF IndInv, TypeOK
<1>2. ASSUME NEW r \in Requests, NEW amount \in Amounts, Admit(r, amount) \/ Refuse(r, amount)
      PROVE  Account!Next
  BY <1>2, AdmitMaps, RefuseMaps DEF Account!Next, Account!Amounts, Amounts
<1>3. ASSUME UNCHANGED ledgerVars, \A r \in Requests : pc'[r] = "new" <=> pc[r] = "new"
      PROVE  UNCHANGED Account!account
  BY <1>3, AccountFrame DEF ledgerVars, budgets, Account!account
<1>4. ASSUME NEW r \in Requests,
             \/ Respond(r) \/ Leave(r) \/ StreamError(r) \/ Disconnect(r)
             \/ \E cost \in Costs(r) : HandOver(r, cost)
      PROVE  UNCHANGED Account!account
  <2>1. UNCHANGED ledgerVars
    BY <1>4 DEF Respond, Leave, StreamError, Goto, Disconnect, HandOver
  <2>2. \A x \in Requests : pc'[x] = "new" <=> pc[x] = "new"
    BY <1>1, <1>4 DEF Respond, Leave, StreamError, Goto, Disconnect, OnDisconnect, HandOver,
                      TypeOK, Stages
  <2> QED
    BY <1>3, <2>1, <2>2
<1>5. CASE WriterStep
  <2>1. \A i \in direct : i.req \in Requests /\ i.at \in Stages
    BY <1>1 DEF TypeOK, Items
  <2>2. \A x \in Requests : pc'[x] = "new" <=> pc[x] = "new"
    BY <1>1, <1>5, <2>1 DEF WriterStep, WriteDirect, DirectError, WorkerGet, WorkerPersist,
                            WorkerError, Resume, OnError, TypeOK, Stages
  <2>3. \/ \E i \in direct \cup taken : RecordRequest(i.req, i.cost, est[i.req])
        \/ UNCHANGED ledgerVars
    BY <1>5 DEF WriterStep, WriteDirect, DirectError, WorkerGet, WorkerPersist, WorkerError
  <2> QED
    BY <1>3, <2>2, <2>3, WriteMaps
<1>6. CASE ReclaimLoop \/ Restart
  <2>1. Stale \in SUBSET Requests
    BY DEF Stale
  <2>2. Account!Release(Stale)
    BY <1>6, ReleaseMaps DEF ReclaimLoop, ReclaimStaleReservations, Restart, pipelineVars
  <2>3. UNCHANGED limit_usd \/ limit_usd' \in Account!Limits
    BY <1>6, PipelineAssumption
       DEF ReclaimLoop, ReclaimStaleReservations, Restart, Account!Limits
  <2> QED
    BY <2>1, <2>2, <2>3 DEF Account!Next
<1>7. CASE OperatorStep
  <2>1. limit_usd' \in [Keys -> [Periods -> Nat]]
    BY <1>1, <1>7, PipelineAssumption DEF OperatorStep, PatchBudget, ReloadBudgets, UpdateBudgetLimits, LoadBudgets,
                      LedgerTypeOK
  <2>2. UNCHANGED <<spend, last_reset, requests, reservations, now, calendar, adrift, pc>>
    BY <1>7 DEF OperatorStep, PatchBudget, ReloadBudgets, UpdateBudgetLimits, LoadBudgets,
                pipelineVars
  <2>3. Account!ChangeLimits
    BY <2>1, <2>2, AccountFrame DEF Account!ChangeLimits, Account!Limits
  <2> QED
    BY <2>3 DEF Account!Next
<1>8. CASE Crash
  <2>1. UNCHANGED ledgerVars /\ \A x \in Requests : pc'[x] = "new" <=> pc[x] = "new"
    BY <1>8 DEF Crash
  <2> QED
    BY <1>3, <2>1
<1>9. CASE Tick
  <2>1. UNCHANGED <<limit_usd, calendar, last_reset, adrift, requests, reservations, pc>>
    BY <1>9 DEF Tick, budgets, pipelineVars
  <2> QED
    BY <2>1, AccountFrame DEF Account!account
<1>10. CASE Midnight
  <2>1. UNCHANGED <<limit_usd, last_reset, adrift, requests, reservations, pc>>
    BY <1>10 DEF Midnight, budgets, pipelineVars
  <2>2. calendar' \in [Periods -> Nat] /\ \A p \in Periods : calendar[p] <= calendar'[p]
    BY <1>1, <1>10 DEF Midnight, LedgerTypeOK, Periods
  <2>3. Account!TimePasses
    BY <2>1, <2>2, AccountFrame DEF Account!TimePasses
  <2> QED
    BY <2>3 DEF Account!Next
<1>11. CASE UNCHANGED vars
  BY <1>3, <1>11 DEF vars, pipelineVars
<1> QED
  BY <1>2, <1>4, <1>5, <1>6, <1>7, <1>8, <1>9, <1>10, <1>11 DEF Next, RequestStep

\* Whatever handlers, writers, sweeps, operators and crashes do to the counters,
\* what they keep is an account of single requests, each held for once, billed
\* once, and let in or turned away for the sum of the others (store.py:543-826).
THEOREM PipelineImplementsAccount == Spec => ImplementsAccount
<1>1. Init => Account!Init
  BY InitAccount
<1>2. IndInv /\ IndInv' /\ [Next]_vars => [Account!Next]_(Account!account)
  BY AccountStep
<1> QED
  BY <1>1, <1>2, PipelineInvariant, PTL DEF Spec, ImplementsAccount, Account!Spec
=============================================================================
