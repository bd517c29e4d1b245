------------------------- MODULE RateLimiterProofs -------------------------
(***************************************************************************)
(* The rate limiter of one process, for any number of calls, any limits,   *)
(* any window and any bound on the wait for the lock.                      *)
(***************************************************************************)
EXTENDS RateLimiter, FiniteSetTheorems, TLAPS

\* One gateway process: _write_lock is the same for every call.
OneProcess == \A c, d \in Callers : home[c] = home[d]

USE LimiterAssumption

LEMMA CallersCountable ==
    ASSUME NEW S, S \subseteq Callers
    PROVE  IsFiniteSet(S) /\ Cardinality(S) \in Nat
BY FS_Subset, FS_CardinalityType

LEMMA FewerCallers ==
    ASSUME NEW S, NEW T, S \subseteq T, T \subseteq Callers
    PROVE  Cardinality(S) <= Cardinality(T)
BY CallersCountable, FS_Subset

LEMMA LimitsAreIntegers == \A l \in Limits : l \in Int /\ l <= MostRPM
OBVIOUS

LEMMA LimiterInitInv == LimiterInit => LimiterInv
<1> SUFFICES ASSUME LimiterInit PROVE LimiterInv
  OBVIOUS
<1>1. LimiterTypeOK
  BY DEF LimiterInit, LimiterTypeOK
<1>2. LockHeld /\ LogIsRecent /\ CountHolds /\ WindowsBounded
  BY DEF LimiterInit, LockHeld, LogIsRecent, CountHolds, WindowsBounded, LetThrough
<1>3. StampsAreRecent
  BY DEF LimiterInit, StampsAreRecent, Waiting
<1> QED
  BY <1>1, <1>2, <1>3 DEF LimiterInv

\* While no row changes and nobody is let through, the log and the windows stay
\* as they were.
LEMMA QuietStep ==
    ASSUME LimiterInv, LimiterTypeOK', rows' = rows, LetThrough' = LetThrough,
           \A d \in LetThrough : stamp'[d] = stamp[d],
           clock' >= clock
    PROVE  LogIsRecent' /\ WindowsBounded'
<1>1. LogIsRecent'
  BY DEF LimiterInv, LimiterTypeOK, LogIsRecent, LetThrough
<1>2. \A c \in LetThrough : WindowAfter(c)' = WindowAfter(c)
  BY DEF WindowAfter
<1>3. WindowsBounded'
  BY <1>2 DEF LimiterInv, WindowsBounded
<1> QED
  BY <1>1, <1>3

LEMMA ArriveInv ==
    ASSUME LimiterInv, NEW c \in Callers, Arrive(c)
    PROVE  LimiterInv'
<1> USE DEF LimiterInv, Arrive
<1>1. LimiterTypeOK'
  BY DEF LimiterTypeOK
<1>2. LockHeld'
  BY DEF LimiterTypeOK, LockHeld
<1>3. LetThrough' = LetThrough /\ c \notin LetThrough /\ c \notin rows
  BY DEF LimiterTypeOK, LetThrough, LogIsRecent
<1>4. LogIsRecent' /\ WindowsBounded'
  BY <1>1, <1>3, QuietStep DEF LimiterTypeOK, LetThrough
<1>5. StampsAreRecent'
  BY DEF LimiterTypeOK, StampsAreRecent, Waiting
<1>6. ASSUME NEW d \in Callers, step[d] = "counted"
      PROVE  Recent(d)' = Recent(d)
  BY <1>3, <1>6 DEF LimiterTypeOK, Recent
<1>7. CountHolds'
  BY <1>6 DEF LimiterTypeOK, CountHolds
<1> QED
  BY <1>1, <1>2, <1>4, <1>5, <1>7

LEMMA PruneInv ==
    ASSUME LimiterInv, OneProcess, NEW c \in Callers, Prune(c)
    PROVE  LimiterInv'
<1> USE DEF LimiterInv, Prune
<1>1. LimiterTypeOK'
  BY DEF LimiterTypeOK, Pruned, Recent
<1>2. LockHeld'
  BY DEF LimiterTypeOK, LockHeld, OneProcess
<1>3. LetThrough' = LetThrough
  BY DEF LimiterTypeOK, LetThrough
<1>4. LogIsRecent'
  BY <1>3 DEF LimiterTypeOK, LogIsRecent, StampsAreRecent, Pruned, Recent, LetThrough
<1>5. StampsAreRecent'
  BY DEF LimiterTypeOK, StampsAreRecent, Waiting
<1>6. \A d \in Callers : step[d] # "counted"
  BY DEF LimiterTypeOK, LockHeld, OneProcess
<1>7. CountHolds'
  BY <1>6 DEF LimiterTypeOK, CountHolds
<1>8. WindowsBounded'
  <2>1. \A d \in LetThrough : WindowAfter(d)' = WindowAfter(d)
    BY <1>3 DEF WindowAfter
  <2> QED
    BY <1>3, <2>1 DEF WindowsBounded
<1> QED
  BY <1>1, <1>2, <1>4, <1>5, <1>7, <1>8

LEMMA CountInv ==
    ASSUME LimiterInv, NEW c \in Callers, Count(c)
    PROVE  LimiterInv'
<1> USE DEF LimiterInv, Count
<1>1. LimiterTypeOK'
  BY CallersCountable DEF LimiterTypeOK, Recent
<1>2. LockHeld'
  BY DEF LimiterTypeOK, LockHeld
<1>3. LetThrough' = LetThrough
  BY DEF LimiterTypeOK, LetThrough
<1>4. LogIsRecent' /\ WindowsBounded'
  BY <1>1, <1>3, QuietStep DEF LimiterTypeOK
<1>5. StampsAreRecent'
  BY DEF LimiterTypeOK, StampsAreRecent, Waiting
<1>6. \A d \in Callers : Recent(d)' = Recent(d)
  BY DEF Recent
<1>7. CountHolds'
  BY <1>6 DEF LimiterTypeOK, CountHolds
<1> QED
  BY <1>1, <1>2, <1>4, <1>5, <1>7

\* The heart of it: whoever else is in a window with the call that is let
\* through has its row in the log still, and was counted.
LEMMA AdmitInv ==
    ASSUME LimiterInv, OneProcess, NEW c \in Callers, AdmitCaller(c)
    PROVE  LimiterInv'
<1> USE DEF LimiterInv, AdmitCaller, Release
<1>1. LimiterTypeOK'
  BY DEF LimiterTypeOK
<1>2. LockHeld'
  BY DEF LimiterTypeOK, LockHeld, OneProcess
<1>3. LetThrough' = LetThrough \cup {c} /\ c \notin LetThrough
  BY DEF LimiterTypeOK, LetThrough
<1>4. LogIsRecent'
  BY <1>3 DEF LimiterTypeOK, LogIsRecent, LetThrough
<1>5. StampsAreRecent'
  BY DEF LimiterTypeOK, StampsAreRecent, Waiting
<1>6. \A d \in Callers : step'[d] # "counted"
  BY <1>2 DEF LimiterTypeOK, LockHeld, OneProcess
<1>7. CountHolds'
  BY <1>6 DEF CountHolds
<1>8. ASSUME NEW d \in LetThrough'
      PROVE  Cardinality(WindowAfter(d)') <= MostRPM
  <2>1. CASE c \notin WindowAfter(d)'
    <3>1. d \in LetThrough
      BY <1>3, <2>1 DEF WindowAfter, LimiterTypeOK, Span
    <3>2. WindowAfter(d)' = WindowAfter(d)
      BY <1>3, <2>1 DEF WindowAfter
    <3> QED
      BY <3>1, <3>2 DEF WindowsBounded
  <2>2. CASE c \in WindowAfter(d)'
    <3>1. stamp[d] <= stamp[c] /\ stamp[c] <= stamp[d] + Span /\ d \in Callers
      BY <2>2 DEF WindowAfter, LetThrough
    <3>2. ASSUME NEW q \in WindowAfter(d)', q # c
          PROVE  q \in Recent(c)
      <4>1. q \in LetThrough /\ stamp[d] <= stamp[q]
        BY <1>3, <3>2 DEF WindowAfter
      <4>2. {stamp[c], stamp[d], stamp[q], clock} \subseteq Int
        BY <3>1, <4>1 DEF LimiterTypeOK, LetThrough
      <4>3. stamp[q] >= stamp[c] - Span
        BY <3>1, <4>1, <4>2 DEF Span
      <4>4. clock <= stamp[c] + MaxWait
        BY DEF StampsAreRecent, Waiting
      <4>5. stamp[q] >= clock - Minute /\ stamp[q] >= stamp[c] - Minute
        BY <4>2, <4>3, <4>4 DEF Span
      <4>6. q \in rows
        BY <4>1, <4>2, <4>5 DEF LogIsRecent
      <4> QED
        BY <4>5, <4>6 DEF Recent
    <3>3. WindowAfter(d)' \subseteq Recent(c) \cup {c}
      BY <3>2
    <3>4. Recent(c) \subseteq Callers
      BY DEF Recent, LimiterTypeOK
    <3>5. Cardinality(WindowAfter(d)') <= Cardinality(Recent(c) \cup {c})
      BY <3>3, <3>4, FewerCallers
    <3>6. /\ Cardinality(Recent(c)) \in Nat
          /\ Cardinality(Recent(c) \cup {c}) \in Nat
          /\ Cardinality(Recent(c) \cup {c}) <= Cardinality(Recent(c)) + 1
      BY <3>4, CallersCountable, FS_AddElement
    <3>7. Cardinality(Recent(c)) < limit
      BY <3>6 DEF CountHolds, Full, LimiterTypeOK
    <3>8. Cardinality(WindowAfter(d)') \in Nat
      BY <3>3, <3>4, CallersCountable
    <3>9. limit \in Int /\ limit <= MostRPM
      BY LimitsAreIntegers DEF LimiterTypeOK
    <3> HIDE DEF LimiterInv, AdmitCaller
    <3> QED
      BY <3>5, <3>6, <3>7, <3>8, <3>9
  <2> QED
    BY <2>1, <2>2
<1>9. WindowsBounded'
  BY <1>8 DEF WindowsBounded
<1> QED
  BY <1>1, <1>2, <1>4, <1>5, <1>7, <1>9

\* A call that ends without being let through.
LEMMA EndInv ==
    ASSUME LimiterInv, OneProcess, NEW c \in Callers, RefuseCaller(c) \/ StatementFails(c)
    PROVE  LimiterInv'
<1> USE DEF LimiterInv, RefuseCaller, StatementFails, Release, RowsAfterRefusal
<1>1. LimiterTypeOK'
  BY DEF LimiterTypeOK
<1>2. LockHeld'
  BY DEF LimiterTypeOK, LockHeld, OneProcess
<1>3. LetThrough' = LetThrough
  BY DEF LimiterTypeOK, LetThrough
<1>4. LogIsRecent' /\ WindowsBounded'
  BY <1>1, <1>3, QuietStep DEF LimiterTypeOK
<1>5. StampsAreRecent'
  BY DEF LimiterTypeOK, StampsAreRecent, Waiting
<1>6. CountHolds'
  BY <1>2 DEF LimiterTypeOK, LockHeld, OneProcess, CountHolds
<1> QED
  BY <1>1, <1>2, <1>4, <1>5, <1>6

LEMMA ChangeLimitInv ==
    ASSUME LimiterInv, NEW p \in Processes, ChangeLimit(p)
    PROVE  LimiterInv'
<1> USE DEF LimiterInv, ChangeLimit
<1>1. LimiterTypeOK'
  BY DEF LimiterTypeOK
<1>2. LogIsRecent' /\ WindowsBounded'
  BY <1>1, QuietStep DEF LimiterTypeOK, LetThrough
<1>3. LockHeld' /\ StampsAreRecent'
  BY DEF LockHeld, StampsAreRecent, Waiting
<1>4. CountHolds'
  BY DEF CountHolds, Recent
<1> QED
  BY <1>1, <1>2, <1>3, <1>4

LEMMA RestartInv ==
    ASSUME LimiterInv, OneProcess, NEW p \in Processes, RestartProcess(p)
    PROVE  LimiterInv'
<1> USE DEF LimiterInv, RestartProcess
<1>1. LimiterTypeOK'
  BY DEF LimiterTypeOK
<1>2. \A c \in Callers : home[c] = p
  BY DEF OneProcess
<1>3. LockHeld'
  BY <1>2 DEF LimiterTypeOK, LockHeld, Waiting
<1>4. LetThrough' = LetThrough
  BY DEF LimiterTypeOK, LetThrough, Waiting
<1>5. LogIsRecent' /\ WindowsBounded'
  BY <1>1, <1>4, QuietStep DEF LimiterTypeOK
<1>6. StampsAreRecent'
  BY <1>2 DEF LimiterTypeOK, StampsAreRecent, Waiting
<1>7. CountHolds'
  BY <1>2 DEF LimiterTypeOK, CountHolds, Waiting
<1> QED
  BY <1>1, <1>3, <1>5, <1>6, <1>7

LEMMA SecondInv ==
    ASSUME LimiterInv, Second
    PROVE  LimiterInv'
<1> USE DEF LimiterInv, Second
<1>1. LimiterTypeOK'
  BY DEF LimiterTypeOK
<1>2. LogIsRecent' /\ WindowsBounded'
  BY <1>1, QuietStep DEF LimiterTypeOK, LetThrough
<1>3. LockHeld'
  BY DEF LockHeld
<1>4. StampsAreRecent'
  BY DEF LimiterTypeOK, StampsAreRecent, Waiting
<1>5. CountHolds'
  BY DEF CountHolds, Recent
<1> QED
  BY <1>1, <1>2, <1>3, <1>4, <1>5

LEMMA LimiterStepInv ==
    ASSUME LimiterInv, OneProcess, [LimiterNext]_limiterVars
    PROVE  LimiterInv'
<1>1. CASE UNCHANGED limiterVars
  BY <1>1 DEF limiterVars, LimiterInv, LimiterTypeOK, LockHeld, LogIsRecent, LetThrough,
              StampsAreRecent, Waiting, CountHolds, Recent, WindowsBounded, WindowAfter
<1>2. CASE LimiterNext
  BY <1>2, ArriveInv, PruneInv, CountInv, AdmitInv, EndInv, ChangeLimitInv, RestartInv,
     SecondInv DEF LimiterNext
<1> QED
  BY <1>1, <1>2

\* No window of a minute less the longest wait holds more requests than the
\* largest limit (_check_rate_limit_sync).
THEOREM LimiterInvariant == ASSUME OneProcess PROVE LimiterSpec => []LimiterInv
<1>1. LimiterInit => LimiterInv
  BY LimiterInitInv
<1>2. LimiterInv /\ [LimiterNext]_limiterVars => LimiterInv'
  BY LimiterStepInv
<1> QED
  BY <1>1, <1>2, PTL DEF LimiterSpec

-----------------------------------------------------------------------------
(* The sliding window *)

LEMMA ViewCardinality == ASSUME NEW S PROVE View!Cardinality(S) = Cardinality(S)
BY DEF View!Cardinality, Cardinality

LEMMA ViewAdmitted == LimiterTypeOK => View!Admitted = LetThrough
BY DEF View!Admitted, letThroughAt, LetThrough, LimiterTypeOK

LEMMA ViewBounded == LimiterTypeOK => (View!Bounded <=> WindowsBounded)
<1> SUFFICES ASSUME LimiterTypeOK PROVE View!Bounded <=> WindowsBounded
  OBVIOUS
<1>1. View!Admitted = LetThrough
  BY ViewAdmitted
<1>2. ASSUME NEW c \in LetThrough PROVE View!WindowFrom(c) = WindowAfter(c)
  BY <1>1 DEF View!WindowFrom, WindowAfter, letThroughAt, LetThrough, View!Admitted
<1> QED
  BY <1>1, <1>2, ViewCardinality DEF View!Bounded, WindowsBounded

LEMMA ViewBoundedNext == LimiterTypeOK' => (View!Bounded' <=> WindowsBounded')
BY ViewBounded, PTL

\* Whatever the calls do, the log they keep implements a sliding window.
THEOREM LimiterImplementsWindow ==
    ASSUME OneProcess PROVE LimiterSpec => ImplementsSlidingWindow
<1>1. LimiterInit => View!WindowInit
  BY DEF LimiterInit, View!WindowInit, letThroughAt, LetThrough
<1>2. LimiterInv /\ LimiterInv' /\ [LimiterNext]_limiterVars
        => [\E r \in Callers : View!Admit(r)]_letThroughAt
  <2> SUFFICES ASSUME LimiterInv, LimiterInv', [LimiterNext]_limiterVars
               PROVE  [\E r \in Callers : View!Admit(r)]_letThroughAt
    OBVIOUS
  <2> USE DEF LimiterInv
  <2>1. View!Bounded'
    BY ViewBoundedNext
  <2>2. ASSUME NEW c \in Callers, AdmitCaller(c)
        PROVE  View!Admit(c)
    <3>1. c \notin View!Admitted
      BY <2>2, ViewAdmitted DEF AdmitCaller, LetThrough
    <3>2. LetThrough' = LetThrough \cup {c} /\ stamp' = stamp
      BY <2>2 DEF AdmitCaller, LimiterTypeOK, LetThrough
    <3>3. letThroughAt' = [letThroughAt EXCEPT ![c] = letThroughAt'[c]]
      BY <3>2 DEF letThroughAt
    <3> QED
      BY <2>1, <3>1, <3>3 DEF View!Admit
  <2>3. ASSUME NEW c \in Callers, Arrive(c)
        PROVE  UNCHANGED letThroughAt
    BY <2>3 DEF Arrive, LimiterTypeOK, LetThrough, letThroughAt
  <2>4. ASSUME NEW c \in Callers,
               Prune(c) \/ Count(c) \/ RefuseCaller(c) \/ StatementFails(c)
        PROVE  UNCHANGED letThroughAt
    BY <2>4 DEF Prune, Count, RefuseCaller, StatementFails, LimiterTypeOK, LetThrough,
                      letThroughAt
  <2>5. ASSUME NEW p \in Processes, ChangeLimit(p) \/ RestartProcess(p)
        PROVE  UNCHANGED letThroughAt
    BY <2>5 DEF ChangeLimit, RestartProcess, Waiting, LimiterTypeOK, LetThrough,
                      letThroughAt
  <2>6. CASE Second \/ UNCHANGED limiterVars
    BY <2>6 DEF Second, limiterVars, LetThrough, letThroughAt
  <2> QED
    BY <2>2, <2>3, <2>4, <2>5, <2>6 DEF LimiterNext
<1> QED
  BY <1>1, <1>2, LimiterInvariant, PTL
     DEF LimiterSpec, ImplementsSlidingWindow, View!WindowSpec

-----------------------------------------------------------------------------
(* Refusals *)

\* Every refusal is over requests that were answered, at least as many as the
\* limit, since a minute before the refused call (_check_rate_limit_sync).
THEOREM RefusalsAreOwed == ASSUME OneProcess PROVE LimiterSpec => RefusedOverAnswered
<1> DEFINE Answered(c) == {d \in LetThrough : stamp[d] >= stamp[c] - Minute}
<1>1. ASSUME LimiterInv, NEW c \in Callers, RefuseCaller(c)
      PROVE  Cardinality(Answered(c)) >= limit
  <2>1. count[c] = Cardinality(Recent(c)) /\ count[c] >= limit
    BY <1>1 DEF LimiterInv, CountHolds, RefuseCaller, Full
  <2>2. Recent(c) \subseteq Answered(c) /\ Answered(c) \subseteq Callers
    BY <1>1 DEF LimiterInv, LogIsRecent, Recent, LetThrough
  <2>3. Cardinality(Recent(c)) <= Cardinality(Answered(c))
    BY <2>2, FewerCallers
  <2>4. Cardinality(Recent(c)) \in Nat /\ Cardinality(Answered(c)) \in Nat
    BY <2>2, CallersCountable
  <2>5. limit \in Int
    BY <1>1, LimitsAreIntegers DEF LimiterInv, LimiterTypeOK
  <2> HIDE DEF Answered
  <2> QED
    BY <2>1, <2>3, <2>4, <2>5
<1>2. ASSUME LimiterInv, LimiterNext, NEW c \in Callers, step'[c] = "refused", step[c] # "refused"
      PROVE  RefuseCaller(c)
  <2> USE DEF LimiterInv, LimiterTypeOK
  <2>1. ASSUME NEW d \in Callers, Arrive(d) \/ Prune(d) \/ Count(d) \/ AdmitCaller(d)
                                   \/ RefuseCaller(d) \/ StatementFails(d)
        PROVE  RefuseCaller(c)
    BY <1>2, <2>1 DEF Arrive, Prune, Count, AdmitCaller, RefuseCaller, StatementFails
  <2>2. ASSUME NEW p \in Processes, ChangeLimit(p) \/ RestartProcess(p)
        PROVE  FALSE
    BY <1>2, <2>2 DEF ChangeLimit, RestartProcess
  <2>3. ~Second
    BY <1>2 DEF Second
  <2> QED
    BY <1>2, <2>1, <2>2, <2>3 DEF LimiterNext
<1>3. LimiterInv /\ [LimiterNext]_limiterVars =>
        [\A c \in Callers :
           step'[c] = "refused" /\ step[c] # "refused" =>
              Cardinality(Answered(c)) >= limit]_limiterVars
  <2> HIDE DEF Answered
  <2> QED
    BY <1>1, <1>2
<1> QED
  BY <1>3, LimiterInvariant, PTL DEF LimiterSpec, RefusedOverAnswered
=============================================================================
