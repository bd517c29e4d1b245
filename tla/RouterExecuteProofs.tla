------------------------ MODULE RouterExecuteProofs ------------------------
(***************************************************************************)
(* What the router keeps, for any number of backends, any timeouts and any *)
(* lateness of its awaits.                                                 *)
(***************************************************************************)
EXTENDS RouterExecute, TLAPS

USE DEF place, history

\* A pause is a number of seconds, and never longer than what remains.
LEMMA BackoffBounds ==
    ASSUME RouterAssumption, TypeOK
    PROVE  /\ Backoff \in Nat
           /\ elapsed <= TotalDeadline => elapsed + Backoff <= TotalDeadline
           /\ elapsed > TotalDeadline => Backoff = 0
<1>1. elapsed \in Nat /\ TotalDeadline \in Nat
  BY DEF TypeOK, RouterAssumption
<1> QED
  BY <1>1 DEF Backoff, Pause, Lesser, Greater, Remaining

\* An await takes what it waits for and at most Late seconds more.
LEMMA TookBounds ==
    ASSUME RouterAssumption, TypeOK, NEW duration \in Nat, Took(duration)
    PROVE  elapsed' \in Nat /\ elapsed' <= elapsed + duration + Late
<1>1. elapsed \in Nat /\ Late \in Nat
  BY DEF TypeOK, RouterAssumption
<1>2. PICK late \in 0..Late : elapsed' = elapsed + duration + late
  BY DEF Took
<1> QED
  BY <1>1, <1>2

\* Reports are recorded one at a time, of the backend that was asked.
LEMMA TellType ==
    ASSUME TypeOK, NEW report \in Reports, Tell(report)
    PROVE  told' \in [1..Backends -> Seq(Reports)]
<1>1. told \in [1..Backends -> Seq(Reports)]
  BY DEF TypeOK
<1>2. \A b \in 1..Backends : Append(told[b], report) \in Seq(Reports)
  BY <1>1
<1> QED
  BY <1>1, <1>2 DEF Tell

LEMMA AttemptTimeoutType ==
    ASSUME RouterAssumption, TypeOK, Remaining > MIN_ATTEMPT_SEC
    PROVE  attempt_timeout \in Nat /\ attempt_timeout <= Remaining
BY DEF RouterAssumption, TypeOK, Remaining, MIN_ATTEMPT_SEC, attempt_timeout, Lesser

\* What all attempts have in common.
LEMMA AttemptKeeps ==
    ASSUME RouterAssumption, TypeOK, InTime, NEW duration \in Nat, Attempt(duration)
    PROVE  /\ elapsed' \in Nat
           /\ elapsed' <= TotalDeadline + Late
           /\ fast' \in BOOLEAN
<1>1. elapsed' \in Nat /\ elapsed' <= elapsed + duration + Late
  BY TookBounds DEF Attempt
<1>2. duration <= Remaining
  <2>1. attempt_timeout \in Nat /\ attempt_timeout <= Remaining
    BY AttemptTimeoutType DEF Attempt
  <2>2. Remaining \in Int
    BY DEF Remaining, TypeOK, RouterAssumption
  <2> QED
    BY <2>1, <2>2 DEF Attempt
<1>3. elapsed' <= TotalDeadline + Late
  BY <1>1, <1>2 DEF Remaining, TypeOK, RouterAssumption
<1>4. fast' \in BOOLEAN
  BY DEF Attempt
<1> QED
  BY <1>1, <1>3, <1>4

-----------------------------------------------------------------------------
(* Types *)

LEMMA NextBackendType ==
    ASSUME TypeOK, NextBackend
    PROVE  /\ attempt' = 0
           /\ rank' \in Nat \ {0}
           /\ pc' \in {"ready", "failed"}
BY DEF TypeOK, NextBackend

THEOREM TypeStep == RouterAssumption /\ IndInv /\ Next => TypeOK'
<1> SUFFICES ASSUME RouterAssumption, TypeOK, InTime, Reporting, Next PROVE TypeOK'
  BY DEF IndInv
<1> USE DEF Ended
<1>d. Durations \subseteq Nat /\ 0 \in Nat
  BY DEF RouterAssumption
<1>1. ASSUME NEW n \in 0..Backends, Rank(n) PROVE TypeOK'
  <2>1. elapsed' \in Nat
    BY <1>1, TookBounds DEF Rank
  <2> QED
    BY <1>1, <2>1 DEF Rank, TypeOK
<1>2. CASE RankLost
  BY <1>2, TookBounds DEF RankLost, TypeOK
<1>3. CASE Expire
  BY <1>3 DEF Expire, TypeOK
<1>4. CASE Hang
  <2>1. attempt_timeout \in Nat
    BY <1>4, AttemptTimeoutType DEF Hang, Attempt
  <2>2. elapsed' \in Nat /\ fast' \in BOOLEAN
    BY <1>4, <2>1, AttemptKeeps DEF Hang
  <2> QED
    BY <1>4, <2>2 DEF Hang, Attempt, TypeOK, Errors
<1>5. CASE Accept
  <2>1. told' \in [1..Backends -> Seq(Reports)]
    BY <1>5, TellType DEF Accept, Reports
  <2> QED
    BY <1>5, <2>1, TookBounds DEF Accept, TypeOK
<1>6. CASE Escalate
  <2>1. told' \in [1..Backends -> Seq(Reports)]
    BY <1>6, TellType DEF Escalate, Reports
  <2>2. elapsed' \in Nat
    BY <1>6, TookBounds DEF Escalate
  <2> QED
    BY <1>6, <2>1, <2>2, NextBackendType DEF Escalate, TypeOK, max_retries
<1>7. CASE SuccessLost
  BY <1>7, TookBounds DEF SuccessLost, TypeOK, Errors
<1>8. ASSUME NEW duration \in Durations, NEW price \in Costs, Answer(duration, price)
      PROVE  TypeOK'
  <2>1. elapsed' \in Nat /\ fast' \in BOOLEAN
    BY <1>8, <1>d, AttemptKeeps DEF Answer
  <2>2. price \in Nat
    BY DEF RouterAssumption
  <2> QED
    BY <1>8, <2>1, <2>2 DEF Answer, Attempt, TypeOK
<1>9. ASSUME NEW duration \in Durations, NEW error \in Errors, Raise(duration, error)
      PROVE  TypeOK'
  <2>1. elapsed' \in Nat /\ fast' \in BOOLEAN
    BY <1>9, <1>d, AttemptKeeps DEF Raise
  <2> QED
    BY <1>9, <2>1 DEF Raise, Attempt, TypeOK
<1>10. CASE Retry
  <2>1. elapsed' \in Nat
    BY <1>10, BackoffBounds, TookBounds DEF Retry
  <2> QED
    BY <1>10, <2>1 DEF Retry, TypeOK, max_retries
<1>11. CASE Spare
  <2>1. throttled' \subseteq 1..Backends
    BY <1>11 DEF Spare, TypeOK, Reporting
  <2> QED
    BY <1>11, <2>1, NextBackendType DEF Spare, TypeOK, max_retries
<1>12. CASE Blame
  <2>1. told' \in [1..Backends -> Seq(Reports)]
    BY <1>12, TellType DEF Blame, Reports
  <2>2. elapsed' \in Nat
    BY <1>12, TookBounds DEF Blame
  <2> QED
    BY <1>12, <2>1, <2>2, NextBackendType DEF Blame, TypeOK, max_retries
<1>13. CASE BlameLost
  BY <1>13, TookBounds DEF BlameLost, TypeOK
<1>14. ASSUME NEW duration \in Durations, FirstChunk(duration) PROVE TypeOK'
  <2>1. elapsed' \in Nat
    BY <1>14, <1>d, TookBounds DEF FirstChunk, Open
  <2> QED
    BY <1>14, <2>1 DEF FirstChunk, Open, TypeOK
<1>15. ASSUME NEW duration \in Durations, NEW error \in Errors, NotStarted(duration, error)
       PROVE  TypeOK'
  <2>1. elapsed' \in Nat
    BY <1>15, <1>d, TookBounds DEF NotStarted, Open
  <2> QED
    BY <1>15, <2>1 DEF NotStarted, Open, TypeOK
<1>16. ASSUME NEW duration \in Durations, Chunk(duration) PROVE TypeOK'
  <2>1. elapsed' \in Nat
    BY <1>16, <1>d, TookBounds DEF Chunk
  <2> QED
    BY <1>16, <2>1 DEF Chunk, TypeOK
<1>17. ASSUME NEW duration \in Durations, Finish(duration) PROVE TypeOK'
  <2>1. elapsed' \in Nat
    BY <1>17, <1>d, TookBounds DEF Finish
  <2>2. told' \in [1..Backends -> Seq(Reports)]
    BY <1>17, TellType DEF Finish, Reports
  <2> QED
    BY <1>17, <2>1, <2>2 DEF Finish, TypeOK
<1>18. ASSUME NEW duration \in Durations, Interrupt(duration) PROVE TypeOK'
  <2>1. elapsed' \in Nat
    BY <1>18, <1>d, TookBounds DEF Interrupt
  <2> QED
    BY <1>18, <2>1 DEF Interrupt, TypeOK
<1>19. CASE Stop
  <2>1. elapsed' \in Nat
    BY <1>19, TookBounds DEF Stop
  <2>2. told' \in [1..Backends -> Seq(Reports)]
    BY <1>19, TellType DEF Stop, Reports, TypeOK
  <2> QED
    BY <1>19, <2>1, <2>2 DEF Stop, TypeOK
<1>20. CASE Leave
  BY <1>20 DEF Leave, TypeOK
<1> QED
  BY <1>1, <1>2, <1>3, <1>4, <1>5, <1>6, <1>7, <1>8, <1>9, <1>10, <1>11, <1>12, <1>13,
     <1>14, <1>15, <1>16, <1>17, <1>18, <1>19, <1>20 DEF Next, Execute, Stream, Fail

-----------------------------------------------------------------------------
(* Deadlines *)

LEMMA InTimeStep == RouterAssumption /\ IndInv /\ Next => InTime'
<1> SUFFICES ASSUME RouterAssumption, TypeOK, InTime, Next, mode' = "execute" PROVE InTime'
  BY DEF IndInv, InTime
<1> USE DEF Ended
<1>c. elapsed \in Nat /\ Late \in Nat /\ TotalDeadline \in Nat /\ Durations \subseteq Nat
  BY DEF TypeOK, RouterAssumption
<1>n. NextBackend => pc' \in {"ready", "failed"}
  BY DEF NextBackend
<1>l. Took(0) => elapsed' \in Nat /\ elapsed' <= elapsed + Late
  BY TookBounds, <1>c
<1>1. ASSUME NEW n \in 0..Backends, Rank(n) PROVE InTime'
  BY <1>1, <1>c, <1>l DEF Rank, InTime
<1>2. CASE RankLost
  BY <1>2, <1>c, <1>l DEF RankLost, InTime
<1>3. CASE Expire
  BY <1>3, <1>c DEF Expire, InTime
<1>4. CASE Hang
  <2>1. attempt_timeout \in Nat
    BY <1>4, AttemptTimeoutType DEF Hang, Attempt
  <2>2. elapsed' \in Nat /\ elapsed' <= TotalDeadline + Late
    BY <1>4, <2>1, AttemptKeeps DEF Hang
  <2> QED
    BY <1>4, <2>2, <1>c DEF Hang, InTime
<1>5. CASE Accept
  BY <1>5, <1>c, <1>l DEF Accept, InTime
<1>6. CASE Escalate
  BY <1>6, <1>c, <1>l, <1>n DEF Escalate, InTime
<1>7. CASE SuccessLost
  BY <1>7, <1>c, <1>l DEF SuccessLost, InTime
<1>8. ASSUME NEW duration \in Durations, NEW price \in Costs, Answer(duration, price)
      PROVE  InTime'
  <2>1. elapsed' \in Nat /\ elapsed' <= TotalDeadline + Late
    BY <1>8, <1>c, AttemptKeeps DEF Answer
  <2> QED
    BY <1>8, <2>1, <1>c DEF Answer, InTime
<1>9. ASSUME NEW duration \in Durations, NEW error \in Errors, Raise(duration, error)
      PROVE  InTime'
  <2>1. elapsed' \in Nat /\ elapsed' <= TotalDeadline + Late
    BY <1>9, <1>c, AttemptKeeps DEF Raise
  <2> QED
    BY <1>9, <2>1, <1>c DEF Raise, InTime
<1>10. CASE Retry
  <2>1. /\ Backoff \in Nat
        /\ elapsed <= TotalDeadline => elapsed + Backoff <= TotalDeadline
        /\ elapsed > TotalDeadline => Backoff = 0
    BY BackoffBounds
  <2>2. elapsed' \in Nat /\ elapsed' <= elapsed + Backoff + Late
    BY <1>10, <2>1, TookBounds DEF Retry
  <2>3. elapsed <= TotalDeadline + 2 * Late
    BY <1>10 DEF Retry, InTime
  <2>4. elapsed + Backoff <= TotalDeadline + 2 * Late
    BY <2>1, <2>3, <1>c
  <2>5. elapsed' <= TotalDeadline + 3 * Late
    BY <2>1, <2>2, <2>4, <1>c
  <2> QED
    BY <1>10, <2>5 DEF Retry, InTime
<1>11. CASE Spare
  BY <1>11, <1>n, <1>c DEF Spare, InTime
<1>12. CASE Blame
  BY <1>12, <1>c, <1>l, <1>n DEF Blame, InTime
<1>13. CASE BlameLost
  BY <1>13, <1>c, <1>l DEF BlameLost, InTime
<1>14. ASSUME NEW duration \in Durations,
              \/ FirstChunk(duration) \/ \E error \in Errors : NotStarted(duration, error)
              \/ Chunk(duration) \/ Finish(duration) \/ Interrupt(duration)
       PROVE  FALSE
  BY <1>14 DEF FirstChunk, NotStarted, Open, Chunk, Finish, Interrupt, InTime
<1>15. CASE Stop \/ Leave
  BY <1>15 DEF Stop, Leave, InTime
<1> QED
  BY <1>1, <1>2, <1>3, <1>4, <1>5, <1>6, <1>7, <1>8, <1>9, <1>10, <1>11, <1>12, <1>13,
     <1>14, <1>15 DEF Next, Execute, Stream, Fail

-----------------------------------------------------------------------------
(* Reports *)

\* A breaker that was not told yet has been told once, and no other anything.
LEMMA TellOnce ==
    ASSUME TypeOK, Reporting, pc \notin Ended \cup {"ranking"},
           NEW report \in Reports, Tell(report)
    PROVE  /\ told'[rank] # <<>>
           /\ \A b \in 1..Backends : b # rank => told'[b] = told[b]
           /\ OneReport'
<1>1. rank \in 1..Backends
  BY RouterAssumption DEF TypeOK, Reporting, Ended
<1>2. told[rank] = <<>> /\ rank \in DOMAIN told
  BY <1>1 DEF Reporting, TypeOK
<1>3. told'[rank] = Append(<<>>, report)
  BY <1>2 DEF Tell
<1>4. Append(<<>>, report) = <<report>> /\ Len(<<report>>) <= 1
  OBVIOUS
<1>5. \A b \in 1..Backends : b # rank => told'[b] = told[b]
  BY DEF Tell, TypeOK
<1>6. \A b \in 1..Backends : Len(told[b]) <= 1
  BY DEF Reporting, OneReport
<1>7. ASSUME NEW b \in 1..Backends PROVE Len(told'[b]) <= 1
  <2>1. CASE b = rank
    <3>1. told'[b] = <<report>>
      BY <1>3, <1>4, <2>1
    <3> QED
      BY <1>4, <3>1
  <2>2. CASE b # rank
    <3>1. told'[b] = told[b]
      BY <1>5, <2>2
    <3> QED
      BY <1>6, <3>1
  <2> QED
    BY <2>1, <2>2
<1>8. OneReport'
  BY <1>7 DEF OneReport
<1> QED
  BY <1>3, <1>4, <1>5, <1>8

\* The backend has had its part, one way or the other, and the next one is asked.
LEMMA MovesOn ==
    ASSUME TypeOK, Reporting, pc \notin Ended \cup {"ranking"}, NextBackend, UNCHANGED ranked,
           \/ UNCHANGED throttled /\ \E report \in Reports : Tell(report)
           \/ UNCHANGED told /\ throttled' = throttled \cup {rank}
    PROVE  Reporting'
<1>1. /\ rank \in 1..ranked /\ ranked \in 0..Backends
      /\ rank \in 1..Backends /\ 1..ranked \subseteq 1..Backends
  BY RouterAssumption DEF TypeOK, Reporting, Ended
<1>2. \A b \in 1..Backends : b # rank => told'[b] = told[b] /\ (b \in throttled' <=> b \in throttled)
  BY TellOnce
<1>3. told[rank] = <<>> /\ rank \notin throttled
  BY <1>1 DEF Reporting
<1>4. (told'[rank] # <<>> <=> rank \notin throttled') /\ OneReport'
  <2>1. CASE UNCHANGED throttled /\ \E report \in Reports : Tell(report)
    BY <1>3, <2>1, TellOnce
  <2>2. CASE UNCHANGED told /\ throttled' = throttled \cup {rank}
    BY <1>3, <2>2 DEF Reporting, OneReport
  <2> QED
    BY <2>1, <2>2
<1>5. \A b \in 1..Backends : b <= rank => (told'[b] # <<>> <=> b \notin throttled')
  BY <1>1, <1>2, <1>4 DEF Reporting
<1>6. \A b \in 1..Backends : b > rank => told'[b] = <<>> /\ b \notin throttled'
  BY <1>1, <1>2 DEF Reporting
<1>7. CASE rank < ranked
  <2>1. pc' = "ready" /\ rank' = rank + 1 /\ rank' <= ranked'
    BY <1>1, <1>7 DEF NextBackend
  <2> QED
    BY <1>1, <1>4, <1>5, <1>6, <2>1 DEF Reporting, AllTried
<1>8. CASE ~(rank < ranked)
  <2>1. pc' = "failed" /\ rank = ranked
    BY <1>1, <1>8 DEF NextBackend
  <2>2. AllTried'
    BY <1>1, <1>5, <2>1 DEF AllTried
  <2> QED
    BY <1>4, <2>1, <2>2 DEF Reporting, Ended
<1> QED
  BY <1>7, <1>8

\* The request goes on with the same backend, or ends with what was told.
LEMMA StaysThere ==
    ASSUME TypeOK, Reporting, pc \notin Ended, UNCHANGED <<ranked, rank, told, throttled>>,
           pc' \notin {"ranking", "failed"}, pc = "ranking" => pc' \in {"error", "left"}
    PROVE  Reporting'
BY DEF Reporting, OneReport, AllTried, Ended

\* The request ends with a report of the backend that was asked.
LEMMA EndsTold ==
    ASSUME TypeOK, Reporting, pc \notin Ended \cup {"ranking"},
           NEW report \in Reports, Tell(report),
           UNCHANGED <<ranked, rank, throttled>>, pc' \in {"returned", "timedout"}
    PROVE  Reporting'
BY TellOnce DEF Reporting, AllTried, Ended

LEMMA ReportingStep == RouterAssumption /\ IndInv /\ Next => Reporting'
<1> SUFFICES ASSUME RouterAssumption, TypeOK, Reporting, Next PROVE Reporting'
  BY DEF IndInv
<1> USE DEF Ended
<1>1. ASSUME NEW n \in 0..Backends, Rank(n) PROVE Reporting'
  <2>1. /\ pc = "ranking" /\ rank = 1 /\ rank' = 1 /\ ranked' = n
        /\ told' = told /\ throttled' = throttled
        /\ pc' = IF n = 0 THEN "failed" ELSE "ready"
    BY <1>1 DEF Rank, Reporting
  <2> QED
    BY <2>1 DEF Reporting, OneReport, AllTried
<1>2. CASE RankLost
  BY <1>2, StaysThere DEF RankLost
<1>3. CASE Expire
  BY <1>3, StaysThere DEF Expire
<1>4. CASE Hang
  BY <1>4, StaysThere DEF Hang, Attempt
<1>5. CASE Accept
  BY <1>5, EndsTold DEF Accept, Reports
<1>6. CASE Escalate
  BY <1>6, MovesOn DEF Escalate, Reports
<1>7. CASE SuccessLost
  BY <1>7, StaysThere DEF SuccessLost
<1>8. ASSUME NEW duration \in Durations, NEW price \in Costs, Answer(duration, price)
      PROVE  Reporting'
  BY <1>8, StaysThere DEF Answer, Attempt
<1>9. ASSUME NEW duration \in Durations, NEW error \in Errors, Raise(duration, error)
      PROVE  Reporting'
  BY <1>9, StaysThere DEF Raise, Attempt
<1>10. CASE Retry
  BY <1>10, StaysThere DEF Retry
<1>11. CASE Spare
  BY <1>11, MovesOn DEF Spare
<1>12. CASE Blame
  BY <1>12, MovesOn DEF Blame, Reports
<1>13. CASE BlameLost
  BY <1>13, StaysThere DEF BlameLost
<1>14. ASSUME NEW duration \in Durations, FirstChunk(duration) PROVE Reporting'
  BY <1>14, StaysThere DEF FirstChunk, Open
<1>15. ASSUME NEW duration \in Durations, NEW error \in Errors, NotStarted(duration, error)
       PROVE  Reporting'
  BY <1>15, StaysThere DEF NotStarted, Open
<1>16. ASSUME NEW duration \in Durations, Chunk(duration) PROVE Reporting'
  BY <1>16, StaysThere DEF Chunk
<1>17. ASSUME NEW duration \in Durations, Finish(duration) PROVE Reporting'
  BY <1>17, EndsTold DEF Finish, Reports
<1>18. ASSUME NEW duration \in Durations, Interrupt(duration) PROVE Reporting'
  BY <1>18, StaysThere DEF Interrupt
<1>19. CASE Stop
  <2>1. CASE Tell("failure") /\ pc' = "timedout"
    BY <1>19, <2>1, EndsTold DEF Stop, Reports
  <2>2. CASE pc' = "error" /\ UNCHANGED told
    BY <1>19, <2>2, StaysThere DEF Stop
  <2> QED
    BY <1>19, <2>1, <2>2 DEF Stop
<1>20. CASE Leave
  BY <1>20, StaysThere DEF Leave
<1> QED
  BY <1>1, <1>2, <1>3, <1>4, <1>5, <1>6, <1>7, <1>8, <1>9, <1>10, <1>11, <1>12, <1>13,
     <1>14, <1>15, <1>16, <1>17, <1>18, <1>19, <1>20 DEF Next, Execute, Stream, Fail

-----------------------------------------------------------------------------
(* Money *)

LEMMA AccountedStep == RouterAssumption /\ IndInv /\ Next => Accounted'
<1> SUFFICES ASSUME RouterAssumption, TypeOK, InTime, Accounted, Next,
                    mode' = "execute", ~faulted'
             PROVE  incurred' = discarded' +
                        (IF pc' \in {"answered", "returned"} THEN cost' ELSE 0)
  BY DEF IndInv, Accounted
<1> USE DEF Ended
<1>t. incurred \in Nat /\ discarded \in Nat /\ cost \in Nat
  BY DEF TypeOK
<1>n. NextBackend => pc' \in {"ready", "failed"}
  BY DEF NextBackend
<1>1. ASSUME NEW n \in 0..Backends, Rank(n)
      PROVE  incurred' = discarded' + (IF pc' \in {"answered", "returned"} THEN cost' ELSE 0)
  BY <1>1, <1>t DEF Rank, Accounted
<1>2. ~RankLost /\ ~SuccessLost /\ ~BlameLost
  BY DEF RankLost, SuccessLost, BlameLost
<1>3. CASE Expire
  BY <1>3, <1>t DEF Expire, Accounted
<1>4. CASE Hang
  BY <1>4, <1>t DEF Hang, Attempt, Accounted
<1>5. CASE Accept
  BY <1>5, <1>t DEF Accept, Accounted
<1>6. CASE Escalate
  BY <1>6, <1>n, <1>t DEF Escalate, Accounted
<1>7. ASSUME NEW duration \in Durations, NEW price \in Costs, Answer(duration, price)
      PROVE  incurred' = discarded' + (IF pc' \in {"answered", "returned"} THEN cost' ELSE 0)
  BY <1>7, <1>t DEF Answer, Attempt, Accounted
<1>8. ASSUME NEW duration \in Durations, NEW error \in Errors, Raise(duration, error)
      PROVE  incurred' = discarded' + (IF pc' \in {"answered", "returned"} THEN cost' ELSE 0)
  BY <1>8, <1>t DEF Raise, Attempt, Accounted
<1>9. CASE Retry
  BY <1>9, <1>t DEF Retry, Accounted
<1>10. CASE Spare
  BY <1>10, <1>n, <1>t DEF Spare, Accounted
<1>11. CASE Blame
  BY <1>11, <1>n, <1>t DEF Blame, Accounted
<1>12. ASSUME NEW duration \in Durations,
              \/ FirstChunk(duration) \/ \E error \in Errors : NotStarted(duration, error)
              \/ Chunk(duration) \/ Finish(duration) \/ Interrupt(duration)
       PROVE  FALSE
  BY <1>12 DEF FirstChunk, NotStarted, Open, Chunk, Finish, Interrupt, InTime
<1>13. ~Stop /\ ~Leave
  BY DEF Stop, Leave, InTime
<1> QED
  BY <1>1, <1>2, <1>3, <1>4, <1>5, <1>6, <1>7, <1>8, <1>9, <1>10, <1>11, <1>12, <1>13
     DEF Next, Execute, Stream, Fail

-----------------------------------------------------------------------------
(* Theorems *)

LEMMA InitInv == RouterAssumption /\ Init => IndInv
<1> SUFFICES ASSUME RouterAssumption, Init PROVE IndInv
  OBVIOUS
<1>1. TypeOK
  <2>1. <<>> \in Seq(Reports)
    OBVIOUS
  <2>2. told \in [1..Backends -> Seq(Reports)]
    BY <2>1 DEF Init
  <2>3. pc \in {"ranking"} /\ last_error \in Errors /\ 0 \in 0..max_retries
    BY DEF Init, Errors, max_retries
  <2>4. ranked \in 0..Backends
    BY DEF Init, RouterAssumption
  <2>5. fast \in BOOLEAN /\ faulted \in BOOLEAN /\ throttled \subseteq 1..Backends
    BY DEF Init
  <2>6. /\ elapsed \in Nat /\ rank \in Nat \ {0} /\ attempt \in 0..max_retries
        /\ discarded \in Nat /\ cost \in Nat /\ asked \in Nat /\ incurred \in Nat
    BY <2>3 DEF Init
  <2>7. mode \in {"execute", "stream"}
    BY DEF Init
  <2> QED
    BY <2>2, <2>3, <2>4, <2>5, <2>6, <2>7 DEF TypeOK
<1>2. InTime
  BY DEF Init, InTime, RouterAssumption
<1>3. Reporting
  <2>1. \A b \in 1..Backends : told[b] = <<>> /\ b \notin throttled
    BY DEF Init
  <2>2. OneReport
    <3>1. Len(<<>>) <= 1
      OBVIOUS
    <3> QED
      BY <2>1, <3>1 DEF OneReport
  <2> QED
    BY <2>1, <2>2, RouterAssumption DEF Init, Reporting, AllTried
<1>4. Accounted
  BY DEF Init, Accounted
<1> QED
  BY <1>1, <1>2, <1>3, <1>4 DEF IndInv

LEMMA StutterInv == IndInv /\ UNCHANGED vars => IndInv'
BY DEF IndInv, TypeOK, InTime, Reporting, OneReport, AllTried, Accounted, vars, Ended

\* The router's places, times, reports and money stay related as IndInv says.
THEOREM RouterInvariant == Spec => []IndInv
<1>1. Init => IndInv
  BY InitInv, RouterAssumption
<1>2. IndInv /\ [Next]_vars => IndInv'
  BY TypeStep, InTimeStep, ReportingStep, AccountedStep, StutterInv, RouterAssumption DEF IndInv
<1> QED
  BY <1>1, <1>2, PTL DEF Spec

\* However many backends there are and however they fail, execute ends by its
\* deadline, three late awaits apart (router.py:507-645).
THEOREM ExecuteEndsInTime == Spec => []EndsInTime
<1>1. IndInv => EndsInTime
  BY DEF IndInv, InTime, EndsInTime
<1> QED
  BY <1>1, RouterInvariant, PTL

\* No breaker is told of one request twice, whatever is retried and whatever the
\* ledger loses.
THEOREM ReportsOnce == Spec => []OneReport
<1>1. IndInv => OneReport
  BY DEF IndInv, Reporting
<1> QED
  BY <1>1, RouterInvariant, PTL

\* A request that runs out of backends has told every breaker, throttled
\* backends aside.
THEOREM ReportsAll == Spec => []AllTried
<1>1. IndInv => AllTried
  BY DEF IndInv, Reporting
<1> QED
  BY <1>1, RouterInvariant, PTL

\* An answer is billed at the cost of all answers its request received, unless
\* the ledger failed on the way.
THEOREM CostsAreBilled == Spec => []CostsBilled
<1>1. IndInv => CostsBilled
  BY DEF IndInv, TypeOK, Accounted, CostsBilled, Bill
<1> QED
  BY <1>1, RouterInvariant, PTL

-----------------------------------------------------------------------------
(* The second backend *)

\* When the first backend's next attempt may begin at the latest, while attempts are
\* fast: an attempt, the breaker's failure and a pause may each be late.
Begins(n) == CASE n = 0 -> Late
               [] n = 1 -> Fast + 1 + 4 * Late
               [] n = 2 -> 2 * Fast + 3 + 7 * Late

\* How late each place of the first backend is reached.
FirstInTime ==
    mode = "execute" /\ fast =>
        /\ pc = "ranking" => elapsed = 0
        /\ pc \in {"answered", "failing"} \/ (pc = "ready" /\ (attempt # 0 \/ rank # 1)) => Fast >= 0
        /\ rank = 1 =>
             /\ pc = "ranking"  => attempt = 0
             /\ pc = "ready"    => elapsed <= Begins(attempt)
             /\ pc = "answered" => elapsed <= Begins(attempt) + Fast + Late
             /\ pc = "failing"  => elapsed <= Begins(attempt) + Fast + 2 * Late
        /\ pc = "ready" /\ rank = 2 /\ attempt = 0 => elapsed <= 3 * Fast + 3 + 10 * Late

LEMMA FastBounds == Fast \in Int /\ 3 * Fast + 3 + 10 * Late <= TotalDeadline - Timeout
<1> DEFINE spare == TotalDeadline - Timeout - 3 - 10 * Late
<1>1. spare \in Int
  BY RouterAssumption
<1>2. \A n \in Int : n \div 3 \in Int /\ 3 * (n \div 3) <= n
  OBVIOUS
<1>3. Fast \in Int /\ 3 * Fast <= spare
  BY <1>1, <1>2 DEF Fast
<1> QED
  BY <1>3, RouterAssumption

LEMMA BeginsBounds ==
    ASSUME Fast >= 0
    PROVE  /\ \A n \in 0..max_retries : Begins(n) \in Int /\ Begins(n) <= 2 * Fast + 3 + 7 * Late
           /\ Begins(1) = Begins(0) + Fast + 3 * Late + 1
           /\ Begins(2) = Begins(1) + Fast + 3 * Late + 2
           /\ Begins(0) = Late
<1>1. Fast \in Int /\ Late \in Nat
  BY FastBounds, RouterAssumption
<1>2. Begins(0) = Late /\ Begins(1) = Fast + 1 + 4 * Late /\ Begins(2) = 2 * Fast + 3 + 7 * Late
  BY DEF Begins
<1>3. \A n \in 0..max_retries : n = 0 \/ n = 1 \/ n = 2
  BY DEF max_retries
<1> HIDE DEF Begins
<1> QED
  BY <1>1, <1>2, <1>3

\* A pause is one second after the first attempt and two after the second.
LEMMA BackoffShort ==
    ASSUME TypeOK, attempt < max_retries
    PROVE  /\ Backoff \in Nat
           /\ attempt = 0 => Backoff <= 1
           /\ attempt = 1 => Backoff <= 2
           /\ attempt \in {0, 1}
<1>1. elapsed \in Nat /\ TotalDeadline \in Nat
  BY RouterAssumption DEF TypeOK
<1>2. attempt \in {0, 1}
  BY DEF TypeOK, max_retries
<1> QED
  BY <1>1, <1>2 DEF Backoff, Pause, Lesser, Greater, Remaining

LEMMA FirstInTimeStep == IndInv /\ FirstInTime /\ Next => FirstInTime'
<1> SUFFICES ASSUME TypeOK, InTime, Reporting, FirstInTime, Next,
                    mode' = "execute", fast' = TRUE
             PROVE  FirstInTime'
  BY DEF IndInv, FirstInTime, TypeOK
<1> USE DEF Ended
<1>c. /\ elapsed \in Nat /\ Late \in Nat /\ Durations \subseteq Nat
      /\ Fast \in Int /\ attempt \in 0..max_retries /\ rank \in Nat \ {0}
  BY RouterAssumption, FastBounds DEF TypeOK
<1>f. fast = TRUE /\ mode = "execute"
  BY DEF Next, Execute, Stream, Fail, Rank, RankLost, Expire, Attempt, Answer, Raise, Hang, Accept,
     Escalate, SuccessLost, Retry, Spare, Blame, BlameLost, Open, FirstChunk, NotStarted, Chunk,
     Finish, Interrupt, Stop, Leave, TypeOK
<1>l. Took(0) => elapsed' \in Nat /\ elapsed' <= elapsed + Late
  BY TookBounds, RouterAssumption, <1>c
<1>b. Fast >= 0 =>
        /\ \A n \in 0..max_retries : Begins(n) \in Int /\ Begins(n) <= 2 * Fast + 3 + 7 * Late
        /\ Begins(1) = Begins(0) + Fast + 3 * Late + 1
        /\ Begins(2) = Begins(1) + Fast + 3 * Late + 2
  BY BeginsBounds
<1>z. Begins(0) = Late
  BY DEF Begins
<1> HIDE DEF Begins, Fast
<1>1. ASSUME NEW n \in 0..Backends, Rank(n) PROVE FirstInTime'
  <2>1. rank = 1 /\ attempt = 0 /\ elapsed = 0
    BY <1>1, <1>f DEF Rank, Reporting, FirstInTime
  <2>2. elapsed' <= Late
    BY <1>1, <1>c, <1>f, <1>l, <2>1 DEF Rank
  <2>3. rank' = 1 /\ attempt' = 0 /\ pc' \in {"ready", "failed"}
    BY <1>1, <2>1 DEF Rank
  <2> QED
    BY <1>z, <2>2, <2>3 DEF FirstInTime
<1>2. CASE RankLost \/ Expire \/ Accept \/ BlameLost
  BY <1>2 DEF RankLost, Expire, Accept, BlameLost, FirstInTime
<1>3. ASSUME NEW duration \in Nat, Attempt(duration), pc' \in {"answered", "failing"}
      PROVE  FirstInTime'
  <2>1. duration <= Fast /\ Fast >= 0
    <3>1. TRUE = (fast /\ duration <= Fast)
      BY <1>3 DEF Attempt
    <3>2. duration <= Fast
      BY <3>1, Zenon
    <3> QED
      BY <1>c, <1>3, <3>2
  <2>2. elapsed' \in Nat /\ elapsed' <= elapsed + duration + Late
    BY <1>3, RouterAssumption, TookBounds DEF Attempt
  <2>3. rank' = rank /\ attempt' = attempt /\ pc = "ready"
    BY <1>3 DEF Attempt
  <2>4. rank = 1 => elapsed <= Begins(attempt) /\ Begins(attempt) \in Int
    BY <1>b, <1>c, <1>f, <2>1, <2>3 DEF FirstInTime
  <2>5. rank = 1 => elapsed' <= Begins(attempt) + Fast + Late
    BY <1>c, <2>1, <2>2, <2>4
  <2>6. rank = 1 => elapsed' <= Begins(attempt) + Fast + 2 * Late
    BY <1>c, <2>2, <2>4, <2>5
  <2> QED
    BY <1>3, <2>1, <2>3, <2>5, <2>6 DEF FirstInTime
<1>4. CASE Hang
  <2>1. attempt_timeout \in Nat
    BY <1>4, RouterAssumption, AttemptTimeoutType DEF Hang, Attempt
  <2> QED
    BY <1>3, <1>4, <2>1 DEF Hang
<1>5. ASSUME NEW duration \in Durations,
             \/ \E price \in Costs : Answer(duration, price)
             \/ \E error \in Errors : Raise(duration, error)
      PROVE  FirstInTime'
  BY <1>3, <1>5, <1>c DEF Answer, Raise
<1>6. CASE SuccessLost
  <2>1. rank' = rank /\ attempt' = attempt /\ pc = "answered" /\ pc' = "failing" /\ Fast >= 0
    BY <1>6, <1>f DEF SuccessLost, FirstInTime
  <2>2. rank = 1 => elapsed <= Begins(attempt) + Fast + Late /\ Begins(attempt) \in Int
    BY <1>b, <1>c, <1>f, <2>1 DEF FirstInTime
  <2>3. rank = 1 => elapsed' <= Begins(attempt) + Fast + 2 * Late
    BY <1>6, <1>c, <1>l, <2>2 DEF SuccessLost
  <2> QED
    BY <2>1, <2>3 DEF FirstInTime
<1>7. CASE Retry
  <2>1. /\ rank' = rank /\ attempt' = attempt + 1 /\ attempt < max_retries
        /\ pc = "failing" /\ pc' = "ready" /\ Fast >= 0
    BY <1>7, <1>f DEF Retry, FirstInTime
  <2>2. rank = 1 => elapsed <= Begins(attempt) + Fast + 2 * Late /\ Begins(attempt) \in Int
    BY <1>b, <1>c, <1>f, <2>1 DEF FirstInTime
  <2>3. /\ Backoff \in Nat
        /\ attempt = 0 => Backoff <= 1
        /\ attempt = 1 => Backoff <= 2
        /\ attempt \in {0, 1}
    BY <2>1, BackoffShort
  <2>4. elapsed' \in Nat /\ elapsed' <= elapsed + Backoff + Late
    BY <1>7, <2>3, RouterAssumption, TookBounds DEF Retry
  <2>5. rank = 1 => elapsed' <= Begins(attempt')
    <3>1. CASE attempt = 0
      <4>1. attempt' = 1 /\ Begins(1) = Begins(0) + Fast + 3 * Late + 1
        BY <1>b, <2>1, <3>1
      <4> QED
        BY <1>c, <2>2, <2>3, <2>4, <3>1, <4>1
    <3>2. CASE attempt = 1
      <4>1. attempt' = 2 /\ Begins(2) = Begins(1) + Fast + 3 * Late + 2
        BY <1>b, <2>1, <3>2
      <4> QED
        BY <1>c, <2>2, <2>3, <2>4, <3>2, <4>1
    <3> QED
      BY <2>3, <3>1, <3>2
  <2>6. attempt' # 0
    BY <1>c, <2>1
  <2> QED
    BY <2>1, <2>5, <2>6 DEF FirstInTime
<1>8. CASE Escalate \/ Spare \/ Blame
  <2>1. /\ pc \in {"answered", "failing"} /\ Fast >= 0 /\ attempt' = 0
        /\ \/ pc' = "ready" /\ rank' = rank + 1
           \/ pc' = "failed"
    BY <1>8, <1>f DEF Escalate, Spare, Blame, NextBackend, FirstInTime
  <2>2. elapsed' \in Nat /\ elapsed' <= elapsed + Late
    <3>1. Took(0) \/ elapsed' = elapsed
      BY <1>8 DEF Escalate, Spare, Blame
    <3> QED
      BY <1>c, <1>l, <3>1
  <2>3. rank = 1 => /\ elapsed <= Begins(attempt) + Fast + 2 * Late
                    /\ Begins(attempt) \in Int /\ Begins(attempt) <= 2 * Fast + 3 + 7 * Late
    BY <1>b, <1>c, <1>f, <2>1 DEF FirstInTime
  <2>4. rank = 1 => elapsed' <= 3 * Fast + 3 + 10 * Late
    BY <1>c, <2>2, <2>3
  <2>5. pc' = "ready" => rank' # 1 /\ (rank' = 2 => rank = 1)
    BY <1>c, <2>1
  <2> QED
    BY <2>1, <2>4, <2>5 DEF FirstInTime
<1>9. ASSUME NEW duration \in Durations,
             \/ FirstChunk(duration) \/ \E error \in Errors : NotStarted(duration, error)
             \/ Chunk(duration) \/ Finish(duration) \/ Interrupt(duration)
      PROVE  FALSE
  BY <1>9, <1>f DEF FirstChunk, NotStarted, Open, Chunk, Finish, Interrupt, InTime
<1>10. ~Stop /\ ~Leave
  BY <1>f DEF Stop, Leave, InTime
<1> QED
  BY <1>1, <1>2, <1>4, <1>5, <1>6, <1>7, <1>8, <1>9, <1>10 DEF Next, Execute, Stream, Fail

\* However the three attempts against the first backend fail, if each takes at most
\* Fast seconds, a third of what deadline, timeout, pauses and lateness leave, the
\* second backend has a full attempt (configs/circuit_breaker.yaml:15).
THEOREM SecondBackendHasFullAttempt == Spec => []FullSecondAttempt
<1>1. Init => FirstInTime
  BY DEF Init, FirstInTime
<1>2. IndInv /\ FirstInTime /\ [Next]_vars => FirstInTime'
  <2>1. FirstInTime /\ UNCHANGED vars => FirstInTime'
    BY DEF FirstInTime, vars, Begins, Fast
  <2> QED
    BY <2>1, FirstInTimeStep
<1>3. IndInv /\ FirstInTime => FullSecondAttempt
  <2> SUFFICES ASSUME TypeOK, FirstInTime, mode = "execute", pc = "ready", rank = 2, attempt = 0, fast
               PROVE  attempt_timeout = Timeout
    BY DEF IndInv, FullSecondAttempt
  <2>1. elapsed <= 3 * Fast + 3 + 10 * Late
    BY DEF FirstInTime
  <2>2. elapsed <= TotalDeadline - Timeout
    <3> HIDE DEF Fast
    <3> QED
      BY <2>1, FastBounds, RouterAssumption DEF TypeOK
  <2> QED
    BY <2>2, RouterAssumption DEF TypeOK, attempt_timeout, Lesser, Remaining
<1> QED
  BY <1>1, <1>2, <1>3, RouterInvariant, PTL DEF Spec
=============================================================================
