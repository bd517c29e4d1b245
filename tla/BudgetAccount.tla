--------------------------- MODULE BudgetAccount ---------------------------
(***************************************************************************)
(* What a budget promises, told without counters, stamps, queues or        *)
(* processes.  Every request counts in the periods of its client's key for *)
(* what it is worth: the amount held for it, and once it is settled its    *)
(* cost.  It is let in while there is room for it, held for once and       *)
(* billed once.  A request that is settled in a period it no longer counts *)
(* in, because its hold was released or the period is a new one, may take  *)
(* the period's account astray, for as long as the period lasts.           *)
(***************************************************************************)
EXTENDS Tally

CONSTANTS Keys, Requests, KeyOf, Periods, MaxAmount

VARIABLES
    limit,    \* each key's limits, 0 for none
    today,    \* the day and the month
    opened,   \* those that each account was opened in
    stage,    \* fresh, holding, over (turned away, or let go unsettled), billed
    worth,    \* what each request counts for
    counted,  \* the requests that count in each key's periods
    astray    \* accounts whose sum is not known

account == <<limit, today, opened, stage, worth, counted, astray>>

Limits  == [Keys -> [Periods -> Nat]]
Amounts == 0..MaxAmount

Init ==
    /\ limit \in Limits
    /\ today = [p \in Periods |-> 0]
    /\ opened \in [Keys -> [Periods -> Int]]
    /\ stage = [r \in Requests |-> "fresh"]
    /\ worth = [r \in Requests |-> 0]
    /\ counted = [k \in Keys |-> [p \in Periods |-> {}]]
    /\ astray = {}

Used(k, p) == Total(counted[k][p], worth, MaxAmount)

\* The periods that a request of k finds ended.
Ended(k) == {p \in Periods : opened[k][p] # today[p]}

\* A request of k is looked at, and joins those that count or does not.
Open(k, joining) ==
    /\ opened' = [opened EXCEPT ![k] = today]
    /\ astray' = astray \ ({k} \X Ended(k))
    /\ counted' = [counted EXCEPT ![k] =
                     [p \in Periods |->
                        joining \cup (IF p \in Ended(k) THEN {} ELSE counted[k][p])]]
    /\ UNCHANGED <<limit, today>>

Admit(r, amount) ==
    /\ stage[r] = "fresh"
    /\ stage' = [stage EXCEPT ![r] = "holding"]
    /\ worth' = [worth EXCEPT ![r] = amount]
    /\ Open(KeyOf[r], {r})
    /\ \A p \in Periods :
          \/ <<KeyOf[r], p>> \in astray'
          \/ limit[KeyOf[r]][p] = 0
          \/ Used(KeyOf[r], p)' <= limit[KeyOf[r]][p]

Refuse(r, amount) ==
    /\ stage[r] = "fresh"
    /\ stage' = [stage EXCEPT ![r] = "over"]
    /\ Open(KeyOf[r], {})
    /\ \E p \in Periods :
          \/ <<KeyOf[r], p>> \in astray'
          \/ /\ limit[KeyOf[r]][p] # 0
             /\ Used(KeyOf[r], p)' + amount > limit[KeyOf[r]][p]
    /\ UNCHANGED worth

Settle(r, cost) ==
    LET k == KeyOf[r] IN
    /\ stage[r] \in {"holding", "over"}
    /\ stage' = [stage EXCEPT ![r] = "billed"]
    /\ worth' = [worth EXCEPT ![r] = cost]
    /\ counted' = [counted EXCEPT ![k] = [p \in Periods |-> counted[k][p] \cup {r}]]
    /\ \E lost \in SUBSET {p \in Periods : r \notin counted[k][p]} :
          astray' = astray \cup ({k} \X lost)
    /\ UNCHANGED <<limit, today, opened>>

Release(S) ==
    /\ \A r \in S : stage[r] = "holding"
    /\ stage' = [r \in Requests |-> IF r \in S THEN "over" ELSE stage[r]]
    /\ worth' = [r \in Requests |-> IF r \in S THEN 0 ELSE worth[r]]
    /\ counted' = [k \in Keys |-> [p \in Periods |-> counted[k][p] \ S]]
    /\ UNCHANGED <<today, opened, astray>>

ChangeLimits ==
    /\ limit' \in Limits
    /\ UNCHANGED <<today, opened, stage, worth, counted, astray>>

TimePasses ==
    /\ today' \in [Periods -> Nat]
    /\ \A p \in Periods : today[p] <= today'[p]
    /\ UNCHANGED <<limit, opened, stage, worth, counted, astray>>

\* A restart releases holds and loads limits in one step.
Next ==
    \/ \E r \in Requests, amount \in Amounts :
          Admit(r, amount) \/ Refuse(r, amount) \/ Settle(r, amount)
    \/ \E S \in SUBSET Requests : Release(S) /\ (UNCHANGED limit \/ limit' \in Limits)
    \/ ChangeLimits
    \/ TimePasses

Spec == Init /\ [][Next]_account
=============================================================================
