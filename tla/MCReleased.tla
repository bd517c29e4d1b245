----------------------------- MODULE MCReleased -----------------------------
(***************************************************************************)
(* The instances of BudgetPipeline that say what must happen, with a       *)
(* history of the streams that are beyond the help of their clauses.       *)
(***************************************************************************)
EXTENDS MCBudgetPipeline

\* Streams whose cost has been dropped where no clause is left to repeat it.
VARIABLE lost

\* The process died, the worker gave the item up, or the write of the last clause
\* raised or was cancelled.
Gives(r) ==
    \/ ~up'
    \/ \E i \in taken : i.req = r /\ i \notin taken' /\ requests'[r] = NoRow
    \/ \E i \in direct : /\ i.req = r /\ i.at = "finally"
                          /\ i \notin direct' /\ requests'[r] = NoRow

ReleasedInit == Init /\ lost = {}

ReleasedNext == Next /\ lost' = lost \cup {r \in Streaming : Gives(r)}

ReleasedSpec == ReleasedInit /\ [][ReleasedNext]_<<vars, lost>> /\ Fairness

\* A stream one of whose clauses has begun, at its end, after an error or a
\* disconnect, is billed: the clause's write succeeds, or another clause repeats it
\* (try, except, finally of stream_generator, main.py), as long as the process lives,
\* the worker's own write succeeds, and one of the clauses' does.
StreamBilled ==
    \A r \in Streaming : pc[r] \in Stages ~> requests[r] # NoRow \/ r \in lost
=============================================================================
