------------------------- MODULE MCBudgetPipeline -------------------------
(***************************************************************************)
(* Small instances of BudgetPipeline.                                      *)
(***************************************************************************)
EXTENDS BudgetPipeline

CONSTANTS k1, plain1, plain2, stream1, none

\* One client.
OneKey == [r \in Requests |-> k1]

\* The day is the tighter limit; the month leaves room for one unit more.
TightLimit == [k \in Keys |-> [day |-> 2, month |-> 3]]
UnitLimit  == [k \in Keys |-> [day |-> 1, month |-> 1]]

NoPatch  == {}
Patch == {[day |-> 0, month |-> 1]}
=============================================================================
