--------------------------- MODULE SlidingWindow ---------------------------
(***************************************************************************)
(* What a rate limiter promises: however requests arrive, no window of     *)
(* Span time units holds more than Most of those it let through.           *)
(***************************************************************************)
EXTENDS Integers, FiniteSets

CONSTANTS
    Requests,
    Most,     \* requests a window may hold
    Span,     \* length of a window
    NotYet    \* a request that was not let through

VARIABLE at   \* when each request was let through

Admitted == {r \in Requests : at[r] # NotYet}

\* It is enough to look at the windows that begin with a request.
WindowFrom(r) == {q \in Admitted : at[r] <= at[q] /\ at[q] <= at[r] + Span}

Bounded == \A r \in Admitted : Cardinality(WindowFrom(r)) <= Most

WindowInit == at = [r \in Requests |-> NotYet]

Admit(r) ==
    /\ r \notin Admitted
    /\ at' = [at EXCEPT ![r] = at'[r]]
    /\ Bounded'

WindowSpec == WindowInit /\ [][\E r \in Requests : Admit(r)]_at
=============================================================================
