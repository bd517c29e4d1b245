------------------------------- MODULE Tally -------------------------------
(***************************************************************************)
(* Sums of small amounts over a finite set, written as a cardinality: an   *)
(* amount f[x] in 0..m is the f[x] unit coins <<x, 1>> .. <<x, f[x]>>, and *)
(* the total over S is the number of coins.  Written this way, every fact  *)
(* about totals is a fact about the cardinality of a finite set, which the *)
(* prover can use without induction.                                       *)
(***************************************************************************)
EXTENDS Integers, FiniteSets

Coins(S, f, m) == {c \in S \X (1..m) : c[2] <= f[c[1]]}

Total(S, f, m) == Cardinality(Coins(S, f, m))
=============================================================================
