------------------------- MODULE MCCircuitBreaker -------------------------
(***************************************************************************)
(* Small instances of CircuitBreaker.                                      *)
(***************************************************************************)
EXTENDS CircuitBreaker

CONSTANTS r1, r2, r3, health
=============================================================================
