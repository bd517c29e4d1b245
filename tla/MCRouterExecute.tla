-------------------------- MODULE MCRouterExecute --------------------------
(***************************************************************************)
(* Small instances of RouterExecute, with the seconds of the shipped       *)
(* configuration.                                                          *)
(***************************************************************************)
EXTENDS RouterExecute

\* At once, around what counts as fast, an adapter's own read timeout, around what
\* is left after a first timeout, and as long as an attempt may take.
SomeDurations == {0, 1, 4, 5, 6, 10, 27, 28, 29, 30, 60}
=============================================================================
