---------------------------- MODULE WholeAnswer ----------------------------
(***************************************************************************)
(* What the output filters promise of a stream: the client's text only     *)
(* grows, at every moment it is a beginning of what an answer that is not  *)
(* streamed would show for the text the model has generated so far, and an *)
(* answer that is complete is that text.                                   *)
(***************************************************************************)
EXTENDS SequencesExt

CONSTANTS
    Texts,       \* what the model may generate
    Shown(_, _)  \* the whole-string filters, for a mapping and a text

VARIABLES
    vault,      \* the request's vault mapping
    generated,  \* the text the model has generated
    seen,       \* the text the client has received
    complete    \* whether the client was told that the answer is complete

wholeVars == <<vault, generated, seen, complete>>

WholeInit == generated = <<>> /\ seen = <<>> /\ complete = FALSE

Generate ==
    /\ ~complete
    /\ generated' \in Texts
    /\ IsPrefix(generated, generated')
    /\ IsPrefix(seen, seen')
    /\ IsPrefix(seen', Shown(vault, generated'))
    /\ UNCHANGED <<vault, complete>>

\* A last piece may come together with the end.
Finish ==
    /\ ~complete
    /\ complete' = TRUE
    /\ generated' \in Texts
    /\ IsPrefix(generated, generated')
    /\ IsPrefix(seen, seen')
    /\ seen' = Shown(vault, generated')
    /\ UNCHANGED vault

WholeSpec == WholeInit /\ [][Generate \/ Finish]_wholeVars
=============================================================================
