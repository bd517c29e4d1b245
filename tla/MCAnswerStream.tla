--------------------------- MODULE MCAnswerStream ---------------------------
(***************************************************************************)
(* Small instances of AnswerStream.                                        *)
(***************************************************************************)
EXTENDS AnswerStream

CONSTANT none
=============================================================================
