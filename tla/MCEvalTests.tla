------------------------------ MODULE MCEvalTests ------------------------------
(***************************************************************************)
(* Hands of three of five cards, up to three processors, up to two hands   *)
(* whose ranks differ, of one first card or of two.                        *)
(***************************************************************************)
EXTENDS EvalTests
=============================================================================
