----------------------------- MODULE MCKeyScheme -----------------------------
(***************************************************************************)
(* The first six faces for seven cards (keys up to 453) and for five (up   *)
(* to 312), and all four suits.                                            *)
(***************************************************************************)
EXTENDS KeyScheme

MCFaces == [seven |-> 6, five |-> 6, suits |-> 4]
=============================================================================
