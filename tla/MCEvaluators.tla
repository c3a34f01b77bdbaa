------------------------------ MODULE MCEvaluators ------------------------------
(***************************************************************************)
(* Seven faces, and sixteen cards with all kinds of hands: flushes of five *)
(* and six cards in the first suit and of five in the last, whose keys are *)
(* negative; straight flushes, fours of a kind, both ends of the straights.*)
(***************************************************************************)
EXTENDS Evaluators

MCKeyFive == [f \in 0 .. 6 |-> <<0, 1, 5, 22, 94, 312, 992>>[f + 1]]
MCKeySeven == [f \in 0 .. 6 |-> <<0, 1, 5, 22, 98, 453, 2031>>[f + 1]]
MCSuitKeys == [s \in 0 .. 3 |-> <<0, 1, 8, 57>>[s + 1]]
MCDeck == {0, 1, 2, 3, 5, 6} \cup {7 + f : f \in {2, 5, 6}} \cup {14 + f : f \in {5, 6}}
            \cup {21 + f : f \in {0, 3, 4, 5, 6}}
=============================================================================
