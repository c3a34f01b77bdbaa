---------------------------- MODULE MCTableSearch ----------------------------
(***************************************************************************)
(* Nine four-bit keys and two ranks, for which the search keeps tables;    *)
(* with the six keys of the runs of each heuristic it never does.          *)
(* Every bucket size a key has and one beyond, as the search for five      *)
(* cards goes beyond its keys; an even factor makes keys collide.          *)
(***************************************************************************)
EXTENDS TableSearch

MCHashes == {0, 3, 5, 7, 8, 10, 12, 13, 15}
MCPrimes == {2, 7}
MCShifts == 0 .. 5
=============================================================================
