-------------------------- MODULE MCShorterHashTable2 -------------------------
(***************************************************************************)
(* Six three-bit keys and two ranks: every ranking of the keys, every      *)
(* odd factor, an even one that makes keys collide, and shifts up to two   *)
(* beyond the width of a key.                                              *)
(***************************************************************************)
EXTENDS ShorterHashTable2

MCHashes == {0, 1, 2, 4, 5, 7}
MCPrimes == {2, 3, 5, 7}
MCShifts == 0 .. 5
=============================================================================
