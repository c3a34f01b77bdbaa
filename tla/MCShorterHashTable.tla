-------------------------- MODULE MCShorterHashTable --------------------------
(***************************************************************************)
(* Six three-bit keys and two ranks: every ranking of the keys, a factor   *)
(* for every odd residue modulo 8, an even one that makes keys collide,    *)
(* and shifts up to two beyond the width of a key.                         *)
(***************************************************************************)
EXTENDS FindOffset

MCHashes == {0, 2, 3, 4, 5, 7}
MCPrimes == {2, 3, 5, 7, 17}
MCShifts == 0 .. 5
=============================================================================
