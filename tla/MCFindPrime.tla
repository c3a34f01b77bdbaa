----------------------------- MODULE MCFindPrime -----------------------------
(***************************************************************************)
(* Two workers and five primes, more than the queue holds; the sizes make  *)
(* improvements race, longer ones behind shorter ones and before them.     *)
(***************************************************************************)
EXTENDS FindPrime

MCSize == <<6, 4, 5, 4, 2>>
MCKnownSizes == {3, 7}
=============================================================================
