----------------------------- MODULE MCPrimeSieve -----------------------------
(***************************************************************************)
(* Ints of ten bits: squares overflow from 23 on, so that among the primes *)
(* above 361 some are found late by a wrapped square and others are not.   *)
(***************************************************************************)
EXTENDS PrimeSieve

MCStarts == {0, 3, 4, 24, 360, 400, 511}
MCStops == {2, 3, 25, 362, 510, 511}
=============================================================================
