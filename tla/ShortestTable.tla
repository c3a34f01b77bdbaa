---------------------------- MODULE ShortestTable ----------------------------
(***************************************************************************)
(* What the search of FindPrime promises, without threads: the factors are *)
(* processed one at a time, each once, in any order, and after each of     *)
(* them the best table is the shorter of the one before and the one found  *)
(* for that factor.                                                        *)
(***************************************************************************)
EXTENDS Integers

CONSTANTS Primes, Size
VARIABLES best, done

Init == best \in Nat /\ done = {}

Process(p) ==
  /\ p \notin done
  /\ done' = done \cup {p}
  /\ best' = IF Size[p] < best THEN Size[p] ELSE best

Next == \E p \in Primes : Process(p)

Spec == Init /\ [][Next]_<<best, done>>
=============================================================================
