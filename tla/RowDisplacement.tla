---------------------------- MODULE RowDisplacement ----------------------------
(***************************************************************************)
(* What a search with either heuristic promises, whatever the order in     *)
(* which it lays the buckets and the places it finds for them: the hands   *)
(* of a bucket are shifted together, two hands meet in one slot only if    *)
(* they have one rank, and a table takes the place of the best one only    *)
(* when it is complete and strictly shorter.                               *)
(*                                                                         *)
(* There are no arrays, bit sets or references here: the table that is     *)
(* returned is the one that the offsets say, filled with the ranks of the  *)
(* flat table.                                                             *)
(***************************************************************************)
EXTENDS HashTable

CONSTANT Primes       \* the factors that the search tries

VARIABLES
  flat,        \* the rank of every hand
  best,        \* the shortest table so far
  calling,     \* a call is under way
  prime, shift,  \* its factor and bucket size
  laid         \* the offsets of the buckets laid so far

vars == <<flat, best, calling, prime, shift, laid>>

NothingLaid == [b \in {} |-> 0]

Init ==
  /\ flat \in [Hashes -> 1 .. MaxRank]
  /\ best = FlatTable(flat)
  /\ calling = FALSE /\ prime = 0 /\ shift = 0 /\ laid = NothingLaid

Bucket(k) == BucketOf(prime, shift, k)
Buckets == {Bucket(k) : k \in Hashes}
Slot(l, k) == l[Bucket(k)] + IndexOf(prime, shift, k)
LaidKeys(l) == {k \in Hashes : Bucket(k) \in DOMAIN l}
Fits(l) == \A h, k \in LaidKeys(l) : Slot(l, h) = Slot(l, k) => flat[h] = flat[k]

Slots == {Slot(laid, k) : k \in Hashes}
RankIn(i) == IF i \in Slots THEN flat[CHOOSE k \in Hashes : Slot(laid, k) = i] ELSE 0
IsTableOf(t, n) ==
  /\ n \in {i + 1 : i \in Slots} /\ \A i \in Slots : i < n
  /\ t = [primeSpread |-> prime, offsetShift |-> shift,
          offsetLength |-> 2^(KeyBits - shift),
          offsets |-> [b \in Indices(2^(KeyBits - shift)) |-> IF b \in Buckets THEN laid[b] ELSE 0],
          rankLength |-> n, ranks |-> [i \in Indices(n) |-> RankIn(i)]]

(***************************************************************************)
(* A factor is tried only if no two hands have one place in one bucket.    *)
(***************************************************************************)
Begin(p, s) ==
  /\ ~calling /\ p \in Nat /\ ~KeysCollide(p)
  /\ calling' = TRUE /\ prime' = p /\ shift' = s
  /\ UNCHANGED <<flat, best, laid>>

Lay(b, o) ==
  /\ calling /\ b \in Buckets \ DOMAIN laid
  /\ laid' = [c \in DOMAIN laid \cup {b} |-> IF c = b THEN o ELSE laid[c]]
  /\ Fits(laid')
  /\ UNCHANGED <<flat, best, calling, prime, shift>>

Over == calling' = FALSE /\ prime' = 0 /\ shift' = 0 /\ laid' = NothingLaid

GiveUp == calling /\ Over /\ UNCHANGED <<flat, best>>

Finish ==
  /\ calling /\ DOMAIN laid = Buckets
  /\ IsTableOf(best', best'.rankLength)
  /\ Size(best') < Size(best)
  /\ Over /\ UNCHANGED flat

Next ==
  \/ \E p \in Primes, s \in 0 .. KeyBits : Begin(p, s)
  \/ \E b \in Buckets, o \in Indices(2^ShortBits) : Lay(b, o)
  \/ GiveUp \/ Finish

Spec == Init /\ [][Next]_vars
=============================================================================
