------------------------------ MODULE KeyScheme ------------------------------
(***************************************************************************)
(* Bootstrap.java: the greedy search for the keys of the faces and of the  *)
(* suits.  A key is accepted when the sums of all the hands it takes part  *)
(* in are new; only hands of which the new key is the highest are summed,  *)
(* and compared with the sums that were validated before.                  *)
(*                                                                         *)
(* The three generators are one search, with different hands: "seven" for  *)
(* the faces of seven cards, "five" for those of five, "suits" for the     *)
(* suits of seven.  A hand is a tuple of places of keys, in ascending      *)
(* order; a hash set of ints is a set and its capacity: a set can be       *)
(* copied only to one of the same capacity.                                *)
(***************************************************************************)
EXTENDS Integers, FiniteSets

CONSTANTS Faces,      \* FACES, for each of the three generators
          MaxDoublings   \* bound on how often a hash set grows

Methods == {"seven", "five", "suits"}

ASSUME SchemeAssumption == Faces \in [Methods -> Nat] /\ MaxDoublings \in Nat

(***************************************************************************)
(* The cards of a hand, and how many of them can be of one face: SUITS;    *)
(* the bounds of the loops have the four of them built in.                 *)
(***************************************************************************)
Cards == [seven |-> 7, five |-> 5, suits |-> 7]
Limit == [seven |-> 4, five |-> 4, suits |-> 7]

VARIABLES
  method,      \* which of the three generators runs
  keys,        \* the keys accepted so far, from place 0 on
  nextKey,     \* nextKey
  validated,   \* validatedHashes
  capacity,    \* its capacity
  current      \* the capacity of currentHashes

vars == <<method, keys, nextKey, validated, capacity, current>>

Ascends(c) == \A n \in DOMAIN c : n + 1 \in DOMAIN c => c[n] <= c[n + 1]

\* seeded fault: k5 runs from k4 on
LoopFiveOfAKind(m, k) ==
  {c \in [1 .. Cards[m] -> 0 .. k] :
     /\ Ascends(c) /\ c[Cards[m]] = k
     /\ m = "seven" => c[3] < k /\ c[2] < c[6]
     /\ m = "five"  => c[1] < k}

\* seeded fault: k4 stops before k
LoopWithoutThirdCopy(m, k) ==
  {c \in [1 .. Cards[m] -> 0 .. k] :
     /\ Ascends(c) /\ c[Cards[m]] = k
     /\ m = "seven" => c[4] < k /\ c[1] < c[5] /\ c[2] < c[6]
     /\ m = "five"  => c[1] < k}

(***************************************************************************)
(* The hands that the nested loops visit for the key in place k, which is  *)
(* the last card.  For seven cards k1, k2, k3 stay below k, k5 starts      *)
(* above k1 and k6 above k2, so that no face comes five times; for five    *)
(* cards k1 stays below k.                                                 *)
(***************************************************************************)
Loop(m, k) ==
  {c \in [1 .. Cards[m] -> 0 .. k] :
     /\ Ascends(c) /\ c[Cards[m]] = k
     /\ m = "seven" => c[3] < k /\ c[1] < c[5] /\ c[2] < c[6]
     /\ m = "five"  => c[1] < k}

Loops == [m \in Methods |-> [k \in 0 .. Faces[m] - 1 |-> Loop(m, k)]]

(***************************************************************************)
(* The argument of currentHashes.add: the keys of the cards, five or seven *)
(* of them.                                                                *)
(***************************************************************************)
KeyOf(c, n, key) == IF n \in DOMAIN c THEN key[c[n]] ELSE 0
Sum(c, key) == KeyOf(c, 1, key) + KeyOf(c, 2, key) + KeyOf(c, 3, key) + KeyOf(c, 4, key)
               + KeyOf(c, 5, key) + KeyOf(c, 6, key) + KeyOf(c, 7, key)

Place == Cardinality(DOMAIN keys)
With(key) == [n \in DOMAIN keys \cup {Place} |-> IF n = Place THEN key ELSE keys[n]]
Sums == {Sum(c, With(nextKey)) : c \in Loops[method][Place]}

(***************************************************************************)
(* IntHashSet of the library Agrona: the capacity is doubled when an       *)
(* element is added beyond 65 % of it.                                     *)
(***************************************************************************)
InitialCapacity == 8
Threshold(c) == (c * 65) \div 100
Fitting(c, size) == {d \in {c * 2^n : n \in 0 .. MaxDoublings} : size <= Threshold(d)}
Grown(c, size) == CHOOSE d \in Fitting(c, size) : \A e \in Fitting(c, size) : d <= e

(***************************************************************************)
(* The hands that can be dealt, by definition: how many copies of each     *)
(* face, no more than the deck has.                                        *)
(***************************************************************************)
Hands == [m \in Methods |-> [faces \in 0 .. Faces[m] |->
           {c \in [1 .. Cards[m] -> 0 .. faces - 1] :
              /\ Ascends(c)
              /\ \A f \in 0 .. faces - 1 :
                   Cardinality({n \in 1 .. Cards[m] : c[n] = f}) <= Limit[m]}]]

(***************************************************************************)
(* The bound is no bound: the largest capacity has room for all the hands. *)
(***************************************************************************)
ASSUME DoublingsAssumption ==
  \A m \in Methods :
    Cardinality(Hands[m][Faces[m]]) <= Threshold(InitialCapacity * 2^MaxDoublings)

Init ==
  /\ method \in Methods
  /\ keys = [n \in {} |-> 0] /\ nextKey = 0
  /\ validated = {} /\ capacity = InitialCapacity /\ current = InitialCapacity

\* seeded fault: the sums of two new hands are not compared
OldClash == Sums \cap validated # {}

(***************************************************************************)
(* currentHashes.add fails: the sum is a validated one or one of this      *)
(* round, which started from the validated ones.                           *)
(***************************************************************************)
Clash == \/ Sums \cap validated # {}
         \/ Cardinality(Sums) < Cardinality(Loops[method][Place])

\* seeded fault: validatedHashes keeps its capacity
NotRehashed == capacity

(***************************************************************************)
(* The capacity of validatedHashes when it is copied: it is rehashed first *)
(* if a round has made currentHashes grow.                                 *)
(***************************************************************************)
Rehashed == IF current > capacity THEN current ELSE capacity

Turn == Place < Faces[method] /\ Rehashed = current

(***************************************************************************)
(* The do loop turns again: the next copy drops what the round has added   *)
(* before the clash, which may be any number of its sums, but not the      *)
(* capacity.                                                               *)
(***************************************************************************)
Reject ==
  /\ Turn /\ Clash
  /\ nextKey' = nextKey + 1
  /\ capacity' = Rehashed
  /\ current' \in {Grown(current, Cardinality(validated) + n) : n \in 0 .. Cardinality(Sums \ validated)}
  /\ UNCHANGED <<method, keys, validated>>

\* seeded fault: only the new sums are kept
AcceptForgetting ==
  /\ Turn /\ ~Clash
  /\ keys' = With(nextKey)
  /\ nextKey' = nextKey + 1
  /\ validated' = Sums
  /\ current' = Grown(current, Cardinality(validated'))
  /\ capacity' = current'
  /\ UNCHANGED method

(***************************************************************************)
(* currentHashes becomes validatedHashes, and the next one gets its        *)
(* capacity.                                                               *)
(***************************************************************************)
Accept ==
  /\ Turn /\ ~Clash
  /\ keys' = With(nextKey)
  /\ nextKey' = nextKey + 1
  /\ validated' = validated \cup Sums
  /\ current' = Grown(current, Cardinality(validated'))
  /\ capacity' = current'
  /\ UNCHANGED method

Next == Reject \/ Accept

Spec == Init /\ [][Next]_vars

-------------------------------------------------------------------------------
(***************************************************************************)
(* IntHashSet.copy is never refused for capacities that differ, although   *)
(* rounds that are rejected leave a set that has grown.                    *)
(***************************************************************************)
CopyNeverRefused == Place < Faces[method] => Rehashed = current

SumsOf(key) == {Sum(c, key) : c \in Hands[method][Cardinality(DOMAIN key)]}
Identifies(key) == Cardinality(SumsOf(key)) = Cardinality(Hands[method][Cardinality(DOMAIN key)])

(***************************************************************************)
(* "just enough uniqueness to correctly identify" a hand (README.md:26):   *)
(* no two hands of the faces accepted so far have one sum, although a      *)
(* round looks only at hands of the new face.                              *)
(***************************************************************************)
HandsIdentified == Identifies(keys)

(***************************************************************************)
(* The sums that a round starts from are those of all the hands that can   *)
(* be dealt from the accepted faces: none is missing, none belongs to a    *)
(* hand that cannot be dealt.                                              *)
(***************************************************************************)
ValidatedExact == validated = SumsOf(keys)

(***************************************************************************)
(* "the first thirteen non-negative integers such that" the sums are       *)
(* unique (README.md:28): a key is passed over only when some two hands    *)
(* would have had one sum.                                                 *)
(***************************************************************************)
PassesOverClashes == keys' = keys => ~Identifies(With(nextKey))
KeysLeast == [][PassesOverClashes]_vars

(***************************************************************************)
(* The keys of Constants.h, which the C++ evaluators were written with,    *)
(* are the ones this search finds.                                         *)
(***************************************************************************)
Published ==
  [seven |-> <<0, 1, 5, 22, 98, 453, 2031, 8698, 22854, 83661, 262349, 636345, 1479181>>,
   five  |-> <<0, 1, 5, 22, 94, 312, 992, 2422, 5624, 12522, 19998, 43258, 79415>>,
   suits |-> <<0, 1, 8, 57>>]
AsPublished == \A n \in DOMAIN keys : keys[n] = Published[method][n + 1]
=============================================================================
