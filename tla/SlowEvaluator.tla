------------------------------ MODULE SlowEvaluator -----------------------------
(***************************************************************************)
(* SlowEvaluator, the oracle of the Java tests: the class of a hand found  *)
(* by the rules of the game, from the faces that come once, twice, three   *)
(* and four times.                                                         *)
(*                                                                         *)
(* A hand is the set of the bits of the long: face + FACES * suit.  Masks  *)
(* of faces are sets of faces: & | ^ ~ become intersection, union and      *)
(* difference, numberOfTrailingZeros the least face, 31 -                  *)
(* numberOfLeadingZeros the greatest.  The literals that stand for         *)
(* thirteen faces (12, 11, 66, 220) are written for FACES.                 *)
(***************************************************************************)
EXTENDS Integers, FiniteSets, FiniteSetsExt

CONSTANT FACES

Ace == FACES - 1
Faces == 0 .. Ace

Lowest(S) == CHOOSE f \in S : \A g \in S : f <= g
Highest(S) == CHOOSE f \in S : \A g \in S : g <= f
WithoutLowest(S) == S \ {Lowest(S)}

(***************************************************************************)
(* initDoubleRanks, initTripleRanks: the sets of n faces in the order of   *)
(* their masks, from 1.                                                    *)
(***************************************************************************)
BitOf(f) == 2^f
Mask(S) == MapThenSumSet(BitOf, S)
Numbered(Sets) ==
  LET mask == [S \in Sets |-> Mask(S)]
  IN  [S \in Sets |-> Cardinality({T \in Sets : mask[T] <= mask[S]})]
TripleRanks == Numbered(kSubset(3, Faces))
DoubleRanks == Numbered(kSubset(2, Faces))

(***************************************************************************)
(* initNoPairRanks: straights from -1 (A2345) downwards, other hands of    *)
(* five from 1 upwards; six and seven cards have the best rank of those    *)
(* with one card less, where a straight is better than none.               *)
(***************************************************************************)
BestReduced(ranks) == IF \E r \in ranks : r < 0 THEN Min(ranks) ELSE Max(ranks)
NoPairRanks ==
  LET wheel == {0, 1, 2, 3, Ace}
      straights == {low .. low + 4 : low \in 0 .. FACES - 5}
      high == Numbered(kSubset(5, Faces) \ (straights \cup {wheel}))
      five == [S \in kSubset(5, Faces) |->
                 IF S = wheel THEN -1 ELSE IF S \in straights THEN -2 - Lowest(S) ELSE high[S]]
      six == [S \in kSubset(6, Faces) |-> BestReduced({five[S \ {f}] : f \in S})]
      seven == [S \in kSubset(7, Faces) |-> BestReduced({six[S \ {f}] : f \in S})]
  IN  [S \in DOMAIN five \cup DOMAIN six \cup DOMAIN seven |->
         CASE Cardinality(S) = 5 -> five[S] [] Cardinality(S) = 6 -> six[S] [] OTHER -> seven[S]]

(***************************************************************************)
(* The place of a hand in its category: the faces left for the kickers are *)
(* numbered without those of the pair, the trips or the quads.             *)
(***************************************************************************)
Normalized(kickers, f) == {k \in kickers : k < f} \cup {k - 1 : k \in {k \in kickers : k > f}}
PlaceOfPair(t, pair, kickers) ==
  pair * (((FACES - 1) * (FACES - 2) * (FACES - 3)) \div 6) + t.THREE_VALUES_RANKS[Normalized(kickers, pair)]
PlaceOfDoublePair(t, pairs, kicker) ==
  (t.TWO_VALUES_RANKS[pairs] - 1) * (FACES - 2) + 1 + kicker - Cardinality({p \in pairs : p < kicker})
PlaceOfTrips(t, trips, kickers) ==
  trips * (((FACES - 1) * (FACES - 2)) \div 2) + t.TWO_VALUES_RANKS[Normalized(kickers, trips)]
PlaceOfTwoFaces(most, other) == most * (FACES - 1) + 1 + (IF other > most THEN other - 1 ELSE other)

(***************************************************************************)
(* The static block: the highest class of each category, from the lowest.  *)
(***************************************************************************)
Statics ==
  LET ranks == [NO_PAIR_RANKS |-> NoPairRanks, TWO_VALUES_RANKS |-> DoubleRanks, THREE_VALUES_RANKS |-> TripleRanks]
      highest == ranks.NO_PAIR_RANKS[(Ace - 3 .. Ace) \cup {Ace - 5}]
      straights == -ranks.NO_PAIR_RANKS[Ace - 4 .. Ace]
      pair == highest + PlaceOfPair(ranks, Ace, Ace - 3 .. Ace - 1)
      doublePair == pair + PlaceOfDoublePair(ranks, {Ace - 1, Ace}, Ace - 2)
      trips == doublePair + PlaceOfTrips(ranks, Ace, {Ace - 2, Ace - 1})
      full == trips + straights + highest + PlaceOfTwoFaces(Ace, Ace - 1)
      quads == full + PlaceOfTwoFaces(Ace, Ace - 1)
  IN  [NO_PAIR_RANKS |-> ranks.NO_PAIR_RANKS, TWO_VALUES_RANKS |-> ranks.TWO_VALUES_RANKS,
       THREE_VALUES_RANKS |-> ranks.THREE_VALUES_RANKS,
       MAX_HIGH_CARD_CLASS |-> highest, MAX_PAIR_CLASS |-> pair, MAX_DOUBLE_PAIR_CLASS |-> doublePair,
       MAX_THREE_OF_A_KIND_CLASS |-> trips, MAX_STRAIGHT_CLASS |-> trips + straights,
       MAX_FLUSH_CLASS |-> trips + straights + highest, MAX_FULL_CLASS |-> full, MAX_QUADS_CLASS |-> quads,
       MAX_STRAIGHT_FLUSH_CLASS |-> quads + straights]

FlushClass(t, S) == LET rank == t.NO_PAIR_RANKS[S] IN IF rank >= 0 THEN rank + t.MAX_STRAIGHT_CLASS ELSE t.MAX_QUADS_CLASS - rank
NoFlushNoPairClass(t, S) == LET rank == t.NO_PAIR_RANKS[S] IN IF rank >= 0 THEN rank ELSE t.MAX_THREE_OF_A_KIND_CLASS - rank
PairClass(t, pair, kickers) == t.MAX_HIGH_CARD_CLASS + PlaceOfPair(t, pair, kickers)
DoublePairClass(t, pairs, kicker) == t.MAX_PAIR_CLASS + PlaceOfDoublePair(t, pairs, kicker)
TripsClass(t, trips, kickers) == t.MAX_DOUBLE_PAIR_CLASS + PlaceOfTrips(t, trips, kickers)
FullClass(t, trips, pair) == t.MAX_FLUSH_CLASS + PlaceOfTwoFaces(trips, pair)
QuadsClass(t, quads, kicker) == t.MAX_FULL_CLASS + PlaceOfTwoFaces(quads, kicker)

(***************************************************************************)
(* What the loop over the suits gathers.  Two cards of a face whose suits  *)
(* are two apart are certain only when there are three of them.            *)
(***************************************************************************)
Suited(hand) == [s \in 0 .. 3 |-> {f \in Faces : f + FACES * s \in hand}]
Or(suits) == suits[0] \cup suits[1] \cup suits[2] \cup suits[3]
And(suits) == suits[0] \cap suits[1] \cap suits[2] \cap suits[3]
Xor(suits) == {f \in Faces : Cardinality({s \in 0 .. 3 : f \in suits[s]}) % 2 = 1}
TwoApart(suits) == (suits[0] \cap suits[2]) \cup (suits[1] \cap suits[3])

(***************************************************************************)
(* Seven cards of three and of four faces, without quads: 3 3 1, 3 2 2;    *)
(* 2 2 2 1, 3 2 1 1.                                                       *)
(***************************************************************************)
ClassOfThreeFaces(t, suits, or, xor) ==
  IF Cardinality(xor) = 1
    THEN FullClass(t, Lowest(xor), Highest(or \ xor))
    ELSE LET trips == TwoApart(suits) \cap or IN FullClass(t, Highest(trips), Lowest(trips))

ClassOfFourFaces(t, suits, or, xor) ==
  IF Cardinality(xor) = 1
    THEN LET pairs == WithoutLowest(or \ xor) IN DoublePairClass(t, pairs, Highest(or \ pairs))
    ELSE FullClass(t, Lowest(TwoApart(suits) \cap xor), Lowest(or \ xor))

(***************************************************************************)
(* Five faces and no straight: 2 2 1 1 1, 3 1 1 1 1.                       *)
(***************************************************************************)
ClassOfFiveFaces(t, suits, or, xor) ==
  IF xor # or
    THEN DoublePairClass(t, or \ xor, Highest(xor))
    ELSE LET trips == TwoApart(suits) \cap xor
         IN  TripsClass(t, Lowest(trips), WithoutLowest(WithoutLowest(or \ trips)))

get7CardsHandClass(t, hand) ==
  LET suits == Suited(hand)
      or == Or(suits)   and == And(suits)   xor == Xor(suits)
      flushes == {s \in 0 .. 3 : Cardinality(suits[s]) >= 5}
      high == NoFlushNoPairClass(t, or)
  IN  CASE and # {} -> QuadsClass(t, Lowest(and), Highest(or \ and))
        [] and = {} /\ Cardinality(or) = 3 -> ClassOfThreeFaces(t, suits, or, xor)
        [] and = {} /\ Cardinality(or) = 4 -> ClassOfFourFaces(t, suits, or, xor)
        [] OTHER ->
             IF flushes # {} THEN FlushClass(t, suits[Highest(flushes)])
             ELSE CASE high > t.MAX_THREE_OF_A_KIND_CLASS \/ Cardinality(or) = 7 -> high
                    [] high <= t.MAX_THREE_OF_A_KIND_CLASS /\ Cardinality(or) = 5 -> ClassOfFiveFaces(t, suits, or, xor)
                    [] high <= t.MAX_THREE_OF_A_KIND_CLASS /\ Cardinality(or) = 6 ->
                         PairClass(t, Lowest(or \ xor), WithoutLowest(WithoutLowest(xor)))

get5CardsHandClass(t, hand) ==
  LET suits == Suited(hand)
      or == Or(suits)   and == And(suits)   xor == Xor(suits)
      trips == TwoApart(suits)
  IN  IF \E s \in 0 .. 3 : Cardinality(suits[s]) = 5 THEN FlushClass(t, or)
      ELSE CASE Cardinality(or) = 5 -> NoFlushNoPairClass(t, or)
             [] Cardinality(or) = 4 -> PairClass(t, Lowest(or \ xor), xor)
             [] Cardinality(or) = 3 -> IF Cardinality(xor) = 1
                                         THEN DoublePairClass(t, or \ xor, Lowest(xor))
                                         ELSE TripsClass(t, Lowest(trips), or \ trips)
             [] Cardinality(or) = 2 -> IF and = {}
                                         THEN FullClass(t, Lowest(xor), Lowest(or \ xor))
                                         ELSE QuadsClass(t, Lowest(and), Lowest(xor))
             [] OTHER -> 0
=============================================================================
