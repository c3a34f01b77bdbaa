-------------------------------- MODULE FiveEval --------------------------------
(***************************************************************************)
(* FiveEval, the oracle of the C++ tests: the ranking of five cards        *)
(* written a second time, with loops of its own, and seven cards ranked by *)
(* trying all hands of five.  "The higher the rank the better the hand.    *)
(* Two hands of equal rank tie" (FiveEval.h:32).                           *)
(*                                                                         *)
(* A hand of the loops is a tuple of faces, <<i, i, j, k, l>> for a pair,  *)
(* so that a section is visited in lexicographic order; a card is a number *)
(* below 4 * FACES, the ace of the first suit being 0; an index of         *)
(* mFlushRankPtr is a set of faces.                                        *)
(***************************************************************************)
EXTENDS Integers, Sequences, FiniteSets, FiniteSetsExt

CONSTANTS FACES,   \* NUMBER_OF_FACES
          face     \* face[]: TWO_FIVE .. ACE_FIVE

Ace == FACES - 1
Tuples == [1 .. 5 -> 0 .. Ace]

(***************************************************************************)
(* The loops.  The innermost one of the high cards stops at the first      *)
(* straight, the one of the flushes passes over it.                        *)
(***************************************************************************)
Straight(i, j, m) == i - m = 4 \/ (i = Ace /\ j = 3)
Nested(h) == /\ h[1] >= 5 /\ h[2] >= 3 /\ h[3] >= 2 /\ h[4] >= 1
             /\ \A n \in 1 .. 4 : h[n] > h[n + 1]
HighCards == {h \in Tuples : Nested(h) /\ \A m \in 0 .. h[5] : ~Straight(h[1], h[2], m)}
Flushes == {h \in Tuples : Nested(h) /\ ~Straight(h[1], h[2], h[5])}

\* seeded fault: the first kicker of a pair starts where that of a high card does
PairsFromThree ==
  {h \in {<<i, i, j, k, l>> : i, j, k, l \in 0 .. Ace} :
     h[3] >= 3 /\ h[4] < h[3] /\ h[5] < h[4] /\ h[1] \notin {h[3], h[4], h[5]}}

Pairs ==
  {h \in {<<i, i, j, k, l>> : i, j, k, l \in 0 .. Ace} :
     h[3] >= 2 /\ h[4] < h[3] /\ h[5] < h[4] /\ h[1] \notin {h[3], h[4], h[5]}}
TwoPairs == {h \in {<<i, i, j, j, k>> : i, j, k \in 0 .. Ace} : h[3] < h[1] /\ h[5] \notin {h[1], h[3]}}
Triples == {h \in {<<i, i, i, j, k>> : i, j, k \in 0 .. Ace} : h[5] < h[4] /\ h[1] \notin {h[4], h[5]}}
LowStraight == {<<Ace, 0, 1, 2, 3>>}
Straights == {<<i, i + 1, i + 2, i + 3, i + 4>> : i \in 0 .. FACES - 5}
FullHouses == {h \in {<<i, i, i, j, j>> : i, j \in 0 .. Ace} : h[1] # h[5]}
Quads == {h \in {<<i, i, i, i, j>> : i, j \in 0 .. Ace} : h[1] # h[5]}

Sections == <<HighCards, Pairs, TwoPairs, Triples, LowStraight, Straights,
              Flushes, FullHouses, Quads, LowStraight, Straights>>
FlushSections == {7, 10, 11}

(***************************************************************************)
(* The constructor: n counts the visits, and a later one overwrites an     *)
(* earlier one.  Nothing else is assigned.                                 *)
(***************************************************************************)
Sum(h) == face[h[1]] + face[h[2]] + face[h[3]] + face[h[4]] + face[h[5]]
FacesOf(h) == {h[n] : n \in 1 .. 5}
Before(g, h) == \E n \in 1 .. 5 : g[n] < h[n] /\ \A m \in 1 .. n - 1 : g[m] = h[m]

LastVisits(visits) ==
  [x \in {v.at : v \in visits} |-> Max({v.n : v \in {v \in visits : v.at = x}})]

Constructed ==
  LET loops == Sections
      earlier[s \in 1 .. Len(loops)] ==
        IF s = 1 THEN 0 ELSE earlier[s - 1] + Cardinality(loops[s - 1])
      visits(S) == UNION {{[hand |-> h, n |-> 1 + earlier[s] + Cardinality({g \in loops[s] : Before(g, h)})] :
                             h \in loops[s]} : s \in S}
  IN  [mRankPtr |-> LastVisits({[at |-> Sum(v.hand), n |-> v.n] : v \in visits(DOMAIN loops \ FlushSections)}),
       mFlushRankPtr |-> LastVisits({[at |-> FacesOf(v.hand), n |-> v.n] : v \in visits(FlushSections)})]

(***************************************************************************)
(* The arrays come from new without an initialiser: an element that was    *)
(* not assigned holds anything, at worst a rank above all others.          *)
(***************************************************************************)
Indeterminate == 2^16 - 1
Element(array, x) == IF x \in DOMAIN array THEN array[x] ELSE Indeterminate

mDeckcardsFace(c) == Ace - c \div 4
mDeckcardsSuit(c) == c % 4

GetRankOfFive(t, hand) ==
  LET keyOf(c) == face[mDeckcardsFace(c)]
  IN  IF Cardinality({mDeckcardsSuit(c) : c \in hand}) = 1
        THEN Element(t.mFlushRankPtr, {mDeckcardsFace(c) : c \in hand})
        ELSE Element(t.mRankPtr, MapThenSumSet(keyOf, hand))

(***************************************************************************)
(* Two cards left out, in all ways; rankOfFive gives the rank of the rest. *)
(***************************************************************************)
GetRankOfSeven(rankOfFive, hand) ==
  Max({rankOfFive[hand \ {p[1], p[2]}] : p \in {p \in hand \X hand : p[1] < p[2]}})
=============================================================================
