------------------------------ MODULE FiveRanking ------------------------------
(***************************************************************************)
(* The ranking of five cards: generateFlatTableFive of TablesGenerator     *)
(* numbers the hands from the weakest to the strongest, loop after loop.   *)
(* FiveEval.cpp, the oracle of the C++ tests, does the same in C++.        *)
(*                                                                         *)
(* A hand is a tuple of five faces, written so that the nested loops visit *)
(* the hands of a section in lexicographic order: <<p, p, c1, c2, c3>> for *)
(* a pair.  The number 12 of the code is FACES - 1, the ace.  An index of  *)
(* FLUSH_RANKS, a bit for each face, is a set of faces.                    *)
(***************************************************************************)
EXTENDS Integers, Sequences, FiniteSets

CONSTANTS FACES,      \* 13
          KeyFive     \* CARD_VALUE_KEYS_FIVE

Ace == FACES - 1
Faces == 0 .. Ace

Before(g, h) == \E i \in 1 .. 5 : g[i] < h[i] /\ \A j \in 1 .. i - 1 : g[j] = h[j]
IsFirst(h, S) == h \in S /\ \A g \in S \ {h} : Before(h, g)

(***************************************************************************)
(* The sections, in the order of the code.                                 *)
(***************************************************************************)
IsStraight(h) == h[1] - h[5] = 4 \/ (h[1] = Ace /\ h[2] = 3)
Descending == {h \in [1 .. 5 -> Faces] : \A i \in 1 .. 4 : h[i] > h[i + 1]}

\* seeded fault: the low straight is not left out
UnpairedAndLow == {h \in Descending : h[1] - h[5] # 4}

Unpaired == {h \in Descending : ~IsStraight(h)}
Pairs == {<<p, p, c1, c2, c3>> : p, c1, c2, c3 \in Faces}
           \cap {h \in [1 .. 5 -> Faces] : h[3] > h[4] /\ h[4] > h[5] /\ \A i \in 3 .. 5 : h[i] # h[1]}
TwoPairs == {h \in {<<p, p, q, q, c>> : p, q, c \in Faces} : h[3] < h[1] /\ h[5] \notin {h[1], h[3]}}
Trips == {h \in {<<t, t, t, c1, c2>> : t, c1, c2 \in Faces} : h[5] < h[4] /\ h[1] \notin {h[4], h[5]}}

LowStraight == {<<0, 1, 2, 3, Ace>>}
Straights == {[i \in 1 .. 5 |-> low + i - 1] : low \in 0 .. FACES - 5}

\* seeded fault: the pair runs below the trips only
FullHousesBelow == {h \in {<<t, t, t, p, p>> : t, p \in Faces} : h[5] < h[1]}

FullHouses == {h \in {<<t, t, t, p, p>> : t, p \in Faces} : h[1] # h[5]}
Quads == {h \in {<<q, q, q, q, c>> : q, c \in Faces} : h[1] # h[5]}

Sections ==
  <<Unpaired, Pairs, TwoPairs, Trips, LowStraight, Straights,
    Unpaired, FullHouses, Quads, LowStraight, Straights>>
FlushSections == {7, 10, 11}

VARIABLES
  section,       \* the loops that are running
  todo,          \* the hands that they have not visited yet
  currentRank,   \* currentRank
  ranks,         \* ranks, where it has been assigned: key -> rank
  lastHash,      \* the last element of hashes
  FLUSH_RANKS    \* FLUSH_RANKS, where it has been assigned: faces -> rank

vars == <<section, todo, currentRank, ranks, lastHash, FLUSH_RANKS>>

Done == todo = {}
Hand == CHOOSE h \in todo : IsFirst(h, todo)
Key(h) == KeyFive[h[1]] + KeyFive[h[2]] + KeyFive[h[3]] + KeyFive[h[4]] + KeyFive[h[5]]
FacesOf(h) == {h[i] : i \in 1 .. 5}
Assigned(f, x, y) == [z \in DOMAIN f \cup {x} |-> IF z = x THEN y ELSE f[z]]

Init ==
  /\ section = 1 /\ todo = Sections[1]
  /\ currentRank = 1
  /\ ranks = [k \in {} |-> 0] /\ lastHash = 0
  /\ FLUSH_RANKS = [S \in {} |-> 0]

Advance(h) ==
  IF todo # {h}
    THEN todo' = todo \ {h} /\ UNCHANGED section
    ELSE /\ section' = section + 1
         /\ todo' = IF section = Len(Sections) THEN {} ELSE Sections[section + 1]

(***************************************************************************)
(* hashes.add(hash), ranks[hash] = currentRank++.                          *)
(***************************************************************************)
RankByKey(h) ==
  /\ section \notin FlushSections /\ IsFirst(h, todo)
  /\ ranks' = Assigned(ranks, Key(h), currentRank)
  /\ lastHash' = Key(h)
  /\ currentRank' = currentRank + 1
  /\ Advance(h)
  /\ UNCHANGED FLUSH_RANKS

(***************************************************************************)
(* FLUSH_RANKS[(1 << c1) | ... | (1 << c5)] = currentRank++.               *)
(***************************************************************************)
RankFlush(h) ==
  /\ section \in FlushSections /\ IsFirst(h, todo)
  /\ FLUSH_RANKS' = Assigned(FLUSH_RANKS, FacesOf(h), currentRank)
  /\ currentRank' = currentRank + 1
  /\ Advance(h)
  /\ UNCHANGED <<ranks, lastHash>>

Next == \E h \in todo : RankByKey(h) \/ RankFlush(h)

Spec == Init /\ [][Next]_vars

-------------------------------------------------------------------------------
TypeOK ==
  /\ section \in 1 .. Len(Sections) + 1
  /\ IF Done THEN section = Len(Sections) + 1 ELSE todo \subseteq Sections[section]
  /\ currentRank \in Nat /\ lastHash \in Nat
  /\ DOMAIN ranks \subseteq Nat /\ DOMAIN FLUSH_RANKS \subseteq SUBSET Faces
  /\ \A k \in DOMAIN ranks : ranks[k] \in 1 .. currentRank - 1
  /\ \A S \in DOMAIN FLUSH_RANKS : FLUSH_RANKS[S] \in 1 .. currentRank - 1

(***************************************************************************)
(* The rules of the game, by definition: the category, then the faces that *)
(* come most often, then the highest.                                      *)
(***************************************************************************)
Copies(h, f) == Cardinality({i \in 1 .. 5 : h[i] = f})
Times(h, n) == {f \in Faces : Copies(h, f) = n}
Wheel == {0, 1, 2, 3, Ace}
Runs == {Wheel} \cup {low .. low + 4 : low \in 0 .. FACES - 5}
Category(h, flush) ==
  IF FacesOf(h) \in Runs THEN IF flush THEN 8 ELSE 4
  ELSE IF flush THEN 5
  ELSE IF Times(h, 4) # {} THEN 7
  ELSE IF Times(h, 3) # {} THEN IF Times(h, 2) # {} THEN 6 ELSE 3
  ELSE Cardinality(Times(h, 2))
Highest(S) == CHOOSE f \in S : \A g \in S : g <= f
TieBreak(g, h) ==
  IF FacesOf(g) \in Runs
    THEN FacesOf(g) # Wheel /\ (FacesOf(h) = Wheel \/ Highest(FacesOf(g)) > Highest(FacesOf(h)))
    ELSE \E n \in 1 .. 4 :
           /\ \A m \in n + 1 .. 4 : Times(g, m) = Times(h, m)
           /\ Times(g, n) # Times(h, n)
           /\ Highest((Times(g, n) \ Times(h, n)) \cup (Times(h, n) \ Times(g, n))) \in Times(g, n)
Beats(g, gFlush, h, hFlush) ==
  \/ Category(g, gFlush) > Category(h, hFlush)
  \/ Category(g, gFlush) = Category(h, hFlush) /\ TieBreak(g, h)

(***************************************************************************)
(* "The higher the rank the better the hand" (FiveEval.h:32): each hand    *)
(* that is numbered beats the one numbered before it.                      *)
(***************************************************************************)
NumberedInOrder ==
  ~Done' => Beats(Hand', section' \in FlushSections, Hand, section \in FlushSections)
RanksAscend == [][NumberedInOrder]_vars

(***************************************************************************)
(* "Two hands of equal rank tie" (FiveEval.h:32): in the end every hand    *)
(* that can be dealt has a number of its own, in a place of its own, and   *)
(* nothing else has one.  The constructor of HashTable takes the width of  *)
(* a key from the last hash (HashTable.java:35): it is the largest.        *)
(***************************************************************************)
Dealt == {h \in [1 .. 5 -> Faces] : /\ \A i \in 1 .. 4 : h[i] <= h[i + 1]
                                    /\ Times(h, 5) = {}}
EveryHandRanked ==
  Done => /\ DOMAIN ranks = {Key(h) : h \in Dealt}
          /\ Cardinality(DOMAIN ranks) = Cardinality(Dealt)
          /\ DOMAIN FLUSH_RANKS = {S \in SUBSET Faces : Cardinality(S) = 5}
          /\ currentRank = 1 + Cardinality(Dealt) + Cardinality(DOMAIN FLUSH_RANKS)
          /\ \A k \in DOMAIN ranks : k <= lastHash
=============================================================================
