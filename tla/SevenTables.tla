------------------------------ MODULE SevenTables ------------------------------
(***************************************************************************)
(* The static initialisers of TablesGenerator, in the order of the code:   *)
(* the ranking of five cards (FiveRanking), FLUSH_RANKS completed for six  *)
(* and seven cards of a suit, and the flat table of seven cards, each the  *)
(* best of its hands of five; and the tables that find a flush.            *)
(***************************************************************************)
EXTENDS Integers, Sequences, FiniteSets

CONSTANTS FACES, KeyFive,
          KeySeven,    \* CARD_VALUE_KEYS
          SuitKeys     \* SUIT_KEYS

Faces == 0 .. FACES - 1
Suits == 0 .. 3

VARIABLES section, todo, currentRank, ranks, lastHash, FLUSH_RANKS
VARIABLES
  toFill,       \* the hands of six or seven that fillSevenFlushRanks has yet to visit
  toRank,       \* the hands that generateFlatTable has yet to visit
  ranksSeven,   \* ranks, where it has been assigned: key -> rank
  lastSeven     \* the last element of its hashes

fiveVars == <<section, todo, currentRank, ranks, lastHash>>
sevenVars == <<toRank, ranksSeven, lastSeven>>
vars == <<fiveVars, FLUSH_RANKS, toFill, sevenVars>>

Five == INSTANCE FiveRanking

OrZero(f, x) == IF x \in DOMAIN f THEN f[x] ELSE 0
Greatest(S) == CHOOSE x \in S : \A y \in S : y <= x

\* seeded fault: c7 may be the face of c3, so that a face comes five times
HandsOfSevenUnbounded ==
  {c \in [1 .. 7 -> Faces] : /\ \A n \in 1 .. 6 : c[n] <= c[n + 1]
                             /\ c[1] < c[5] /\ c[2] < c[6]}

(***************************************************************************)
(* The hands that the loops of generateFlatTable visit: ascending, and no  *)
(* face five times.                                                        *)
(***************************************************************************)
HandsOfSeven ==
  {c \in [1 .. 7 -> Faces] : /\ \A n \in 1 .. 6 : c[n] <= c[n + 1]
                             /\ c[1] < c[5] /\ c[2] < c[6] /\ c[3] < c[7]}

SetsToFill == {S \in SUBSET Faces : Cardinality(S) \in {6, 7}}

Init ==
  /\ Five!Init
  /\ toFill = SetsToFill
  /\ toRank = HandsOfSeven
  /\ ranksSeven = [k \in {} |-> 0] /\ lastSeven = 0

RankFive == Five!Next /\ UNCHANGED <<toFill, sevenVars>>

-------------------------------------------------------------------------------
(***************************************************************************)
(* fillSevenFlushRanks: hands in the order of their bits; the rank is the  *)
(* best of those with one face less, which have been visited before.       *)
(***************************************************************************)
Below(S, T) == S # T /\ Greatest((S \ T) \cup (T \ S)) \in T

\* seeded fault: hands are visited from the highest bits down
FillFlushDownwards(S) ==
  /\ Five!Done /\ \A T \in toFill \ {S} : Below(T, S)
  /\ FLUSH_RANKS' = Five!Assigned(FLUSH_RANKS, S, Greatest({OrZero(FLUSH_RANKS, S \ {f}) : f \in S}))
  /\ toFill' = toFill \ {S}
  /\ UNCHANGED <<fiveVars, sevenVars>>

FillFlush(S) ==
  /\ Five!Done /\ \A T \in toFill \ {S} : Below(S, T)
  /\ FLUSH_RANKS' = Five!Assigned(FLUSH_RANKS, S, Greatest({OrZero(FLUSH_RANKS, S \ {f}) : f \in S}))
  /\ toFill' = toFill \ {S}
  /\ UNCHANGED <<fiveVars, sevenVars>>

-------------------------------------------------------------------------------
Earlier(c, d) == \E i \in 1 .. 7 : c[i] < d[i] /\ \A j \in 1 .. i - 1 : c[j] = d[j]
NextSeven == CHOOSE c \in toRank : \A d \in toRank \ {c} : Earlier(c, d)
KeyOf(c, key) == key[c[1]] + key[c[2]] + key[c[3]] + key[c[4]] + key[c[5]] + key[c[6]] + key[c[7]]

\* seeded fault: the last card is never taken away
BestOfSixCards(c) ==
  Greatest({OrZero(ranks, KeyOf(c, KeyFive) - KeyFive[c[i]] - KeyFive[c[j]]) : i, j \in 1 .. 6} \cup {0})

(***************************************************************************)
(* best5CardsRank: two cards taken away, in all ways.                      *)
(***************************************************************************)
Best5CardsRank(c) ==
  Greatest({OrZero(ranks, KeyOf(c, KeyFive) - KeyFive[c[ij[1]]] - KeyFive[c[ij[2]]]) :
              ij \in {ij \in (1 .. 7) \X (1 .. 7) : ij[2] < ij[1]}})

(***************************************************************************)
(* One hand of generateFlatTable, which fills FLUSH_RANKS first.           *)
(***************************************************************************)
RankSeven(c) ==
  /\ Five!Done /\ toFill = {} /\ toRank # {}
  /\ ranksSeven' = Five!Assigned(ranksSeven, KeyOf(c, KeySeven), Best5CardsRank(c))
  /\ lastSeven' = KeyOf(c, KeySeven)
  /\ toRank' = toRank \ {c}
  /\ UNCHANGED <<fiveVars, FLUSH_RANKS, toFill>>

Next == RankFive \/ (\E S \in toFill : FillFlush(S)) \/ RankSeven(NextSeven)

Spec == Init /\ [][Next]_vars

Done == toRank = {}

-------------------------------------------------------------------------------
(***************************************************************************)
(* FLUSH_CHECK and FLUSH_CHECK_FIVE: the suit of a flush, or -1, for every *)
(* sum of suit keys.  A later suit1 overwrites an earlier one.             *)
(***************************************************************************)
NoSuit == -1

\* seeded fault: the two other cards are of suits above the flush
FlushSumsAbove(suit) ==
  {5 * SuitKeys[suit] + SuitKeys[s] + SuitKeys[t] : s, t \in suit .. 3}

FlushSums(suit) == {5 * SuitKeys[suit] + SuitKeys[s] + SuitKeys[t] : s, t \in Suits}
FlushCheck ==
  [sum \in 0 .. 7 * SuitKeys[3] |->
     IF \E suit \in Suits : sum \in FlushSums(suit)
       THEN Greatest({suit \in Suits : sum \in FlushSums(suit)}) ELSE NoSuit]
FlushCheckFive ==
  [sum \in 0 .. 5 * SuitKeys[3] |->
     IF \E suit \in Suits : sum = 5 * SuitKeys[suit]
       THEN CHOOSE suit \in Suits : sum = 5 * SuitKeys[suit] ELSE NoSuit]

-------------------------------------------------------------------------------
TypeOK ==
  /\ toFill \subseteq SUBSET Faces
  /\ ranksSeven # [k \in {} |-> 0] => Five!Done /\ toFill = {}
  /\ DOMAIN ranksSeven \subseteq Nat /\ lastSeven \in Nat

(***************************************************************************)
(* The ranks of six and seven cards of a suit are read before they are     *)
(* written only if the order of the visits is wrong: each is the best of   *)
(* its flushes of five cards.                                              *)
(***************************************************************************)
FlushIsBestOfFive ==
  Five!Done => \A S \in DOMAIN FLUSH_RANKS :
    FLUSH_RANKS[S] = Greatest({FLUSH_RANKS[T] : T \in {T \in SUBSET S : Cardinality(T) = 5}})

(***************************************************************************)
(* The table of seven cards has exactly the hands that can be dealt, each  *)
(* with a key of its own and below the last one, from which HashTable      *)
(* takes the width of a key (HashTable.java:35).                           *)
(***************************************************************************)
Dealt7 == {c \in [1 .. 7 -> Faces] :
             /\ \A n \in 1 .. 6 : c[n] <= c[n + 1]
             /\ \A f \in Faces : Cardinality({n \in 1 .. 7 : c[n] = f}) <= 4}
EveryHandOfSevenRanked ==
  Done => LET dealt == Dealt7
          IN  /\ DOMAIN ranksSeven = {KeyOf(c, KeySeven) : c \in dealt}
              /\ Cardinality(DOMAIN ranksSeven) = Cardinality(dealt)
              /\ lastSeven = Greatest(DOMAIN ranksSeven)

(***************************************************************************)
(* A flush is found exactly when five of seven cards are of one suit, and  *)
(* its suit is the right one ("Any sum of exactly seven values taken from  *)
(* {0, 1, 8, 57} is unique", README.md:30).                                *)
(***************************************************************************)
SuitCounts == {n \in [Suits -> 0 .. 7] : n[0] + n[1] + n[2] + n[3] = 7}
SumOfSuits(n) == n[0] * SuitKeys[0] + n[1] * SuitKeys[1] + n[2] * SuitKeys[2] + n[3] * SuitKeys[3]
FlushFound ==
  Done => LET check == FlushCheck IN
    \A n \in SuitCounts :
      LET sum == SumOfSuits(n)
      IN  IF \E s \in Suits : n[s] >= 5 THEN check[sum] \in {s \in Suits : n[s] >= 5} ELSE check[sum] = NoSuit
=============================================================================
