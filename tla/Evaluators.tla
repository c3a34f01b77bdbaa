------------------------------- MODULE Evaluators -------------------------------
(***************************************************************************)
(* The evaluators on the tables that the generator made (SevenTables): in  *)
(* one process SevenCardsEvaluator and FiveCardsEvaluator of the Java      *)
(* library beside SlowEvaluator, their oracle; in another SevenEval of C++ *)
(* beside FiveEval.  Each property is a promise of the exhaustive tests,   *)
(* for every hand of a deck.                                               *)
(*                                                                         *)
(* A hand in Java is the set of the bits of the long: value + FACES *      *)
(* suit.  Java ints have IntBits bits: with thirteen faces the sum of the  *)
(* keys of seven cards fills all 32 of them, so that a key can be negative.*)
(***************************************************************************)
EXTENDS Integers, Sequences, FiniteSets, FiniteSetsExt, Folds, TLC

CONSTANTS FACES, KeyFive, KeySeven, SuitKeys,
          Factors,     \* the factors of the compressed tables
          Shifts,      \* their bucket sizes, as powers of two
          IntBits,     \* Integer.SIZE
          Multiplier, FLUSH_BIT_SHIFT, RANK_OFFSET_SHIFT,   \* the literals of the C++ headers
          Deck         \* the cards that hands are dealt from

Suits == 0 .. 3

ASSUME GameAssumption ==
  /\ FACES \in Nat /\ FACES > 5
  /\ KeyFive \in [0 .. FACES - 1 -> Nat] /\ KeySeven \in [0 .. FACES - 1 -> Nat]
  /\ SuitKeys \in [Suits -> Nat] /\ Deck \subseteq 0 .. 4 * FACES - 1

VARIABLES section, todo, currentRank, ranks, lastHash, FLUSH_RANKS, toFill, toRank, ranksSeven, lastSeven
VARIABLES
  seven, five,   \* the static fields of the two classes
  slow,          \* those of SlowEvaluator
  cpp,           \* the arrays of the C++ headers
  oracle         \* the arrays of FiveEval

generator == <<section, todo, currentRank, ranks, lastHash, FLUSH_RANKS, toFill, toRank, ranksSeven, lastSeven>>
java == <<seven, five, slow>>
vars == <<generator, java, cpp, oracle>>

Tables == INSTANCE SevenTables
Slow == INSTANCE SlowEvaluator
Cpp == INSTANCE SevenEval WITH faceKeys <- KeySeven, suitKeys <- SuitKeys
Oracle == INSTANCE FiveEval WITH face <- KeyFive

(***************************************************************************)
(* What Bootstrap searches the keys for (KeyScheme_proofs, KeysAlwaysFit): *)
(* they ascend, and no two hands, nor two sets of suits of seven cards,    *)
(* have one sum.                                                           *)
(***************************************************************************)
ASSUME KeysAssumption ==
  /\ \A f \in 1 .. FACES - 1 : KeyFive[f - 1] < KeyFive[f] /\ KeySeven[f - 1] < KeySeven[f]
  /\ \A s \in 1 .. 3 : SuitKeys[s - 1] < SuitKeys[s]
  /\ LET dealt == Tables!Five!Dealt
     IN  Cardinality({Tables!Five!Key(h) : h \in dealt}) = Cardinality(dealt)
  /\ LET dealt == Tables!Dealt7
     IN  Cardinality({Tables!KeyOf(c, KeySeven) : c \in dealt}) = Cardinality(dealt)
  /\ LET counts == Tables!SuitCounts
     IN  Cardinality({Tables!SumOfSuits(n) : n \in counts}) = Cardinality(counts)

NotLoaded == [HASH_PRIME |-> 0]
OutOfBounds == -1
At(a, i) == IF i \in DOMAIN a THEN a[i] ELSE OutOfBounds

(***************************************************************************)
(* Integer.SIZE - numberOfLeadingZeros(x), and the overflow of an int.     *)
(***************************************************************************)
BitLength(x) == CHOOSE n \in 0 .. IntBits : x < 2^n /\ (n = 0 \/ 2^(n - 1) <= x)
Wrap(x) == ((x + 2^(IntBits - 1)) % 2^IntBits) - 2^(IntBits - 1)

(***************************************************************************)
(* SHORT_TABLE and SHORT_TABLE_FIVE for a factor and a bucket size: the    *)
(* buckets from the fullest, each at the first place where its ranks meet  *)
(* no other ones.  The heuristic that makes SHORT_TABLE chooses another    *)
(* order among buckets of one size; what it promises is the same           *)
(* (RowDisplacement).                                                      *)
(***************************************************************************)
Last(buckets) ==
  CHOOSE b \in buckets : \A c \in buckets : c.count > b.count \/ (c.count = b.count /\ c.index <= b.index)
Fits(entries, slots, o) == \A e \in entries : o + e[1] \in DOMAIN slots => slots[o + e[1]] = e[2]
Shifted(entries, o) == [i \in {o + e[1] : e \in entries} |-> (CHOOSE e \in entries : o + e[1] = i)[2]]

Laid(p, s, rank, keyBits) ==
  LET hash(k) == (p * k) % 2^keyBits
      entries(b) == {<<hash(k) % 2^s, rank[k]>> : k \in {k \in DOMAIN rank : hash(k) \div 2^s = b}}
      bucket(b) == LET es == entries(b) IN [count |-> Cardinality(es), index |-> b, entries |-> es]
      lay(b, laid) ==
        LET offset == CHOOSE o \in 0 .. 2^keyBits - 1 :
                        /\ Fits(b.entries, laid.slots, o)
                        /\ \A lower \in 0 .. o - 1 : ~Fits(b.entries, laid.slots, lower)
        IN  [slots |-> Shifted(b.entries, offset) @@ laid.slots, offsets |-> (b.index :> offset) @@ laid.offsets]
      nothing == [slots |-> <<>>, offsets |-> <<>>]
  IN  MapThenFoldSet(lay, nothing, LAMBDA b : b, Last, {bucket(b) : b \in {hash(k) \div 2^s : k \in DOMAIN rank}})

Compressed(p, s, rank, keyBits) ==
  LET end == Laid(p, s, rank, keyBits)
  IN  [prime |-> p,
       offsets |-> [b \in 0 .. 2^(keyBits - s) - 1 |-> Tables!OrZero(end.offsets, b)],
       ranks |-> [i \in 0 .. Max(DOMAIN end.slots) |-> Tables!OrZero(end.slots, i)]]

(***************************************************************************)
(* The static block and the derived constants: the width of a key comes    *)
(* from the keys, the bits of a bucket from the number of offsets.         *)
(***************************************************************************)
FlushBitShift(cards, key) == BitLength(4 * key[FACES - 1] + (cards - 4) * key[FACES - 2])

(***************************************************************************)
(* The hands with the largest keys have room in an int, and a key has the  *)
(* bits for each of the bucket sizes (HashTable.java:72-74).               *)
(***************************************************************************)
ASSUME WidthAssumption ==
  /\ IntBits \in Nat \ {0}
  /\ 4 * KeySeven[FACES - 1] + 3 * KeySeven[FACES - 2] < 2^IntBits
  /\ 4 * KeyFive[FACES - 1] + KeyFive[FACES - 2] < 2^IntBits
  /\ Shifts \subseteq 0 .. FlushBitShift(7, KeySeven) \cap 0 .. FlushBitShift(5, KeyFive)

\* seeded fault: the bits of a bucket are taken from the number of offsets itself
HashShiftWithoutOne(flushBitShift, offsets) == flushBitShift - BitLength(Cardinality(DOMAIN offsets))

HashShift(flushBitShift, offsets) == flushBitShift - BitLength(Cardinality(DOMAIN offsets) - 1)
Statics(cards, key, check, table) ==
  LET shift == FlushBitShift(cards, key)
  IN  [CARDS |-> [card \in 0 .. 4 * FACES - 1 |->
                    Wrap(key[card % FACES] + SuitKeys[card \div FACES] * 2^shift)],
       FLUSH_BIT_SHIFT |-> shift,
       FLUSH_CHECK |-> check,
       FLUSH_RANKS |-> FLUSH_RANKS,
       HASH_PRIME |-> table.prime,
       HASH_OFFSETS |-> table.offsets,
       HASH_RANKS |-> table.ranks,
       RANK_OFFSET_SHIFT |-> HashShift(shift, table.offsets)]

Init ==
  /\ Tables!Init
  /\ seven = NotLoaded /\ five = NotLoaded /\ slow = NotLoaded
  /\ cpp = NotLoaded /\ oracle = NotLoaded

Generate == Tables!Next /\ UNCHANGED <<java, cpp, oracle>>

Generated == Tables!Done /\ seven = NotLoaded /\ cpp = NotLoaded

Load(p, s) ==
  /\ Generated
  /\ seven' = Statics(7, KeySeven, Tables!FlushCheck, Compressed(p, s, ranksSeven, BitLength(lastSeven)))
  /\ five' = Statics(5, KeyFive, Tables!FlushCheckFive, Compressed(p, s, ranks, BitLength(lastHash)))
  /\ slow' = Slow!Statics
  /\ UNCHANGED <<generator, cpp, oracle>>

(***************************************************************************)
(* The headers hold the table of the first heuristic for the multiplier.   *)
(***************************************************************************)
LoadCpp ==
  /\ Generated
  /\ cpp' = LET table == Compressed(Multiplier, RANK_OFFSET_SHIFT, ranksSeven, FLUSH_BIT_SHIFT)
            IN  [rank_hash |-> table.ranks, offsets |-> table.offsets,
                 flush_ranks |-> FLUSH_RANKS, flush_check |-> Tables!FlushCheck]
  /\ oracle' = Oracle!Constructed
  /\ UNCHANGED <<generator, java>>

Next == Generate \/ (\E p \in Factors, s \in Shifts : Load(p, s)) \/ LoadCpp

Spec == Init /\ [][Next]_vars

-------------------------------------------------------------------------------
GetKey(t, hand) == LET card(c) == t.CARDS[c] IN Wrap(MapThenSumSet(card, hand))

\* seeded fault: the key is shifted with its sign
SignedSuitSum(t, key) == key \div 2^t.FLUSH_BIT_SHIFT

(***************************************************************************)
(* key >>> FLUSH_BIT_SHIFT.                                                *)
(***************************************************************************)
SuitSum(t, key) == (key % 2^IntBits) \div 2^t.FLUSH_BIT_SHIFT
FacesOf(hand, suit) == {f \in 0 .. FACES - 1 : f + FACES * suit \in hand}
HashRank(t, key) ==
  LET hash == (t.HASH_PRIME * key) % 2^t.FLUSH_BIT_SHIFT
      offset == At(t.HASH_OFFSETS, hash \div 2^t.RANK_OFFSET_SHIFT)
  IN  At(t.HASH_RANKS, offset + (hash % 2^t.RANK_OFFSET_SHIFT))
GetRank(t, hand) ==
  LET key == GetKey(t, hand)
      suit == IF SuitSum(t, key) \in DOMAIN t.FLUSH_CHECK THEN t.FLUSH_CHECK[SuitSum(t, key)] ELSE 4
  IN  CASE suit = Tables!NoSuit -> HashRank(t, key)
        [] suit \in Suits       -> Tables!OrZero(t.FLUSH_RANKS, FacesOf(hand, suit))
        [] OTHER                -> OutOfBounds

-------------------------------------------------------------------------------
Loaded == seven # NotLoaded
LoadedCpp == cpp # NotLoaded

(***************************************************************************)
(* Types of the generator's state and of the static fields: all keys of    *)
(* cards are ints, and the bits of a bucket, which are nowhere written     *)
(* down, come out of the arrays as they went in.                           *)
(***************************************************************************)
TypeOK ==
  /\ Tables!Five!TypeOK /\ Tables!TypeOK
  /\ (seven = NotLoaded) = (five = NotLoaded) /\ (seven = NotLoaded) = (slow = NotLoaded)
  /\ (cpp = NotLoaded) = (oracle = NotLoaded)
  /\ Loaded \/ LoadedCpp => Tables!Done
  /\ Loaded => \A t \in {seven, five} :
                 /\ t.HASH_PRIME \in Factors /\ t.RANK_OFFSET_SHIFT \in Shifts
                 /\ \A card \in DOMAIN t.CARDS : t.CARDS[card] = Wrap(t.CARDS[card])

(***************************************************************************)
(* What the generator promises (FiveRanking, SevenTables), each when its   *)
(* part is done: hands of five are numbered from the weakest, each once,   *)
(* in places of their own; a flush of six or seven cards has the rank of   *)
(* its best five; hands of seven have keys of their own; and the suit of a *)
(* flush is found from the sum of the suits.                               *)
(***************************************************************************)
RanksAscend == Tables!Five!RanksAscend
EveryHandRanked == toFill = Tables!SetsToFill => Tables!Five!EveryHandRanked
FlushIsBestOfFive == Tables!FlushIsBestOfFive
EveryHandOfSevenRanked == Generated => Tables!EveryHandOfSevenRanked
FlushFound == Generated => Tables!FlushFound

(***************************************************************************)
(* "the evaluation should be the max of the evaluation of each 5-cards     *)
(* hand possible" (EvaluatorTest.java:12-13), from tables of either class. *)
(***************************************************************************)
BestOfFive ==
  Loaded =>
    LET rankOf == [h \in kSubset(5, Deck) |-> GetRank(five, h)]
    IN  \A hand \in kSubset(7, Deck) :
          GetRank(seven, hand) = Tables!Greatest({rankOf[h] : h \in kSubset(5, hand)})

(***************************************************************************)
(* The rules of the game, programmed in another way, give the same ranks   *)
(* of seven and of five cards (EvaluatorTest.java:30-31, 82): no lookup    *)
(* leaves its array, and no suit outranks another although some keys are   *)
(* negative.  The highest class is the number of ranks, 7462 with thirteen *)
(* faces (SlowEvaluator.java:33).                                          *)
(***************************************************************************)
SlowAgrees ==
  Loaded =>
    /\ slow.MAX_STRAIGHT_FLUSH_CLASS = currentRank - 1
    /\ \A hand \in kSubset(7, Deck) : GetRank(seven, hand) = Slow!get7CardsHandClass(slow, hand)
    /\ \A hand \in kSubset(5, Deck) : GetRank(five, hand) = Slow!get5CardsHandClass(slow, hand)

(***************************************************************************)
(* SevenEval and FiveEval give every hand one rank (seven_eval_tests.cpp:  *)
(* 26), whose cards count from the aces down; and GetRank<false> gives the *)
(* same rank to a hand that is no flush.                                   *)
(***************************************************************************)
CppCard(card) == 4 * (FACES - 1 - (card % FACES)) + (card \div FACES)
IsFlush(hand) == \E suit \in Suits : Cardinality({c \in hand : c % 4 = suit}) >= 5
OraclesAgree ==
  LoadedCpp =>
    LET deck == {CppCard(card) : card \in Deck}
        rankOf == [h \in kSubset(5, deck) |-> Oracle!GetRankOfFive(oracle, h)]
    IN  \A hand \in kSubset(7, deck) :
          LET rank == Oracle!GetRankOfSeven(rankOf, hand)
          IN  /\ Cpp!GetRank(cpp, TRUE, hand) = rank
              /\ ~IsFlush(hand) => Cpp!GetRank(cpp, FALSE, hand) = rank
=============================================================================
