------------------------------ MODULE FindOffset ------------------------------
(***************************************************************************)
(* findOffset as it computes: a bit set of the filled slots for the ranks  *)
(* and for each bucket, compared word by word in a window of two words of  *)
(* the former, and the ranks only where both have a bit.                   *)
(* ShorterHashTable has it by its meaning, IsOffset.                       *)
(*                                                                         *)
(* A word is the set of the positions of its bits.                         *)
(***************************************************************************)
EXTENDS ShorterHashTable

CONSTANT WordBits     \* Long.SIZE

\* with words of one bit, << 1 would not shift: the distance is modulo the width
ASSUME WordAssumption == WordBits \in Nat \ {0, 1}

Bits == 0 .. WordBits - 1

(***************************************************************************)
(* Java shifts of a long: the distance counts modulo the width.            *)
(***************************************************************************)
ShiftLeft(word, n) == {b + (n % WordBits) : b \in word} \cap Bits
ShiftRight(word, n) == {b - (n % WordBits) : b \in word} \cap Bits

(***************************************************************************)
(* The bit sets, of n words: a bit is set where a rank has been written.   *)
(***************************************************************************)
BitSet(array, n) ==
  [w \in Indices(n) |-> {b \in Bits : w * WordBits + b \in Filled(array)}]
RankBitSet == BitSet(ranks, 2 + (Cardinality(DOMAIN ranks) \div WordBits))
BucketBitSet(b) == BitSet(buckets[b], 1 + (2^shift \div WordBits))

\* seeded fault: one shift by the distance that is a whole word when r is 0
WindowOneShift(words, w, r) == ShiftRight(words[w], r) \cup ShiftLeft(words[w + 1], WordBits - r)

(***************************************************************************)
(* (words[w] >>> r) | ((words[w + 1] << (63 - r)) << 1).                   *)
(***************************************************************************)
Window(words, w, r) ==
  ShiftRight(words[w], r) \cup ShiftLeft(ShiftLeft(words[w + 1], WordBits - 1 - r), 1)

(***************************************************************************)
(* The words of a bucket that have bits, and where their windows begin.    *)
(***************************************************************************)
Compared(b) == {n \in DOMAIN BucketBitSet(b) : BucketBitSet(b)[n] # {}}
WordAt(n, o) == n + (o \div WordBits)
CollidesInWord(b, n, o) ==
  \E bit \in Window(RankBitSet, WordAt(n, o), o % WordBits) \cap BucketBitSet(b)[n] :
    LET index == bit + n * WordBits IN buckets[b][index] # ranks[index + o]
CollidesByWords(b, o) == \E n \in Compared(b) : CollidesInWord(b, n, o)

(***************************************************************************)
(* For every bucket and every offset up to its first fit, which is as far  *)
(* as the loop goes, wherever the words begin and end: the windows lie in  *)
(* the bit set of the ranks, and the words tell the same as the slots.     *)
(***************************************************************************)
Tried(b) ==
  {o \in DOMAIN ranks : \A q \in 0 .. o - 1 : Collides(buckets[b], ranks, q)}
WindowExact ==
  pc = "placing" =>
    \A b \in todo : \A o \in Tried(b) :
      /\ \A n \in Compared(b) : WordAt(n, o) + 1 \in DOMAIN RankBitSet
      /\ CollidesByWords(b, o) = Collides(buckets[b], ranks, o)
=============================================================================
