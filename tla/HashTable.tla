------------------------------ MODULE HashTable ------------------------------
(***************************************************************************)
(* The perfect hash table of the Java generator (HashTable.java), as data: *)
(* what a table is, how a key is looked up, how the keys fall into buckets *)
(* and where a bucket of ranks may be laid over a partly filled array.     *)
(*                                                                         *)
(* A Java array of length n is a function on 0..n-1.  A slot of a rank     *)
(* array that holds 0 is empty: 0 is the default of a short[] and no hand  *)
(* has rank 0.  A null bucket is a bucket of zeros.                        *)
(***************************************************************************)
EXTENDS Integers, FiniteSets

CONSTANTS Hashes,     \* the keys of the hands (the field hashes)
          KeyBits,    \* bits of the largest key (the field keyBits)
          MaxRank,    \* the best rank of a hand
          Shifts,     \* the bucket sizes that are tried, as powers of two
          IntBits,    \* width of a Java int
          ShortBits   \* Short.SIZE: offsets are stored as unsigned shorts

(***************************************************************************)
(* keyBits is taken from the last hash, l.35: both generators append the   *)
(* largest key last, so every key is below 2^KeyBits.                      *)
(***************************************************************************)
ASSUME KeyAssumption ==
  /\ KeyBits \in Nat \ {0}
  /\ MaxRank \in Nat \ {0}
  /\ Hashes \subseteq 0 .. 2^KeyBits - 1
  /\ \E k \in Hashes : 2^(KeyBits - 1) <= k /\ \A h \in Hashes : h <= k

(***************************************************************************)
(* Sizes of tables fit an int.  A bucket size beyond keyBits, of which the *)
(* code tries some, shifts by a negative distance; up to 30 for 32 bits    *)
(* the size comparison still refuses it.                                   *)
(***************************************************************************)
ASSUME WidthAssumption ==
  /\ ShortBits \in Nat
  /\ IntBits \in Nat /\ KeyBits + 2 <= IntBits
  /\ Shifts \subseteq 0 .. IntBits - 2

Indices(n) == 0 .. n - 1                  \* the indices of an array of length n
Ranks == 0 .. MaxRank                     \* 0 is the empty slot

(***************************************************************************)
(* Java int arithmetic: 1 << n uses n modulo the width, and results wrap.  *)
(***************************************************************************)
Wrap(x) == ((x + 2^(IntBits - 1)) % 2^IntBits) - 2^(IntBits - 1)
ShiftedOne(n) == Wrap(2^(n % IntBits))

(***************************************************************************)
(* A table.  offsetLength and rankLength are the lengths of the arrays.    *)
(***************************************************************************)
IsTable(t) == /\ t.primeSpread \in Nat
              /\ t.offsetShift \in 0 .. KeyBits
              /\ t.offsetLength \in Nat
              /\ t.offsets \in [Indices(t.offsetLength) -> Nat]
              /\ t.rankLength \in Nat
              /\ t.ranks \in [Indices(t.rankLength) -> Ranks]

Spread(p, key) == (p * key) % 2^KeyBits   \* keyMask & (primeSpread * key)
BucketOf(p, s, key) == Spread(p, key) \div 2^s
IndexOf(p, s, key) == Spread(p, key) % 2^s

(***************************************************************************)
(* getRank, with the two array accesses apart so that their bounds can be  *)
(* stated.  The flat table has offsetShift = keyBits and an all-ones mask: *)
(* the index is the key, as it is modulo 2^KeyBits.                        *)
(***************************************************************************)
OffsetSlot(t, key) == BucketOf(t.primeSpread, t.offsetShift, key)
RankSlot(t, key) == t.offsets[OffsetSlot(t, key)] + IndexOf(t.primeSpread, t.offsetShift, key)
GetRank(t, key) == t.ranks[RankSlot(t, key)]

Size(t) == t.offsetLength + t.rankLength

(***************************************************************************)
(* buildFlatTable for the array of ranks indexed by the key itself.        *)
(***************************************************************************)
HighestKey == CHOOSE k \in Hashes : \A h \in Hashes : h <= k
FlatTable(rank) ==
  [primeSpread |-> 1, offsetShift |-> KeyBits,
   offsetLength |-> 1, offsets |-> [i \in Indices(1) |-> 0],
   rankLength |-> 1 + HighestKey,
   ranks |-> [i \in Indices(1 + HighestKey) |-> IF i \in Hashes THEN rank[i] ELSE 0]]

(***************************************************************************)
(* What a caller needs of a table: every lookup stays inside both arrays   *)
(* and returns the rank of the hand.                                       *)
(***************************************************************************)
InBounds(t, key) == /\ OffsetSlot(t, key) \in Indices(t.offsetLength)
                    /\ RankSlot(t, key) \in Indices(t.rankLength)
Serves(t, rank) == \A k \in Hashes : InBounds(t, k) /\ GetRank(t, k) = rank[k]

(***************************************************************************)
(* The room for ranks that a table of this shift may use and still be      *)
(* shorter than a reference of the given size.  A shift beyond keyBits     *)
(* makes the distance of the Java shift negative.                          *)
(***************************************************************************)
OffsetLength(s) == ShiftedOne(KeyBits - s)
MaxRankLength(size, s) == Wrap(size - OffsetLength(s))

\* seeded fault: the collision of two keys is not looked for
KeysNeverCollide(p) == FALSE

(***************************************************************************)
(* fillBuckets: two keys in one place of one bucket refuse the prime; the  *)
(* ranks come from the reference table.                                    *)
(***************************************************************************)
KeysCollide(p) == \E h, k \in Hashes : h # k /\ Spread(p, h) = Spread(p, k)
FillBuckets(p, s, reference) ==
  [b \in Indices(2^(KeyBits - s)) |->
     [j \in Indices(2^s) |->
        IF \E k \in Hashes : Spread(p, k) = b * 2^s + j
          THEN GetRank(reference, CHOOSE k \in Hashes : Spread(p, k) = b * 2^s + j)
          ELSE 0]]

Filled(bucket) == {j \in DOMAIN bucket : bucket[j] # 0}

\* seeded fault: only the first rank of the bucket is compared
FirstCollides(bucket, ranks, o) ==
  \E j \in Filled(bucket) : /\ \A k \in Filled(bucket) : j <= k
                            /\ o + j \in DOMAIN ranks
                            /\ ranks[o + j] \notin {0, bucket[j]}

(***************************************************************************)
(* findOffset returns o: the least offset from start on where every rank   *)
(* of the bucket meets an empty slot or its own value, and stop when there *)
(* is none below it.                                                       *)
(***************************************************************************)
Collides(bucket, ranks, o) ==
  \E j \in Filled(bucket) : /\ o + j \in DOMAIN ranks
                            /\ ranks[o + j] # 0
                            /\ ranks[o + j] # bucket[j]
IsOffset(o, bucket, ranks, start, stop) ==
  /\ o \in start .. stop
  /\ o = stop \/ ~Collides(bucket, ranks, o)
  /\ \A q \in start .. o - 1 : Collides(bucket, ranks, q)

(***************************************************************************)
(* writeBucket: the ranks with the bucket laid at offset o, and n is the   *)
(* rankLength that its caller keeps.  Overruns says that the slot looked at*)
(* before a write is past the end of the array, which raises in Java.      *)
(***************************************************************************)
Overruns(bucket, ranks, o) == \E j \in Filled(bucket) : o + j \notin DOMAIN ranks
Written(bucket, ranks, o) ==
  [i \in DOMAIN ranks |->
     IF i - o \in Filled(bucket) THEN bucket[i - o] ELSE ranks[i]]
\* seeded fault: the index instead of the length
LastIndices(bucket, o) == {o + j : j \in Filled(bucket)}
Lengths(bucket, o) == {1 + o + j : j \in Filled(bucket)}
IsLengthAfter(n, bucket, rankLength, o) ==
  /\ n \in {rankLength} \cup Lengths(bucket, o)
  /\ \A m \in {rankLength} \cup Lengths(bucket, o) : m <= n
=============================================================================
