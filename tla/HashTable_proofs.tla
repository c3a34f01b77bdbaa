--------------------------- MODULE HashTable_proofs ---------------------------
(***************************************************************************)
(* Facts about tables that hold for any way of making them: where a key    *)
(* falls, what fillBuckets, findOffset and writeBucket return, and that    *)
(* the flat table serves every hand.                                       *)
(***************************************************************************)
EXTENDS HashTable, FiniteSetTheorems, FunctionTheorems, TLAPS

(***************************************************************************)
(* The provers have no theory of exponentiation: the laws of powers of two *)
(* that the arithmetic needs are counted out, 2^n being the number of      *)
(* subsets of a set of n elements.                                         *)
(***************************************************************************)
LEMMA CountedPower ==
  ASSUME NEW a \in Nat, NEW n \in Nat
  PROVE  LET S == SUBSET (a + 1 .. a + n)
         IN  IsFiniteSet(S) /\ Cardinality(S) = 2^n /\ 2^n \in Nat \ {0}
<1> DEFINE T == a + 1 .. a + n
<1>1. IsFiniteSet(T) /\ Cardinality(T) = n
  <2>1. a + 1 \in Int /\ a + n \in Int /\ (a + 1 > a + n => n = 0) /\ a + n - (a + 1) + 1 = n
    OBVIOUS
  <2> QED BY <2>1, FS_Interval
<1> HIDE DEF T
<1>2. IsFiniteSet(SUBSET T) /\ Cardinality(SUBSET T) = 2^n
  BY <1>1, FS_SUBSET, Zenon
<1>3. SUBSET T # {}
  OBVIOUS
<1>4. Cardinality(SUBSET T) \in Nat /\ Cardinality(SUBSET T) # 0
  BY <1>2, <1>3, FS_CardinalityType, FS_EmptySet
<1> QED BY <1>2, <1>4 DEF T

(***************************************************************************)
(* A subset of 1 .. a + b is one of 1 .. a and one of what is beyond.      *)
(***************************************************************************)
LEMMA PowerOfSum ==
  ASSUME NEW a \in Nat, NEW b \in Nat
  PROVE  2^(a + b) = 2^a * 2^b
<1> DEFINE A == 1 .. a
           B == a + 1 .. a + b
           C == 1 .. a + b
           f == [S \in SUBSET C |-> <<S \cap A, S \cap B>>]
<1>1. C = A \cup B /\ A \cap B = {}
  OBVIOUS
<1>2. /\ IsFiniteSet(SUBSET A) /\ Cardinality(SUBSET A) = 2^a
      /\ IsFiniteSet(SUBSET B) /\ Cardinality(SUBSET B) = 2^b
      /\ IsFiniteSet(SUBSET C) /\ Cardinality(SUBSET C) = 2^(a + b)
  <2>1. 0 + 1 = 1 /\ 0 + a = a /\ 0 + (a + b) = a + b /\ a + b \in Nat /\ 0 \in Nat
    OBVIOUS
  <2>2. IsFiniteSet(SUBSET (0 + 1 .. 0 + a)) /\ Cardinality(SUBSET (0 + 1 .. 0 + a)) = 2^a
    BY <2>1, CountedPower, Zenon
  <2>3. /\ IsFiniteSet(SUBSET (0 + 1 .. 0 + (a + b)))
        /\ Cardinality(SUBSET (0 + 1 .. 0 + (a + b))) = 2^(a + b)
    BY <2>1, CountedPower, Zenon
  <2>4. IsFiniteSet(SUBSET B) /\ Cardinality(SUBSET B) = 2^b
    BY CountedPower, Zenon
  <2> QED BY <2>1, <2>2, <2>3, <2>4
<1> HIDE DEF A, B, C
<1>3. f \in [SUBSET C -> (SUBSET A) \X (SUBSET B)]
  OBVIOUS
<1>4. ASSUME NEW S \in SUBSET C, NEW T \in SUBSET C, f[S] = f[T]
      PROVE  S = T
  <2>1. S \cap A = T \cap A /\ S \cap B = T \cap B
    BY <1>4
  <2> QED BY <1>1, <2>1, Zenon
<1>5. ASSUME NEW pair \in (SUBSET A) \X (SUBSET B)
      PROVE  \E S \in SUBSET C : f[S] = pair
  <2>1. PICK S \in SUBSET A, T \in SUBSET B : pair = <<S, T>>
    OBVIOUS
  <2>2. S \cup T \in SUBSET C /\ (S \cup T) \cap A = S /\ (S \cup T) \cap B = T
    BY <1>1, Zenon
  <2>3. f[S \cup T] = <<S, T>>
    BY <2>2
  <2> QED BY <2>1, <2>2, <2>3
<1> HIDE DEF f
<1>6. f \in Bijection(SUBSET C, (SUBSET A) \X (SUBSET B))
  BY <1>3, <1>4, <1>5, Fun_IsBij
<1>7. ExistsBijection(SUBSET C, (SUBSET A) \X (SUBSET B))
  BY <1>6 DEF ExistsBijection
<1>8. Cardinality((SUBSET A) \X (SUBSET B)) = 2^a * 2^b
  <2>1. /\ IsFiniteSet(SUBSET A) /\ Cardinality(SUBSET A) = 2^a
        /\ IsFiniteSet(SUBSET B) /\ Cardinality(SUBSET B) = 2^b
    BY <1>2
  <2>2. Cardinality((SUBSET A) \X (SUBSET B)) = Cardinality(SUBSET A) * Cardinality(SUBSET B)
    BY <2>1, FS_Product, Zenon
  <2> QED BY <2>1, <2>2
<1>9. Cardinality((SUBSET A) \X (SUBSET B)) = 2^(a + b)
  BY <1>2, <1>7, FS_Bijection
<1> QED BY <1>8, <1>9

LEMMA PowerLaws ==
  /\ 2^ShortBits \in Nat \ {0}
  /\ \A s \in 0 .. KeyBits :
        /\ 2^s \in Nat \ {0}
        /\ 2^(KeyBits - s) \in Nat \ {0}
        /\ 2^(KeyBits - s) * 2^s = 2^KeyBits
<1>1. \A n \in Nat : 2^n \in Nat \ {0}
  BY CountedPower
<1>2. ASSUME NEW s \in 0 .. KeyBits
      PROVE  2^(KeyBits - s) * 2^s = 2^KeyBits
  <2>1. s \in Nat /\ KeyBits - s \in Nat /\ (KeyBits - s) + s = KeyBits
    BY KeyAssumption
  <2> QED BY <2>1, PowerOfSum
<1>3. \A s \in 0 .. KeyBits : s \in Nat /\ KeyBits - s \in Nat
  BY KeyAssumption
<1> QED BY <1>1, <1>2, <1>3, WidthAssumption

(***************************************************************************)
(* Twice as much with every bit.                                           *)
(***************************************************************************)
LEMMA PowerGrows ==
  /\ 2^1 = 2 /\ 2^2 = 4
  /\ \A m, n \in Nat : m <= n => 2^m <= 2^n
  /\ \A n \in Nat : 2^(n + 1) = 2 * 2^n
<1>1. 2^1 = 2
  <2> DEFINE S == SUBSET (0 + 1 .. 0 + 1)
  <2>1. IsFiniteSet(S) /\ Cardinality(S) = 2^1
    BY CountedPower
  <2>2. S = {{}} \cup {{1}} /\ {1} # {} /\ {1} \notin {{}}
    <3>1. 0 + 1 .. 0 + 1 = {1} OBVIOUS
    <3> QED BY <3>1, Zenon
  <2> HIDE DEF S
  <2>3. IsFiniteSet({{}}) /\ Cardinality({{}}) = 1
    BY FS_Singleton, Zenon
  <2>4. Cardinality(S) = 1 + 1
    BY <2>2, <2>3, FS_AddElement
  <2> QED BY <2>1, <2>4
<1>2. \A n \in Nat : 2^n \in Nat \ {0}
  BY CountedPower
<1>3. ASSUME NEW n \in Nat PROVE 2^(n + 1) = 2 * 2^n
  <2>1. 2^(n + 1) = 2^n * 2^1
    BY PowerOfSum
  <2> QED BY <1>1, <1>2, <2>1
<1>4. 2^2 = 4
  <2>1. 2^(1 + 1) = 2 * 2^1
    BY <1>3
  <2> QED BY <1>1, <2>1
<1>5. ASSUME NEW m \in Nat, NEW n \in Nat, m <= n PROVE 2^m <= 2^n
  <2>1. n - m \in Nat /\ m + (n - m) = n
    BY <1>5
  <2>2. 2^n = 2^m * 2^(n - m)
    BY <2>1, PowerOfSum
  <2>3. ASSUME NEW x \in Nat \ {0}, NEW y \in Nat \ {0} PROVE x <= x * y
    OBVIOUS
  <2> QED BY <1>2, <2>1, <2>2, <2>3
<1> QED BY <1>1, <1>3, <1>4, <1>5

(***************************************************************************)
(* The int arithmetic of l.72-74 is exact for the shifts up to keyBits and *)
(* comes out negative, which refuses the shift, for those beyond it.       *)
(***************************************************************************)
LEMMA WidthLaws ==
  /\ Shifts \subseteq Nat
  /\ \A s \in Shifts : \A size \in 0 .. 2^KeyBits + 1 :
        IF s <= KeyBits THEN /\ OffsetLength(s) = 2^(KeyBits - s)
                             /\ MaxRankLength(size, s) = size - 2^(KeyBits - s)
                        ELSE MaxRankLength(size, s) < 0
<1> DEFINE H == 2^(IntBits - 1)
           K == 2^KeyBits
<1>1. /\ KeyBits \in Nat \ {0} /\ IntBits \in Nat /\ KeyBits + 2 <= IntBits
      /\ \A s \in Shifts : s \in Nat /\ s <= IntBits - 2
  BY KeyAssumption, WidthAssumption
<1>2. \A n \in Nat : 2^n \in Nat \ {0}
  BY CountedPower
<1>3. H \in Nat /\ K \in Nat \ {0} /\ 2^IntBits = 2 * H
  <2>1. IntBits - 1 \in Nat /\ (IntBits - 1) + 1 = IntBits
    BY <1>1
  <2> QED BY <1>1, <1>2, <2>1, PowerGrows
<1>4. \A n \in Nat : n <= IntBits - 2 => 2 * 2^n <= H
  <2>1. ASSUME NEW n \in Nat, n <= IntBits - 2 PROVE 2 * 2^n <= H
    <3>1. n + 1 \in Nat /\ IntBits - 1 \in Nat /\ n + 1 <= IntBits - 1
      BY <1>1, <2>1
    <3> QED BY <3>1, PowerGrows
  <2> QED BY <2>1
<1>5. 2 * K <= H
  BY <1>1, <1>4
<1>6. \A x \in Int : Wrap(x) = ((x + H) % (2 * H)) - H
  BY <1>3 DEF Wrap
<1> HIDE DEF H, K
<1>7. \A x \in Int : -H <= x /\ x < H => Wrap(x) = x
  <2>1. ASSUME NEW x \in Int, -H <= x, x < H PROVE Wrap(x) = x
    <3>1. (x + H) % (2 * H) = x + H
      BY <1>3, <2>1
    <3>2. Wrap(x) = (x + H) - H
      BY <1>6, <3>1
    <3> QED BY <1>3, <3>2
  <2> QED BY <2>1
<1>8. ASSUME NEW s \in Shifts, NEW size \in 0 .. K + 1, s <= KeyBits
      PROVE  /\ OffsetLength(s) = 2^(KeyBits - s)
             /\ MaxRankLength(size, s) = size - 2^(KeyBits - s)
  <2>1. KeyBits - s \in Nat /\ KeyBits - s <= KeyBits /\ KeyBits - s < IntBits
    BY <1>1, <1>8
  <2>2. (KeyBits - s) % IntBits = KeyBits - s
    BY <1>1, <2>1
  <2>3. 2^(KeyBits - s) \in Nat \ {0} /\ 2^(KeyBits - s) <= K
    BY <1>1, <1>2, <2>1, PowerGrows DEF K
  <2>4. Wrap(2^(KeyBits - s)) = 2^(KeyBits - s)
    BY <1>3, <1>5, <1>7, <2>3
  <2>5. OffsetLength(s) = 2^(KeyBits - s)
    BY <2>2, <2>4 DEF OffsetLength, ShiftedOne
  <2>6. /\ size - 2^(KeyBits - s) \in Int /\ -H <= size - 2^(KeyBits - s)
        /\ size - 2^(KeyBits - s) < H
    BY <1>3, <1>5, <2>3
  <2> QED BY <1>7, <2>5, <2>6 DEF MaxRankLength
<1>9. ASSUME NEW s \in Shifts, NEW size \in 0 .. K + 1, ~(s <= KeyBits)
      PROVE  MaxRankLength(size, s) < 0
  <2> DEFINE e == KeyBits - s + IntBits
             P == 2^e
  <2>1. e \in Nat /\ KeyBits + 2 <= e /\ e <= IntBits - 1
    BY <1>1, <1>9
  <2>2. (KeyBits - s) % IntBits = e
    BY <1>1, <2>1
  <2>3. P \in Nat \ {0} /\ 4 * K <= P
    <3>1. KeyBits + 2 \in Nat /\ 2^(KeyBits + 2) <= P
      BY <1>1, <2>1, PowerGrows
    <3>2. 2^(KeyBits + 2) = K * 4
      <4>1. KeyBits \in Nat /\ 2 \in Nat
        BY <1>1
      <4>2. 2^(KeyBits + 2) = 2^KeyBits * 2^2
        BY <4>1, PowerOfSum, Zenon
      <4> QED BY <4>2, PowerGrows, Zenon DEF K
    <3> QED BY <1>2, <1>3, <2>1, <3>1, <3>2
  <2>4. CASE e = IntBits - 1
    <3>1. P = H
      BY <2>4 DEF H
    <3>2. Wrap(P) = -H
      <4>1. (H + H) % (2 * H) = 0
        BY <1>3, <2>3, <3>1
      <4> QED BY <1>3, <1>6, <3>1, <4>1
    <3>3. MaxRankLength(size, s) = Wrap(size + H)
      <4>1. OffsetLength(s) = -H
        BY <2>2, <3>2 DEF OffsetLength, ShiftedOne
      <4>2. size - (-H) = size + H
        BY <1>3
      <4> QED BY <4>1, <4>2 DEF MaxRankLength
    <3>4. (size + H + H) % (2 * H) = size
      <4>1. size \in Nat /\ size < 2 * H
        BY <1>3, <1>5
      <4>2. size + H + H = size + 1 * (2 * H)
        BY <1>3, <4>1
      <4>3. \A m \in Nat \ {0}, r \in Nat : r < m => (r + m) % m = r
        OBVIOUS
      <4>4. 2 * H \in Nat \ {0} /\ size + H + H = size + 2 * H
        BY <1>3, <2>3, <3>1, <4>1
      <4> QED BY <4>1, <4>3, <4>4
    <3>5. Wrap(size + H) = size - H
      <4>1. size + H \in Int
        BY <1>3
      <4>2. Wrap(size + H) = ((size + H + H) % (2 * H)) - H
        BY <1>6, <4>1
      <4> QED BY <3>4, <4>2
    <3> QED BY <1>3, <1>5, <2>3, <3>1, <3>3, <3>5
  <2>5. CASE e < IntBits - 1
    <3>1. 2 * P <= H
      BY <1>1, <1>4, <2>1, <2>5
    <3>2. Wrap(P) = P
      BY <1>3, <1>7, <2>3, <3>1
    <3>3. MaxRankLength(size, s) = Wrap(size - P)
      BY <2>2, <3>2 DEF MaxRankLength, OffsetLength, ShiftedOne
    <3>4. size - P \in Int /\ -H <= size - P /\ size - P < 0
      BY <1>3, <2>3, <3>1
    <3>5. Wrap(size - P) = size - P
      BY <1>3, <1>7, <3>4
    <3> QED BY <3>3, <3>4, <3>5
  <2> QED BY <1>1, <2>1, <2>4, <2>5
<1> QED BY <1>1, <1>8, <1>9 DEF K

(***************************************************************************)
(* A key falls into one place of one bucket of the arrays allocated for    *)
(* its shift, and the place determines the spread key.                     *)
(***************************************************************************)
LEMMA KeyPlace ==
  ASSUME NEW p \in Nat, NEW s \in 0 .. KeyBits, NEW k \in Hashes
  PROVE  /\ BucketOf(p, s, k) \in Indices(2^(KeyBits - s))
         /\ IndexOf(p, s, k) \in Indices(2^s)
         /\ Spread(p, k) = BucketOf(p, s, k) * 2^s + IndexOf(p, s, k)
<1> DEFINE W == 2^s
           B == 2^(KeyBits - s)
           K == 2^KeyBits
           a == Spread(p, k)
<1>1. W \in Nat \ {0} /\ B \in Nat \ {0} /\ B * W = K /\ K \in Nat
  BY PowerLaws, KeyAssumption
<1>2. k \in Nat
  BY KeyAssumption, <1>1
<1>3. p * k \in Nat
  BY <1>2
<1>4. K # 0
  BY <1>1
<1>5. a \in 0 .. K - 1
  BY <1>1, <1>3, <1>4 DEF Spread
<1> HIDE DEF W, B, K, a
<1>6. a \div W \in 0 .. B - 1
  BY <1>1, <1>5
<1>7. a % W \in 0 .. W - 1 /\ a = (a \div W) * W + (a % W)
  BY <1>1, <1>5
<1>8. QED
  BY <1>6, <1>7 DEF W, B, a, BucketOf, IndexOf, Indices

(***************************************************************************)
(* fillBuckets on a reference that serves every hand: each key finds its   *)
(* rank in its place.                                                      *)
(***************************************************************************)
LEMMA FilledRows ==
  ASSUME NEW p \in Nat, NEW s \in 0 .. KeyBits, NEW t, NEW f \in [Hashes -> 1 .. MaxRank],
         Serves(t, f), ~KeysCollide(p)
  PROVE  /\ FillBuckets(p, s, t) \in [Indices(2^(KeyBits - s)) -> [Indices(2^s) -> Ranks]]
         /\ \A k \in Hashes : FillBuckets(p, s, t)[BucketOf(p, s, k)][IndexOf(p, s, k)] = f[k]
<1> DEFINE At(b, j) == IF \E k \in Hashes : Spread(p, k) = b * 2^s + j
                         THEN GetRank(t, CHOOSE k \in Hashes : Spread(p, k) = b * 2^s + j)
                         ELSE 0
<1>1. ASSUME NEW b, NEW j PROVE At(b, j) \in Ranks
  <2> DEFINE c == CHOOSE k \in Hashes : Spread(p, k) = b * 2^s + j
  <2>1. CASE \E k \in Hashes : Spread(p, k) = b * 2^s + j
    <3>1. c \in Hashes
      BY <2>1
    <3>2. GetRank(t, c) = f[c] /\ f[c] \in 1 .. MaxRank
      BY <3>1 DEF Serves
    <3> HIDE DEF c
    <3>3. GetRank(t, c) \in Ranks
      BY <3>2, KeyAssumption DEF Ranks
    <3> QED
      BY <2>1, <3>3 DEF c
  <2>2. CASE ~\E k \in Hashes : Spread(p, k) = b * 2^s + j
    BY <2>2, KeyAssumption DEF Ranks
  <2> QED
    BY <2>1, <2>2
<1>2. ASSUME NEW k \in Hashes PROVE At(BucketOf(p, s, k), IndexOf(p, s, k)) = f[k]
  <2> DEFINE h == CHOOSE h \in Hashes : Spread(p, h) = BucketOf(p, s, k) * 2^s + IndexOf(p, s, k)
  <2>1. Spread(p, k) = BucketOf(p, s, k) * 2^s + IndexOf(p, s, k)
    BY KeyPlace
  <2>2. h \in Hashes /\ Spread(p, h) = Spread(p, k)
    BY <2>1
  <2>3. h = k
    BY <2>2 DEF KeysCollide
  <2>4. GetRank(t, h) = f[k]
    BY <2>3 DEF Serves
  <2> QED
    BY <2>1, <2>4
<1>3. FillBuckets(p, s, t) = [b \in Indices(2^(KeyBits - s)) |-> [j \in Indices(2^s) |-> At(b, j)]]
  BY DEF FillBuckets
<1> HIDE DEF At
<1>4. QED
  BY <1>1, <1>2, <1>3, KeyPlace

(***************************************************************************)
(* fillBuckets leaves 0 where no key falls.                                *)
(***************************************************************************)
LEMMA FilledByKeys ==
  ASSUME NEW p \in Nat, NEW s \in 0 .. KeyBits, NEW t,
         NEW b \in Indices(2^(KeyBits - s)), NEW j \in Indices(2^s),
         FillBuckets(p, s, t)[b][j] # 0
  PROVE  \E k \in Hashes : BucketOf(p, s, k) = b /\ IndexOf(p, s, k) = j
<1> DEFINE W == 2^s
<1>1. W \in Nat \ {0} /\ 2^(KeyBits - s) \in Nat
  BY PowerLaws
<1>2. PICK k \in Hashes : Spread(p, k) = b * W + j
  BY DEF FillBuckets
<1>3. b \in Nat /\ j \in 0 .. W - 1
  BY <1>1 DEF Indices
<1> HIDE DEF W
<1>4. (b * W + j) \div W = b /\ (b * W + j) % W = j
  BY <1>1, <1>3
<1> QED BY <1>2, <1>4 DEF BucketOf, IndexOf, W

(***************************************************************************)
(* First fit never passes the end of the ranks written so far: there, every*)
(* slot is empty.                                                          *)
(***************************************************************************)
LEMMA OffsetWithin ==
  ASSUME NEW n \in Nat, NEW length \in Nat, NEW stop \in Nat, length <= stop,
         NEW bucket \in [Indices(n) -> Ranks], NEW a, NEW o,
         \A i \in DOMAIN a : i >= length => a[i] = 0,
         IsOffset(o, bucket, a, 0, stop)
  PROVE  o \in 0 .. length /\ ~Collides(bucket, a, o)
<1>1. ~Collides(bucket, a, length)
  BY DEF Collides, Filled, Indices
<1>2. o \in 0 .. stop /\ (o = stop \/ ~Collides(bucket, a, o))
      /\ \A q \in 0 .. o - 1 : Collides(bucket, a, q)
  BY DEF IsOffset
<1>3. o <= length
  BY <1>1, <1>2
<1>4. QED
  BY <1>1, <1>2, <1>3

(***************************************************************************)
(* Writing a bucket where it does not collide: its ranks can be read, and  *)
(* no rank written before is changed.                                      *)
(***************************************************************************)
LEMMA WrittenReads ==
  ASSUME NEW n \in Nat, NEW bucket \in [Indices(n) -> Ranks], NEW m \in Nat,
         NEW a \in [Indices(m) -> Ranks], NEW o \in Nat,
         ~Collides(bucket, a, o), ~Overruns(bucket, a, o)
  PROVE  /\ Written(bucket, a, o) \in [Indices(m) -> Ranks]
         /\ \A j \in Filled(bucket) : /\ o + j \in Indices(m)
                                      /\ Written(bucket, a, o)[o + j] = bucket[j]
         /\ \A i \in Indices(m) : a[i] # 0 => Written(bucket, a, o)[i] = a[i]
<1>1. Filled(bucket) \subseteq Indices(n)
  BY DEF Filled
<1>2. Written(bucket, a, o) = [i \in Indices(m) |->
                                 IF i - o \in Filled(bucket) THEN bucket[i - o] ELSE a[i]]
  BY DEF Written
<1>3. Written(bucket, a, o) \in [Indices(m) -> Ranks]
  BY <1>1, <1>2
<1>4. ASSUME NEW j \in Filled(bucket)
      PROVE  o + j \in Indices(m) /\ Written(bucket, a, o)[o + j] = bucket[j]
  <2>1. o + j \in Indices(m)
    BY DEF Overruns
  <2>2. j \in Int /\ (o + j) - o = j
    BY <1>1 DEF Indices
  <2> QED
    BY <1>2, <2>1, <2>2
<1>5. ASSUME NEW i \in Indices(m), a[i] # 0
      PROVE  Written(bucket, a, o)[i] = a[i]
  <2>1. CASE i - o \in Filled(bucket)
    <3>1. o + (i - o) = i
      BY DEF Indices
    <3>2. a[i] = bucket[i - o]
      BY <1>5, <2>1, <3>1 DEF Collides
    <3> QED
      BY <1>2, <2>1, <3>2
  <2>2. CASE i - o \notin Filled(bucket)
    BY <1>2, <2>2
  <2> QED
    BY <2>1, <2>2
<1>6. QED
  BY <1>3, <1>4, <1>5

(***************************************************************************)
(* The flat table serves every hand.                                       *)
(***************************************************************************)
LEMMA FlatServes ==
  ASSUME NEW f \in [Hashes -> 1 .. MaxRank]
  PROVE  /\ IsTable(FlatTable(f)) /\ Serves(FlatTable(f), f)
         /\ Size(FlatTable(f)) \in 0 .. 2^KeyBits + 1
<1> DEFINE K == 2^KeyBits
           t == FlatTable(f)
<1>1. K \in Nat \ {0} /\ Hashes \subseteq 0 .. K - 1 /\ KeyBits \in Nat /\ MaxRank \in Nat
  BY KeyAssumption, PowerLaws
<1>2. HighestKey \in Hashes /\ \A h \in Hashes : h <= HighestKey
  BY KeyAssumption DEF HighestKey
<1>3. HighestKey \in 0 .. K - 1
  BY <1>1, <1>2
<1>4. /\ t.primeSpread = 1 /\ t.offsetShift = KeyBits
      /\ t.offsetLength = 1 /\ t.offsets = [i \in Indices(1) |-> 0]
      /\ t.rankLength = 1 + HighestKey
      /\ t.ranks = [i \in Indices(1 + HighestKey) |-> IF i \in Hashes THEN f[i] ELSE 0]
  BY DEF FlatTable
<1> HIDE DEF t, K
<1>5. IsTable(t)
  BY <1>1, <1>3, <1>4 DEF IsTable, Indices, Ranks
<1>6. ASSUME NEW k \in Hashes PROVE InBounds(t, k) /\ GetRank(t, k) = f[k]
  <2>1. k \in 0 .. K - 1 /\ k \in 0 .. HighestKey
    BY <1>1, <1>2, <1>3
  <2>2. 1 * k = k /\ k % K = k /\ k \div K = 0
    BY <2>1, <1>1
  <2>3. OffsetSlot(t, k) = 0 /\ IndexOf(t.primeSpread, t.offsetShift, k) = k
    BY <2>2, <1>4 DEF OffsetSlot, BucketOf, IndexOf, Spread, K
  <2>4. RankSlot(t, k) = k
    BY <2>1, <2>3, <1>4 DEF RankSlot, Indices
  <2> QED
    BY <2>1, <2>3, <2>4, <1>3, <1>4 DEF InBounds, GetRank, Indices
<1>7. Size(t) \in 0 .. K + 1
  BY <1>1, <1>3, <1>4 DEF Size
<1>8. QED
  BY <1>5, <1>6, <1>7 DEF Serves, t, K
=============================================================================
