----------------------- MODULE ShorterHashTable2_proofs -----------------------
(***************************************************************************)
(* Proofs about computeShorterHashTable2, for all keys, ranks, factors and *)
(* bucket sizes: however buckets are deferred and polled, each is laid     *)
(* once, where it fits; the heuristic implements RowDisplacement.          *)
(***************************************************************************)
EXTENDS ShorterHashTable2, HashTable_proofs, FunctionTheorems, FiniteSetTheorems

(***************************************************************************)
(* Lists of buckets.                                                       *)
(***************************************************************************)
IsList(q, S) == q \in Seq(S) /\ \A m, n \in DOMAIN q : q[m] = q[n] => m = n

LEMMA EmptyList ==
  ASSUME NEW S
  PROVE  IsList(<<>>, S) /\ Elements(<<>>) = {}
BY DEF IsList, Elements

LEMMA TailOfList ==
  ASSUME NEW S, NEW q, IsList(q, S), q # <<>>
  PROVE  /\ IsList(Tail(q), S) /\ Head(q) \in S
         /\ Elements(q) = Elements(Tail(q)) \cup {Head(q)}
         /\ Head(q) \notin Elements(Tail(q))
<1>1. /\ q \in Seq(S) /\ Len(q) \in Nat \ {0} /\ DOMAIN q = 1 .. Len(q)
      /\ \A m, n \in DOMAIN q : q[m] = q[n] => m = n
  BY DEF IsList
<1>2. /\ Tail(q) \in Seq(S) /\ DOMAIN Tail(q) = 1 .. Len(q) - 1
      /\ \A n \in 1 .. Len(q) - 1 : Tail(q)[n] = q[n + 1]
      /\ Head(q) = q[1]
  BY <1>1
<1>3. IsList(Tail(q), S)
  <2>1. \A n \in 1 .. Len(q) - 1 : n \in Int /\ n + 1 \in DOMAIN q
    BY <1>1
  <2>2. \A m, n \in 1 .. Len(q) - 1 : m + 1 = n + 1 => m = n
    OBVIOUS
  <2> QED BY <1>1, <1>2, <2>1, <2>2 DEF IsList
<1>4. Elements(q) = Elements(Tail(q)) \cup {Head(q)}
  <2>1. ASSUME NEW n \in DOMAIN q, n # 1 PROVE n - 1 \in 1 .. Len(q) - 1 /\ (n - 1) + 1 = n
    BY <1>1, <2>1
  <2>2. ASSUME NEW n \in 1 .. Len(q) - 1 PROVE n + 1 \in DOMAIN q
    BY <1>1, <2>2
  <2>3. 1 \in DOMAIN q
    BY <1>1
  <2>4. ASSUME NEW n \in DOMAIN q PROVE q[n] \in Elements(Tail(q)) \cup {Head(q)}
    BY <1>2, <2>1, <2>4 DEF Elements
  <2>5. ASSUME NEW n \in 1 .. Len(q) - 1 PROVE Tail(q)[n] \in Elements(q)
    BY <1>2, <2>2, <2>5 DEF Elements
  <2> QED BY <1>2, <2>3, <2>4, <2>5 DEF Elements
<1>5. Head(q) \notin Elements(Tail(q))
  <2>1. ASSUME NEW n \in 1 .. Len(q) - 1 PROVE q[n + 1] # q[1]
    <3>1. n + 1 \in DOMAIN q /\ 1 \in DOMAIN q /\ n + 1 # 1
      BY <1>1
    <3> QED BY <1>1, <3>1
  <2> QED BY <1>2, <2>1 DEF Elements
<1>6. Head(q) \in S
  BY <1>1
<1> QED BY <1>3, <1>4, <1>5, <1>6

LEMMA AppendToList ==
  ASSUME NEW S, NEW q, IsList(q, S), NEW b \in S, b \notin Elements(q)
  PROVE  IsList(Append(q, b), S) /\ Elements(Append(q, b)) = Elements(q) \cup {b}
<1>1. /\ q \in Seq(S) /\ Len(q) \in Nat /\ DOMAIN q = 1 .. Len(q)
      /\ \A m, n \in DOMAIN q : q[m] = q[n] => m = n
      /\ \A n \in DOMAIN q : q[n] # b
  BY DEF IsList, Elements
<1> DEFINE a == Append(q, b)
<1>2. /\ a \in Seq(S) /\ DOMAIN a = DOMAIN q \cup {Len(q) + 1}
      /\ a[Len(q) + 1] = b /\ Len(q) + 1 \notin DOMAIN q
      /\ \A n \in DOMAIN q : a[n] = q[n]
  BY <1>1
<1> HIDE DEF a
<1>3. IsList(a, S)
  BY <1>1, <1>2 DEF IsList
<1>4. Elements(a) = Elements(q) \cup {b}
  BY <1>2 DEF Elements
<1> QED BY <1>3, <1>4 DEF a

LEMMA SingletonList ==
  ASSUME NEW S, NEW b \in S
  PROVE  IsList(<<b>>, S) /\ Elements(<<b>>) = {b}
BY DEF IsList, Elements

(***************************************************************************)
(* The number of elements below it gives each element of a finite set of   *)
(* integers a place of its own.                                            *)
(***************************************************************************)
Below(S, x) == {y \in S : y < x}

LEMMA Places ==
  ASSUME NEW S \in SUBSET Int, IsFiniteSet(S)
  PROVE  /\ Cardinality(S) \in Nat
         /\ \A x \in S : /\ Cardinality(Below(S, x)) \in Nat
                         /\ 1 + Cardinality(Below(S, x)) \in 1 .. Cardinality(S)
         /\ \A x, y \in S : Cardinality(Below(S, x)) = Cardinality(Below(S, y)) => x = y
         /\ \A n \in 1 .. Cardinality(S) : \E x \in S : Cardinality(Below(S, x)) = n - 1
<1> DEFINE k == Cardinality(S)
           place == [x \in S |-> 1 + Cardinality(Below(S, x))]
<1> USE DEF Below
<1>1. k \in Nat
  BY FS_CardinalityType
<1>2. ASSUME NEW x \in S
      PROVE  /\ IsFiniteSet(Below(S, x)) /\ Cardinality(Below(S, x)) \in Nat
             /\ place[x] = 1 + Cardinality(Below(S, x)) /\ place[x] \in 1 .. k
  <2>1. Below(S, x) \in SUBSET S /\ x \notin Below(S, x)
    OBVIOUS
  <2>2. /\ IsFiniteSet(Below(S, x)) /\ Cardinality(Below(S, x)) <= k
        /\ Cardinality(Below(S, x)) # k
    BY <2>1, FS_Subset
  <2>3. Cardinality(Below(S, x)) \in Nat
    BY <2>2, FS_CardinalityType
  <2> QED BY <1>1, <2>2, <2>3
<1>3. ASSUME NEW x \in S, NEW y \in S, x < y
      PROVE  Cardinality(Below(S, x)) < Cardinality(Below(S, y))
  <2>1. Below(S, x) \in SUBSET Below(S, y) /\ x \in Below(S, y) /\ x \notin Below(S, x)
    <3>1. \A z \in S : z < x => z < y BY <1>3
    <3>2. x < y /\ ~(x < x) BY <1>3
    <3> QED BY <3>1, <3>2
  <2>2. /\ Cardinality(Below(S, x)) <= Cardinality(Below(S, y))
        /\ Cardinality(Below(S, x)) # Cardinality(Below(S, y))
    BY <1>2, <2>1, FS_Subset
  <2> QED BY <1>2, <2>2
<1>4. ASSUME NEW x \in S, NEW y \in S, Cardinality(Below(S, x)) = Cardinality(Below(S, y))
      PROVE  x = y
  <2>1. /\ Cardinality(Below(S, x)) \in Nat /\ Cardinality(Below(S, y)) \in Nat
        /\ x \in Int /\ y \in Int
    BY <1>2
  <2>2. ~(x < y) /\ ~(y < x) BY <1>3, <1>4, <2>1
  <2> QED BY <2>1, <2>2
<1> HIDE DEF Below
<1>5. place \in Surjection(S, 1 .. k)
  <2>1. place \in [S -> 1 .. k]
    BY <1>2
  <2>2. \A x, y \in S : place[x] = place[y] => x = y
    BY <1>2, <1>4
  <2>3. place \in Injection(S, 1 .. k)
    BY <2>1, <2>2, Fun_IsInj
  <2>4. IsFiniteSet(1 .. k) /\ Cardinality(1 .. k) = k
    BY <1>1, FS_Interval
  <2> QED BY <2>3, <2>4, FS_Injection
<1>6. ASSUME NEW n \in 1 .. k
      PROVE  \E x \in S : Cardinality(Below(S, x)) = n - 1
  <2>1. PICK x \in S : place[x] = n
    BY <1>5 DEF Surjection
  <2> QED BY <1>2, <2>1
<1> QED BY <1>1, <1>2, <1>4, <1>6

LEMMA LeastOf ==
  ASSUME NEW S \in SUBSET Int, IsFiniteSet(S), S # {}
  PROVE  \E q \in S : \A r \in S : q <= r
<1>1. 1 \in 1 .. Cardinality(S)
  BY Places, FS_EmptySet
<1>2. PICK q \in S : Cardinality(Below(S, q)) = 0
  BY <1>1, Places
<1>3. IsFiniteSet(Below(S, q))
  <2>1. Below(S, q) \in SUBSET S BY DEF Below
  <2> QED BY <2>1, FS_Subset
<1>4. \A r \in S : ~(r < q)
  BY <1>2, <1>3, FS_EmptySet DEF Below
<1> QED BY <1>4

(***************************************************************************)
(* The buckets of one count, by ascending index.                           *)
(***************************************************************************)
LEMMA AscendingList ==
  ASSUME NEW S \in SUBSET Int, IsFiniteSet(S)
  PROVE  IsList(Ascending(S), S) /\ Elements(Ascending(S)) = S
<1> DEFINE k == Cardinality(S)
           at(n) == CHOOSE b \in S : Cardinality(Below(S, b)) = n - 1
<1>1. ASSUME NEW n \in 1 .. k
      PROVE  at(n) \in S /\ Cardinality(Below(S, at(n))) = n - 1
  BY Places
<1>2. ASSUME NEW x \in S
      PROVE  \E n \in 1 .. k : at(n) = x
  <2> DEFINE n == 1 + Cardinality(Below(S, x))
  <2>1. n \in 1 .. k /\ Cardinality(Below(S, x)) = n - 1
    BY Places
  <2> HIDE DEF n
  <2>2. at(n) = x
    BY <1>1, <2>1, Places
  <2> QED BY <2>1, <2>2
<1>3. Ascending(S) = [n \in 1 .. k |-> at(n)]
  BY DEF Ascending, Below
<1> HIDE DEF at
<1>4. IsList(Ascending(S), S)
  <2>1. [n \in 1 .. k |-> at(n)] \in Seq(S)
    <3>1. k \in Nat BY Places
    <3> HIDE DEF k
    <3> QED BY <1>1, <3>1
  <2>2. \A m, n \in 1 .. k : at(m) = at(n) => m = n
    BY <1>1
  <2> QED BY <1>3, <2>1, <2>2 DEF IsList
<1>5. Elements(Ascending(S)) = S
  <2>1. Elements(Ascending(S)) = {at(n) : n \in 1 .. k}
    BY <1>3 DEF Elements
  <2> QED BY <1>1, <1>2, <2>1
<1> QED BY <1>4, <1>5

-------------------------------------------------------------------------------
(***************************************************************************)
(* The inductive invariant.  Queues says that an unplaced bucket waits in  *)
(* one place: still ungrouped, or once in one list.  Bounds keeps the      *)
(* search for an offset where the slots are written; with it the offset    *)
(* at which a bucket is laid is its first fit.                             *)
(***************************************************************************)
Queues ==
  pc # "idle" =>
    /\ ungrouped \subseteq DOMAIN buckets
    /\ IsList(list, DOMAIN buckets) /\ Elements(list) \cap ungrouped = {}
    /\ \A o \in DOMAIN offsetMap :
         /\ IsList(offsetMap[o], DOMAIN buckets)
         /\ Elements(offsetMap[o]) \cap (ungrouped \cup Elements(list)) = {}
         /\ \A q \in DOMAIN offsetMap \ {o} : Elements(offsetMap[o]) \cap Elements(offsetMap[q]) = {}

Bounds ==
  pc # "idle" =>
    /\ \A o \in DOMAIN offsetMap : o \in Nat /\ o <= rankLength
    /\ min <= rankLength
    /\ list # <<>> => max = Length \/ (min < max /\ max <= rankLength)

(***************************************************************************)
(* What the buckets and the arrays hold, as for the first heuristic.       *)
(***************************************************************************)
CallSound ==
  pc # "idle" =>
    /\ shift \in Shifts /\ shift <= KeyBits /\ prime \in Nat
    /\ Size(best) \in Nat
    /\ room = Size(best) - 2^(KeyBits - shift)
    /\ ~KeysCollide(prime)
    /\ \A k \in Hashes :
         buckets[BucketOf(prime, shift, k)][IndexOf(prime, shift, k)] = flat[k]
    /\ \A b \in DOMAIN buckets : \A j \in Filled(buckets[b]) :
         \E k \in Hashes : BucketOf(prime, shift, k) = b /\ IndexOf(prime, shift, k) = j

ReadBack ==
  pc # "idle" =>
    \A b \in DOMAIN buckets \ Unplaced : \A j \in Filled(buckets[b]) :
      /\ offsets[b] + j \in DOMAIN ranks
      /\ offsets[b] + j < rankLength
      /\ ranks[offsets[b] + j] = buckets[b][j]

Occupied(i) == \E b \in DOMAIN buckets \ Unplaced : \E j \in Filled(buckets[b]) : i = offsets[b] + j

PlacedOnly ==
  pc # "idle" =>
    /\ \A b \in Unplaced : Filled(buckets[b]) # {}
    /\ \A b \in DOMAIN buckets : b \in Unplaced \/ Filled(buckets[b]) = {} => offsets[b] = 0
    /\ \A i \in DOMAIN ranks : ranks[i] # 0 => Occupied(i)
    /\ rankLength # 0 => Occupied(rankLength - 1)

EmptyAbove ==
  pc # "idle" => /\ \A i \in DOMAIN ranks : i >= rankLength => ranks[i] = 0
                 /\ rankLength = 0 \/ rankLength < room

BestSize == Size(best) \in 0 .. 2^KeyBits + 1

IInv == /\ TypeOK /\ BestServes /\ BestSize
        /\ Queues /\ Bounds /\ DeferralSound
        /\ CallSound /\ ReadBack /\ PlacedOnly /\ EmptyAbove /\ RaisesOnlyWithoutRoom

LEMMA InitIInv == Init => IInv
<1> SUFFICES ASSUME Init PROVE IInv
  OBVIOUS
<1> USE DEF Init, NoLocals
<1>1. TypeOK
  BY FlatServes DEF TypeOK
<1>2. BestServes /\ BestSize
  BY FlatServes DEF BestServes, BestSize
<1>3. Queues /\ Bounds /\ DeferralSound /\ CallSound /\ ReadBack /\ PlacedOnly /\ EmptyAbove
      /\ RaisesOnlyWithoutRoom
  BY DEF Queues, Bounds, DeferralSound, CallSound, ReadBack, PlacedOnly, EmptyAbove,
         RaisesOnlyWithoutRoom
<1> QED BY <1>1, <1>2, <1>3 DEF IInv

(***************************************************************************)
(* A call that ends.                                                       *)
(***************************************************************************)
LEMMA OverIInv ==
  ASSUME IInv, pc' = "idle", flat' = flat, Forget,
         IsTable(best'), Serves(best', flat), Size(best') \in 0 .. 2^KeyBits + 1
  PROVE  IInv'
<1>1. TypeOK'
  BY DEF IInv, TypeOK, Forget
<1>2. BestServes' /\ BestSize'
  BY DEF BestServes, BestSize, Serves, InBounds, GetRank, Size
<1>3. /\ Queues' /\ Bounds' /\ DeferralSound' /\ CallSound' /\ ReadBack' /\ PlacedOnly'
      /\ EmptyAbove' /\ RaisesOnlyWithoutRoom'
  BY DEF Queues, Bounds, DeferralSound, CallSound, ReadBack, PlacedOnly, EmptyAbove,
         RaisesOnlyWithoutRoom
<1> QED BY <1>1, <1>2, <1>3 DEF IInv

LEMMA GiveUpIInv ==
  ASSUME IInv, pc' = "idle", UNCHANGED <<flat, best>>, Forget
  PROVE  IInv'
BY OverIInv DEF IInv, TypeOK, IsTable, BestServes, BestSize, Serves, InBounds, GetRank, Size

LEMMA StartIInv ==
  ASSUME IInv, NEW p \in Primes, NEW s \in Shifts, Start(p, s)
  PROVE  IInv'
<1> USE DEF Start
<1>1. TypeOK /\ BestServes /\ BestSize
  BY DEF IInv
<1>2. p \in Nat /\ s \in Nat /\ KeyBits \in Nat /\ 2^KeyBits \in Nat
  BY PrimesAssumption, WidthLaws, KeyAssumption, PowerLaws
<1>3. s <= KeyBits /\ room' = Size(best) - 2^(KeyBits - s) /\ room' >= 0
  <2>1. ~(MaxRankLength(Size(best), s) < 0) /\ Size(best) \in 0 .. 2^KeyBits + 1
    BY <1>1 DEF BestSize
  <2>2. s <= KeyBits
    BY <2>1, <1>2, WidthLaws
  <2>3. MaxRankLength(Size(best), s) = Size(best) - 2^(KeyBits - s)
    BY <2>1, <2>2, WidthLaws
  <2>4. s \in 0 .. KeyBits
    BY <1>2, <2>2
  <2>5. 2^(KeyBits - s) \in Nat
    BY <2>4, PowerLaws
  <2> QED BY <1>2, <2>1, <2>2, <2>3, <2>5
<1>4. s \in 0 .. KeyBits /\ Size(best) \in Nat /\ room' \in Nat
      /\ 2^s \in Nat \ {0} /\ 2^(KeyBits - s) \in Nat \ {0}
  BY <1>1, <1>2, <1>3, PowerLaws DEF BestSize
<1>5. flat \in [Hashes -> 1 .. MaxRank] /\ Serves(best, flat)
  BY <1>1 DEF TypeOK, BestServes
<1>6. /\ buckets' \in [Indices(2^(KeyBits - s)) -> [Indices(2^s) -> Ranks]]
      /\ \A k \in Hashes : buckets'[BucketOf(p, s, k)][IndexOf(p, s, k)] = flat[k]
  BY <1>2, <1>4, <1>5, FilledRows
<1>7. /\ Unplaced' = ungrouped' /\ list' = <<>> /\ DOMAIN offsetMap' = {}
      /\ ungrouped' \subseteq DOMAIN buckets'
      /\ \A b \in DOMAIN buckets' \ Unplaced' : Filled(buckets'[b]) = {}
      /\ \A b \in Unplaced' : Filled(buckets'[b]) # {}
  BY EmptyList DEF Unplaced, Grouped
<1>8. ranks' \in [Indices(Length') -> Ranks] /\ rankLength' = 0
      /\ \A i \in DOMAIN ranks' : ranks'[i] = 0
  BY KeyAssumption DEF Ranks, Length
<1>9. TypeOK'
  BY <1>1, <1>2, <1>4, <1>6, <1>7, <1>8 DEF TypeOK, IsTable
<1>10. BestServes' /\ BestSize'
  BY <1>1 DEF BestServes, BestSize, Serves, InBounds, GetRank
<1>11. CallSound'
  <2>1. ASSUME NEW b \in DOMAIN buckets', NEW j \in Filled(buckets'[b])
        PROVE  \E k \in Hashes : BucketOf(p, s, k) = b /\ IndexOf(p, s, k) = j
    <3>1. b \in Indices(2^(KeyBits - s)) /\ j \in Indices(2^s) /\ buckets'[b][j] # 0
      BY <1>6, <2>1 DEF Filled
    <3> QED BY <1>2, <1>4, <3>1, FilledByKeys
  <2> QED BY <1>2, <1>3, <1>4, <1>6, <2>1 DEF CallSound
<1>12. ReadBack'
  BY <1>7 DEF ReadBack
<1>13. PlacedOnly'
  BY <1>6, <1>7, <1>8 DEF PlacedOnly
<1>14. EmptyAbove' /\ RaisesOnlyWithoutRoom'
  BY <1>8 DEF EmptyAbove, RaisesOnlyWithoutRoom
<1>15. Queues' /\ Bounds' /\ DeferralSound'
  BY <1>7, <1>8, EmptyList DEF Queues, Bounds, DeferralSound
<1> QED BY <1>9, <1>10, <1>11, <1>12, <1>13, <1>14, <1>15 DEF IInv

(***************************************************************************)
(* A step that moves buckets between the lists, and writes nothing.        *)
(***************************************************************************)
LEMMA QueueIInv ==
  ASSUME IInv, pc = "placing", Unplaced' = Unplaced,
         UNCHANGED <<flat, best, pc, prime, shift, room, buckets, arrays>>,
         min' \in Nat, max' \in Nat, DOMAIN offsetMap' \subseteq 0 .. Length,
         Queues', Bounds', DeferralSound'
  PROVE  IInv'
<1> USE DEF arrays
<1>1. TypeOK' /\ BestServes' /\ BestSize'
  BY DEF IInv, TypeOK, IsTable, BestServes, BestSize, Serves, InBounds, GetRank, Length
<1>2. CallSound' /\ ReadBack' /\ PlacedOnly' /\ EmptyAbove' /\ RaisesOnlyWithoutRoom'
  BY DEF IInv, CallSound, ReadBack, PlacedOnly, Occupied, EmptyAbove, RaisesOnlyWithoutRoom
<1> QED BY <1>1, <1>2 DEF IInv

(***************************************************************************)
(* What every iteration knows of the types, and that the written slots are *)
(* within the array.                                                       *)
(***************************************************************************)
LEMMA InCall ==
  ASSUME IInv, pc = "placing"
  PROVE  /\ 2^shift \in Nat \ {0} /\ room \in Nat /\ shift \in 0 .. KeyBits
         /\ Length \in Nat /\ rankLength \in 0 .. Length /\ min \in Nat /\ max \in Nat
         /\ buckets \in [Indices(2^(KeyBits - shift)) -> [Indices(2^shift) -> Ranks]]
         /\ offsets \in [DOMAIN buckets -> Nat] /\ ranks \in [Indices(Length) -> Ranks]
         /\ DOMAIN offsetMap \subseteq 0 .. Length
<1>1. /\ room \in Nat /\ shift \in 0 .. KeyBits /\ rankLength \in Nat /\ min \in Nat /\ max \in Nat
      /\ buckets \in [Indices(2^(KeyBits - shift)) -> [Indices(2^shift) -> Ranks]]
      /\ offsets \in [DOMAIN buckets -> Nat] /\ ranks \in [Indices(Length) -> Ranks]
      /\ DOMAIN offsetMap \subseteq 0 .. Length
      /\ rankLength = 0 \/ rankLength < room
  BY DEF IInv, TypeOK, EmptyAbove
<1>2. 2^shift \in Nat \ {0}
  BY <1>1, PowerLaws
<1>3. Length \in Nat /\ rankLength <= Length
  BY <1>1, <1>2 DEF Length
<1> QED BY <1>1, <1>2, <1>3

LEMMA StartGroupIInv ==
  ASSUME IInv, StartGroup
  PROVE  IInv' /\ Unplaced' = Unplaced
<1> DEFINE group == {b \in ungrouped : \A c \in ungrouped : Count(c) <= Count(b)}
<1>1. /\ pc = "placing" /\ list = <<>> /\ DOMAIN offsetMap = {}
      /\ offsetMap' = [o \in {0} |-> Ascending(group)]
      /\ ungrouped' = ungrouped \ group
      /\ UNCHANGED <<flat, best, pc, prime, shift, room, buckets, list, min, max, arrays>>
  BY DEF StartGroup
<1>2. ungrouped \subseteq DOMAIN buckets /\ Length \in Nat /\ rankLength \in Nat
      /\ min \in Nat /\ max \in Nat
  BY <1>1, InCall DEF IInv, Queues
<1>3. group \in SUBSET Int /\ IsFiniteSet(group)
  <2>1. DOMAIN buckets = 0 .. 2^(KeyBits - shift) - 1 /\ 2^(KeyBits - shift) \in Nat
    BY <1>1, InCall, PowerLaws DEF Indices
  <2>2. IsFiniteSet(0 .. 2^(KeyBits - shift) - 1)
    BY <2>1, FS_Interval
  <2> QED BY <1>2, <2>1, <2>2, FS_Subset
<1>4. group \subseteq ungrouped
  OBVIOUS
<1> HIDE DEF group
<1>5. IsList(Ascending(group), group) /\ Elements(Ascending(group)) = group
  BY <1>3, AscendingList
<1>6. IsList(Ascending(group), DOMAIN buckets)
  BY <1>2, <1>4, <1>5 DEF IsList
<1>7. Elements(list) = {} /\ Elements(list') = {}
  BY <1>1, EmptyList
<1>8. Unplaced' = Unplaced
  BY <1>1, <1>4, <1>5, <1>7 DEF Unplaced, Grouped
<1>9. Queues'
  BY <1>1, <1>2, <1>4, <1>5, <1>6, <1>7, EmptyList DEF Queues
<1>10. Bounds' /\ DeferralSound'
  BY <1>1, <1>2, <1>7 DEF IInv, Bounds, DeferralSound, arrays
<1>11. IInv'
  BY <1>1, <1>2, <1>8, <1>9, <1>10, QueueIInv
<1> QED BY <1>8, <1>11

LEMMA PollIInv ==
  ASSUME IInv, NEW o \in DOMAIN offsetMap, Poll(o)
  PROVE  IInv' /\ Unplaced' = Unplaced
<1> DEFINE later == DOMAIN offsetMap \ {o}
<1>1. /\ pc = "placing" /\ list = <<>> /\ \A q \in later : o < q
      /\ min' = o /\ list' = offsetMap[o]
      /\ max' = IF later = {} THEN Length ELSE CHOOSE q \in later : \A r \in later : q <= r
      /\ offsetMap' = [q \in later |-> offsetMap[q]]
      /\ UNCHANGED <<flat, best, pc, prime, shift, room, buckets, ungrouped, arrays>>
  BY DEF Poll
<1>2. /\ Length \in Nat /\ rankLength \in Nat /\ DOMAIN offsetMap \subseteq 0 .. Length
      /\ \A q \in DOMAIN offsetMap : q \in Nat /\ q <= rankLength
  BY <1>1, InCall DEF IInv, Bounds
<1>3. max' = Length \/ max' \in later
  <2>1. CASE later = {} BY <1>1, <2>1
  <2>2. CASE later # {}
    <3>1. \E q \in later : \A r \in later : q <= r
      <4>1. IsFiniteSet(later)
        <5>1. IsFiniteSet(0 .. Length) BY <1>2, FS_Interval
        <5> QED BY <1>2, <5>1, FS_Subset
      <4> QED BY <1>2, <2>2, <4>1, LeastOf
    <3> QED BY <1>1, <2>2, <3>1
  <2> QED BY <2>1, <2>2
<1>4. max' = Length \/ (o < max' /\ max' <= rankLength)
  BY <1>1, <1>2, <1>3
<1>5. o \in Nat /\ max' \in Nat /\ Elements(list) = {}
  BY <1>1, <1>2, <1>3, EmptyList
<1> HIDE DEF later
<1>6. later \subseteq DOMAIN offsetMap /\ DOMAIN offsetMap = later \cup {o} /\ o \notin later
  BY DEF later
<1>7. Unplaced' = Unplaced
  BY <1>1, <1>5, <1>6 DEF Unplaced, Grouped
<1>8. Queues'
  BY <1>1, <1>5, <1>6 DEF IInv, Queues
<1>9. Bounds'
  BY <1>1, <1>2, <1>4, <1>6 DEF Bounds, arrays, Length
<1>10. DeferralSound'
  BY <1>1, <1>6 DEF IInv, DeferralSound, arrays
<1>11. IInv'
  BY <1>1, <1>2, <1>5, <1>6, <1>7, <1>8, <1>9, <1>10, QueueIInv
<1> QED BY <1>7, <1>11

(***************************************************************************)
(* What an iteration knows of the bucket and of the offset that findOffset *)
(* returned: it is never past the written slots, the bucket collides at    *)
(* every offset below it, and it fits there if it is laid.                 *)
(***************************************************************************)
LEMMA OffsetFound ==
  ASSUME IInv, pc = "placing", list # <<>>, NEW b, b = Head(list), NEW o,
         IsOffset(o, buckets[b], ranks, min, max)
  PROVE  /\ b \in DOMAIN buckets /\ b \in Unplaced /\ buckets[b] \in [Indices(2^shift) -> Ranks]
         /\ o \in Nat /\ min <= o /\ o <= rankLength
         /\ \A q \in 0 .. o - 1 : Collides(buckets[b], ranks, q)
         /\ o = min => ~Collides(buckets[b], ranks, o)
<1>1. /\ 2^shift \in Nat \ {0} /\ Length \in Nat /\ rankLength \in 0 .. Length
      /\ min \in Nat /\ max \in Nat /\ min <= rankLength
      /\ max = Length \/ (min < max /\ max <= rankLength)
      /\ ranks \in [Indices(Length) -> Ranks]
      /\ buckets \in [Indices(2^(KeyBits - shift)) -> [Indices(2^shift) -> Ranks]]
  BY InCall DEF IInv, Bounds
<1>2. IsList(list, DOMAIN buckets)
  BY DEF IInv, Queues
<1>3. b \in DOMAIN buckets /\ b \in Elements(list)
  BY <1>2, TailOfList
<1>4. b \in Unplaced /\ buckets[b] \in [Indices(2^shift) -> Ranks]
  BY <1>1, <1>3 DEF Unplaced, Grouped
<1>5. /\ o \in min .. max
      /\ o = max \/ ~Collides(buckets[b], ranks, o)
      /\ \A q \in min .. o - 1 : Collides(buckets[b], ranks, q)
  BY DEF IsOffset
<1>6. \A j \in Filled(buckets[b]) : j \in Nat
  BY <1>1, <1>4 DEF Filled, Indices
<1>7. ~Collides(buckets[b], ranks, rankLength) /\ ~Collides(buckets[b], ranks, Length)
  <2>1. \A i \in DOMAIN ranks : i >= rankLength => ranks[i] = 0
    BY DEF IInv, EmptyAbove
  <2> QED BY <1>1, <1>6, <2>1 DEF Collides
<1>8. o <= rankLength
  BY <1>1, <1>5, <1>7
<1>9. o = min => ~Collides(buckets[b], ranks, o)
  BY <1>1, <1>5, <1>7
<1>10. \A q \in 0 .. min - 1 : Collides(buckets[b], ranks, q)
  BY <1>3 DEF IInv, DeferralSound
<1>11. \A q \in 0 .. o - 1 : Collides(buckets[b], ranks, q)
  BY <1>1, <1>5, <1>10
<1> QED BY <1>1, <1>3, <1>4, <1>5, <1>8, <1>9, <1>11

LEMMA DeferIInv ==
  ASSUME IInv, pc = "placing", list # <<>>, NEW b, b = Head(list), NEW o,
         IsOffset(o, buckets[b], ranks, min, max), Defer(b, o)
  PROVE  IInv' /\ Unplaced' = Unplaced
<1> DEFINE waiting == IF o \in DOMAIN offsetMap THEN Append(offsetMap[o], b) ELSE <<b>>
<1>1. /\ DOMAIN offsetMap' = DOMAIN offsetMap \cup {o}
      /\ offsetMap'[o] = waiting
      /\ \A q \in DOMAIN offsetMap \ {o} : offsetMap'[q] = offsetMap[q]
      /\ list' = Tail(list)
      /\ UNCHANGED <<flat, best, pc, prime, shift, room, buckets, ungrouped, min, max, arrays>>
  BY DEF Defer
<1>2. /\ b \in DOMAIN buckets /\ o \in Nat /\ o <= rankLength
      /\ \A q \in 0 .. o - 1 : Collides(buckets[b], ranks, q)
  BY OffsetFound
<1>3. /\ Length \in Nat /\ rankLength \in 0 .. Length /\ min \in Nat /\ max \in Nat
      /\ DOMAIN offsetMap \subseteq 0 .. Length
  BY InCall
<1>4. /\ IsList(list', DOMAIN buckets) /\ Elements(list) = Elements(list') \cup {b}
      /\ b \notin Elements(list')
  BY <1>1, TailOfList DEF IInv, Queues
<1>5. b \notin ungrouped /\ \A q \in DOMAIN offsetMap : b \notin Elements(offsetMap[q])
  BY <1>4 DEF IInv, Queues
<1>6. /\ IsList(waiting, DOMAIN buckets)
      /\ Elements(waiting) = (IF o \in DOMAIN offsetMap THEN Elements(offsetMap[o]) ELSE {}) \cup {b}
  <2>1. CASE o \in DOMAIN offsetMap
    <3>1. IsList(offsetMap[o], DOMAIN buckets)
      BY <2>1 DEF IInv, Queues
    <3> QED BY <1>2, <1>5, <2>1, <3>1, AppendToList
  <2>2. CASE o \notin DOMAIN offsetMap
    BY <1>2, <2>2, SingletonList
  <2> QED BY <2>1, <2>2
<1> HIDE DEF waiting
<1>7. Unplaced' = Unplaced
  <2>1. ASSUME NEW c
        PROVE  (\E q \in DOMAIN offsetMap' : c \in Elements(offsetMap'[q]))
               <=> c = b \/ \E q \in DOMAIN offsetMap : c \in Elements(offsetMap[q])
    <3>1. ASSUME NEW q \in DOMAIN offsetMap', q # o
          PROVE  q \in DOMAIN offsetMap /\ Elements(offsetMap'[q]) = Elements(offsetMap[q])
      BY <1>1, <3>1
    <3>2. Elements(offsetMap'[o]) = (IF o \in DOMAIN offsetMap THEN Elements(offsetMap[o]) ELSE {}) \cup {b}
      BY <1>1, <1>6
    <3> QED BY <1>1, <3>1, <3>2
  <2>2. ASSUME NEW c PROVE c \in Grouped' <=> c \in Grouped
    BY <1>1, <1>4, <2>1 DEF Grouped
  <2> QED BY <1>1, <2>2 DEF Unplaced
<1>8. Queues'
  <2>1. ASSUME NEW q \in DOMAIN offsetMap'
        PROVE  /\ IsList(offsetMap'[q], DOMAIN buckets)
               /\ Elements(offsetMap'[q]) \cap (ungrouped \cup Elements(list')) = {}
    BY <1>1, <1>4, <1>5, <1>6, <2>1 DEF IInv, Queues
  <2>2. ASSUME NEW q \in DOMAIN offsetMap', NEW r \in DOMAIN offsetMap' \ {q}
        PROVE  Elements(offsetMap'[q]) \cap Elements(offsetMap'[r]) = {}
    <3>1. CASE q # o /\ r # o BY <1>1, <2>2, <3>1 DEF IInv, Queues
    <3>2. CASE q = o BY <1>1, <1>5, <1>6, <2>2, <3>2 DEF IInv, Queues
    <3>3. CASE r = o BY <1>1, <1>5, <1>6, <2>2, <3>3 DEF IInv, Queues
    <3> QED BY <3>1, <3>2, <3>3
  <2>3. ungrouped \subseteq DOMAIN buckets /\ Elements(list') \cap ungrouped = {}
    BY <1>4 DEF IInv, Queues
  <2> QED BY <1>1, <1>4, <2>1, <2>2, <2>3 DEF Queues
<1>9. Bounds'
  BY <1>1, <1>2 DEF IInv, Bounds, arrays, Length
<1>10. DeferralSound'
  <2>1. \A q \in DOMAIN offsetMap' : \A c \in Elements(offsetMap'[q]) :
          \A r \in 0 .. q - 1 : Collides(buckets[c], ranks, r)
    BY <1>1, <1>2, <1>6 DEF IInv, DeferralSound
  <2>2. \A c \in Elements(list') : \A r \in 0 .. min - 1 : Collides(buckets[c], ranks, r)
    BY <1>4 DEF IInv, DeferralSound
  <2> QED BY <1>1, <2>1, <2>2 DEF DeferralSound, arrays
<1>11. DOMAIN offsetMap' \subseteq 0 .. Length
  BY <1>1, <1>2, <1>3
<1>12. IInv'
  BY <1>1, <1>3, <1>7, <1>8, <1>9, <1>10, <1>11, QueueIInv
<1> QED BY <1>7, <1>12

LEMMA RaiseIInv ==
  ASSUME IInv, pc = "placing", list # <<>>, NEW b, b = Head(list), NEW o,
         IsOffset(o, buckets[b], ranks, min, max), Raise(b, o)
  PROVE  IInv'
<1>1. /\ 2^shift \in Nat \ {0} /\ room \in Nat /\ rankLength \in Nat /\ Length = room + 2^shift - 1
      /\ buckets[b] \in [Indices(2^shift) -> Ranks] /\ ranks \in [Indices(Length) -> Ranks]
      /\ o \in Nat /\ o <= rankLength
      /\ rankLength = 0 \/ rankLength < room
  BY InCall, OffsetFound DEF IInv, EmptyAbove, Length
<1>2. PICK j \in Filled(buckets[b]) : o + j \notin DOMAIN ranks
  BY DEF Raise, Overruns
<1>3. j \in 0 .. 2^shift - 1
  BY <1>1, <1>2 DEF Filled, Indices
<1>4. ~(o + j <= room + 2^shift - 2)
  BY <1>1, <1>2, <1>3 DEF Indices
<1>5. room = 0
  BY <1>1, <1>3, <1>4
<1>6. /\ pc' = "raised" /\ UNCHANGED <<flat, best, prime, shift, room, buckets, ungrouped>>
      /\ UNCHANGED <<offsetMap, list, min, max, offsets, ranks, rankLength>>
  BY DEF Raise, locals, arrays
<1>7. Unplaced' = Unplaced /\ Length' = Length
  BY <1>6 DEF Unplaced, Grouped, Length
<1>8. TypeOK' /\ BestServes' /\ BestSize'
  BY <1>6, <1>7 DEF IInv, TypeOK, IsTable, BestServes, BestSize, Serves, InBounds, GetRank
<1>9. Queues' /\ Bounds' /\ DeferralSound' /\ RaisesOnlyWithoutRoom'
  BY <1>5, <1>6, <1>7 DEF IInv, Queues, Bounds, DeferralSound, RaisesOnlyWithoutRoom
<1>10. CallSound' /\ ReadBack' /\ PlacedOnly' /\ EmptyAbove'
  BY <1>6, <1>7 DEF IInv, CallSound, ReadBack, PlacedOnly, Occupied, EmptyAbove
<1> QED BY <1>8, <1>9, <1>10 DEF IInv

(***************************************************************************)
(* One bucket is laid: it waits nowhere any more, what was laid before can *)
(* still be read, and every bucket that collided at an offset still does,  *)
(* as no occupied slot is changed.                                         *)
(***************************************************************************)
LEMMA PlaceIInv ==
  ASSUME IInv, pc = "placing", list # <<>>, NEW b, b = Head(list), NEW o, NEW n,
         IsOffset(o, buckets[b], ranks, min, max),
         IsLengthAfter(n, buckets[b], rankLength, o),
         Place(b, o, n)
  PROVE  IInv' /\ Unplaced' = Unplaced \ {b}
<1>1. /\ o = min /\ ~Overruns(buckets[b], ranks, o) /\ n < room
      /\ max' = min + 1 /\ list' = Tail(list)
      /\ offsets' = [offsets EXCEPT ![b] = o]
      /\ ranks' = Written(buckets[b], ranks, o) /\ rankLength' = n
      /\ UNCHANGED <<flat, best, pc, prime, shift, room, buckets, ungrouped, offsetMap, min>>
  BY DEF Place
<1>2. /\ 2^shift \in Nat \ {0} /\ room \in Nat /\ shift \in 0 .. KeyBits
      /\ b \in DOMAIN buckets /\ b \in Unplaced /\ buckets[b] \in [Indices(2^shift) -> Ranks]
      /\ ranks \in [Indices(Length) -> Ranks] /\ Length \in Nat /\ rankLength \in Nat
      /\ offsets \in [DOMAIN buckets -> Nat] /\ o \in Nat /\ min \in Nat
      /\ ~Collides(buckets[b], ranks, o)
  BY <1>1, InCall, OffsetFound
<1>3. /\ TypeOK /\ BestServes /\ BestSize /\ Queues /\ Bounds /\ DeferralSound
      /\ CallSound /\ ReadBack /\ PlacedOnly /\ EmptyAbove
  BY DEF IInv
<1>4. /\ ranks' \in [Indices(Length) -> Ranks]
      /\ \A j \in Filled(buckets[b]) : /\ o + j \in DOMAIN ranks
                                       /\ ranks'[o + j] = buckets[b][j]
      /\ \A i \in DOMAIN ranks : ranks[i] # 0 => ranks'[i] = ranks[i]
  <2>1. 2^shift \in Nat /\ DOMAIN ranks = Indices(Length) /\ ~Overruns(buckets[b], ranks, o)
    BY <1>1, <1>2
  <2>2. /\ Written(buckets[b], ranks, o) \in [Indices(Length) -> Ranks]
        /\ \A j \in Filled(buckets[b]) : /\ o + j \in Indices(Length)
                                         /\ Written(buckets[b], ranks, o)[o + j] = buckets[b][j]
        /\ \A i \in Indices(Length) : ranks[i] # 0 => Written(buckets[b], ranks, o)[i] = ranks[i]
    BY <1>2, <2>1, WrittenReads
  <2> QED BY <1>1, <2>1, <2>2
<1>5. Filled(buckets[b]) \subseteq Nat /\ Filled(buckets[b]) # {}
  BY <1>2, <1>3 DEF Filled, Indices, PlacedOnly
<1>6. /\ n \in Nat /\ rankLength <= n
      /\ \A j \in Filled(buckets[b]) : o + j < n
  <2>1. n \in {rankLength} \cup Lengths(buckets[b], o)
        /\ \A m \in {rankLength} \cup Lengths(buckets[b], o) : m <= n
    BY DEF IsLengthAfter
  <2>2. n \in Nat
    BY <1>2, <1>5, <2>1 DEF Lengths
  <2>3. ASSUME NEW j \in Filled(buckets[b]) PROVE o + j < n
    <3>1. 1 + o + j <= n /\ j \in Nat
      BY <1>5, <2>1 DEF Lengths
    <3> QED BY <1>2, <2>2, <3>1
  <2> QED BY <2>1, <2>2, <2>3
<1>7. /\ IsList(list', DOMAIN buckets) /\ Elements(list) = Elements(list') \cup {b}
      /\ b \notin Elements(list') /\ b \notin ungrouped
      /\ \A q \in DOMAIN offsetMap : b \notin Elements(offsetMap[q])
  BY <1>1, <1>3, TailOfList DEF Queues
<1>8. Unplaced' = Unplaced \ {b}
  <2>1. ASSUME NEW c PROVE c \in Grouped' <=> c \in Grouped /\ c # b
    BY <1>1, <1>7 DEF Grouped
  <2> QED BY <1>1, <1>7, <2>1 DEF Unplaced
<1>9. TypeOK'
  <2>1. offsets' \in [DOMAIN buckets -> Nat] /\ max' \in Nat /\ Length' = Length
    BY <1>1, <1>2 DEF Length
  <2>2. Unplaced' \subseteq DOMAIN buckets
    BY <1>1, <1>2, <1>3, <1>8 DEF TypeOK
  <2>3. IsTable(best)'
    BY <1>1, <1>3 DEF TypeOK, IsTable
  <2> QED BY <1>1, <1>3, <1>4, <1>6, <2>1, <2>2, <2>3 DEF TypeOK
<1>10. BestServes' /\ BestSize' /\ CallSound' /\ RaisesOnlyWithoutRoom'
  BY <1>1, <1>3 DEF IInv, BestServes, BestSize, CallSound, RaisesOnlyWithoutRoom
<1>11. Queues'
  BY <1>1, <1>3, <1>7 DEF Queues
<1>12. Bounds'
  <2>1. min + 1 <= n
    <3>1. PICK j \in Filled(buckets[b]) : TRUE BY <1>5
    <3>2. j \in Nat /\ o + j < n BY <1>5, <1>6, <3>1
    <3> QED BY <1>1, <1>2, <1>6, <3>2
  <2>2. \A q \in DOMAIN offsetMap : q \in Nat /\ q <= n
    BY <1>1, <1>2, <1>3, <1>6 DEF Bounds
  <2> QED BY <1>1, <1>2, <1>6, <2>1, <2>2 DEF Bounds
<1>13. DeferralSound'
  <2>1. ASSUME NEW c, NEW q, Collides(buckets[c], ranks, q) PROVE Collides(buckets[c], ranks', q)
    <3>1. DOMAIN ranks' = DOMAIN ranks BY <1>2, <1>4
    <3> QED BY <1>4, <2>1, <3>1 DEF Collides
  <2> QED BY <1>1, <1>3, <1>7, <2>1 DEF DeferralSound
<1>14. ReadBack'
  <2> SUFFICES ASSUME NEW c \in DOMAIN buckets \ Unplaced', NEW j \in Filled(buckets[c])
               PROVE  /\ offsets'[c] + j \in DOMAIN ranks
                      /\ offsets'[c] + j < n
                      /\ ranks'[offsets'[c] + j] = buckets[c][j]
    BY <1>1, <1>2, <1>4 DEF ReadBack
  <2>1. CASE c = b
    <3>1. offsets'[c] = o
      BY <1>1, <1>2, <2>1
    <3> QED BY <1>4, <1>6, <2>1, <3>1
  <2>2. CASE c # b
    <3>1. c \in DOMAIN buckets \ Unplaced /\ offsets'[c] = offsets[c]
      BY <1>1, <1>2, <1>8, <2>2
    <3>2. /\ offsets[c] + j \in DOMAIN ranks
          /\ offsets[c] + j < rankLength
          /\ ranks[offsets[c] + j] = buckets[c][j]
      BY <1>1, <1>3, <3>1 DEF ReadBack
    <3>3. ranks'[offsets[c] + j] = buckets[c][j]
      BY <1>4, <3>2 DEF Filled
    <3>4. offsets[c] + j < n
      BY <1>2, <1>6, <3>2 DEF Indices
    <3> QED BY <3>1, <3>2, <3>3, <3>4
  <2> QED BY <2>1, <2>2
<1>15. EmptyAbove'
  <2> SUFFICES ASSUME NEW i \in DOMAIN ranks, i >= n PROVE ranks'[i] = 0
    BY <1>1, <1>2, <1>4 DEF EmptyAbove
  <2>1. i \in Int /\ i >= rankLength
    BY <1>2, <1>6 DEF Indices
  <2>2. ranks[i] = 0
    BY <1>1, <1>3, <2>1 DEF EmptyAbove
  <2>3. i - o \notin Filled(buckets[b])
    BY <1>2, <1>6, <2>1
  <2> QED BY <1>1, <2>2, <2>3 DEF Written
<1>16. PlacedOnly'
  <2>1. ASSUME NEW i, Occupied(i) PROVE Occupied(i)'
    BY <1>1, <1>2, <1>8, <2>1 DEF Occupied
  <2>2. ASSUME NEW j \in Filled(buckets[b]) PROVE Occupied(o + j)'
    BY <1>1, <1>2, <1>8 DEF Occupied
  <2>3. ASSUME NEW i \in DOMAIN ranks, ranks'[i] # 0 PROVE Occupied(i)'
    <3>1. CASE i - o \in Filled(buckets[b])
      <4>1. i \in Int /\ o + (i - o) = i BY <1>2 DEF Indices
      <4>2. PICK j \in Filled(buckets[b]) : o + j = i BY <3>1, <4>1
      <4> QED BY <2>2, <4>2
    <3>2. CASE i - o \notin Filled(buckets[b])
      <4>1. ranks[i] # 0 BY <1>1, <2>3, <3>2 DEF Written
      <4>2. Occupied(i) BY <1>1, <1>3, <4>1 DEF PlacedOnly
      <4> QED BY <2>1, <4>2
    <3> QED BY <3>1, <3>2
  <2>4. ASSUME n # 0 PROVE Occupied(n - 1)'
    <3>1. CASE n = rankLength
      <4>1. PICK i : i = n - 1 /\ Occupied(i)
        BY <1>3, <2>4, <3>1 DEF PlacedOnly
      <4>2. Occupied(i)' BY <2>1, <4>1
      <4> QED BY <1>1, <4>1, <4>2
    <3>2. CASE n \in Lengths(buckets[b], o)
      <4>1. PICK j \in Filled(buckets[b]) : n = 1 + o + j
        BY <3>2 DEF Lengths
      <4>2. n - 1 = o + j BY <1>2, <1>5, <4>1
      <4> QED BY <2>2, <4>2
    <3> QED BY <3>1, <3>2 DEF IsLengthAfter
  <2>5. /\ \A c \in Unplaced' : Filled(buckets[c]) # {}
        /\ \A c \in DOMAIN buckets : c \in Unplaced' \/ Filled(buckets[c]) = {} => offsets'[c] = 0
    BY <1>1, <1>2, <1>3, <1>5, <1>8 DEF PlacedOnly
  <2>6. DOMAIN ranks' = DOMAIN ranks BY <1>2, <1>4
  <2> QED BY <1>1, <2>3, <2>4, <2>5, <2>6 DEF PlacedOnly
<1>17. IInv'
  BY <1>9, <1>10, <1>11, <1>12, <1>13, <1>14, <1>15, <1>16 DEF IInv
<1> QED BY <1>8, <1>17

-------------------------------------------------------------------------------
(***************************************************************************)
(* The definitions of HashTable that RowDisplacement has of its own.       *)
(***************************************************************************)
LEMMA SameTables ==
  /\ \A p, k : Rows!Spread(p, k) = Spread(p, k)
  /\ \A p, s, k : /\ Rows!BucketOf(p, s, k) = BucketOf(p, s, k)
                  /\ Rows!IndexOf(p, s, k) = IndexOf(p, s, k)
  /\ \A p : Rows!KeysCollide(p) <=> KeysCollide(p)
  /\ \A n : Rows!Indices(n) = Indices(n)
  /\ \A t : Rows!Size(t) = Size(t)
  /\ \A f : Rows!FlatTable(f) = FlatTable(f)
BY DEF Rows!Spread, Spread, Rows!BucketOf, BucketOf, Rows!IndexOf, IndexOf, Rows!KeysCollide,
       KeysCollide, Rows!Indices, Indices, Rows!Size, Size, Rows!FlatTable, FlatTable,
       Rows!HighestKey, HighestKey

(***************************************************************************)
(* While a call is under way, a key is in the bucket it falls into, and    *)
(* the buckets that are not empty are those of the keys.                   *)
(***************************************************************************)
LEMMA KeysInBuckets ==
  ASSUME IInv, pc # "idle", NEW k \in Hashes
  PROVE  /\ BucketOf(prime, shift, k) \in DOMAIN buckets
         /\ IndexOf(prime, shift, k) \in Filled(buckets[BucketOf(prime, shift, k)])
         /\ buckets[BucketOf(prime, shift, k)][IndexOf(prime, shift, k)] = flat[k]
<1> DEFINE b == BucketOf(prime, shift, k)
           j == IndexOf(prime, shift, k)
<1>1. /\ shift \in 0 .. KeyBits /\ prime \in Nat /\ flat[k] \in 1 .. MaxRank
      /\ buckets \in [Indices(2^(KeyBits - shift)) -> [Indices(2^shift) -> Ranks]]
  BY DEF IInv, TypeOK
<1>2. b \in DOMAIN buckets /\ j \in Indices(2^shift)
  BY <1>1, KeyPlace
<1>3. buckets[b][j] = flat[k]
  BY DEF IInv, CallSound
<1> HIDE DEF b, j
<1>4. j \in Filled(buckets[b])
  BY <1>1, <1>2, <1>3 DEF Filled
<1> QED BY <1>2, <1>3, <1>4 DEF b, j

LEMMA BucketsOfKeys ==
  ASSUME IInv, pc # "idle"
  PROVE  Rows!Buckets = {b \in DOMAIN buckets : Filled(buckets[b]) # {}}
<1>1. Rows!Buckets = {BucketOf(prime, shift, k) : k \in Hashes}
  BY SameTables DEF Rows!Buckets, Rows!Bucket
<1>2. ASSUME NEW k \in Hashes
      PROVE  /\ BucketOf(prime, shift, k) \in DOMAIN buckets
             /\ Filled(buckets[BucketOf(prime, shift, k)]) # {}
  BY KeysInBuckets
<1>3. ASSUME NEW b \in DOMAIN buckets, Filled(buckets[b]) # {}
      PROVE  \E k \in Hashes : BucketOf(prime, shift, k) = b
  BY <1>3 DEF IInv, CallSound
<1> QED BY <1>1, <1>2, <1>3

(***************************************************************************)
(* The slot of a key whose bucket has been laid holds the rank of the key. *)
(***************************************************************************)
LEMMA LaidReads ==
  ASSUME IInv, pc # "idle", NEW k \in Hashes, BucketOf(prime, shift, k) \notin Unplaced
  PROVE  LET i == offsets[BucketOf(prime, shift, k)] + IndexOf(prime, shift, k)
         IN  i \in DOMAIN ranks /\ i < rankLength /\ ranks[i] = flat[k]
BY KeysInBuckets DEF IInv, ReadBack

(***************************************************************************)
(* A table is returned when no bucket waits: every key is read where its   *)
(* bucket was laid.                                                        *)
(***************************************************************************)
LEMMA NoneWaits ==
  ASSUME IInv, Return
  PROVE  Unplaced = {} /\ pc = "placing" /\ pc # "idle"
BY EmptyList DEF Return, Unplaced, Grouped

LEMMA ReturnServes ==
  ASSUME IInv, Return
  PROVE  /\ IsTable(best') /\ Serves(best', flat)
         /\ Size(best') < Size(best) /\ Size(best') \in Nat
<1>1. /\ best'.primeSpread = prime /\ best'.offsetShift = shift
      /\ best'.offsetLength = OffsetLength(shift) /\ best'.offsets = offsets
      /\ best'.rankLength = rankLength
      /\ best'.ranks = [i \in Indices(rankLength) |-> ranks[i]]
      /\ Unplaced = {} /\ pc # "idle"
  BY NoneWaits DEF Return
<1>2. /\ shift \in Shifts /\ shift \in 0 .. KeyBits /\ prime \in Nat /\ Size(best) \in Nat
      /\ room \in Nat /\ rankLength \in Nat /\ Length \in Nat /\ rankLength <= Length
      /\ room = Size(best) - 2^(KeyBits - shift)
      /\ rankLength = 0 \/ rankLength < room
  BY NoneWaits, InCall DEF IInv, CallSound, EmptyAbove
<1>3. /\ 2^(KeyBits - shift) \in Nat \ {0} /\ 2^shift \in Nat \ {0} /\ 2^KeyBits \in Nat
      /\ buckets \in [Indices(2^(KeyBits - shift)) -> [Indices(2^shift) -> Ranks]]
      /\ offsets \in [Indices(2^(KeyBits - shift)) -> Nat]
      /\ ranks \in [Indices(Length) -> Ranks]
  BY <1>2, NoneWaits, InCall, PowerLaws, KeyAssumption
<1>4. OffsetLength(shift) = 2^(KeyBits - shift)
  <2>1. 0 \in 0 .. 2^KeyBits + 1 /\ shift <= KeyBits
    BY <1>2, <1>3
  <2> QED BY <1>2, <2>1, WidthLaws
<1>5. ASSUME NEW k \in Hashes
      PROVE  InBounds(best', k) /\ GetRank(best', k) = flat[k]
  <2> DEFINE c == BucketOf(prime, shift, k)
             i == offsets[c] + IndexOf(prime, shift, k)
  <2>1. c \in DOMAIN buckets
    BY <1>1, KeysInBuckets
  <2>2. i \in DOMAIN ranks /\ i < rankLength /\ ranks[i] = flat[k]
    BY <1>1, LaidReads
  <2>3. OffsetSlot(best', k) = c /\ RankSlot(best', k) = i
    BY <1>1 DEF OffsetSlot, RankSlot
  <2> HIDE DEF c, i
  <2>4. i \in Indices(rankLength)
    BY <1>2, <1>3, <2>2 DEF Indices
  <2> QED BY <1>1, <1>3, <1>4, <2>1, <2>2, <2>3, <2>4 DEF InBounds, GetRank
<1>6. rankLength < room
  <2>1. PICK k \in Hashes : InBounds(best', k)
    BY <1>5, KeyAssumption
  <2>2. rankLength # 0
    BY <1>1, <2>1 DEF InBounds, Indices
  <2> QED BY <1>2, <2>2
<1>7. Size(best') < Size(best) /\ Size(best') \in Nat
  BY <1>1, <1>2, <1>3, <1>4, <1>6 DEF Size
<1>8. IsTable(best')
  <2>1. Indices(rankLength) \subseteq Indices(Length)
    BY <1>2 DEF Indices
  <2>2. best'.ranks \in [Indices(best'.rankLength) -> Ranks]
    BY <1>1, <1>3, <2>1
  <2>3. best'.offsets \in [Indices(best'.offsetLength) -> Nat]
    BY <1>1, <1>3, <1>4
  <2> QED BY <1>1, <1>2, <1>3, <1>4, <2>2, <2>3 DEF IsTable
<1> QED BY <1>5, <1>7, <1>8 DEF Serves

LEMMA ReturnIInv ==
  ASSUME IInv, Return
  PROVE  IInv'
<1>1. Size(best) \in 0 .. 2^KeyBits + 1 /\ 2^KeyBits \in Nat
  BY PowerLaws, KeyAssumption DEF IInv, BestSize
<1>2. Size(best') \in 0 .. 2^KeyBits + 1
  BY <1>1, ReturnServes
<1> QED BY <1>2, ReturnServes, OverIInv DEF Return

-------------------------------------------------------------------------------
LEMMA NextIInv == IInv /\ [Next]_vars => IInv'
<1> SUFFICES ASSUME IInv, [Next]_vars PROVE IInv'
  OBVIOUS
<1>1. CASE UNCHANGED vars
  <2>1. UNCHANGED <<flat, best, pc, prime, shift, room, buckets, ungrouped>>
        /\ UNCHANGED <<offsetMap, list, min, max, offsets, ranks, rankLength>>
    BY <1>1 DEF vars, locals, arrays
  <2>2. Unplaced' = Unplaced /\ Length' = Length
    BY <2>1 DEF Unplaced, Grouped, Length
  <2>3. TypeOK' /\ BestServes' /\ BestSize'
    BY <2>1, <2>2 DEF IInv, TypeOK, IsTable, BestServes, BestSize, Serves, InBounds, GetRank
  <2>4. Queues' /\ Bounds' /\ DeferralSound' /\ RaisesOnlyWithoutRoom'
    BY <2>1, <2>2 DEF IInv, Queues, Bounds, DeferralSound, RaisesOnlyWithoutRoom
  <2>5. CallSound' /\ ReadBack' /\ PlacedOnly' /\ EmptyAbove'
    BY <2>1, <2>2 DEF IInv, CallSound, ReadBack, PlacedOnly, Occupied, EmptyAbove
  <2> QED BY <2>3, <2>4, <2>5 DEF IInv
<1>2. ASSUME NEW p \in Primes, NEW s \in Shifts, Refuse(p, s) \/ Start(p, s) PROVE IInv'
  BY <1>1, <1>2, StartIInv DEF Refuse
<1>3. CASE StartGroup BY <1>3, StartGroupIInv
<1>4. ASSUME NEW o \in DOMAIN offsetMap, Poll(o) PROVE IInv' BY <1>4, PollIInv
<1>5. ASSUME NEW b, Iterate(b) PROVE IInv'
  <2>1. pc = "placing" /\ list # <<>> /\ b = Head(list)
    BY <1>5 DEF Iterate
  <2>2. PICK o : /\ IsOffset(o, buckets[b], ranks, min, max)
                 /\ \/ Defer(b, o)
                    \/ GiveUpOffset(o)
                    \/ Raise(b, o)
                    \/ \E n : /\ IsLengthAfter(n, buckets[b], rankLength, o)
                              /\ Place(b, o, n) \/ GiveUpLength(b, o, n)
    BY <1>5 DEF Iterate
  <2>3. CASE Defer(b, o) BY <2>1, <2>2, <2>3, DeferIInv
  <2>4. CASE GiveUpOffset(o) BY <2>4, GiveUpIInv DEF GiveUpOffset
  <2>5. CASE Raise(b, o) BY <2>1, <2>2, <2>5, RaiseIInv
  <2>6. ASSUME NEW n, IsLengthAfter(n, buckets[b], rankLength, o), Place(b, o, n) PROVE IInv'
    BY <2>1, <2>2, <2>6, PlaceIInv
  <2>7. ASSUME NEW n, GiveUpLength(b, o, n) PROVE IInv'
    BY <2>7, GiveUpIInv DEF GiveUpLength
  <2> QED BY <2>2, <2>3, <2>4, <2>5, <2>6, <2>7
<1>6. CASE Return BY <1>6, ReturnIInv
<1> QED BY <1>1, <1>2, <1>3, <1>4, <1>5, <1>6 DEF Next, Step

(***************************************************************************)
(* The inductive invariant holds in every reachable state.                 *)
(***************************************************************************)
THEOREM Invariance == Spec => []IInv
BY InitIInv, NextIInv, PTL DEF Spec

(***************************************************************************)
(* Types: in particular a bucket that waits is one of the call's, and      *)
(* every offset of the map is within the array.                            *)
(***************************************************************************)
THEOREM TypeCorrect == Spec => []TypeOK
<1>1. IInv => TypeOK BY DEF IInv
<1> QED BY Invariance, <1>1, PTL

(***************************************************************************)
(* Through any number of improvements, by a heuristic that defers and      *)
(* polls buckets, the table gives every hand its rank in the flat table.   *)
(***************************************************************************)
THEOREM BestAlwaysServes == Spec => []BestServes
<1>1. IInv => BestServes BY DEF IInv
<1> QED BY Invariance, <1>1, PTL

(***************************************************************************)
(* An array is overrun only when the reference leaves no room for ranks.   *)
(***************************************************************************)
THEOREM OverrunsOnlyWithoutRoom == Spec => []RaisesOnlyWithoutRoom
<1>1. IInv => RaisesOnlyWithoutRoom BY DEF IInv
<1> QED BY Invariance, <1>1, PTL

(***************************************************************************)
(* A bucket that waits under an offset collides at every lower one,        *)
(* whatever has been written since it was put there.                       *)
(***************************************************************************)
THEOREM DeferralsSound == Spec => []DeferralSound
<1>1. IInv => DeferralSound BY DEF IInv
<1> QED BY Invariance, <1>1, PTL

-------------------------------------------------------------------------------
LEMMA InitRows == Init => Rows!Init
BY SameTables DEF Init, NoLocals, Rows!Init, Laid, Rows!NothingLaid

LEMMA StartRows ==
  ASSUME IInv, NEW p \in Primes, NEW s \in Shifts, Start(p, s)
  PROVE  Rows!Next
<1>1. shift' \in 0 .. KeyBits /\ shift' = s /\ pc' # "idle"
  BY StartIInv DEF IInv, TypeOK, Start
<1>2. pc = "idle" /\ p \in Nat
  BY PrimesAssumption DEF Start
<1>3. {b \in DOMAIN buckets' \ Unplaced' : Filled(buckets'[b]) # {}} = {}
  BY DEF Start, Unplaced
<1>4. Laid = [b \in {} |-> 0]
  BY <1>2 DEF Laid
<1>5. Laid' = [b \in {} |-> 0]
  BY <1>1, <1>3 DEF Laid
<1>6. Rows!Begin(p, s)
  BY <1>1, <1>2, <1>4, <1>5, SameTables DEF Start, Rows!Begin
<1> QED BY <1>1, <1>6 DEF Rows!Next

LEMMA OverRows ==
  ASSUME pc # "idle", pc' = "idle", Forget
  PROVE  (pc # "idle") /\ Rows!Over
BY DEF Rows!Over, Forget, Laid, Rows!NothingLaid

(***************************************************************************)
(* A step that moves buckets between the lists is none of RowDisplacement. *)
(***************************************************************************)
LEMMA QueueRows ==
  ASSUME Unplaced' = Unplaced, UNCHANGED <<flat, best, pc, prime, shift, buckets, arrays>>
  PROVE  UNCHANGED Rows!vars
BY DEF Rows!vars, Laid, arrays

LEMMA PlaceRows ==
  ASSUME IInv, pc = "placing", list # <<>>, NEW b, b = Head(list), NEW o, NEW n,
         IsOffset(o, buckets[b], ranks, min, max),
         IsLengthAfter(n, buckets[b], rankLength, o),
         Place(b, o, n)
  PROVE  Rows!Next
<1>1. /\ b \in DOMAIN buckets /\ b \in Unplaced /\ Filled(buckets[b]) # {}
      /\ o \in Nat /\ o < 2^ShortBits
      /\ offsets \in [DOMAIN buckets -> Nat] /\ pc # "idle"
  BY OffsetFound, InCall DEF IInv, PlacedOnly, Place
<1>2. /\ UNCHANGED <<pc, prime, shift, buckets, flat, best>>
      /\ Unplaced' = Unplaced \ {b} /\ offsets' = [offsets EXCEPT ![b] = o]
  BY PlaceIInv DEF Place
<1>3. IInv'
  BY PlaceIInv
<1>4. b \in Rows!Buckets \ DOMAIN Laid
  BY <1>1, BucketsOfKeys DEF Laid
<1>5. Laid' = [c \in DOMAIN Laid \cup {b} |-> IF c = b THEN o ELSE Laid[c]]
  <2>1. DOMAIN Laid = {c \in DOMAIN buckets \ Unplaced : Filled(buckets[c]) # {}}
    BY <1>1 DEF Laid
  <2>2. {c \in DOMAIN buckets' \ Unplaced' : Filled(buckets'[c]) # {}} = DOMAIN Laid \cup {b}
    BY <1>1, <1>2, <2>1
  <2>3. \A c \in DOMAIN Laid : c # b /\ Laid[c] = offsets[c] /\ offsets'[c] = offsets[c]
    BY <1>1, <1>2, <2>1 DEF Laid
  <2>4. offsets'[b] = o
    BY <1>1, <1>2
  <2>5. Laid' = [c \in DOMAIN Laid \cup {b} |-> offsets'[c]]
    BY <1>1, <1>2, <2>2 DEF Laid
  <2> QED BY <2>3, <2>4, <2>5
<1>6. Rows!Fits(Laid')
  <2>1. ASSUME NEW k \in Hashes, BucketOf(prime, shift, k) \in DOMAIN Laid'
        PROVE  ranks'[Laid'[BucketOf(prime, shift, k)] + IndexOf(prime, shift, k)] = flat[k]
    <3>1. pc' # "idle" /\ prime' = prime /\ shift' = shift /\ flat' = flat
      BY <1>1, <1>2
    <3>2. /\ Laid'[BucketOf(prime, shift, k)] = offsets'[BucketOf(prime, shift, k)]
          /\ BucketOf(prime, shift, k) \in DOMAIN buckets' \ Unplaced'
      BY <2>1, <3>1 DEF Laid
    <3>3. IndexOf(prime, shift, k) \in Filled(buckets'[BucketOf(prime, shift, k)])
          /\ buckets'[BucketOf(prime, shift, k)][IndexOf(prime, shift, k)] = flat[k]
      BY <1>1, <1>2, KeysInBuckets
    <3> QED BY <1>3, <3>1, <3>2, <3>3 DEF IInv, ReadBack
  <2> QED BY <2>1, SameTables DEF Rows!Fits, Rows!LaidKeys, Rows!Slot, Rows!Bucket
<1>7. Rows!Lay(b, o)
  BY <1>1, <1>2, <1>4, <1>5, <1>6 DEF Rows!Lay
<1>8. o \in Rows!Indices(2^ShortBits)
  BY <1>1, PowerLaws DEF Rows!Indices
<1> QED BY <1>4, <1>7, <1>8 DEF Rows!Next

(***************************************************************************)
(* The table that is returned: when every bucket is laid, the slots are    *)
(* those that are occupied, and each holds the rank of its keys.           *)
(***************************************************************************)
LEMMA ReturnRows ==
  ASSUME IInv, Return
  PROVE  Rows!Next
<1>1. /\ pc = "placing" /\ pc # "idle" /\ Unplaced = {} /\ pc' = "idle" /\ Forget /\ flat' = flat
      /\ best' = [primeSpread |-> prime, offsetShift |-> shift,
                  offsetLength |-> OffsetLength(shift), offsets |-> offsets,
                  rankLength |-> rankLength, ranks |-> [i \in Indices(rankLength) |-> ranks[i]]]
  BY NoneWaits DEF Return
<1>2. /\ shift \in Shifts /\ shift \in 0 .. KeyBits /\ shift <= KeyBits
      /\ Length \in Nat /\ rankLength \in 0 .. Length /\ 2^KeyBits \in Nat
      /\ buckets \in [Indices(2^(KeyBits - shift)) -> [Indices(2^shift) -> Ranks]]
      /\ offsets \in [Indices(2^(KeyBits - shift)) -> Nat]
      /\ ranks \in [Indices(Length) -> Ranks]
  BY <1>1, InCall, PowerLaws, KeyAssumption DEF IInv, CallSound
<1>3. OffsetLength(shift) = 2^(KeyBits - shift)
  <2>1. 0 \in 0 .. 2^KeyBits + 1
    BY <1>2
  <2> QED BY <1>2, <2>1, WidthLaws
<1>4. /\ DOMAIN Laid = Rows!Buckets
      /\ \A b \in Rows!Buckets : b \in DOMAIN buckets /\ Laid[b] = offsets[b]
      /\ \A b \in DOMAIN buckets \ Rows!Buckets : offsets[b] = 0
  BY <1>1, BucketsOfKeys DEF Laid, IInv, PlacedOnly
<1>5. ASSUME NEW k \in Hashes
      PROVE  /\ Rows!Slot(Laid, k) = offsets[BucketOf(prime, shift, k)] + IndexOf(prime, shift, k)
             /\ Rows!Slot(Laid, k) \in Nat /\ Rows!Slot(Laid, k) < rankLength
             /\ ranks[Rows!Slot(Laid, k)] = flat[k]
  <2>1. BucketOf(prime, shift, k) \in Rows!Buckets
    BY SameTables DEF Rows!Buckets, Rows!Bucket
  <2>2. Rows!Slot(Laid, k) = offsets[BucketOf(prime, shift, k)] + IndexOf(prime, shift, k)
    BY <1>4, <2>1, SameTables DEF Rows!Slot, Rows!Bucket
  <2>3. Rows!Slot(Laid, k) \in DOMAIN ranks /\ Rows!Slot(Laid, k) < rankLength
        /\ ranks[Rows!Slot(Laid, k)] = flat[k]
    BY <1>1, <2>2, LaidReads
  <2>4. \A i \in DOMAIN ranks : i \in Nat
    BY <1>2 DEF Indices
  <2> QED BY <2>2, <2>3, <2>4
<1>6. ASSUME NEW i, Occupied(i) PROVE i \in Rows!Slots
  <2>1. PICK b \in DOMAIN buckets : \E j \in Filled(buckets[b]) : i = offsets[b] + j
    BY <1>1, <1>6 DEF Occupied
  <2>2. PICK j \in Filled(buckets[b]) : i = offsets[b] + j
    BY <2>1
  <2>3. PICK k \in Hashes : BucketOf(prime, shift, k) = b /\ IndexOf(prime, shift, k) = j
    BY <1>1, <2>2 DEF IInv, CallSound
  <2>4. i = Rows!Slot(Laid, k)
    BY <1>5, <2>2, <2>3
  <2> QED BY <2>4 DEF Rows!Slots
<1>7. rankLength \in {i + 1 : i \in Rows!Slots}
  <2>1. PICK k \in Hashes : TRUE
    BY KeyAssumption
  <2>2. rankLength # 0
    BY <1>2, <1>5, <2>1
  <2>3. rankLength - 1 \in Rows!Slots
    BY <1>1, <1>6, <2>2 DEF IInv, PlacedOnly
  <2>4. rankLength = (rankLength - 1) + 1
    BY <1>2
  <2> QED BY <2>3, <2>4
<1>8. \A i \in Rows!Slots : i < rankLength
  BY <1>5 DEF Rows!Slots
<1>9. ASSUME NEW i \in Indices(rankLength) PROVE ranks[i] = Rows!RankIn(i)
  <2>1. CASE i \in Rows!Slots
    <3> DEFINE k == CHOOSE k \in Hashes : Rows!Slot(Laid, k) = i
    <3>1. k \in Hashes /\ Rows!Slot(Laid, k) = i
      BY <2>1 DEF Rows!Slots
    <3>2. Rows!RankIn(i) = flat[k]
      BY <2>1 DEF Rows!RankIn
    <3> HIDE DEF k
    <3> QED BY <1>5, <3>1, <3>2
  <2>2. CASE i \notin Rows!Slots
    <3>1. i \in DOMAIN ranks
      BY <1>2 DEF Indices
    <3>2. ranks[i] = 0
      BY <1>1, <1>6, <2>2, <3>1 DEF IInv, PlacedOnly
    <3> QED BY <2>2, <3>2 DEF Rows!RankIn
  <2> QED BY <2>1, <2>2
<1>10. offsets = [b \in Indices(2^(KeyBits - shift)) |-> IF b \in Rows!Buckets THEN Laid[b] ELSE 0]
  BY <1>2, <1>4
<1>11. Rows!IsTableOf(best', best'.rankLength)
  <2>1. best'.rankLength = rankLength
    BY <1>1
  <2>2. [i \in Indices(rankLength) |-> ranks[i]] = [i \in Indices(rankLength) |-> Rows!RankIn(i)]
    BY <1>9
  <2> QED BY <1>1, <1>3, <1>7, <1>8, <1>10, <2>1, <2>2, SameTables DEF Rows!IsTableOf
<1>12. Rows!Size(best') < Rows!Size(best)
  BY ReturnServes, SameTables
<1>13. Rows!Over
  BY <1>1, OverRows
<1> QED BY <1>1, <1>4, <1>11, <1>12, <1>13 DEF Rows!Finish, Rows!Next

LEMMA StepRows == IInv /\ [Next]_vars => [Rows!Next]_(Rows!vars)
<1> SUFFICES ASSUME IInv, [Next]_vars PROVE [Rows!Next]_(Rows!vars)
  OBVIOUS
<1>1. CASE UNCHANGED vars
  <2>1. Unplaced' = Unplaced BY <1>1 DEF vars, locals, Unplaced, Grouped
  <2> QED BY <1>1, <2>1, QueueRows DEF vars, locals
<1>2. ASSUME NEW p \in Primes, NEW s \in Shifts, Refuse(p, s) \/ Start(p, s)
      PROVE  [Rows!Next]_(Rows!vars)
  BY <1>1, <1>2, StartRows DEF Refuse
<1>3. CASE StartGroup
  BY <1>3, StartGroupIInv, QueueRows DEF StartGroup
<1>4. ASSUME NEW o \in DOMAIN offsetMap, Poll(o)
      PROVE  [Rows!Next]_(Rows!vars)
  BY <1>4, PollIInv, QueueRows DEF Poll
<1>5. ASSUME NEW b, Iterate(b)
      PROVE  [Rows!Next]_(Rows!vars)
  <2>1. pc = "placing" /\ list # <<>> /\ b = Head(list)
    BY <1>5 DEF Iterate
  <2>2. ASSUME pc' = "idle", Forget, UNCHANGED <<flat, best>> PROVE Rows!Next
    BY <2>1, <2>2, OverRows DEF Rows!GiveUp, Rows!Next
  <2>3. PICK o : /\ IsOffset(o, buckets[b], ranks, min, max)
                 /\ \/ Defer(b, o)
                    \/ GiveUpOffset(o)
                    \/ Raise(b, o)
                    \/ \E n : /\ IsLengthAfter(n, buckets[b], rankLength, o)
                              /\ Place(b, o, n) \/ GiveUpLength(b, o, n)
    BY <1>5 DEF Iterate
  <2>4. CASE Defer(b, o)
    BY <2>1, <2>3, <2>4, DeferIInv, QueueRows DEF Defer
  <2>5. CASE GiveUpOffset(o) BY <2>2, <2>5 DEF GiveUpOffset
  <2>6. CASE Raise(b, o)
    <3>1. Unplaced' = Unplaced BY <2>6 DEF Raise, locals, Unplaced, Grouped
    <3> QED BY <2>1, <2>6, <3>1 DEF Raise, locals, arrays, Rows!vars, Laid
  <2>7. ASSUME NEW n, IsLengthAfter(n, buckets[b], rankLength, o), Place(b, o, n)
        PROVE  Rows!Next
    BY <2>1, <2>3, <2>7, PlaceRows
  <2>8. ASSUME NEW n, GiveUpLength(b, o, n) PROVE Rows!Next
    BY <2>2, <2>8 DEF GiveUpLength
  <2> QED BY <2>3, <2>4, <2>5, <2>6, <2>7, <2>8
<1>6. CASE Return BY <1>6, ReturnRows
<1> QED BY <1>1, <1>2, <1>3, <1>4, <1>5, <1>6 DEF Next, Step

(***************************************************************************)
(* Every bucket is laid once, where it fits, in whatever order deferrals   *)
(* lead to: computeShorterHashTable2 implements RowDisplacement.           *)
(***************************************************************************)
THEOREM ImplementsRowDisplacement == Spec => Displaces
BY Invariance, InitRows, StepRows, PTL DEF Spec, Displaces, Rows!Spec
=============================================================================
