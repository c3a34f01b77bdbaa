----------------------- MODULE ShorterHashTable_proofs -----------------------
(***************************************************************************)
(* Proofs about computeShorterHashTable: whatever the keys, the ranks, the *)
(* factors and the bucket sizes, the table that the search keeps returns   *)
(* the rank of every hand, every table is strictly shorter than the one it *)
(* replaces, and a call overruns its array only without any room.  Then:   *)
(* it implements RowDisplacement, which promises all a lookup needs, and   *)
(* the bit sets of findOffset, word by word, answer as a comparison of the *)
(* slots does.                                                             *)
(***************************************************************************)
EXTENDS FindOffset, HashTable_proofs

(***************************************************************************)
(* The inductive invariant.  CallSound relates the locals of a call to its *)
(* arguments; the rest says what the arrays hold at the head of the loop.  *)
(***************************************************************************)
CallSound ==
  pc # "idle" =>
    /\ shift \in Shifts /\ shift <= KeyBits
    /\ Size(best) \in Nat
    /\ room = Size(best) - 2^(KeyBits - shift)
    /\ \A k \in Hashes :
         buckets[BucketOf(prime, shift, k)][IndexOf(prime, shift, k)] = flat[k]

ReadBack ==
  pc # "idle" =>
    \A b \in DOMAIN buckets \ todo : \A j \in Filled(buckets[b]) :
      /\ offsets[b] + j \in DOMAIN ranks
      /\ offsets[b] + j < rankLength
      /\ ranks[offsets[b] + j] = buckets[b][j]

EmptyAbove ==
  pc # "idle" => /\ \A i \in DOMAIN ranks : i >= rankLength => ranks[i] = 0
                 /\ rankLength = 0 \/ rankLength < room

BestSize == Size(best) \in 0 .. 2^KeyBits + 1

IInv == /\ TypeOK /\ BestServes /\ BestSize
        /\ CallSound /\ ReadBack /\ EmptyAbove /\ RaisesOnlyWithoutRoom

-------------------------------------------------------------------------------
LEMMA InitIInv == Init => IInv
<1> SUFFICES ASSUME Init PROVE IInv
  OBVIOUS
<1> USE DEF Init, NoLocals
<1>1. TypeOK
  BY FlatServes DEF TypeOK
<1>2. BestServes /\ BestSize
  BY FlatServes DEF BestServes, BestSize
<1>3. CallSound /\ ReadBack /\ EmptyAbove /\ RaisesOnlyWithoutRoom
  BY DEF CallSound, ReadBack, EmptyAbove, RaisesOnlyWithoutRoom
<1>4. QED
  BY <1>1, <1>2, <1>3 DEF IInv

(***************************************************************************)
(* The start of a call: the guard passes only shifts up to keyBits, where  *)
(* the int arithmetic is exact.                                            *)
(***************************************************************************)
LEMMA StartIInv ==
  ASSUME IInv, NEW p \in Primes, NEW s \in Shifts, Start(p, s)
  PROVE  IInv'
<1> USE DEF Start
<1>1. TypeOK /\ BestServes /\ BestSize
  BY DEF IInv
<1>2. p \in Nat /\ s \in Nat /\ KeyBits \in Nat /\ 2^KeyBits \in Nat
  BY PrimesAssumption, WidthLaws, KeyAssumption, PowerLaws
<1>3. s <= KeyBits /\ room' = Size(best) - 2^(KeyBits - s) /\ room' >= 0
  <2>1. ~(MaxRankLength(Size(best), s) < 0) /\ Size(best) \in 0 .. 2^KeyBits + 1
    BY <1>1 DEF BestSize
  <2>2. s <= KeyBits
    BY <2>1, <1>2, WidthLaws
  <2>3. MaxRankLength(Size(best), s) = Size(best) - 2^(KeyBits - s)
    BY <2>1, <2>2, WidthLaws
  <2>4. s \in 0 .. KeyBits
    BY <1>2, <2>2
  <2>5. 2^(KeyBits - s) \in Nat
    BY <2>4, PowerLaws
  <2> QED
    BY <1>2, <2>1, <2>2, <2>3, <2>5
<1>4. s \in 0 .. KeyBits /\ Size(best) \in Nat /\ room' \in Nat
      /\ 2^s \in Nat \ {0} /\ 2^(KeyBits - s) \in Nat \ {0}
  BY <1>1, <1>2, <1>3, PowerLaws DEF BestSize
<1>5. flat \in [Hashes -> 1 .. MaxRank] /\ Serves(best, flat)
  BY <1>1 DEF TypeOK, BestServes
<1>6. /\ buckets' \in [Indices(2^(KeyBits - s)) -> [Indices(2^s) -> Ranks]]
      /\ \A k \in Hashes : buckets'[BucketOf(p, s, k)][IndexOf(p, s, k)] = flat[k]
  BY <1>2, <1>4, <1>5, FilledRows
<1>7. todo' \subseteq DOMAIN buckets'
      /\ \A b \in DOMAIN buckets' \ todo' : Filled(buckets'[b]) = {}
  OBVIOUS
<1>8. ranks' \in [Indices(room' + 2^s - 1) -> Ranks] /\ rankLength' = 0
      /\ \A i \in DOMAIN ranks' : ranks'[i] = 0
  BY KeyAssumption DEF Ranks
<1>9. TypeOK'
  BY <1>1, <1>2, <1>4, <1>6, <1>7, <1>8 DEF TypeOK, IsTable
<1>10. BestServes' /\ BestSize'
  BY <1>1 DEF BestServes, BestSize, Serves, InBounds, GetRank
<1>11. CallSound'
  BY <1>3, <1>4, <1>6 DEF CallSound
<1>12. ReadBack'
  BY <1>7 DEF ReadBack
<1>13. EmptyAbove' /\ RaisesOnlyWithoutRoom'
  BY <1>8 DEF EmptyAbove, RaisesOnlyWithoutRoom
<1>14. QED
  BY <1>9, <1>10, <1>11, <1>12, <1>13 DEF IInv

(***************************************************************************)
(* A call that ends without a table leaves the search as it was.           *)
(***************************************************************************)
LEMMA GiveUpIInv ==
  ASSUME IInv, pc' = "idle", UNCHANGED <<flat, best>>, Forget
  PROVE  IInv'
<1>1. TypeOK'
  BY DEF IInv, TypeOK, Forget, IsTable
<1>2. BestServes' /\ BestSize'
  BY DEF IInv, BestServes, BestSize
<1>3. CallSound' /\ ReadBack' /\ EmptyAbove' /\ RaisesOnlyWithoutRoom'
  BY DEF CallSound, ReadBack, EmptyAbove, RaisesOnlyWithoutRoom
<1>4. QED
  BY <1>1, <1>2, <1>3 DEF IInv

(***************************************************************************)
(* What an iteration knows of the offset that findOffset returned.         *)
(***************************************************************************)
LEMMA OffsetFound ==
  ASSUME IInv, pc = "placing", NEW b \in todo, NEW o,
         IsOffset(o, buckets[b], ranks, 0, room + 2^shift - 1)
  PROVE  /\ 2^shift \in Nat \ {0} /\ room \in Nat /\ shift \in 0 .. KeyBits
         /\ b \in DOMAIN buckets /\ buckets[b] \in [Indices(2^shift) -> Ranks]
         /\ ranks \in [Indices(room + 2^shift - 1) -> Ranks]
         /\ o \in 0 .. rankLength /\ ~Collides(buckets[b], ranks, o)
<1>1. TypeOK /\ EmptyAbove
  BY DEF IInv
<1>2. /\ room \in Nat /\ shift \in 0 .. KeyBits /\ rankLength \in Nat
      /\ b \in DOMAIN buckets /\ buckets[b] \in [Indices(2^shift) -> Ranks]
      /\ ranks \in [Indices(room + 2^shift - 1) -> Ranks]
  BY <1>1 DEF TypeOK
<1>3. 2^shift \in Nat \ {0}
  BY <1>2, PowerLaws
<1>4. room + 2^shift - 1 \in Nat /\ rankLength <= room + 2^shift - 1
  BY <1>1, <1>2, <1>3 DEF EmptyAbove
<1>5. \A i \in DOMAIN ranks : i >= rankLength => ranks[i] = 0
  BY <1>1 DEF EmptyAbove
<1>6. o \in 0 .. rankLength /\ ~Collides(buckets[b], ranks, o)
  BY <1>2, <1>3, <1>4, <1>5, OffsetWithin
<1>7. QED
  BY <1>2, <1>3, <1>6

(***************************************************************************)
(* A call overruns its array only without room: the found offset is at     *)
(* most rankLength, which is below room unless nothing is written yet.     *)
(***************************************************************************)
LEMMA RaiseIInv ==
  ASSUME IInv, pc = "placing", NEW b \in todo, NEW o,
         IsOffset(o, buckets[b], ranks, 0, room + 2^shift - 1),
         Raise(b, o)
  PROVE  IInv'
<1>1. /\ 2^shift \in Nat \ {0} /\ room \in Nat
      /\ buckets[b] \in [Indices(2^shift) -> Ranks]
      /\ ranks \in [Indices(room + 2^shift - 1) -> Ranks]
      /\ o \in 0 .. rankLength /\ rankLength \in Nat
      /\ rankLength = 0 \/ rankLength < room
  BY OffsetFound DEF IInv, TypeOK, EmptyAbove
<1>2. PICK j \in Filled(buckets[b]) : o + j \notin DOMAIN ranks
  BY DEF Raise, Overruns
<1>3. j \in 0 .. 2^shift - 1
  BY <1>1, <1>2 DEF Filled, Indices
<1>4. ~(o + j <= room + 2^shift - 2)
  BY <1>1, <1>2, <1>3 DEF Indices
<1>5. room = 0
  BY <1>1, <1>3, <1>4
<1>6. QED
  BY <1>5 DEF IInv, Raise, locals, TypeOK, IsTable, BestServes, BestSize, CallSound, ReadBack,
              EmptyAbove, RaisesOnlyWithoutRoom

(***************************************************************************)
(* One bucket is placed: the ones placed before can still be read, because *)
(* the write changes no occupied slot, and so can the new one.             *)
(***************************************************************************)
LEMMA PlaceIInv ==
  ASSUME IInv, pc = "placing", NEW b \in todo, NEW o, NEW n,
         IsOffset(o, buckets[b], ranks, 0, room + 2^shift - 1),
         IsLengthAfter(n, buckets[b], rankLength, o),
         Place(b, o, n)
  PROVE  IInv'
<1> USE DEF Place
<1>1. TypeOK /\ BestServes /\ BestSize /\ CallSound /\ ReadBack /\ EmptyAbove
  BY DEF IInv
<1>2. /\ 2^shift \in Nat \ {0} /\ room \in Nat /\ shift \in 0 .. KeyBits
      /\ b \in DOMAIN buckets /\ buckets[b] \in [Indices(2^shift) -> Ranks]
      /\ ranks \in [Indices(room + 2^shift - 1) -> Ranks]
      /\ o \in 0 .. rankLength /\ ~Collides(buckets[b], ranks, o)
  BY OffsetFound
<1>3. o \in Nat /\ rankLength \in Nat /\ room + 2^shift - 1 \in Nat
  BY <1>1, <1>2 DEF TypeOK
<1>4. /\ ranks' \in [Indices(room + 2^shift - 1) -> Ranks]
      /\ \A j \in Filled(buckets[b]) : /\ o + j \in DOMAIN ranks
                                       /\ ranks'[o + j] = buckets[b][j]
      /\ \A i \in DOMAIN ranks : ranks[i] # 0 => ranks'[i] = ranks[i]
  BY <1>2, <1>3, WrittenReads
<1>5. Filled(buckets[b]) \subseteq Nat
  BY <1>2 DEF Filled, Indices
<1>6. /\ n \in Nat /\ rankLength <= n
      /\ \A j \in Filled(buckets[b]) : o + j < n
  <2>1. n \in {rankLength} \cup Lengths(buckets[b], o)
        /\ \A m \in {rankLength} \cup Lengths(buckets[b], o) : m <= n
    BY DEF IsLengthAfter
  <2>2. n \in Nat
    BY <1>3, <1>5, <2>1 DEF Lengths
  <2>3. ASSUME NEW j \in Filled(buckets[b]) PROVE o + j < n
    <3>1. 1 + o + j <= n /\ j \in Nat
      BY <1>5, <2>1 DEF Lengths
    <3> QED
      BY <1>3, <2>2, <3>1
  <2> QED
    BY <2>1, <2>2, <2>3
<1>7. TypeOK'
  <2>1. buckets' = buckets /\ offsets' \in [DOMAIN buckets -> Nat]
    BY <1>1, <1>2, <1>3 DEF TypeOK
  <2>2. todo' \subseteq DOMAIN buckets'
    BY <1>1 DEF TypeOK
  <2>3. IsTable(best)'
    BY <1>1 DEF TypeOK, IsTable
  <2> QED
    BY <1>1, <1>2, <1>4, <1>6, <2>1, <2>2, <2>3 DEF TypeOK
<1>8. BestServes' /\ BestSize' /\ CallSound'
  BY <1>1 DEF BestServes, BestSize, CallSound
<1>9. ReadBack'
  <2> SUFFICES ASSUME NEW c \in DOMAIN buckets \ todo', NEW j \in Filled(buckets[c])
               PROVE  /\ offsets'[c] + j \in DOMAIN ranks
                      /\ offsets'[c] + j < n
                      /\ ranks'[offsets'[c] + j] = buckets[c][j]
    BY <1>2, <1>4 DEF ReadBack
  <2>1. CASE c = b
    <3>1. offsets'[c] = o
      BY <1>1, <1>2, <2>1 DEF TypeOK
    <3> QED
      BY <1>4, <1>6, <2>1, <3>1
  <2>2. CASE c # b
    <3>1. c \in DOMAIN buckets \ todo /\ offsets'[c] = offsets[c] /\ offsets[c] \in Nat
      BY <1>1, <2>2 DEF TypeOK
    <3>2. /\ offsets[c] + j \in DOMAIN ranks
          /\ offsets[c] + j < rankLength
          /\ ranks[offsets[c] + j] = buckets[c][j]
      BY <1>1, <3>1 DEF ReadBack
    <3>3. buckets[c][j] # 0
      BY DEF Filled
    <3>4. ranks'[offsets[c] + j] = buckets[c][j]
      BY <1>4, <3>2, <3>3
    <3>5. offsets[c] + j < n
      BY <1>2, <1>3, <1>6, <3>1, <3>2 DEF Indices
    <3> QED
      BY <3>1, <3>2, <3>4, <3>5
  <2> QED
    BY <2>1, <2>2
<1>10. EmptyAbove'
  <2> SUFFICES ASSUME NEW i \in DOMAIN ranks, i >= n PROVE ranks'[i] = 0
    BY <1>2, <1>4 DEF EmptyAbove
  <2>1. i \in Int /\ i >= rankLength
    BY <1>2, <1>3, <1>6 DEF Indices
  <2>2. ranks[i] = 0
    BY <1>1, <2>1 DEF EmptyAbove
  <2>3. i - o \notin Filled(buckets[b])
    BY <1>3, <1>6, <2>1
  <2> QED
    BY <2>2, <2>3 DEF Written
<1>11. RaisesOnlyWithoutRoom'
  BY DEF RaisesOnlyWithoutRoom
<1>12. QED
  BY <1>7, <1>8, <1>9, <1>10, <1>11 DEF IInv

(***************************************************************************)
(* The table returned: every key is in a bucket, every bucket has been     *)
(* placed, so every lookup reads what fillBuckets put there; and it is     *)
(* shorter, because rankLength stayed below the room.                      *)
(***************************************************************************)
LEMMA ReturnServes ==
  ASSUME IInv, Return
  PROVE  /\ IsTable(best') /\ Serves(best', flat)
         /\ Size(best') < Size(best) /\ Size(best') \in Nat
<1>1. /\ pc = "placing" /\ todo = {}
      /\ best'.primeSpread = prime /\ best'.offsetShift = shift
      /\ best'.offsetLength = OffsetLength(shift) /\ best'.offsets = offsets
      /\ best'.rankLength = rankLength
      /\ best'.ranks = [i \in Indices(rankLength) |-> ranks[i]]
  BY DEF Return
<1>2. TypeOK /\ BestSize /\ CallSound /\ ReadBack /\ EmptyAbove
  BY DEF IInv
<1>3. /\ shift \in Shifts /\ shift \in 0 .. KeyBits /\ prime \in Nat
      /\ Size(best) \in Nat /\ room \in Nat /\ rankLength \in Nat
      /\ room = Size(best) - 2^(KeyBits - shift)
      /\ flat \in [Hashes -> 1 .. MaxRank]
      /\ buckets \in [Indices(2^(KeyBits - shift)) -> [Indices(2^shift) -> Ranks]]
      /\ offsets \in [DOMAIN buckets -> Nat]
      /\ ranks \in [Indices(room + 2^shift - 1) -> Ranks]
  BY <1>1, <1>2 DEF TypeOK, CallSound
<1>4. 2^shift \in Nat \ {0} /\ 2^(KeyBits - shift) \in Nat \ {0} /\ 2^KeyBits \in Nat
  BY <1>3, PowerLaws, KeyAssumption
<1>5. OffsetLength(shift) = 2^(KeyBits - shift)
  <2>1. 0 \in 0 .. 2^KeyBits + 1 /\ shift <= KeyBits
    BY <1>3, <1>4
  <2> QED
    BY <1>3, <2>1, WidthLaws
<1>6. rankLength < room \/ (rankLength = 0 /\ room = 0) \/ rankLength = 0
  BY <1>1, <1>2 DEF EmptyAbove
<1>7. ASSUME NEW k \in Hashes
      PROVE  InBounds(best', k) /\ GetRank(best', k) = flat[k]
  <2> DEFINE c == BucketOf(prime, shift, k)
             j == IndexOf(prime, shift, k)
  <2>1. c \in DOMAIN buckets /\ j \in Indices(2^shift)
    BY <1>3, KeyPlace
  <2>2. buckets[c][j] = flat[k]
    BY <1>1, <1>2 DEF CallSound
  <2>3. flat[k] \in 1 .. MaxRank
    BY <1>3
  <2>4. buckets[c] \in [Indices(2^shift) -> Ranks]
    BY <1>3, <2>1
  <2> HIDE DEF c, j
  <2>5. j \in Filled(buckets[c])
    BY <2>1, <2>2, <2>3, <2>4 DEF Filled
  <2>6. /\ offsets[c] + j \in DOMAIN ranks /\ offsets[c] + j < rankLength
        /\ ranks[offsets[c] + j] = flat[k]
    BY <1>1, <1>2, <2>1, <2>2, <2>5 DEF ReadBack
  <2>7. offsets[c] + j \in Indices(rankLength)
    <3>1. offsets[c] + j \in Indices(room + 2^shift - 1)
      BY <1>3, <2>6
    <3>2. ASSUME NEW i \in Indices(room + 2^shift - 1), i < rankLength
          PROVE  i \in Indices(rankLength)
      BY <1>3, <1>4, <3>2 DEF Indices
    <3> QED
      BY <2>6, <3>1, <3>2
  <2>8. OffsetSlot(best', k) = c /\ RankSlot(best', k) = offsets[c] + j
    BY <1>1 DEF OffsetSlot, RankSlot, c, j
  <2> QED
    BY <1>1, <1>3, <1>5, <2>1, <2>6, <2>7, <2>8 DEF InBounds, GetRank
<1>8. rankLength < room
  <2>1. PICK k \in Hashes : TRUE
    BY KeyAssumption
  <2>2. InBounds(best', k)
    BY <1>7
  <2>3. rankLength # 0
    BY <1>1, <2>2 DEF InBounds, Indices
  <2> QED
    BY <1>6, <2>3
<1>9. Size(best') < Size(best) /\ Size(best') \in Nat
  BY <1>1, <1>3, <1>4, <1>5, <1>8 DEF Size
<1>10. IsTable(best')
  <2>1. Indices(rankLength) \subseteq Indices(room + 2^shift - 1)
    BY <1>3, <1>4, <1>8 DEF Indices
  <2>2. best'.ranks \in [Indices(best'.rankLength) -> Ranks]
    BY <1>1, <1>3, <2>1
  <2>3. best'.offsets \in [Indices(best'.offsetLength) -> Nat]
    BY <1>1, <1>3, <1>5
  <2> QED
    BY <1>1, <1>3, <1>4, <1>5, <2>2, <2>3 DEF IsTable
<1>11. QED
  BY <1>7, <1>9, <1>10 DEF Serves

LEMMA ReturnIInv ==
  ASSUME IInv, Return
  PROVE  IInv'
<1>1. flat' = flat /\ pc' = "idle" /\ Forget
  BY DEF Return
<1>2. TypeOK'
  BY <1>1, ReturnServes DEF IInv, TypeOK, Forget
<1>3. BestServes'
  BY <1>1, ReturnServes DEF BestServes, Serves, InBounds, GetRank
<1>4. BestSize'
  <2>1. Size(best) \in 0 .. 2^KeyBits + 1 /\ 2^KeyBits \in Nat
    BY PowerLaws, KeyAssumption DEF IInv, BestSize
  <2>2. Size(best') \in 0 .. 2^KeyBits + 1
    BY <2>1, ReturnServes
  <2> QED
    BY <2>2 DEF BestSize, Size
<1>5. CallSound' /\ ReadBack' /\ EmptyAbove' /\ RaisesOnlyWithoutRoom'
  BY <1>1 DEF CallSound, ReadBack, EmptyAbove, RaisesOnlyWithoutRoom
<1>6. QED
  BY <1>2, <1>3, <1>4, <1>5 DEF IInv

-------------------------------------------------------------------------------
(***************************************************************************)
(* One iteration of the loop over bucketOrder.                             *)
(***************************************************************************)
LEMMA IterateIInv ==
  ASSUME IInv, NEW b \in todo, Iterate(b)
  PROVE  IInv'
<1>1. pc = "placing"
  BY DEF Iterate
<1>2. PICK o \in Indices(room + 2^shift) :
        /\ IsOffset(o, buckets[b], ranks, 0, room + 2^shift - 1)
        /\ \/ GiveUpOffset(o)
           \/ Raise(b, o)
           \/ \E n \in {rankLength} \cup Lengths(buckets[b], o) :
                /\ IsLengthAfter(n, buckets[b], rankLength, o)
                /\ Place(b, o, n) \/ GiveUpLength(b, o, n)
  BY DEF Iterate
<1>3. CASE GiveUpOffset(o)
  BY <1>3, GiveUpIInv DEF GiveUpOffset
<1>4. CASE Raise(b, o)
  BY <1>1, <1>2, <1>4, RaiseIInv
<1>5. ASSUME NEW n, IsLengthAfter(n, buckets[b], rankLength, o), Place(b, o, n)
      PROVE  IInv'
  BY <1>1, <1>2, <1>5, PlaceIInv
<1>6. ASSUME NEW n, GiveUpLength(b, o, n)
      PROVE  IInv'
  BY <1>6, GiveUpIInv DEF GiveUpLength
<1>7. QED
  BY <1>2, <1>3, <1>4, <1>5, <1>6

LEMMA NextIInv == IInv /\ [Next]_vars => IInv'
<1> SUFFICES ASSUME IInv, [Next]_vars PROVE IInv'
  OBVIOUS
<1>1. CASE UNCHANGED vars
  BY <1>1 DEF IInv, vars, TypeOK, IsTable, BestServes, BestSize, CallSound, ReadBack,
              EmptyAbove, RaisesOnlyWithoutRoom, Serves, InBounds, GetRank
<1>2. ASSUME NEW p \in Primes, NEW s \in Shifts, Refuse(p, s) PROVE IInv'
  BY <1>1, <1>2 DEF Refuse
<1>3. ASSUME NEW p \in Primes, NEW s \in Shifts, Start(p, s) PROVE IInv'
  BY <1>3, StartIInv
<1>4. ASSUME NEW b \in todo, Iterate(b) PROVE IInv'
  BY <1>4, IterateIInv
<1>5. CASE Return
  BY <1>5, ReturnIInv
<1>6. QED
  BY <1>1, <1>2, <1>3, <1>4, <1>5 DEF Next

(***************************************************************************)
(* The inductive invariant holds in every reachable state.                 *)
(***************************************************************************)
THEOREM Invariance == Spec => []IInv
<1>1. QED
  BY InitIInv, NextIInv, PTL DEF Spec

(***************************************************************************)
(* Types, and with them the bounds of the arrays.                          *)
(***************************************************************************)
THEOREM TypeCorrect == Spec => []TypeOK
<1>1. IInv => TypeOK
  BY DEF IInv
<1>2. QED
  BY Invariance, <1>1, PTL

(***************************************************************************)
(* validate never fails: the table that the search keeps returns the rank  *)
(* of every hand, with both array accesses in bounds.                      *)
(***************************************************************************)
THEOREM BestAlwaysServes == Spec => []BestServes
<1>1. IInv => BestServes
  BY DEF IInv
<1>2. QED
  BY Invariance, <1>1, PTL

(***************************************************************************)
(* The buckets placed so far can be read back at any point of a call.      *)
(***************************************************************************)
THEOREM PlacedAlwaysReadBack == Spec => []PlacedReadBack
<1>1. IInv => PlacedReadBack
  BY DEF IInv, ReadBack, PlacedReadBack
<1>2. QED
  BY Invariance, <1>1, PTL

(***************************************************************************)
(* An array is overrun only when the reference leaves no room for ranks.   *)
(***************************************************************************)
THEOREM OverrunsOnlyWithoutRoom == Spec => []RaisesOnlyWithoutRoom
<1>1. IInv => RaisesOnlyWithoutRoom
  BY DEF IInv
<1>2. QED
  BY Invariance, <1>1, PTL

(***************************************************************************)
(* The search gives up a table only for a strictly shorter one.            *)
(***************************************************************************)
THEOREM SearchOnlyShrinks == Spec => OnlyShrinks
<1>1. ASSUME IInv, [Next]_vars PROVE BestShrinks
  <2>1. CASE Return
    BY <1>1, <2>1, ReturnServes DEF BestShrinks, Size
  <2>2. CASE ~Return
    <3>1. best' = best
      BY <1>1, <2>2 DEF Next, vars, Refuse, Start, Iterate, GiveUpOffset, Raise, Place,
                        GiveUpLength
    <3> QED
      BY <3>1 DEF BestShrinks
  <2> QED
    BY <2>1, <2>2
<1>2. QED
  BY Invariance, <1>1, PTL DEF Spec, OnlyShrinks

(***************************************************************************)
(* The assertion in writeBucket never fails.                               *)
(***************************************************************************)
THEOREM AssertionHolds == Spec => NoSlotOverwritten
<1>1. ASSUME IInv, [Next]_vars PROVE KeepsSlots
  <2> SUFFICES ASSUME pc = "placing", pc' = "placing", NEW i \in DOMAIN ranks, ranks[i] # 0
               PROVE  ranks'[i] = ranks[i]
    BY DEF KeepsSlots
  <2>1. CASE ranks' = ranks
    BY <2>1
  <2>2. ASSUME NEW b \in todo, Iterate(b), ranks' # ranks
        PROVE  ranks'[i] = ranks[i]
    <3>1. PICK o, n : /\ IsOffset(o, buckets[b], ranks, 0, room + 2^shift - 1)
                      /\ Place(b, o, n)
      BY <2>2 DEF Iterate, GiveUpOffset, GiveUpLength, Raise, locals
    <3>2. /\ 2^shift \in Nat \ {0} /\ room \in Nat
          /\ buckets[b] \in [Indices(2^shift) -> Ranks]
          /\ ranks \in [Indices(room + 2^shift - 1) -> Ranks]
          /\ o \in 0 .. rankLength /\ ~Collides(buckets[b], ranks, o)
      BY <1>1, <3>1, OffsetFound
    <3>3. o \in Nat /\ room + 2^shift - 1 \in Nat
      BY <1>1, <3>2 DEF IInv, TypeOK
    <3>4. Written(buckets[b], ranks, o)[i] = ranks[i]
      BY <3>1, <3>2, <3>3, WrittenReads DEF Place
    <3> QED
      BY <3>1, <3>4 DEF Place
  <2> QED
    BY <1>1, <2>1, <2>2 DEF Next, vars, Refuse, Start, Return
<1>2. QED
  BY Invariance, <1>1, PTL DEF Spec, NoSlotOverwritten

-------------------------------------------------------------------------------
(***************************************************************************)
(* computeShorterHashTable implements RowDisplacement: for all keys, ranks,*)
(* factors and bucket sizes.                                               *)
(*                                                                         *)
(* The invariant above says what can be read back.  To know the table that *)
(* is returned it takes the converse too: nothing else is in the buckets   *)
(* (KeysOnly) and in the array (PlacedOnly).                               *)
(***************************************************************************)
KeysOnly ==
  pc # "idle" =>
    \A b \in DOMAIN buckets : \A j \in Filled(buckets[b]) :
      \E k \in Hashes : BucketOf(prime, shift, k) = b /\ IndexOf(prime, shift, k) = j

Occupied(i) == \E b \in DOMAIN buckets \ todo : \E j \in Filled(buckets[b]) : i = offsets[b] + j

PlacedOnly ==
  pc # "idle" =>
    /\ \A b \in todo : Filled(buckets[b]) # {}
    /\ \A b \in DOMAIN buckets : b \in todo \/ Filled(buckets[b]) = {} => offsets[b] = 0
    /\ \A b \in DOMAIN buckets : offsets[b] < 2^ShortBits
    /\ \A i \in DOMAIN ranks : ranks[i] # 0 => Occupied(i)
    /\ rankLength # 0 => Occupied(rankLength - 1)

FactorSound == pc # "idle" => prime \in Nat /\ ~KeysCollide(prime)

RInv == KeysOnly /\ PlacedOnly /\ FactorSound

LEMMA InitRInv == Init => RInv
BY DEF Init, RInv, KeysOnly, PlacedOnly, FactorSound

LEMMA StartRInv ==
  ASSUME IInv, NEW p \in Primes, NEW s \in Shifts, Start(p, s)
  PROVE  RInv'
<1> USE DEF Start
<1>1. IInv'
  BY StartIInv
<1>2. s \in 0 .. KeyBits /\ p \in Nat /\ 2^ShortBits \in Nat \ {0}
      /\ prime' = p /\ shift' = s /\ pc' = "placing"
  <2>1. shift' \in 0 .. KeyBits BY <1>1 DEF IInv, TypeOK
  <2> QED BY <2>1, PrimesAssumption, PowerLaws
<1>3. /\ buckets' = FillBuckets(p, s, best)
      /\ buckets' \in [Indices(2^(KeyBits - s)) -> [Indices(2^s) -> Ranks]]
      /\ ranks' \in [Indices(room' + 2^s - 1) -> Ranks]
      /\ offsets' = [b \in Indices(2^(KeyBits - s)) |-> 0]
  BY <1>1, <1>2 DEF IInv, TypeOK
<1>4. KeysOnly'
  <2>1. ASSUME NEW b \in DOMAIN buckets', NEW j \in Filled(buckets'[b])
        PROVE  \E k \in Hashes : BucketOf(p, s, k) = b /\ IndexOf(p, s, k) = j
    <3>1. b \in Indices(2^(KeyBits - s)) /\ j \in Indices(2^s) /\ buckets'[b][j] # 0
      BY <1>3, <2>1 DEF Filled
    <3> QED BY <1>2, <1>3, <3>1, FilledByKeys
  <2> QED BY <1>2, <2>1 DEF KeysOnly
<1>5. PlacedOnly'
  <2>1. \A i \in DOMAIN ranks' : ranks'[i] = 0
    OBVIOUS
  <2>2. \A b \in DOMAIN buckets' : offsets'[b] = 0
    BY <1>3
  <2>3. \A b \in todo' : Filled(buckets'[b]) # {}
    OBVIOUS
  <2> QED BY <1>2, <1>3, <2>1, <2>2, <2>3 DEF PlacedOnly
<1>6. FactorSound'
  BY <1>2 DEF FactorSound
<1> QED BY <1>4, <1>5, <1>6 DEF RInv

LEMMA PlaceRInv ==
  ASSUME IInv, RInv, pc = "placing", NEW b \in todo, NEW o, NEW n,
         IsOffset(o, buckets[b], ranks, 0, room + 2^shift - 1),
         IsLengthAfter(n, buckets[b], rankLength, o),
         Place(b, o, n)
  PROVE  RInv'
<1> USE DEF Place
<1>1. /\ 2^shift \in Nat \ {0} /\ b \in DOMAIN buckets
      /\ buckets[b] \in [Indices(2^shift) -> Ranks]
      /\ ranks \in [Indices(room + 2^shift - 1) -> Ranks]
      /\ o \in Nat /\ offsets \in [DOMAIN buckets -> Nat] /\ rankLength \in Nat
  BY OffsetFound DEF IInv, TypeOK
<1>2. /\ UNCHANGED <<pc, prime, shift, buckets>> /\ o < 2^ShortBits
      /\ todo' = todo \ {b} /\ DOMAIN ranks' = DOMAIN ranks
      /\ offsets'[b] = o /\ \A c \in DOMAIN buckets \ {b} : offsets'[c] = offsets[c]
      /\ rankLength' = n
  BY <1>1 DEF Written
<1>3. KeysOnly' /\ FactorSound'
  BY <1>2 DEF RInv, KeysOnly, FactorSound
<1>4. ASSUME NEW i, Occupied(i) PROVE Occupied(i)'
  BY <1>2, <1>4 DEF Occupied
<1>5. ASSUME NEW j \in Filled(buckets[b]) PROVE Occupied(o + j)'
  BY <1>1, <1>2 DEF Occupied
<1>6. ASSUME NEW i \in DOMAIN ranks', ranks'[i] # 0 PROVE Occupied(i)'
  <2>1. CASE i - o \in Filled(buckets[b])
    <3>1. i \in Int BY <1>1, <1>2, <1>6 DEF Indices
    <3>2. o + (i - o) = i BY <1>1, <3>1
    <3>3. PICK j \in Filled(buckets[b]) : o + j = i BY <2>1, <3>2
    <3> QED BY <1>5, <3>3
  <2>2. CASE i - o \notin Filled(buckets[b])
    <3>1. i \in DOMAIN ranks /\ ranks[i] # 0 BY <1>2, <1>6, <2>2 DEF Written
    <3>2. Occupied(i) BY <1>2, <3>1 DEF RInv, PlacedOnly
    <3> QED BY <1>4, <3>2
  <2> QED BY <2>1, <2>2
<1>7. ASSUME n # 0 PROVE Occupied(n - 1)'
  <2>1. CASE n = rankLength
    <3>1. PICK i : i = n - 1 /\ Occupied(i)
      BY <1>2, <1>7, <2>1 DEF RInv, PlacedOnly
    <3>2. Occupied(i)' BY <1>4, <3>1
    <3> QED BY <1>2, <3>1, <3>2
  <2>2. CASE n \in Lengths(buckets[b], o)
    <3>1. PICK j \in Filled(buckets[b]) : n = 1 + o + j
      BY <2>2 DEF Lengths
    <3>2. j \in Int BY <1>1, <3>1 DEF Filled, Indices
    <3>3. n - 1 = o + j BY <1>1, <3>1, <3>2
    <3> QED BY <1>5, <3>3
  <2> QED BY <2>1, <2>2 DEF IsLengthAfter
<1>8. /\ \A c \in todo' : Filled(buckets'[c]) # {}
      /\ \A c \in DOMAIN buckets' : offsets'[c] < 2^ShortBits
      /\ \A c \in DOMAIN buckets' : c \in todo' \/ Filled(buckets'[c]) = {} => offsets'[c] = 0
  BY <1>1, <1>2 DEF RInv, PlacedOnly
<1>9. PlacedOnly'
  BY <1>2, <1>6, <1>7, <1>8 DEF PlacedOnly
<1> QED BY <1>3, <1>9 DEF RInv

LEMMA StepRInv == IInv /\ RInv /\ [Next]_vars => RInv'
<1> SUFFICES ASSUME IInv, RInv, [Next]_vars PROVE RInv'
  OBVIOUS
<1>1. CASE UNCHANGED <<pc, prime, shift, buckets, todo, offsets, ranks, rankLength>>
  BY <1>1 DEF RInv, KeysOnly, PlacedOnly, FactorSound, Occupied
<1>2. CASE pc' = "idle"
  BY <1>2 DEF RInv, KeysOnly, PlacedOnly, FactorSound
<1>3. CASE UNCHANGED vars BY <1>1, <1>3 DEF vars
<1>4. ASSUME NEW p \in Primes, NEW s \in Shifts, Refuse(p, s) \/ Start(p, s)
      PROVE  RInv'
  BY <1>3, <1>4, StartRInv DEF Refuse
<1>5. ASSUME NEW b \in todo, Iterate(b)
      PROVE  RInv'
  <2>1. PICK o : /\ IsOffset(o, buckets[b], ranks, 0, room + 2^shift - 1)
                 /\ \/ GiveUpOffset(o)
                    \/ Raise(b, o)
                    \/ \E n : /\ IsLengthAfter(n, buckets[b], rankLength, o)
                              /\ Place(b, o, n) \/ GiveUpLength(b, o, n)
    BY <1>5 DEF Iterate
  <2>2. CASE GiveUpOffset(o) BY <1>2, <2>2 DEF GiveUpOffset
  <2>3. CASE Raise(b, o)
    BY <2>3, <1>5 DEF Raise, locals, Iterate, RInv, KeysOnly, PlacedOnly, FactorSound, Occupied
  <2>4. ASSUME NEW n, IsLengthAfter(n, buckets[b], rankLength, o), Place(b, o, n)
        PROVE  RInv'
    BY <1>5, <2>1, <2>4, PlaceRInv DEF Iterate
  <2>5. ASSUME NEW n, GiveUpLength(b, o, n) PROVE RInv'
    BY <1>2, <2>5 DEF GiveUpLength
  <2> QED BY <2>1, <2>2, <2>3, <2>4, <2>5
<1>6. CASE Return BY <1>2, <1>6 DEF Return
<1> QED BY <1>3, <1>4, <1>5, <1>6 DEF Next

-------------------------------------------------------------------------------
(***************************************************************************)
(* The definitions of HashTable that RowDisplacement has of its own.       *)
(***************************************************************************)
LEMMA SameTables ==
  /\ \A p, k : Rows!Spread(p, k) = Spread(p, k)
  /\ \A p, s, k : /\ Rows!BucketOf(p, s, k) = BucketOf(p, s, k)
                  /\ Rows!IndexOf(p, s, k) = IndexOf(p, s, k)
  /\ \A p : Rows!KeysCollide(p) <=> KeysCollide(p)
  /\ \A n : Rows!Indices(n) = Indices(n)
  /\ \A t : Rows!Size(t) = Size(t)
  /\ \A f : Rows!FlatTable(f) = FlatTable(f)
BY DEF Rows!Spread, Spread, Rows!BucketOf, BucketOf, Rows!IndexOf, IndexOf, Rows!KeysCollide,
       KeysCollide, Rows!Indices, Indices, Rows!Size, Size, Rows!FlatTable, FlatTable,
       Rows!HighestKey, HighestKey

(***************************************************************************)
(* While a call is under way, a key is in the bucket it falls into, and    *)
(* the buckets that are not empty are those of the keys.                   *)
(***************************************************************************)
LEMMA KeysInBuckets ==
  ASSUME IInv, pc # "idle", NEW k \in Hashes
  PROVE  /\ BucketOf(prime, shift, k) \in DOMAIN buckets
         /\ IndexOf(prime, shift, k) \in Filled(buckets[BucketOf(prime, shift, k)])
         /\ buckets[BucketOf(prime, shift, k)][IndexOf(prime, shift, k)] = flat[k]
<1> DEFINE b == BucketOf(prime, shift, k)
           j == IndexOf(prime, shift, k)
<1>1. /\ shift \in 0 .. KeyBits /\ prime \in Nat /\ flat[k] \in 1 .. MaxRank
      /\ buckets \in [Indices(2^(KeyBits - shift)) -> [Indices(2^shift) -> Ranks]]
  BY DEF IInv, TypeOK
<1>2. b \in DOMAIN buckets /\ j \in Indices(2^shift)
  BY <1>1, KeyPlace
<1>3. buckets[b][j] = flat[k]
  BY DEF IInv, CallSound
<1> HIDE DEF b, j
<1>4. j \in Filled(buckets[b])
  BY <1>1, <1>2, <1>3 DEF Filled
<1> QED BY <1>2, <1>3, <1>4 DEF b, j

LEMMA BucketsOfKeys ==
  ASSUME IInv, RInv, pc # "idle"
  PROVE  Rows!Buckets = {b \in DOMAIN buckets : Filled(buckets[b]) # {}}
<1>1. Rows!Buckets = {BucketOf(prime, shift, k) : k \in Hashes}
  BY SameTables DEF Rows!Buckets, Rows!Bucket
<1>2. ASSUME NEW k \in Hashes
      PROVE  /\ BucketOf(prime, shift, k) \in DOMAIN buckets
             /\ Filled(buckets[BucketOf(prime, shift, k)]) # {}
  BY KeysInBuckets
<1>3. ASSUME NEW b \in DOMAIN buckets, Filled(buckets[b]) # {}
      PROVE  \E k \in Hashes : BucketOf(prime, shift, k) = b
  BY <1>3 DEF RInv, KeysOnly
<1> QED BY <1>1, <1>2, <1>3

(***************************************************************************)
(* The slot of a key whose bucket has been laid holds the rank of the key. *)
(***************************************************************************)
LEMMA LaidReads ==
  ASSUME IInv, pc # "idle", NEW k \in Hashes, BucketOf(prime, shift, k) \notin todo
  PROVE  LET i == offsets[BucketOf(prime, shift, k)] + IndexOf(prime, shift, k)
         IN  i \in DOMAIN ranks /\ i < rankLength /\ ranks[i] = flat[k]
BY KeysInBuckets DEF IInv, ReadBack

-------------------------------------------------------------------------------
LEMMA InitRows == Init => Rows!Init
BY SameTables DEF Init, NoLocals, Rows!Init, Laid, Rows!NothingLaid

LEMMA StartRows ==
  ASSUME IInv, NEW p \in Primes, NEW s \in Shifts, Start(p, s)
  PROVE  Rows!Next
<1>1. shift' \in 0 .. KeyBits /\ shift' = s /\ pc' # "idle"
  BY StartIInv DEF IInv, TypeOK, Start
<1>2. pc = "idle" /\ p \in Nat
  BY PrimesAssumption DEF Start
<1>3. {b \in DOMAIN buckets' \ todo' : Filled(buckets'[b]) # {}} = {}
  BY DEF Start
<1>4. Laid = [b \in {} |-> 0]
  BY <1>2 DEF Laid
<1>5. Laid' = [b \in {} |-> 0]
  BY <1>1, <1>3 DEF Laid
<1>6. Rows!Begin(p, s)
  BY <1>1, <1>2, <1>4, <1>5, SameTables DEF Start, Rows!Begin
<1> QED BY <1>1, <1>6 DEF Rows!Next

(***************************************************************************)
(* A call that ends without a table.                                       *)
(***************************************************************************)
LEMMA OverRows ==
  ASSUME pc # "idle", pc' = "idle", Forget
  PROVE  (pc # "idle") /\ Rows!Over
BY DEF Rows!Over, Forget, Laid, Rows!NothingLaid

LEMMA PlaceRows ==
  ASSUME IInv, RInv, pc = "placing", NEW b \in todo, NEW o, NEW n,
         IsOffset(o, buckets[b], ranks, 0, room + 2^shift - 1),
         IsLengthAfter(n, buckets[b], rankLength, o),
         Place(b, o, n)
  PROVE  Rows!Next
<1>1. /\ b \in DOMAIN buckets /\ o \in Nat /\ o < 2^ShortBits /\ Filled(buckets[b]) # {}
      /\ offsets \in [DOMAIN buckets -> Nat] /\ pc # "idle"
  BY OffsetFound DEF IInv, TypeOK, RInv, PlacedOnly, Place
<1>2. /\ UNCHANGED <<pc, prime, shift, buckets, flat, best>>
      /\ todo' = todo \ {b} /\ offsets' = [offsets EXCEPT ![b] = o]
  BY DEF Place
<1>3. IInv'
  BY PlaceIInv
<1>4. b \in Rows!Buckets \ DOMAIN Laid
  BY <1>1, BucketsOfKeys DEF Laid
<1>5. Laid' = [c \in DOMAIN Laid \cup {b} |-> IF c = b THEN o ELSE Laid[c]]
  <2>1. DOMAIN Laid = {c \in DOMAIN buckets \ todo : Filled(buckets[c]) # {}}
    BY <1>1 DEF Laid
  <2>2. {c \in DOMAIN buckets' \ todo' : Filled(buckets'[c]) # {}} = DOMAIN Laid \cup {b}
    BY <1>1, <1>2, <2>1
  <2>3. \A c \in DOMAIN Laid : c # b /\ Laid[c] = offsets[c] /\ offsets'[c] = offsets[c]
    BY <1>1, <1>2, <2>1 DEF Laid
  <2>4. offsets'[b] = o
    BY <1>1, <1>2
  <2>5. Laid' = [c \in DOMAIN Laid \cup {b} |-> offsets'[c]]
    BY <1>1, <1>2, <2>2 DEF Laid
  <2> QED BY <2>3, <2>4, <2>5
<1>6. Rows!Fits(Laid')
  <2>1. ASSUME NEW k \in Hashes, BucketOf(prime, shift, k) \in DOMAIN Laid'
        PROVE  ranks'[Laid'[BucketOf(prime, shift, k)] + IndexOf(prime, shift, k)] = flat[k]
    <3>1. pc' # "idle" /\ prime' = prime /\ shift' = shift /\ flat' = flat
      BY <1>1, <1>2
    <3>2. /\ Laid'[BucketOf(prime, shift, k)] = offsets'[BucketOf(prime, shift, k)]
          /\ BucketOf(prime, shift, k) \in DOMAIN buckets' \ todo'
      BY <2>1, <3>1 DEF Laid
    <3>3. IndexOf(prime, shift, k) \in Filled(buckets'[BucketOf(prime, shift, k)])
          /\ buckets'[BucketOf(prime, shift, k)][IndexOf(prime, shift, k)] = flat[k]
      BY <1>1, <1>2, KeysInBuckets
    <3> QED BY <1>3, <3>1, <3>2, <3>3 DEF IInv, ReadBack
  <2> QED BY <2>1, SameTables DEF Rows!Fits, Rows!LaidKeys, Rows!Slot, Rows!Bucket
<1>7. Rows!Lay(b, o)
  BY <1>1, <1>2, <1>4, <1>5, <1>6 DEF Rows!Lay
<1>8. o \in Rows!Indices(2^ShortBits)
  BY <1>1, PowerLaws DEF Rows!Indices
<1> QED BY <1>4, <1>7, <1>8 DEF Rows!Next

(***************************************************************************)
(* The table that is returned: when every bucket is laid, the slots are    *)
(* those that are occupied, and each holds the rank of its keys.           *)
(***************************************************************************)
LEMMA ReturnRows ==
  ASSUME IInv, RInv, Return
  PROVE  Rows!Next
<1>1. /\ pc = "placing" /\ pc # "idle" /\ todo = {} /\ pc' = "idle" /\ Forget /\ flat' = flat
      /\ best' = [primeSpread |-> prime, offsetShift |-> shift,
                  offsetLength |-> OffsetLength(shift), offsets |-> offsets,
                  rankLength |-> rankLength, ranks |-> [i \in Indices(rankLength) |-> ranks[i]]]
  BY DEF Return
<1>2. /\ shift \in Shifts /\ shift \in 0 .. KeyBits /\ shift <= KeyBits
      /\ room \in Nat /\ rankLength \in Nat /\ 2^shift \in Nat \ {0} /\ 2^KeyBits \in Nat
      /\ buckets \in [Indices(2^(KeyBits - shift)) -> [Indices(2^shift) -> Ranks]]
      /\ offsets \in [Indices(2^(KeyBits - shift)) -> Nat]
      /\ ranks \in [Indices(room + 2^shift - 1) -> Ranks]
      /\ rankLength = 0 \/ rankLength < room
  BY <1>1, PowerLaws, KeyAssumption DEF IInv, TypeOK, CallSound, EmptyAbove
<1>3. OffsetLength(shift) = 2^(KeyBits - shift)
  <2>1. 0 \in 0 .. 2^KeyBits + 1
    BY <1>2
  <2> QED BY <1>2, <2>1, WidthLaws
<1>4. /\ DOMAIN Laid = Rows!Buckets
      /\ \A b \in Rows!Buckets : b \in DOMAIN buckets /\ Laid[b] = offsets[b]
      /\ \A b \in DOMAIN buckets \ Rows!Buckets : offsets[b] = 0
  BY <1>1, BucketsOfKeys DEF Laid, RInv, PlacedOnly
<1>5. ASSUME NEW k \in Hashes
      PROVE  /\ Rows!Slot(Laid, k) = offsets[BucketOf(prime, shift, k)] + IndexOf(prime, shift, k)
             /\ Rows!Slot(Laid, k) \in Nat /\ Rows!Slot(Laid, k) < rankLength
             /\ ranks[Rows!Slot(Laid, k)] = flat[k]
  <2>1. BucketOf(prime, shift, k) \in Rows!Buckets
    BY SameTables DEF Rows!Buckets, Rows!Bucket
  <2>2. Rows!Slot(Laid, k) = offsets[BucketOf(prime, shift, k)] + IndexOf(prime, shift, k)
    BY <1>4, <2>1, SameTables DEF Rows!Slot, Rows!Bucket
  <2>3. Rows!Slot(Laid, k) \in DOMAIN ranks /\ Rows!Slot(Laid, k) < rankLength
        /\ ranks[Rows!Slot(Laid, k)] = flat[k]
    BY <1>1, <2>2, LaidReads
  <2>4. \A i \in DOMAIN ranks : i \in Nat
    BY <1>2 DEF Indices
  <2> QED BY <2>2, <2>3, <2>4
<1>6. ASSUME NEW i, Occupied(i) PROVE i \in Rows!Slots
  <2>1. PICK b \in DOMAIN buckets : \E j \in Filled(buckets[b]) : i = offsets[b] + j
    BY <1>1, <1>6 DEF Occupied
  <2>2. PICK j \in Filled(buckets[b]) : i = offsets[b] + j
    BY <2>1
  <2>3. PICK k \in Hashes : BucketOf(prime, shift, k) = b /\ IndexOf(prime, shift, k) = j
    BY <1>1, <2>2 DEF RInv, KeysOnly
  <2>4. i = Rows!Slot(Laid, k)
    BY <1>5, <2>2, <2>3
  <2> QED BY <2>4 DEF Rows!Slots
<1>7. rankLength \in {i + 1 : i \in Rows!Slots}
  <2>1. PICK k \in Hashes : TRUE
    BY KeyAssumption
  <2>2. rankLength # 0
    BY <1>2, <1>5, <2>1
  <2>3. rankLength - 1 \in Rows!Slots
    BY <1>1, <1>6, <2>2 DEF RInv, PlacedOnly
  <2>4. rankLength = (rankLength - 1) + 1
    BY <1>2
  <2> QED BY <2>3, <2>4
<1>8. \A i \in Rows!Slots : i < rankLength
  BY <1>5 DEF Rows!Slots
<1>9. ASSUME NEW i \in Indices(rankLength) PROVE ranks[i] = Rows!RankIn(i)
  <2>1. CASE i \in Rows!Slots
    <3> DEFINE k == CHOOSE k \in Hashes : Rows!Slot(Laid, k) = i
    <3>1. k \in Hashes /\ Rows!Slot(Laid, k) = i
      BY <2>1 DEF Rows!Slots
    <3>2. Rows!RankIn(i) = flat[k]
      BY <2>1 DEF Rows!RankIn
    <3> HIDE DEF k
    <3> QED BY <1>5, <3>1, <3>2
  <2>2. CASE i \notin Rows!Slots
    <3>1. i \in DOMAIN ranks
      BY <1>2 DEF Indices
    <3>2. ranks[i] = 0
      BY <1>1, <1>6, <2>2, <3>1 DEF RInv, PlacedOnly
    <3> QED BY <2>2, <3>2 DEF Rows!RankIn
  <2> QED BY <2>1, <2>2
<1>10. offsets = [b \in Indices(2^(KeyBits - shift)) |-> IF b \in Rows!Buckets THEN Laid[b] ELSE 0]
  BY <1>2, <1>4
<1>11. Rows!IsTableOf(best', best'.rankLength)
  <2>1. best'.rankLength = rankLength
    BY <1>1
  <2>2. [i \in Indices(rankLength) |-> ranks[i]] = [i \in Indices(rankLength) |-> Rows!RankIn(i)]
    BY <1>9
  <2> QED BY <1>1, <1>3, <1>7, <1>8, <1>10, <2>1, <2>2, SameTables DEF Rows!IsTableOf
<1>12. Rows!Size(best') < Rows!Size(best)
  BY ReturnServes, SameTables
<1>13. Rows!Over
  BY <1>1, OverRows
<1> QED BY <1>1, <1>4, <1>11, <1>12, <1>13 DEF Rows!Finish, Rows!Next

LEMMA StepRows == IInv /\ RInv /\ [Next]_vars => [Rows!Next]_(Rows!vars)
<1> SUFFICES ASSUME IInv, RInv, [Next]_vars PROVE [Rows!Next]_(Rows!vars)
  OBVIOUS
<1>1. CASE UNCHANGED vars
  BY <1>1 DEF vars, Rows!vars, Laid
<1>2. ASSUME NEW p \in Primes, NEW s \in Shifts, Refuse(p, s) \/ Start(p, s)
      PROVE  [Rows!Next]_(Rows!vars)
  BY <1>1, <1>2, StartRows DEF Refuse
<1>3. ASSUME NEW b \in todo, Iterate(b)
      PROVE  [Rows!Next]_(Rows!vars)
  <2>1. pc = "placing"
    BY <1>3 DEF Iterate
  <2>2. ASSUME pc' = "idle", Forget, UNCHANGED <<flat, best>> PROVE Rows!Next
    BY <2>1, <2>2, OverRows DEF Rows!GiveUp, Rows!Next
  <2>3. PICK o : /\ IsOffset(o, buckets[b], ranks, 0, room + 2^shift - 1)
                 /\ \/ GiveUpOffset(o)
                    \/ Raise(b, o)
                    \/ \E n : /\ IsLengthAfter(n, buckets[b], rankLength, o)
                              /\ Place(b, o, n) \/ GiveUpLength(b, o, n)
    BY <1>3 DEF Iterate
  <2>4. CASE GiveUpOffset(o) BY <2>2, <2>4 DEF GiveUpOffset
  <2>5. CASE Raise(b, o)
    BY <2>1, <2>5 DEF Raise, locals, Rows!vars, Laid
  <2>6. ASSUME NEW n, IsLengthAfter(n, buckets[b], rankLength, o), Place(b, o, n)
        PROVE  Rows!Next
    BY <2>1, <2>3, <2>6, PlaceRows
  <2>7. ASSUME NEW n, GiveUpLength(b, o, n) PROVE Rows!Next
    BY <2>2, <2>7 DEF GiveUpLength
  <2> QED BY <2>3, <2>4, <2>5, <2>6, <2>7
<1>4. CASE Return BY <1>4, ReturnRows
<1> QED BY <1>1, <1>2, <1>3, <1>4 DEF Next

(***************************************************************************)
(* The arrays that a call fills, bucket by bucket, from the ranks of the   *)
(* table before, are those that its offsets and the flat table define:     *)
(* computeShorterHashTable implements RowDisplacement.                     *)
(***************************************************************************)
THEOREM ImplementsRowDisplacement == Spec => Displaces
<1>1. Spec => []RInv
  BY Invariance, InitRInv, StepRInv, PTL DEF Spec
<1> QED
  BY Invariance, <1>1, InitRows, StepRows, PTL DEF Spec, Displaces, Rows!Spec

-------------------------------------------------------------------------------
(***************************************************************************)
(* What RowDisplacement promises is enough for a caller: whatever the      *)
(* order and the places in which buckets are laid, the best table gives    *)
(* every hand its rank.                                                    *)
(***************************************************************************)
RowsCalling == pc # "idle" => prime \in Nat /\ shift \in 0 .. KeyBits
LaidSound == /\ \A b \in DOMAIN Laid : Laid[b] \in Nat
             /\ pc = "idle" => DOMAIN Laid = {}
             /\ Rows!Fits(Laid)
RowsServes == flat \in [Hashes -> 1 .. MaxRank] /\ Serves(best, flat)

RowsInv == RowsCalling /\ LaidSound /\ RowsServes

LEMMA InitRowsInv == Rows!Init => RowsInv
BY FlatServes, SameTables
DEF Rows!Init, RowsInv, RowsCalling, LaidSound, RowsServes, Rows!NothingLaid, Rows!Fits,
    Rows!LaidKeys

(***************************************************************************)
(* The table of the offsets: a key's slot holds the rank of the key, as    *)
(* any other key in that slot has the same rank.                           *)
(***************************************************************************)
LEMMA FinishServes ==
  ASSUME RowsInv, Rows!Finish
  PROVE  Serves(best', flat)
<1> DEFINE n == best'.rankLength
<1>1. /\ prime \in Nat /\ shift \in 0 .. KeyBits
      /\ DOMAIN Laid = Rows!Buckets /\ Rows!IsTableOf(best', n)
      /\ flat \in [Hashes -> 1 .. MaxRank]
  BY SameTables DEF RowsInv, RowsCalling, RowsServes, Rows!Finish
<1>2. /\ best'.primeSpread = prime /\ best'.offsetShift = shift
      /\ best'.offsetLength = 2^(KeyBits - shift)
      /\ best'.offsets = [b \in Indices(2^(KeyBits - shift)) |->
                             IF b \in Rows!Buckets THEN Laid[b] ELSE 0]
      /\ best'.ranks = [i \in Indices(n) |-> Rows!RankIn(i)]
      /\ n \in {i + 1 : i \in Rows!Slots} /\ \A i \in Rows!Slots : i < n
  BY <1>1, SameTables DEF Rows!IsTableOf
<1> HIDE DEF n
<1>3. ASSUME NEW k \in Hashes
      PROVE  InBounds(best', k) /\ GetRank(best', k) = flat[k]
  <2> DEFINE b == Rows!Bucket(k)
  <2>1. b \in Indices(2^(KeyBits - shift)) /\ IndexOf(prime, shift, k) \in Indices(2^shift)
    BY <1>1, KeyPlace, SameTables DEF Rows!Bucket
  <2>2. b \in Rows!Buckets /\ Laid[b] \in Nat
    BY <1>1, SameTables DEF Rows!Buckets, RowsInv, LaidSound
  <2>3. OffsetSlot(best', k) = b /\ RankSlot(best', k) = Rows!Slot(Laid, k)
    BY <1>2, <2>1, <2>2, SameTables DEF OffsetSlot, RankSlot, Rows!Slot, Rows!Bucket
  <2>4. Rows!Slot(Laid, k) \in Rows!Slots
    BY DEF Rows!Slots
  <2>5. Rows!Slot(Laid, k) \in Nat /\ Rows!Slot(Laid, k) < n
    <3>1. IndexOf(prime, shift, k) \in Nat
      BY <1>1, <2>1, PowerLaws DEF Indices
    <3> QED BY <1>2, <2>2, <2>4, <3>1, SameTables DEF Rows!Slot
  <2>6. n \in Int
    <3>1. PICK h \in Hashes : n = Rows!Slot(Laid, h) + 1
      BY <1>2 DEF Rows!Slots
    <3>2. /\ IndexOf(prime, shift, h) \in Indices(2^shift)
          /\ Laid[Rows!Bucket(h)] \in Nat
      BY <1>1, KeyPlace, SameTables DEF Rows!Bucket, Rows!Buckets, RowsInv, LaidSound
    <3>3. IndexOf(prime, shift, h) \in Nat
      BY <1>1, <3>2, PowerLaws DEF Indices
    <3> QED BY <3>1, <3>2, <3>3 DEF Rows!Slot
  <2>7. Rows!Slot(Laid, k) \in Indices(n)
    BY <2>5, <2>6 DEF Indices
  <2>8. Rows!RankIn(Rows!Slot(Laid, k)) = flat[k]
    <3> DEFINE h == CHOOSE h \in Hashes : Rows!Slot(Laid, h) = Rows!Slot(Laid, k)
    <3>1. h \in Hashes /\ Rows!Slot(Laid, h) = Rows!Slot(Laid, k)
      OBVIOUS
    <3> HIDE DEF h
    <3>2. h \in Rows!LaidKeys(Laid) /\ k \in Rows!LaidKeys(Laid)
      BY <1>1, <3>1, SameTables DEF Rows!LaidKeys, Rows!Buckets
    <3>3. flat[h] = flat[k]
      BY <3>1, <3>2, SameTables DEF RowsInv, LaidSound, Rows!Fits
    <3> QED BY <2>4, <3>3 DEF Rows!RankIn, h
  <2>9. n = best'.rankLength BY DEF n
  <2> QED BY <1>2, <2>1, <2>3, <2>7, <2>8, <2>9 DEF InBounds, GetRank
<1> QED BY <1>3 DEF Serves

LEMMA StepRowsInv == RowsInv /\ [Rows!Next]_(Rows!vars) => RowsInv'
<1> SUFFICES ASSUME RowsInv, [Rows!Next]_(Rows!vars) PROVE RowsInv'
  OBVIOUS
<1> USE DEF RowsInv
<1>1. ASSUME NEW p \in Primes, NEW s \in 0 .. KeyBits, Rows!Begin(p, s)
      PROVE  RowsInv'
  <2>1. RowsCalling' BY <1>1 DEF Rows!Begin, RowsCalling
  <2>2. LaidSound' BY <1>1 DEF Rows!Begin, LaidSound, Rows!Fits, Rows!LaidKeys
  <2>3. RowsServes' BY <1>1 DEF Rows!Begin, RowsServes, Serves, InBounds, GetRank
  <2> QED BY <2>1, <2>2, <2>3
<1>2. ASSUME NEW b \in Rows!Buckets, NEW o \in Indices(2^ShortBits), Rows!Lay(b, o)
      PROVE  RowsInv'
  <2>1. RowsCalling' BY <1>2 DEF Rows!Lay, RowsCalling
  <2>2. o \in Nat BY PowerLaws DEF Indices
  <2>3. Rows!Fits(Laid)'
    BY <1>2, SameTables DEF Rows!Lay, Rows!Fits, Rows!LaidKeys, Rows!Slot, Rows!Bucket
  <2>4. LaidSound'
    BY <1>2, <2>2, <2>3, SameTables DEF Rows!Lay, LaidSound
  <2>5. RowsServes' BY <1>2 DEF Rows!Lay, RowsServes, Serves, InBounds, GetRank
  <2> QED BY <2>1, <2>4, <2>5
<1>3. ASSUME Rows!Over, flat' = flat, Serves(best', flat)
      PROVE  RowsInv'
  <2>1. RowsCalling' BY <1>3 DEF Rows!Over, RowsCalling
  <2>2. LaidSound' BY <1>3 DEF Rows!Over, LaidSound, Rows!NothingLaid, Rows!Fits, Rows!LaidKeys
  <2>3. RowsServes' BY <1>3 DEF RowsServes, Serves, InBounds, GetRank
  <2> QED BY <2>1, <2>2, <2>3
<1>4. CASE Rows!GiveUp
  BY <1>3, <1>4 DEF Rows!GiveUp, RowsServes, Serves, InBounds, GetRank
<1>5. CASE Rows!Finish
  BY <1>3, <1>5, FinishServes, SameTables DEF Rows!Finish
<1>6. CASE UNCHANGED Rows!vars
  BY <1>6, SameTables DEF Rows!vars, RowsCalling, LaidSound, RowsServes, Rows!Fits,
     Rows!LaidKeys, Rows!Slot, Rows!Bucket, Serves, InBounds, GetRank
<1> QED BY <1>1, <1>2, <1>4, <1>5, <1>6, SameTables DEF Rows!Next

(***************************************************************************)
(* Every table that a search promises serves every hand.                   *)
(***************************************************************************)
THEOREM PromiseServes == Displaces => []BestServes
<1>1. RowsInv => BestServes BY DEF RowsInv, RowsServes, BestServes
<1> QED BY <1>1, InitRowsInv, StepRowsInv, PTL DEF Displaces, Rows!Spec

(***************************************************************************)
(* The best table only gets shorter.                                       *)
(***************************************************************************)
THEOREM PromiseShrinks == Displaces => OnlyShrinks
<1>1. [Rows!Next]_(Rows!vars) => [BestShrinks]_vars
  BY SameTables
  DEF Rows!Next, Rows!Begin, Rows!Lay, Rows!GiveUp, Rows!Finish, Rows!vars, BestShrinks, Size
<1> QED BY <1>1, PTL DEF Displaces, Rows!Spec, OnlyShrinks

-------------------------------------------------------------------------------
(***************************************************************************)
(* findOffset with its bit sets.  The place of bit j of word n is the slot *)
(* n * WordBits + j; every slot has one such place.                        *)
(***************************************************************************)
LEMMA SlotPlace ==
  ASSUME NEW x \in Nat
  PROVE  /\ x \div WordBits \in Nat /\ x % WordBits \in Bits
         /\ x = (x \div WordBits) * WordBits + (x % WordBits)
         /\ \A y \in Nat : y <= x => y \div WordBits <= x \div WordBits
<1> DEFINE W == WordBits
<1>1. W \in Nat \ {0}
  BY WordAssumption
<1> HIDE DEF W
<1>2. x \div W \in Nat /\ x % W \in 0 .. W - 1 /\ x = (x \div W) * W + (x % W)
  BY <1>1
<1>3. ASSUME NEW y \in Nat, y <= x PROVE y \div W <= x \div W
  <2> DEFINE a == x \div W
             c == y \div W
  <2>1. a \in Nat /\ c \in Nat /\ c * W <= y /\ x < a * W + W
    BY <1>1, <1>2
  <2> HIDE DEF a, c
  <2>2. ASSUME a < c PROVE FALSE
    <3>1. (a + 1) * W <= c * W
      BY <1>1, <2>1, <2>2
    <3>2. (a + 1) * W = a * W + W /\ a * W \in Nat /\ c * W \in Nat
      BY <1>1, <2>1
    <3> QED BY <1>1, <1>3, <2>1, <3>1, <3>2
  <2> QED BY <2>1, <2>2 DEF a, c
<1> QED BY <1>2, <1>3 DEF W, Bits

(***************************************************************************)
(* Two words, shifted: a bit is set in the window that begins r bits into  *)
(* word w just when it is set in one of the two words, r bits further on.  *)
(***************************************************************************)
LEMMA WindowShifts ==
  ASSUME NEW words, NEW w, NEW r \in Bits, NEW j \in Bits,
         words[w] \subseteq Bits, words[w + 1] \subseteq Bits
  PROVE  j \in Window(words, w, r)
           <=> j + r \in words[w] \/ j + r - WordBits \in words[w + 1]
<1> DEFINE W == WordBits
           A == words[w]
           B == words[w + 1]
<1>1. W \in Nat /\ W > 1 /\ r \in 0 .. W - 1 /\ j \in 0 .. W - 1
      /\ A \subseteq 0 .. W - 1 /\ B \subseteq 0 .. W - 1 /\ Bits = 0 .. W - 1
  BY WordAssumption DEF Bits
<1> HIDE DEF W, A, B
<1>2. r % W = r /\ (W - 1 - r) % W = W - 1 - r /\ 1 % W = 1
  <2>1. \A x \in 0 .. W - 1 : x % W = x
    BY <1>1
  <2>2. W - 1 - r \in 0 .. W - 1 /\ 1 \in 0 .. W - 1
    BY <1>1
  <2> QED BY <1>1, <2>1, <2>2
<1>3. j \in ShiftRight(A, r) <=> j + r \in A
  <2>1. ShiftRight(A, r) = {b - r : b \in A} \cap (0 .. W - 1)
    BY <1>1, <1>2 DEF ShiftRight, W
  <2>2. j + r \in A => (j + r) - r = j
    BY <1>1
  <2>3. \A b \in A : b - r = j => b = j + r
    BY <1>1
  <2> QED BY <1>1, <2>1, <2>2, <2>3
<1>4. j \in ShiftLeft(ShiftLeft(B, W - 1 - r), 1) <=> j + r - W \in B
  <2> DEFINE C == ShiftLeft(B, W - 1 - r)
  <2>1. C = {b + (W - 1 - r) : b \in B} \cap (0 .. W - 1)
    BY <1>1, <1>2 DEF ShiftLeft, W
  <2> HIDE DEF C
  <2>2. ShiftLeft(C, 1) = {b + 1 : b \in C} \cap (0 .. W - 1)
    BY <1>1, <1>2 DEF ShiftLeft, W
  <2>3. ASSUME j + r - W \in B
        PROVE  j \in ShiftLeft(C, 1)
    <3>1. (j + r - W) + (W - 1 - r) = j - 1 /\ j - 1 \in 0 .. W - 1 /\ (j - 1) + 1 = j
      BY <1>1, <2>3
    <3>2. j - 1 \in C
      BY <2>1, <2>3, <3>1
    <3> QED BY <1>1, <2>2, <3>1, <3>2
  <2>4. ASSUME j \in ShiftLeft(C, 1)
        PROVE  j + r - W \in B
    <3>1. PICK c \in C : c + 1 = j
      BY <2>2, <2>4
    <3>2. PICK b \in B : c = b + (W - 1 - r)
      BY <2>1, <3>1
    <3>3. b = j + r - W
      BY <1>1, <3>1, <3>2
    <3> QED BY <3>2, <3>3
  <2> QED BY <2>3, <2>4 DEF C
<1> QED BY <1>3, <1>4 DEF Window, W, A, B

(***************************************************************************)
(* The bits of a window of the ranks are the slots filled from there on.   *)
(***************************************************************************)
LEMMA WindowSees ==
  ASSUME NEW array, NEW m \in Nat, NEW n \in Nat, NEW o \in Nat, NEW j \in Bits,
         WordAt(n, o) + 1 \in Indices(m), DOMAIN array \subseteq Nat
  PROVE  j \in Window(BitSet(array, m), WordAt(n, o), o % WordBits)
           <=> j + n * WordBits + o \in Filled(array)
<1> DEFINE W == WordBits
           k == o \div WordBits
           r == o % WordBits
           w == WordAt(n, o)
           words == BitSet(array, m)
<1>1. W \in Nat /\ W > 1 /\ k \in Nat /\ r \in Bits /\ o = k * W + r /\ Bits = 0 .. W - 1
      /\ w = n + k
  <2>1. k \in Nat /\ r \in Bits /\ o = k * W + r
    BY SlotPlace, Zenon
  <2>2. W \in Nat /\ W > 1 /\ Bits = 0 .. W - 1
    BY WordAssumption DEF Bits
  <2> QED BY <2>1, <2>2, Zenon DEF WordAt
<1> HIDE DEF W, k, r
<1>2. w \in Nat /\ w \in Indices(m) /\ w + 1 \in Indices(m)
  BY <1>1 DEF Indices
<1>3. \A v \in Indices(m) : words[v] = {b \in Bits : v * W + b \in Filled(array)}
  BY DEF BitSet, W
<1> HIDE DEF words, w
<1>4. words[w] \subseteq Bits /\ words[w + 1] \subseteq Bits
  BY <1>2, <1>3
<1>5. j \in Window(words, w, r) <=> j + r \in words[w] \/ j + r - W \in words[w + 1]
  BY <1>1, <1>4, WindowShifts DEF W
<1>6. /\ w * W + (j + r) = j + n * W + o
      /\ (w + 1) * W + (j + r - W) = j + n * W + o
  <2>1. w * W = n * W + k * W /\ (w + 1) * W = w * W + W
    BY <1>1, <1>2
  <2>2. n * W \in Nat /\ k * W \in Nat /\ w * W \in Nat
    BY <1>1, <1>2
  <2> QED BY <1>1, <2>1, <2>2
<1>7. j + r \in words[w] <=> j + r \in Bits /\ j + n * W + o \in Filled(array)
  BY <1>2, <1>3, <1>6
<1>8. j + r - W \in words[w + 1] <=> j + r - W \in Bits /\ j + n * W + o \in Filled(array)
  BY <1>2, <1>3, <1>6
<1>9. j + r \in Bits \/ j + r - W \in Bits
  BY <1>1
<1> QED BY <1>5, <1>7, <1>8, <1>9 DEF W, r, w, words

(***************************************************************************)
(* Up to its first fit, a bucket lies within the ranks and one word more.  *)
(***************************************************************************)
LEMMA TriedWithin ==
  ASSUME IInv, pc = "placing", NEW b \in todo, NEW o \in Tried(b)
  PROVE  /\ 2^shift \in Nat \ {0} /\ buckets[b] \in [Indices(2^shift) -> Ranks]
         /\ room + 2^shift - 1 \in Nat /\ ranks \in [Indices(room + 2^shift - 1) -> Ranks]
         /\ o \in Nat /\ o + 2^shift - 1 <= room + 2^shift - 1
<1>1. TypeOK /\ EmptyAbove
  BY DEF IInv
<1>2. /\ room \in Nat /\ shift \in 0 .. KeyBits /\ rankLength \in Nat
      /\ buckets[b] \in [Indices(2^shift) -> Ranks]
      /\ ranks \in [Indices(room + 2^shift - 1) -> Ranks]
  BY <1>1 DEF TypeOK
<1>3. 2^shift \in Nat \ {0}
  BY <1>2, PowerLaws
<1>4. o \in Indices(room + 2^shift - 1) /\ \A q \in 0 .. o - 1 : Collides(buckets[b], ranks, q)
  BY <1>2 DEF Tried
<1>5. ~Collides(buckets[b], ranks, rankLength)
  <2>1. \A i \in DOMAIN ranks : i >= rankLength => ranks[i] = 0
    BY <1>1 DEF EmptyAbove
  <2> QED BY <1>2, <2>1 DEF Collides, Filled, Indices
<1>6. o \in Nat /\ o <= rankLength
  BY <1>2, <1>3, <1>4, <1>5 DEF Indices
<1>7. rankLength = 0 \/ rankLength < room
  BY <1>1 DEF EmptyAbove
<1> QED BY <1>2, <1>3, <1>6, <1>7

LEMMA WordsExact ==
  ASSUME IInv, pc = "placing", NEW b \in todo, NEW o \in Tried(b)
  PROVE  /\ \A n \in Compared(b) : WordAt(n, o) + 1 \in DOMAIN RankBitSet
         /\ CollidesByWords(b, o) = Collides(buckets[b], ranks, o)
<1> DEFINE W == WordBits
           P == 2^shift
           L == room + P - 1
           bucket == buckets[b]
           m == 2 + (Cardinality(DOMAIN ranks) \div W)
<1>1. /\ P \in Nat \ {0} /\ bucket \in [Indices(P) -> Ranks] /\ L \in Nat
      /\ ranks \in [Indices(L) -> Ranks] /\ o \in Nat /\ o + P - 1 <= L
  BY TriedWithin, Zenon
<1>2. W \in Nat /\ W > 1 /\ Bits = 0 .. W - 1
  BY WordAssumption DEF Bits
<1> HIDE DEF W, P, L, bucket
<1>3. Cardinality(DOMAIN ranks) = L
  <2>1. 0 \in Int /\ L - 1 \in Int /\ (0 > L - 1 => L = 0) /\ L - 1 - 0 + 1 = L
    BY <1>1
  <2>2. DOMAIN ranks = 0 .. L - 1
    BY <1>1 DEF Indices
  <2> QED BY <2>1, <2>2, FS_Interval
<1>4. m = 2 + (L \div W) /\ m \in Nat /\ L \div W \in Nat
  BY <1>1, <1>2, <1>3, SlotPlace DEF W
<1> HIDE DEF m
<1>5. DOMAIN RankBitSet = Indices(m) /\ RankBitSet = BitSet(ranks, m)
  BY DEF RankBitSet, BitSet, m, W
<1>6. /\ DOMAIN BucketBitSet(b) = Indices(1 + (P \div W))
      /\ \A n \in Indices(1 + (P \div W)) :
           BucketBitSet(b)[n] = {j \in Bits : n * W + j \in Filled(bucket)}
  BY DEF BucketBitSet, BitSet, W, P, bucket
<1>7. Filled(bucket) \subseteq 0 .. P - 1 /\ \A x : x \in Filled(bucket) => bucket[x] # 0
  BY <1>1 DEF Filled, Indices
<1>8. ASSUME NEW n \in Nat, NEW j \in Bits, j + n * W \in Filled(bucket)
      PROVE  /\ n \in Compared(b) /\ j \in BucketBitSet(b)[n]
             /\ WordAt(n, o) + 1 \in Indices(m)
  <2>1. n * W \in Nat /\ j \in Nat /\ j + n * W \in 0 .. P - 1 /\ j + n * W = n * W + j
    BY <1>2, <1>7, <1>8
  <2>2. (n * W) \div W = n
    BY <1>2
  <2>3. n * W <= P /\ n * W + o <= L /\ n * W + o \in Nat
    BY <1>1, <2>1
  <2>4. n <= P \div W /\ P \div W \in Nat
    BY <1>1, <2>1, <2>2, <2>3, SlotPlace DEF W
  <2>5. n \in Indices(1 + (P \div W))
    BY <2>4 DEF Indices
  <2>6. j \in BucketBitSet(b)[n]
    BY <1>6, <1>8, <2>1, <2>5
  <2>7. n \in Compared(b)
    BY <1>6, <2>5, <2>6 DEF Compared
  <2>8. WordAt(n, o) \in Nat /\ WordAt(n, o) <= L \div W
    <3>1. (n * W + o) \div W = n + (o \div W)
      <4>1. o \div W \in Nat /\ o % W \in 0 .. W - 1 /\ o = (o \div W) * W + (o % W)
        BY <1>1, <1>2, SlotPlace DEF W
      <4>2. ASSUME NEW a \in Nat, NEW d \in 0 .. W - 1
            PROVE  (a * W + d) \div W = a
        BY <1>2
      <4>3. n * W + o = (n + (o \div W)) * W + (o % W)
        BY <1>1, <1>2, <4>1
      <4> QED BY <4>1, <4>2, <4>3
    <3>2. (n * W + o) \div W <= L \div W
      BY <1>1, <2>3, SlotPlace DEF W
    <3>3. o \div W \in Nat
      BY <1>1, SlotPlace DEF W
    <3> QED BY <3>1, <3>2, <3>3 DEF WordAt, W
  <2> QED BY <1>4, <2>6, <2>7, <2>8 DEF Indices
<1>9. ASSUME NEW n \in Compared(b)
      PROVE  n \in Nat /\ \E j \in Bits : j \in BucketBitSet(b)[n]
  <2>1. n \in Indices(1 + (P \div W)) /\ BucketBitSet(b)[n] # {}
    BY <1>6 DEF Compared
  <2>2. P \div W \in Nat
    BY <1>1, SlotPlace DEF W
  <2> QED BY <1>6, <2>1, <2>2 DEF Indices
<1>10. ASSUME NEW n \in Compared(b), NEW j \in BucketBitSet(b)[n]
       PROVE  n \in Nat /\ j \in Bits /\ j + n * W \in Filled(bucket)
  <2>1. n \in Indices(1 + (P \div W)) /\ n \in Nat
    BY <1>6, <1>9 DEF Compared
  <2>2. j \in Bits /\ n * W + j \in Filled(bucket)
    BY <1>6, <2>1
  <2>3. n * W + j = j + n * W
    BY <1>2, <2>1, <2>2
  <2> QED BY <2>1, <2>2, <2>3
<1>11. \A n \in Compared(b) : WordAt(n, o) + 1 \in DOMAIN RankBitSet
  BY <1>5, <1>8, <1>9, <1>10
<1>12. ASSUME NEW n \in Nat, NEW j \in Bits, j + n * W \in Filled(bucket)
       PROVE  j \in Window(RankBitSet, WordAt(n, o), o % W) <=> j + n * W + o \in Filled(ranks)
  <2>1. WordAt(n, o) + 1 \in Indices(m)
    BY <1>8, <1>12
  <2>2. DOMAIN ranks \subseteq Nat
    BY <1>1 DEF Indices
  <2> QED BY <1>1, <1>4, <1>5, <2>1, <2>2, WindowSees DEF W
<1>13. ASSUME CollidesByWords(b, o)
       PROVE  Collides(bucket, ranks, o)
  <2>1. PICK n \in Compared(b) : CollidesInWord(b, n, o)
    BY <1>13 DEF CollidesByWords
  <2>2. PICK j \in Window(RankBitSet, WordAt(n, o), o % W) \cap BucketBitSet(b)[n] :
          bucket[j + n * W] # ranks[j + n * W + o]
    BY <2>1 DEF CollidesInWord, W, bucket
  <2>3. n \in Nat /\ j \in Bits /\ j + n * W \in Filled(bucket)
    BY <1>10, <2>2
  <2>4. j + n * W + o \in Filled(ranks)
    BY <1>12, <2>2, <2>3
  <2>5. o + (j + n * W) = j + n * W + o
    BY <1>1, <1>2, <2>3
  <2> QED BY <2>2, <2>3, <2>4, <2>5 DEF Collides, Filled
<1>14. ASSUME Collides(bucket, ranks, o)
       PROVE  CollidesByWords(b, o)
  <2>1. PICK x \in Filled(bucket) : /\ o + x \in DOMAIN ranks
                                    /\ ranks[o + x] # 0
                                    /\ ranks[o + x] # bucket[x]
    BY <1>14 DEF Collides
  <2> DEFINE n == x \div W
             j == x % W
  <2>2. x \in Nat /\ n \in Nat /\ j \in Bits /\ x = j + n * W
    <3>1. x \in Nat
      BY <1>1, <1>7, <2>1
    <3>2. n \in Nat /\ j \in Bits /\ x = n * W + j
      BY <3>1, SlotPlace DEF W
    <3> HIDE DEF n, j
    <3> QED BY <1>2, <3>1, <3>2
  <2> HIDE DEF n, j
  <2>3. n \in Compared(b) /\ j \in BucketBitSet(b)[n]
    BY <1>8, <2>1, <2>2
  <2>4. j + n * W + o = o + x
    BY <1>1, <2>2
  <2>5. j \in Window(RankBitSet, WordAt(n, o), o % W)
    BY <1>12, <2>1, <2>2, <2>4 DEF Filled
  <2>6. bucket[j + n * W] # ranks[j + n * W + o]
    BY <2>1, <2>2, <2>4
  <2>7. CollidesInWord(b, n, o)
    BY <2>3, <2>5, <2>6 DEF CollidesInWord, W, bucket
  <2> QED BY <2>3, <2>7 DEF CollidesByWords
<1>15. CollidesByWords(b, o) \in BOOLEAN /\ Collides(bucket, ranks, o) \in BOOLEAN
  BY DEF CollidesByWords, Collides
<1> QED BY <1>11, <1>13, <1>14, <1>15 DEF bucket

(***************************************************************************)
(* For every width of a word but one bit: at every offset that findOffset  *)
(* tries, its windows lie inside the bit set of the ranks and it sees a    *)
(* collision just where there is one.                                      *)
(***************************************************************************)
THEOREM WindowsExact == Spec => []WindowExact
<1>1. IInv => WindowExact
  BY WordsExact DEF WindowExact
<1> QED BY <1>1, Invariance, PTL
=============================================================================
