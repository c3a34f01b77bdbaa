--------------------------- MODULE ShorterHashTable ---------------------------
(***************************************************************************)
(* computeShorterHashTable of HashTable.java, called over and over by a    *)
(* search that keeps every shorter table it gets: first-fit row            *)
(* displacement, the buckets of most keys first, given up as soon as the   *)
(* ranks outgrow the room that would make the table shorter.               *)
(*                                                                         *)
(* One action is one iteration of the loop over bucketOrder.               *)
(***************************************************************************)
EXTENDS HashTable

CONSTANT Primes       \* the factors that the search tries

ASSUME PrimesAssumption == Primes \subseteq Nat

VARIABLES
  flat,        \* the rank of every hand: the table the search begins with
  best,        \* the table of the search, the reference of the next call
  pc,          \* where the call is: "idle", "placing" or "raised"
  prime, shift,  \* the arguments of the call
  room,        \* maxRankLength
  buckets,     \* buckets
  todo,        \* the buckets of bucketOrder not yet placed
  offsets, ranks, rankLength   \* the arrays under construction

vars == <<flat, best, pc, prime, shift, room, buckets, todo, offsets, ranks, rankLength>>
locals == <<prime, shift, room, buckets, todo, offsets, ranks, rankLength>>

(***************************************************************************)
(* The locals when no call is being made, and after a call.                *)
(***************************************************************************)
NoLocals == /\ prime = 0 /\ shift = 0 /\ room = 0 /\ buckets = <<>> /\ todo = {}
            /\ offsets = <<>> /\ ranks = <<>> /\ rankLength = 0
Forget == /\ prime' = 0 /\ shift' = 0 /\ room' = 0 /\ buckets' = <<>> /\ todo' = {}
          /\ offsets' = <<>> /\ ranks' = <<>> /\ rankLength' = 0

(***************************************************************************)
(* The search starts from the flat table of some ranking of the hands.     *)
(***************************************************************************)
Init ==
  /\ flat \in [Hashes -> 1 .. MaxRank]
  /\ best = FlatTable(flat)
  /\ pc = "idle"
  /\ NoLocals

Count(b) == Cardinality(Filled(buckets[b]))

(***************************************************************************)
(* The early returns: no room at this shift, or two keys in one place.     *)
(***************************************************************************)
Refuse(p, s) ==
  /\ pc = "idle"
  /\ MaxRankLength(Size(best), s) < 0 \/ KeysCollide(p)
  /\ UNCHANGED vars

\* seeded fault: ranks is allocated without offsetMask
StartShortArray(p, s) ==
  /\ pc = "idle"
  /\ ~(MaxRankLength(Size(best), s) < 0 \/ KeysCollide(p))
  /\ prime' = p /\ shift' = s /\ room' = MaxRankLength(Size(best), s)
  /\ buckets' = FillBuckets(p, s, best)
  /\ todo' = {b \in DOMAIN buckets' : Filled(buckets'[b]) # {}}
  /\ offsets' = [b \in Indices(2^(KeyBits - s)) |-> 0]
  /\ ranks' = [i \in Indices(room') |-> 0]
  /\ rankLength' = 0
  /\ pc' = "placing"
  /\ UNCHANGED <<flat, best>>

(***************************************************************************)
(* The allocations before the loop.  Filled ranks are 0.                   *)
(***************************************************************************)
Start(p, s) ==
  /\ pc = "idle"
  /\ ~(MaxRankLength(Size(best), s) < 0 \/ KeysCollide(p))
  /\ prime' = p /\ shift' = s /\ room' = MaxRankLength(Size(best), s)
  /\ buckets' = FillBuckets(p, s, best)
  /\ todo' = {b \in DOMAIN buckets' : Filled(buckets'[b]) # {}}
  /\ offsets' = [b \in Indices(2^(KeyBits - s)) |-> 0]
  /\ ranks' = [i \in Indices(room' + 2^s - 1) |-> 0]
  /\ rankLength' = 0
  /\ pc' = "placing"
  /\ UNCHANGED <<flat, best>>

(***************************************************************************)
(* bucketOrder: descending count of keys, ascending index among equals.    *)
(***************************************************************************)
IsNext(b) == \A c \in todo : Count(c) < Count(b) \/ (Count(c) = Count(b) /\ b <= c)

(***************************************************************************)
(* The offset does not fit an unsigned short: null.                        *)
(***************************************************************************)
GiveUpOffset(o) ==
  /\ o >= 2^ShortBits
  /\ pc' = "idle" /\ Forget
  /\ UNCHANGED <<flat, best>>

(***************************************************************************)
(* writeBucket compares with a rank past the end of ranks, l.152:          *)
(* ArrayIndexOutOfBoundsException.                                         *)
(***************************************************************************)
Raise(b, o) ==
  /\ o < 2^ShortBits
  /\ Overruns(buckets[b], ranks, o)
  /\ pc' = "raised"
  /\ UNCHANGED <<flat, best, locals>>

\* seeded fault: a table as long as the reference passes
PlaceAtLimit(b, o, n) ==
  /\ o < 2^ShortBits /\ ~Overruns(buckets[b], ranks, o)
  /\ n <= room
  /\ offsets' = [offsets EXCEPT ![b] = o]
  /\ ranks' = Written(buckets[b], ranks, o)
  /\ rankLength' = n
  /\ todo' = todo \ {b}
  /\ UNCHANGED <<flat, best, pc, prime, shift, room, buckets>>

(***************************************************************************)
(* writeBucket; null when the ranks no longer make a shorter table.        *)
(***************************************************************************)
Place(b, o, n) ==
  /\ o < 2^ShortBits /\ ~Overruns(buckets[b], ranks, o)
  /\ n < room
  /\ offsets' = [offsets EXCEPT ![b] = o]
  /\ ranks' = Written(buckets[b], ranks, o)
  /\ rankLength' = n
  /\ todo' = todo \ {b}
  /\ UNCHANGED <<flat, best, pc, prime, shift, room, buckets>>

\* seeded fault: a table that is just one shorter is given up
GiveUpOneEarly(b, o, n) ==
  /\ o < 2^ShortBits /\ ~Overruns(buckets[b], ranks, o)
  /\ n + 1 >= room
  /\ pc' = "idle" /\ Forget
  /\ UNCHANGED <<flat, best>>

GiveUpLength(b, o, n) ==
  /\ o < 2^ShortBits /\ ~Overruns(buckets[b], ranks, o)
  /\ n >= room
  /\ pc' = "idle" /\ Forget
  /\ UNCHANGED <<flat, best>>

(***************************************************************************)
(* One iteration, for the next bucket of bucketOrder: o is the result of   *)
(* findOffset and n the length after writeBucket.                          *)
(***************************************************************************)
Iterate(b) ==
  /\ pc = "placing" /\ b \in todo /\ IsNext(b)
  /\ \E o \in Indices(room + 2^shift) :
       /\ IsOffset(o, buckets[b], ranks, 0, room + 2^shift - 1)
       /\ \/ GiveUpOffset(o)
          \/ Raise(b, o)
          \/ \E n \in {rankLength} \cup Lengths(buckets[b], o) :
               /\ IsLengthAfter(n, buckets[b], rankLength, o)
               /\ Place(b, o, n) \/ GiveUpLength(b, o, n)

\* seeded fault: the ranks are not cut to their length
ReturnUncut ==
  /\ pc = "placing" /\ todo = {}
  /\ best' = [primeSpread |-> prime, offsetShift |-> shift,
              offsetLength |-> OffsetLength(shift), offsets |-> offsets,
              rankLength |-> rankLength, ranks |-> ranks]
  /\ pc' = "idle" /\ Forget
  /\ UNCHANGED flat

(***************************************************************************)
(* The ranks are cut to their length and the search keeps the table.       *)
(***************************************************************************)
Return ==
  /\ pc = "placing" /\ todo = {}
  /\ best' = [primeSpread |-> prime, offsetShift |-> shift,
              offsetLength |-> OffsetLength(shift), offsets |-> offsets,
              rankLength |-> rankLength, ranks |-> [i \in Indices(rankLength) |-> ranks[i]]]
  /\ pc' = "idle" /\ Forget
  /\ UNCHANGED flat

Next ==
  \/ \E p \in Primes, s \in Shifts : Refuse(p, s) \/ Start(p, s)
  \/ \E b \in todo : Iterate(b)
  \/ Return

Spec == Init /\ [][Next]_vars

-------------------------------------------------------------------------------
TypeOK ==
  /\ flat \in [Hashes -> 1 .. MaxRank]
  /\ IsTable(best)
  /\ pc \in {"idle", "placing", "raised"}
  /\ prime \in Nat /\ shift \in Nat /\ room \in Int
  /\ pc # "idle" => /\ room \in Nat /\ shift \in 0 .. KeyBits
                    /\ buckets \in [Indices(2^(KeyBits - shift)) -> [Indices(2^shift) -> Ranks]]
                    /\ todo \subseteq DOMAIN buckets
                    /\ offsets \in [DOMAIN buckets -> Nat]
                    /\ ranks \in [Indices(room + 2^shift - 1) -> Ranks]
                    /\ rankLength \in Nat

(***************************************************************************)
(* However many tables the search has gone through, the one it holds gives *)
(* every hand the rank it had in the flat table, inside both arrays.       *)
(***************************************************************************)
BestServes == Serves(best, flat)

(***************************************************************************)
(* The buckets written so far can be read back: each rank is where the     *)
(* offset of its bucket says, and below rankLength.                        *)
(***************************************************************************)
PlacedReadBack ==
  pc = "placing" =>
    \A b \in DOMAIN buckets \ todo : \A j \in Filled(buckets[b]) :
      /\ offsets[b] + j < rankLength
      /\ ranks[offsets[b] + j] = buckets[b][j]

(***************************************************************************)
(* A call overruns its array only when the offsets alone are already as    *)
(* long as the reference: the guard lets maxRankLength = 0 pass.           *)
(***************************************************************************)
RaisesOnlyWithoutRoom == pc = "raised" => room = 0

(***************************************************************************)
(* A new table is strictly shorter than the one it replaces.               *)
(***************************************************************************)
BestShrinks == best' # best => Size(best') < Size(best)
OnlyShrinks == [][BestShrinks]_vars

(***************************************************************************)
(* The assertion in writeBucket (l.152): a rank, once written, is not      *)
(* replaced by another one as long as the call goes on.                    *)
(***************************************************************************)
KeepsSlots ==
  pc = "placing" /\ pc' = "placing" => \A i \in DOMAIN ranks : ranks[i] # 0 => ranks'[i] = ranks[i]
NoSlotOverwritten == [][KeepsSlots]_vars

(***************************************************************************)
(* The heuristic implements RowDisplacement: the arrays it fills bucket by *)
(* bucket, from the ranks of the table before, are those that the offsets  *)
(* and the flat table define.                                              *)
(***************************************************************************)
Laid == IF pc = "idle" THEN [b \in {} |-> 0]
        ELSE [b \in {b \in DOMAIN buckets \ todo : Filled(buckets[b]) # {}} |-> offsets[b]]
Rows == INSTANCE RowDisplacement WITH calling <- pc # "idle", laid <- Laid
Displaces == Rows!Spec

(***************************************************************************)
(* First fit, as a function of the ranking, the factor and the bucket size *)
(* alone: the buckets in descending order of their keys, each at the least *)
(* offset where no two hands of different ranks meet, however long the     *)
(* array of ranks becomes.                                                 *)
(***************************************************************************)
FirstFit ==
  LET keys(b) == Cardinality({k \in Hashes : Rows!Bucket(k) = b})
      last(S) == CHOOSE b \in S : \A c \in S : keys(c) > keys(b) \/ (keys(c) = keys(b) /\ c <= b)
      extended(l, b, o) == [c \in DOMAIN l \cup {b} |-> IF c = b THEN o ELSE l[c]]
      rows[S \in SUBSET Rows!Buckets] ==
        IF S = {} THEN Rows!NothingLaid
        ELSE LET b == last(S)
                 l == rows[S \ {b}]
             IN  extended(l, b, CHOOSE o \in Indices(2^(KeyBits + 1)) :
                                  /\ Rows!Fits(extended(l, b, o))
                                  /\ \A q \in Indices(o) : ~Rows!Fits(extended(l, b, q)))
  IN  rows[Rows!Buckets]

IsShorter(l) ==
  /\ \A b \in Rows!Buckets : l[b] < 2^ShortBits
  /\ \A k \in Hashes : 2^(KeyBits - shift) + Rows!Slot(l, k) + 1 < Size(best)

(***************************************************************************)
(* The early returns of the loop (l.111, l.114) lose no table: a call      *)
(* answers with the table of first fit whenever that is shorter than the   *)
(* best one and its offsets fit a short, and with null only when not.      *)
(***************************************************************************)
Answered ==
  pc = "placing" /\ pc' = "idle" =>
    LET l == FirstFit
    IN  IF IsShorter(l)
        THEN /\ best'.primeSpread = prime /\ best'.offsetShift = shift
             /\ \A b \in Rows!Buckets : best'.offsets[b] = l[b]
        ELSE best' = best
AnswersFirstFit == [][Answered]_vars
=============================================================================
