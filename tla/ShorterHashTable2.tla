-------------------------- MODULE ShorterHashTable2 --------------------------
(***************************************************************************)
(* computeShorterHashTable2 of HashTable.java, called over and over by a   *)
(* search that keeps every shorter table it gets.  Among the buckets of    *)
(* equal count it places next the one whose first fit is the lowest.  To   *)
(* find it without trying every bucket again it keeps, in offsetMap, an    *)
(* offset below which each unplaced bucket is known to collide.            *)
(*                                                                         *)
(* One action is one iteration of a loop.                                  *)
(***************************************************************************)
EXTENDS HashTable, Sequences

CONSTANT Primes       \* the factors that the search tries

ASSUME PrimesAssumption == Primes \subseteq Nat

VARIABLES
  flat,        \* the rank of every hand: the table the search begins with
  best,        \* the table of the search, the reference of the next call
  pc,          \* where the call is: "idle", "placing" or "raised"
  prime, shift,  \* the arguments of the call
  room,        \* maxRankLength
  buckets,     \* buckets
  ungrouped,   \* the buckets of the entries of orderMap still to come
  offsetMap,   \* the sorted map from offsets to lists of buckets
  list,        \* the buckets still to come of the entry polled last
  min, max,    \* the range of offsets to try for them
  offsets, ranks, rankLength   \* the arrays under construction

arrays == <<offsets, ranks, rankLength>>
locals == <<prime, shift, room, buckets, ungrouped, offsetMap, list, min, max, arrays>>
vars == <<flat, best, pc, locals>>

NoLocals == /\ prime = 0 /\ shift = 0 /\ room = 0 /\ buckets = <<>> /\ ungrouped = {}
            /\ offsetMap = <<>> /\ list = <<>> /\ min = 0 /\ max = 0
            /\ offsets = <<>> /\ ranks = <<>> /\ rankLength = 0
Forget == /\ prime' = 0 /\ shift' = 0 /\ room' = 0 /\ buckets' = <<>> /\ ungrouped' = {}
          /\ offsetMap' = <<>> /\ list' = <<>> /\ min' = 0 /\ max' = 0
          /\ offsets' = <<>> /\ ranks' = <<>> /\ rankLength' = 0

Init ==
  /\ flat \in [Hashes -> 1 .. MaxRank]
  /\ best = FlatTable(flat)
  /\ pc = "idle"
  /\ NoLocals

Count(b) == Cardinality(Filled(buckets[b]))
Length == room + 2^shift - 1              \* ranks.length

Refuse(p, s) ==
  /\ pc = "idle"
  /\ MaxRankLength(Size(best), s) < 0 \/ KeysCollide(p)
  /\ UNCHANGED vars

Start(p, s) ==
  /\ pc = "idle"
  /\ ~(MaxRankLength(Size(best), s) < 0 \/ KeysCollide(p))
  /\ prime' = p /\ shift' = s /\ room' = MaxRankLength(Size(best), s)
  /\ buckets' = FillBuckets(p, s, best)
  /\ ungrouped' = {b \in DOMAIN buckets' : Filled(buckets'[b]) # {}}
  /\ offsetMap' = <<>> /\ list' = <<>> /\ min' = 0 /\ max' = 0
  /\ offsets' = [b \in Indices(2^(KeyBits - s)) |-> 0]
  /\ ranks' = [i \in Indices(room' + 2^s - 1) |-> 0]
  /\ rankLength' = 0
  /\ pc' = "placing"
  /\ UNCHANGED <<flat, best>>

Ascending(S) ==
  [n \in 1 .. Cardinality(S) |-> CHOOSE b \in S : Cardinality({c \in S : c < b}) = n - 1]

\* seeded fault: the entry is not consumed
StartGroupAgain ==
  LET group == {b \in ungrouped : \A c \in ungrouped : Count(c) <= Count(b)} IN
  /\ pc = "placing" /\ list = <<>> /\ DOMAIN offsetMap = {}
  /\ ungrouped # {}
  /\ offsetMap' = [o \in {0} |-> Ascending(group)]
  /\ ungrouped' = ungrouped
  /\ UNCHANGED <<flat, best, pc, prime, shift, room, buckets, list, min, max, arrays>>

(***************************************************************************)
(* The next entry of orderMap: the buckets of the greatest count left, by  *)
(* ascending index, all of them with the lower bound 0.                    *)
(***************************************************************************)
StartGroup ==
  LET group == {b \in ungrouped : \A c \in ungrouped : Count(c) <= Count(b)} IN
  /\ pc = "placing" /\ list = <<>> /\ DOMAIN offsetMap = {}
  /\ ungrouped # {}
  /\ offsetMap' = [o \in {0} |-> Ascending(group)]
  /\ ungrouped' = ungrouped \ group
  /\ UNCHANGED <<flat, best, pc, prime, shift, room, buckets, list, min, max, arrays>>

(***************************************************************************)
(* pollFirstEntry.  The next greater key of the map bounds the search.     *)
(***************************************************************************)
Poll(o) ==
  LET later == DOMAIN offsetMap \ {o} IN
  /\ pc = "placing" /\ list = <<>>
  /\ \A q \in later : o < q
  /\ min' = o
  /\ max' = IF later = {} THEN Length ELSE CHOOSE q \in later : \A r \in later : q <= r
  /\ list' = offsetMap[o]
  /\ offsetMap' = [q \in later |-> offsetMap[q]]
  /\ UNCHANGED <<flat, best, pc, prime, shift, room, buckets, ungrouped, arrays>>

\* seeded fault: put instead of computeIfAbsent: buckets are dropped
DeferReplacing(b, o) ==
  /\ o # min
  /\ offsetMap' = [q \in DOMAIN offsetMap \cup {o} |->
                     IF q # o THEN offsetMap[q]
                     ELSE <<b>>]
  /\ list' = Tail(list)
  /\ UNCHANGED <<flat, best, pc, prime, shift, room, buckets, ungrouped, min, max, arrays>>

\* seeded fault: off by one: a free offset is passed over
DeferOneBeyond(b, o) ==
  /\ o # min
  /\ offsetMap' = [q \in DOMAIN offsetMap \cup {o + 1} |->
                     IF q # o + 1 THEN offsetMap[q]
                     ELSE IF o + 1 \in DOMAIN offsetMap THEN Append(offsetMap[o + 1], b) ELSE <<b>>]
  /\ list' = Tail(list)
  /\ UNCHANGED <<flat, best, pc, prime, shift, room, buckets, ungrouped, min, max, arrays>>

(***************************************************************************)
(* The bucket collides at min: it waits under the offset that was found.   *)
(***************************************************************************)
Defer(b, o) ==
  /\ o # min
  /\ offsetMap' = [q \in DOMAIN offsetMap \cup {o} |->
                     IF q # o THEN offsetMap[q]
                     ELSE IF o \in DOMAIN offsetMap THEN Append(offsetMap[o], b) ELSE <<b>>]
  /\ list' = Tail(list)
  /\ UNCHANGED <<flat, best, pc, prime, shift, room, buckets, ungrouped, min, max, arrays>>

GiveUpOffset(o) ==
  /\ o = min /\ o >= 2^ShortBits
  /\ pc' = "idle" /\ Forget
  /\ UNCHANGED <<flat, best>>

\* writeBucket compares with a rank past the end of ranks, l.152
Raise(b, o) ==
  /\ o = min /\ o < 2^ShortBits
  /\ Overruns(buckets[b], ranks, o)
  /\ pc' = "raised"
  /\ UNCHANGED <<flat, best, locals>>

\* seeded fault: a table as long as the reference passes
PlaceAtLimit(b, o, n) ==
  /\ o = min /\ o < 2^ShortBits /\ ~Overruns(buckets[b], ranks, o)
  /\ n <= room
  /\ max' = min + 1
  /\ offsets' = [offsets EXCEPT ![b] = o]
  /\ ranks' = Written(buckets[b], ranks, o)
  /\ rankLength' = n
  /\ list' = Tail(list)
  /\ UNCHANGED <<flat, best, pc, prime, shift, room, buckets, ungrouped, offsetMap, min>>

(***************************************************************************)
(* The bucket fits at min.  Those after it in the list are tried at min    *)
(* only.                                                                   *)
(***************************************************************************)
Place(b, o, n) ==
  /\ o = min /\ o < 2^ShortBits /\ ~Overruns(buckets[b], ranks, o)
  /\ n < room
  /\ max' = min + 1
  /\ offsets' = [offsets EXCEPT ![b] = o]
  /\ ranks' = Written(buckets[b], ranks, o)
  /\ rankLength' = n
  /\ list' = Tail(list)
  /\ UNCHANGED <<flat, best, pc, prime, shift, room, buckets, ungrouped, offsetMap, min>>

GiveUpLength(b, o, n) ==
  /\ o = min /\ o < 2^ShortBits /\ ~Overruns(buckets[b], ranks, o)
  /\ n >= room
  /\ pc' = "idle" /\ Forget
  /\ UNCHANGED <<flat, best>>

Iterate(b) ==
  /\ pc = "placing" /\ list # <<>> /\ b = Head(list)
  /\ \E o \in min .. max :
       /\ IsOffset(o, buckets[b], ranks, min, max)
       /\ \/ Defer(b, o)
          \/ GiveUpOffset(o)
          \/ Raise(b, o)
          \/ \E n \in {rankLength} \cup Lengths(buckets[b], o) :
               /\ IsLengthAfter(n, buckets[b], rankLength, o)
               /\ Place(b, o, n) \/ GiveUpLength(b, o, n)

\* seeded fault: the ranks are not cut to their length
ReturnUncut ==
  /\ pc = "placing" /\ list = <<>> /\ DOMAIN offsetMap = {} /\ ungrouped = {}
  /\ best' = [primeSpread |-> prime, offsetShift |-> shift,
              offsetLength |-> OffsetLength(shift), offsets |-> offsets,
              rankLength |-> rankLength, ranks |-> ranks]
  /\ pc' = "idle" /\ Forget
  /\ UNCHANGED flat

Return ==
  /\ pc = "placing" /\ list = <<>> /\ DOMAIN offsetMap = {} /\ ungrouped = {}
  /\ best' = [primeSpread |-> prime, offsetShift |-> shift,
              offsetLength |-> OffsetLength(shift), offsets |-> offsets,
              rankLength |-> rankLength, ranks |-> [i \in Indices(rankLength) |-> ranks[i]]]
  /\ pc' = "idle" /\ Forget
  /\ UNCHANGED flat

Step == \/ StartGroup
        \/ \E o \in DOMAIN offsetMap : Poll(o)
        \/ \E b \in DOMAIN buckets : Iterate(b)
        \/ Return

Next == Step \/ \E p \in Primes, s \in Shifts : Refuse(p, s) \/ Start(p, s)

Spec == Init /\ [][Next]_vars

(***************************************************************************)
(* A call is straight-line code of one thread: it goes on until it is      *)
(* over.  Nothing makes the search call again.                             *)
(***************************************************************************)
FairSpec == Spec /\ WF_vars(Step)

-------------------------------------------------------------------------------
Elements(q) == {q[n] : n \in DOMAIN q}
Grouped == Elements(list) \cup UNION {Elements(offsetMap[o]) : o \in DOMAIN offsetMap}
Unplaced == ungrouped \cup Grouped

TypeOK ==
  /\ flat \in [Hashes -> 1 .. MaxRank]
  /\ IsTable(best)
  /\ pc \in {"idle", "placing", "raised"}
  /\ prime \in Nat /\ shift \in Nat /\ room \in Int /\ min \in Nat /\ max \in Nat
  /\ pc # "idle" => /\ room \in Nat /\ shift \in 0 .. KeyBits
                    /\ buckets \in [Indices(2^(KeyBits - shift)) -> [Indices(2^shift) -> Ranks]]
                    /\ Unplaced \subseteq DOMAIN buckets
                    /\ DOMAIN offsetMap \subseteq 0 .. Length
                    /\ offsets \in [DOMAIN buckets -> Nat]
                    /\ ranks \in [Indices(Length) -> Ranks]
                    /\ rankLength \in Nat

(***************************************************************************)
(* However many tables the search has gone through, the one it holds gives *)
(* every hand the rank it had in the flat table, inside both arrays.  A    *)
(* bucket that is deferred and never taken up again would break this.      *)
(***************************************************************************)
BestServes == Serves(best, flat)

(***************************************************************************)
(* The point of the second heuristic: the bucket placed next is one whose  *)
(* first fit is the lowest of its group.  A bucket under an offset of the  *)
(* map collides at every lower one, whatever has been written since.       *)
(***************************************************************************)
DeferralSound ==
  pc = "placing" =>
    /\ \A o \in DOMAIN offsetMap : \A b \in Elements(offsetMap[o]) :
         \A q \in 0 .. o - 1 : Collides(buckets[b], ranks, q)
    /\ \A b \in Elements(list) : \A q \in 0 .. min - 1 : Collides(buckets[b], ranks, q)

(***************************************************************************)
(* A call overruns its array only when the offsets alone are already as    *)
(* long as the reference: the guard lets maxRankLength = 0 pass.           *)
(***************************************************************************)
RaisesOnlyWithoutRoom == pc = "raised" => room = 0

(***************************************************************************)
(* The heuristic implements RowDisplacement, whatever it defers: a bucket  *)
(* is laid once, where it fits, and the arrays are those that the offsets  *)
(* and the flat table define.                                              *)
(***************************************************************************)
Laid == IF pc = "idle" THEN [b \in {} |-> 0]
        ELSE [b \in {b \in DOMAIN buckets \ Unplaced : Filled(buckets[b]) # {}} |-> offsets[b]]
Rows == INSTANCE RowDisplacement WITH calling <- pc # "idle", laid <- Laid
Displaces == Rows!Spec

(***************************************************************************)
(* Every call comes to an end: the deferrals of a group run out.           *)
(***************************************************************************)
CallEnds == pc = "placing" ~> pc # "placing"
=============================================================================
