--------------------------- MODULE TableSearch_proofs ---------------------------
(***************************************************************************)
(* The search of one factor calls the two heuristics in turn: what it      *)
(* returns serves every hand and is strictly shorter than its reference,   *)
(* for every factor, every range of bucket sizes and every ranking.        *)
(***************************************************************************)
EXTENDS TableSearch, TLAPS

\* 64 is Long.SIZE, the words of findOffset, which the table does not depend on
P1 == INSTANCE ShorterHashTable_proofs
  WITH WordBits <- 64, best <- arg, pc <- pc1, prime <- p1, shift <- s1, room <- room1,
       buckets <- buckets1, offsets <- offsets1, ranks <- ranks1, rankLength <- length1
P2 == INSTANCE ShorterHashTable2_proofs
  WITH best <- arg, pc <- pc2, prime <- p2, shift <- s2, room <- room2, buckets <- buckets2,
       offsets <- offsets2, ranks <- ranks2, rankLength <- length2

(***************************************************************************)
(* The assumptions of the two heuristics are those of the search.          *)
(***************************************************************************)
LEMMA Assumed ==
  /\ P1!KeyAssumption /\ P1!WidthAssumption /\ P1!PrimesAssumption /\ P1!WordAssumption
  /\ P2!KeyAssumption /\ P2!WidthAssumption /\ P2!PrimesAssumption
BY KeyAssumption, WidthAssumption, SearchAssumption
DEF P1!KeyAssumption, P1!WidthAssumption, P1!PrimesAssumption, P1!WordAssumption,
    P2!KeyAssumption, P2!WidthAssumption, P2!PrimesAssumption

LEMMA PowerOfKeys == 2^KeyBits \in Nat \ {0}
<1>1. KeyBits \in 0 .. KeyBits
  BY KeyAssumption
<1> QED BY <1>1, P1!PowerLaws, Assumed

(***************************************************************************)
(* The steps of the calls are those that the invariants of the heuristics  *)
(* were proved for.                                                        *)
(***************************************************************************)
LEMMA SameFirstCall ==
  ASSUME NEW p, NEW s
  PROVE  /\ First!Start(p, s) => P1!Start(p, s)
         /\ First!Refuse(p, s) => UNCHANGED P1!vars
BY Zenon DEF First!Start, P1!Start, First!Refuse, P1!Refuse, First!vars, P1!vars,
      First!locals, P1!locals, First!KeysCollide, P1!KeysCollide, First!FillBuckets,
      P1!FillBuckets, First!GetRank, P1!GetRank, First!RankSlot, P1!RankSlot,
      First!OffsetSlot, P1!OffsetSlot, First!BucketOf, P1!BucketOf, First!IndexOf,
      P1!IndexOf, First!Filled, P1!Filled, First!Indices, P1!Indices, First!Size,
      P1!Size, First!Spread, P1!Spread, First!MaxRankLength, P1!MaxRankLength,
      First!OffsetLength, P1!OffsetLength, First!ShiftedOne, P1!ShiftedOne, First!Wrap,
      P1!Wrap

LEMMA SameFirstReturn == First!Return => P1!Return
BY DEF First!Return, P1!Return, First!Forget, P1!Forget, First!OffsetLength,
      P1!OffsetLength, First!ShiftedOne, P1!ShiftedOne, First!Wrap, P1!Wrap,
      First!Indices, P1!Indices

LEMMA SameFirstIterate ==
  ASSUME NEW b, First!Iterate(b)
  PROVE  P1!Iterate(b)
BY Zenon DEF First!Cardinality, P1!Cardinality, First!IsNext, P1!IsNext, First!Count, P1!Count,
    First!Iterate, P1!Iterate,
      First!GiveUpOffset, P1!GiveUpOffset, First!Raise, P1!Raise, First!Place,
      P1!Place, First!GiveUpLength, P1!GiveUpLength, First!IsOffset, P1!IsOffset,
      First!Collides, P1!Collides, First!IsLengthAfter, P1!IsLengthAfter,
      First!Lengths, P1!Lengths, First!Overruns, P1!Overruns, First!Written,
      P1!Written, First!Forget, P1!Forget, First!locals, P1!locals, First!Filled,
      P1!Filled, First!Indices, P1!Indices

LEMMA SameSecondCall ==
  ASSUME NEW p, NEW s
  PROVE  /\ Second!Start(p, s) => P2!Start(p, s)
         /\ Second!Refuse(p, s) => UNCHANGED P2!vars
BY Zenon DEF Second!Start, P2!Start, Second!Refuse, P2!Refuse, Second!vars, P2!vars,
      Second!locals, P2!locals, Second!arrays, P2!arrays, Second!KeysCollide,
      P2!KeysCollide, Second!FillBuckets, P2!FillBuckets, Second!GetRank, P2!GetRank,
      Second!RankSlot, P2!RankSlot, Second!OffsetSlot, P2!OffsetSlot, Second!BucketOf,
      P2!BucketOf, Second!IndexOf, P2!IndexOf, Second!Filled, P2!Filled,
      Second!Indices, P2!Indices, Second!Size, P2!Size, Second!Spread, P2!Spread,
      Second!MaxRankLength, P2!MaxRankLength, Second!OffsetLength, P2!OffsetLength,
      Second!ShiftedOne, P2!ShiftedOne, Second!Wrap, P2!Wrap

LEMMA SameSecondReturn == Second!Return => P2!Return
BY DEF Second!Return, P2!Return, Second!Forget, P2!Forget, Second!OffsetLength,
      P2!OffsetLength, Second!ShiftedOne, P2!ShiftedOne, Second!Wrap, P2!Wrap,
      Second!Indices, P2!Indices

LEMMA SameSecondIterate ==
  ASSUME NEW b, Second!Iterate(b)
  PROVE  P2!Iterate(b)
BY Zenon DEF Second!Defer, P2!Defer, Second!Iterate, P2!Iterate, Second!GiveUpOffset,
      P2!GiveUpOffset, Second!Raise, P2!Raise, Second!Place, P2!Place,
      Second!GiveUpLength, P2!GiveUpLength, Second!IsOffset, P2!IsOffset,
      Second!Collides, P2!Collides, Second!IsLengthAfter, P2!IsLengthAfter,
      Second!Lengths, P2!Lengths, Second!Overruns, P2!Overruns, Second!Written,
      P2!Written, Second!Forget, P2!Forget, Second!locals, P2!locals, Second!arrays,
      P2!arrays, Second!Filled, P2!Filled, Second!Indices, P2!Indices

LEMMA SameStartGroup == Second!StartGroup => P2!StartGroup
BY Zenon DEF Second!Cardinality, P2!Cardinality, Second!StartGroup, P2!StartGroup, Second!Count,
       P2!Count, Second!Ascending, P2!Ascending, Second!arrays, P2!arrays, Second!Filled,
       P2!Filled

LEMMA SamePoll ==
  ASSUME NEW o, Second!Poll(o)
  PROVE  P2!Poll(o)
BY DEF Second!Poll, P2!Poll, Second!Length, P2!Length, Second!arrays, P2!arrays

LEMMA SameTables ==
  ASSUME NEW t, NEW f
  PROVE  /\ (P1!IsTable(t) <=> IsTable(t)) /\ (P2!IsTable(t) <=> IsTable(t))
         /\ (P1!Serves(t, f) <=> Serves(t, f)) /\ (P2!Serves(t, f) <=> Serves(t, f))
         /\ P1!Size(t) = Size(t) /\ P2!Size(t) = Size(t)
         /\ P1!FlatTable(f) = FlatTable(f) /\ P2!FlatTable(f) = FlatTable(f)
<1>1. (P1!IsTable(t) <=> IsTable(t)) /\ (P2!IsTable(t) <=> IsTable(t))
  BY DEF IsTable, P1!IsTable, P2!IsTable, Indices, P1!Indices, P2!Indices, Ranks,
      P1!Ranks,
         P2!Ranks
<1>2. (P1!Serves(t, f) <=> Serves(t, f)) /\ (P2!Serves(t, f) <=> Serves(t, f))
  BY DEF Serves, P1!Serves, P2!Serves, InBounds, P1!InBounds, P2!InBounds, GetRank,
      P1!GetRank,
         P2!GetRank, OffsetSlot, P1!OffsetSlot, P2!OffsetSlot, RankSlot, P1!RankSlot,
         P2!RankSlot, BucketOf, P1!BucketOf, P2!BucketOf, IndexOf, P1!IndexOf, P2!IndexOf,
         Spread, P1!Spread, P2!Spread, Indices, P1!Indices, P2!Indices
<1>3. P1!Size(t) = Size(t) /\ P2!Size(t) = Size(t)
  BY DEF Size, P1!Size, P2!Size
<1>4. P1!FlatTable(f) = FlatTable(f) /\ P2!FlatTable(f) = FlatTable(f)
  BY DEF FlatTable, P1!FlatTable, P2!FlatTable, HighestKey, P1!HighestKey, P2!HighestKey,
         Indices, P1!Indices, P2!Indices
<1> QED BY <1>1, <1>2, <1>3, <1>4

-------------------------------------------------------------------------------
(***************************************************************************)
(* A table that a call may use as its reference, and what a call does to   *)
(* it, seen from the search: nothing, or a strictly shorter one.           *)
(***************************************************************************)
IsGood(t) == IsTable(t) /\ Serves(t, flat) /\ Size(t) \in 0 .. 2^KeyBits + 1
OnlyShorter == arg' = arg \/ (IsGood(arg') /\ Size(arg') < Size(arg))

LEMMA FlatIsGood ==
  ASSUME flat \in [Hashes -> 1 .. MaxRank]
  PROVE  IsGood(FlatTable(flat))
BY P1!FlatServes, Assumed, SameTables DEF IsGood

LEMMA FirstRuns ==
  ASSUME P1!IInv, First!Return \/ \E b \in todo : First!Iterate(b)
  PROVE  P1!IInv' /\ flat' = flat /\ IsGood(arg) /\ OnlyShorter
<1>1. P1!Return \/ \E b \in todo : P1!Iterate(b)
  BY SameFirstReturn, SameFirstIterate
<1>2. P1!IInv'
  BY <1>1, P1!NextIInv, Assumed DEF P1!Next
<1>3. IsGood(arg)
  BY SameTables DEF P1!IInv, P1!TypeOK, P1!BestServes, P1!BestSize, IsGood
<1>4. flat' = flat
  BY <1>1 DEF P1!Return, P1!Iterate, P1!GiveUpOffset, P1!Raise, P1!Place, P1!GiveUpLength
<1>5. OnlyShorter
  <2>1. CASE P1!Return
    <3>1. IsGood(arg')
      BY <1>2, <1>4, SameTables
      DEF P1!IInv, P1!TypeOK, P1!BestServes, P1!BestSize, IsGood
    <3>2. Size(arg') < Size(arg)
      BY <2>1, P1!ReturnServes, Assumed, SameTables
    <3> QED BY <3>1, <3>2 DEF OnlyShorter
  <2>2. ASSUME NEW b \in todo, P1!Iterate(b)
        PROVE  arg' = arg
    BY <2>2 DEF P1!Iterate, P1!GiveUpOffset, P1!Raise, P1!Place, P1!GiveUpLength
  <2> QED BY <1>1, <2>1, <2>2 DEF OnlyShorter
<1> QED BY <1>2, <1>3, <1>4, <1>5

LEMMA SecondRuns ==
  ASSUME P2!IInv, Second!Step
  PROVE  P2!IInv' /\ flat' = flat /\ IsGood(arg) /\ OnlyShorter
<1>1. P2!Step
  BY SameSecondReturn, SameSecondIterate, SameStartGroup, SamePoll
  DEF Second!Step, P2!Step
<1>2. P2!IInv'
  BY <1>1, P2!NextIInv, Assumed DEF P2!Next
<1>3. IsGood(arg)
  BY SameTables DEF P2!IInv, P2!TypeOK, P2!BestServes, P2!BestSize, IsGood
<1>4. flat' = flat
  BY <1>1 DEF P2!Step, P2!Return, P2!Iterate, P2!GiveUpOffset, P2!Raise, P2!Place,
    P2!GiveUpLength, P2!Defer, P2!StartGroup, P2!Poll
<1>5. OnlyShorter
  <2>1. CASE P2!Return
    <3>1. IsGood(arg')
      BY <1>2, <1>4, SameTables
      DEF P2!IInv, P2!TypeOK, P2!BestServes, P2!BestSize, IsGood
    <3>2. Size(arg') < Size(arg)
      BY <2>1, P2!ReturnServes, Assumed, SameTables
    <3> QED BY <3>1, <3>2 DEF OnlyShorter
  <2>2. CASE ~P2!Return
    BY <1>1, <2>2 DEF P2!Step, P2!Iterate, P2!GiveUpOffset, P2!Raise, P2!Place,
      P2!GiveUpLength, P2!Defer, P2!StartGroup, P2!Poll, OnlyShorter
  <2> QED BY <2>1, <2>2
<1> QED BY <1>2, <1>3, <1>4, <1>5

(***************************************************************************)
(* While one heuristic runs, the other one is idle, and cares only for the *)
(* reference.                                                              *)
(***************************************************************************)
LEMMA FirstIdle ==
  ASSUME P1!IInv, pc1 = "idle", UNCHANGED <<flat, locals1>>, IsGood(arg)'
  PROVE  P1!IInv'
BY SameTables
DEF IsGood, locals1, P1!IInv, P1!TypeOK, P1!BestServes, P1!BestSize, P1!CallSound,
    P1!ReadBack,
    P1!EmptyAbove, P1!RaisesOnlyWithoutRoom

LEMMA SecondIdle ==
  ASSUME P2!IInv, pc2 = "idle", UNCHANGED <<flat, locals2>>, IsGood(arg)'
  PROVE  P2!IInv'
BY SameTables
DEF IsGood, locals2, P2!IInv, P2!TypeOK, P2!BestServes, P2!BestSize, P2!Queues, P2!Bounds,
    P2!DeferralSound, P2!CallSound, P2!ReadBack, P2!PlacedOnly, P2!EmptyAbove,
    P2!RaisesOnlyWithoutRoom

-------------------------------------------------------------------------------
(***************************************************************************)
(* The invariant of the search.  newTable is what the last call returned,  *)
(* and arg is never longer than best: a call makes it strictly shorter.    *)
(***************************************************************************)
OneRuns == (at # "first" => pc1 = "idle") /\ (at # "second" => pc2 = "idle")
InRange == /\ prime \in Primes /\ i \in Nat /\ i >= StartShift
           /\ at \in {"first", "second"} => i < StopShift
BestGood == IsGood(best) /\ IsGood(reference) /\ (best = reference \/ Size(best) < Size(reference))
NewTableShorter == newTable # NoTable => IsGood(newTable) /\ Size(newTable) < Size(best)
ArgNotLonger == IsGood(arg) /\ Size(arg) <= Size(best)

SearchInv == /\ P1!IInv /\ P2!IInv
             /\ OneRuns /\ InRange /\ BestGood /\ NewTableShorter /\ ArgNotLonger

LEMMA SearchInit == Init => SearchInv
<1> SUFFICES ASSUME Init PROVE SearchInv
  OBVIOUS
<1>1. IsGood(reference) /\ arg = reference /\ best = reference /\ newTable = NoTable
  BY FlatIsGood DEF Init
<1>2. P1!IInv
  <2>1. P1!Init BY SameTables DEF Init, P1!Init, First!NoLocals, P1!NoLocals
  <2> QED BY <2>1, P1!InitIInv, Assumed
<1>3. P2!IInv
  <2>1. P2!Init BY SameTables DEF Init, P2!Init, Second!NoLocals, P2!NoLocals
  <2> QED BY <2>1, P2!InitIInv, Assumed
<1>4. Size(reference) <= Size(reference)
  BY <1>1, PowerOfKeys, KeyAssumption DEF IsGood
<1>5. InRange
  BY SearchAssumption DEF Init, InRange
<1> QED BY <1>1, <1>2, <1>3, <1>4, <1>5
     DEF Init, SearchInv, OneRuns, BestGood, NewTableShorter, ArgNotLonger

(***************************************************************************)
(* What a step of a call leaves alone stays good.                          *)
(***************************************************************************)
LEMMA CallStep ==
  ASSUME SearchInv, UNCHANGED search, OnlyShorter, IsGood(arg),
         newTable' \in {newTable, NoTable} \/ (newTable' = arg' /\ arg' # arg)
  PROVE  (BestGood /\ NewTableShorter /\ ArgNotLonger)'
<1>1. flat' = flat /\ best' = best /\ reference' = reference
  BY DEF search
<1>3. BestGood'
  BY <1>1 DEF SearchInv, BestGood, IsGood, Serves, InBounds, GetRank, Size
<1>4. Size(arg) \in Int /\ Size(best) \in Int /\ (arg' = arg \/ Size(arg') \in Int)
  BY KeyAssumption, PowerOfKeys DEF SearchInv, BestGood, IsGood, OnlyShorter
<1>5. ArgNotLonger'
  BY <1>1, <1>4 DEF SearchInv, ArgNotLonger, OnlyShorter, IsGood, Serves, InBounds,
      GetRank, Size
<1>6. NewTableShorter'
  <2>1. CASE newTable' \in {newTable, NoTable}
    BY <1>1, <2>1 DEF SearchInv, NewTableShorter, IsGood, Serves, InBounds, GetRank, Size
  <2>2. CASE newTable' = arg' /\ arg' # arg
    BY <1>1, <1>4, <2>2
    DEF SearchInv, ArgNotLonger, NewTableShorter, OnlyShorter, IsGood, Serves, InBounds,
        GetRank, Size
  <2> QED BY <2>1, <2>2
<1> QED BY <1>3, <1>5, <1>6

LEMMA CallFirstInv ==
  ASSUME SearchInv, CallFirst
  PROVE  SearchInv'
<1>1. at = "first" /\ pc1 = "idle" /\ pc2 = "idle" /\ UNCHANGED <<search, arg, locals2>>
  BY DEF CallFirst, SearchInv, OneRuns
<1>2. i \in Shifts /\ prime \in Primes
  BY <1>1, SearchAssumption DEF SearchInv, InRange
<1>3. P1!IInv' /\ flat' = flat
  <2>1. CASE First!Start(prime, i)
    BY <1>1, <1>2, <2>1, SameFirstCall, P1!NextIInv, Assumed
    DEF P1!Next, SearchInv, search
  <2>2. CASE First!Refuse(prime, i)
    BY <1>1, <2>2, SameFirstCall, P1!NextIInv, Assumed DEF SearchInv, search
  <2> QED BY <2>1, <2>2 DEF CallFirst
<1>4. P2!IInv'
  BY <1>1, <1>3, SecondIdle DEF SearchInv, ArgNotLonger, IsGood, Serves, InBounds,
      GetRank, Size
<1>5. (BestGood /\ NewTableShorter /\ ArgNotLonger)'
  BY <1>1, CallStep DEF CallFirst, OnlyShorter, SearchInv, ArgNotLonger
<1>6. OneRuns' /\ InRange'
  BY <1>1 DEF CallFirst, First!Start, First!Refuse, First!vars, SearchInv, OneRuns,
      InRange, search, locals2
<1> QED BY <1>3, <1>4, <1>5, <1>6 DEF SearchInv

LEMMA RunFirstInv ==
  ASSUME SearchInv, RunFirst
  PROVE  SearchInv'
<1>1. at = "first" /\ pc2 = "idle" /\ UNCHANGED <<search, locals2>>
  BY DEF RunFirst, SearchInv, OneRuns
<1>2. P1!IInv' /\ flat' = flat /\ IsGood(arg) /\ OnlyShorter
  BY FirstRuns DEF RunFirst, SearchInv
<1>3. (BestGood /\ NewTableShorter /\ ArgNotLonger)'
  BY <1>1, <1>2, CallStep DEF RunFirst
<1>4. P2!IInv'
  BY <1>1, <1>2, <1>3, SecondIdle DEF SearchInv, ArgNotLonger
<1>5. OneRuns' /\ InRange'
  BY <1>1 DEF RunFirst, SearchInv, OneRuns, InRange, search, locals2
<1> QED BY <1>2, <1>3, <1>4, <1>5 DEF SearchInv

LEMMA CallSecondInv ==
  ASSUME SearchInv, CallSecond
  PROVE  SearchInv'
<1>1. at = "second" /\ pc1 = "idle" /\ pc2 = "idle" /\ UNCHANGED <<search, arg, locals1>>
  BY DEF CallSecond, SearchInv, OneRuns
<1>2. i \in Shifts /\ prime \in Primes
  BY <1>1, SearchAssumption DEF SearchInv, InRange
<1>3. P2!IInv' /\ flat' = flat
  <2>1. CASE Second!Start(prime, i)
    BY <1>1, <1>2, <2>1, SameSecondCall, P2!NextIInv, Assumed
    DEF P2!Next, SearchInv, search
  <2>2. CASE Second!Refuse(prime, i)
    BY <1>1, <2>2, SameSecondCall, P2!NextIInv, Assumed DEF SearchInv, search
  <2> QED BY <2>1, <2>2 DEF CallSecond
<1>4. P1!IInv'
  BY <1>1, <1>3, FirstIdle DEF SearchInv, ArgNotLonger, IsGood, Serves, InBounds,
      GetRank, Size
<1>5. (BestGood /\ NewTableShorter /\ ArgNotLonger)'
  BY <1>1, CallStep DEF CallSecond, OnlyShorter, SearchInv, ArgNotLonger
<1>6. OneRuns' /\ InRange'
  BY <1>1 DEF CallSecond, Second!Start, Second!Refuse, Second!vars, Second!locals,
      SearchInv, OneRuns,
     InRange, search, locals1
<1> QED BY <1>3, <1>4, <1>5, <1>6 DEF SearchInv

LEMMA RunSecondInv ==
  ASSUME SearchInv, RunSecond
  PROVE  SearchInv'
<1>1. at = "second" /\ pc1 = "idle" /\ UNCHANGED <<search, locals1>>
  BY DEF RunSecond, SearchInv, OneRuns
<1>2. P2!IInv' /\ flat' = flat /\ IsGood(arg) /\ OnlyShorter
  BY SecondRuns DEF RunSecond, SearchInv
<1>3. (BestGood /\ NewTableShorter /\ ArgNotLonger)'
  BY <1>1, <1>2, CallStep DEF RunSecond
<1>4. P1!IInv'
  BY <1>1, <1>2, <1>3, FirstIdle DEF SearchInv, ArgNotLonger
<1>5. OneRuns' /\ InRange'
  BY <1>1 DEF RunSecond, SearchInv, OneRuns, InRange, search, locals1
<1> QED BY <1>2, <1>3, <1>4, <1>5 DEF SearchInv

LEMMA KeepInv ==
  ASSUME SearchInv, Keep
  PROVE  SearchInv'
<1>1. /\ at = "keep" /\ pc1 = "idle" /\ pc2 = "idle"
      /\ best' = (IF newTable # NoTable THEN newTable ELSE best) /\ arg' = best'
      /\ newTable' = NoTable /\ i' = i + 1
      /\ at' = IF i' < StopShift THEN "first" ELSE "done"
      /\ UNCHANGED <<flat, prime, reference, locals1, locals2>>
  BY DEF Keep, SearchInv, OneRuns
<1>2. \A t : IsGood(t) => Size(t) \in Int
  BY KeyAssumption, PowerOfKeys DEF IsGood
<1>3. IsGood(best') /\ IsGood(reference)
      /\ (best' = reference \/ Size(best') < Size(reference))
  BY <1>1, <1>2 DEF SearchInv, BestGood, NewTableShorter
<1>4. /\ IsGood(best)' /\ IsGood(reference)' /\ IsGood(arg)'
  BY <1>1, <1>3 DEF IsGood, Serves, InBounds, GetRank, Size
<1>5. (BestGood /\ NewTableShorter /\ ArgNotLonger)'
  BY <1>1, <1>2, <1>3, <1>4 DEF BestGood, NewTableShorter, ArgNotLonger, Size
<1>6. P1!IInv' /\ P2!IInv'
  BY <1>1, <1>4, FirstIdle, SecondIdle DEF SearchInv
<1>7. OneRuns' /\ InRange'
  BY <1>1, SearchAssumption DEF SearchInv, OneRuns, InRange, locals1, locals2
<1> QED BY <1>5, <1>6, <1>7 DEF SearchInv

LEMMA SearchNext == SearchInv /\ [Next]_vars => SearchInv'
<1> SUFFICES ASSUME SearchInv, [Next]_vars PROVE SearchInv'
  OBVIOUS
<1>1. CASE UNCHANGED vars
  <2>1. UNCHANGED <<search, newTable, at, arg, locals1, locals2>> /\ flat' = flat
    BY <1>1 DEF vars, search
  <2>2. P1!IInv' /\ P2!IInv'
    BY <2>1, P1!NextIInv, P2!NextIInv, Assumed
    DEF P1!vars, P2!vars, P2!locals, P2!arrays, locals1, locals2, SearchInv
  <2>3. (BestGood /\ NewTableShorter /\ ArgNotLonger)'
    BY <2>1, CallStep DEF OnlyShorter, SearchInv, ArgNotLonger
  <2>4. OneRuns' /\ InRange'
    BY <2>1 DEF SearchInv, OneRuns, InRange, search, locals1, locals2
  <2> QED BY <2>2, <2>3, <2>4 DEF SearchInv
<1> QED BY <1>1, CallFirstInv, RunFirstInv, CallSecondInv, RunSecondInv, KeepInv DEF Next

LEMMA Invariance == Spec => []SearchInv
BY SearchInit, SearchNext, PTL DEF Spec

(***************************************************************************)
(* Whatever the two heuristics build, give up or drop on the way, what the *)
(* search of a factor returns serves every hand, and is strictly shorter   *)
(* than the reference unless it is the reference itself.                   *)
(***************************************************************************)
THEOREM SearchReturnsShorter == Spec => []ReturnsShorter
<1>1. SearchInv => ReturnsShorter
  BY DEF SearchInv, BestGood, IsGood, ReturnsShorter
<1> QED BY <1>1, Invariance, PTL
=============================================================================
