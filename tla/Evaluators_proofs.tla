--------------------------- MODULE Evaluators_proofs ---------------------------
(***************************************************************************)
(* Proofs about the generator and the static fields made from its arrays,  *)
(* for any number of faces and any keys that KeysAssumption and            *)
(* WidthAssumption allow: hands of five are numbered as the rules rank     *)
(* them, each once and in a place of its own; six and seven cards of a     *)
(* suit, and seven cards of several, have the rank of their best five; the *)
(* suit of a flush is found; and the widths that the static blocks work    *)
(* out are those of the keys.                                              *)
(***************************************************************************)
EXTENDS Evaluators, FiniteSetTheorems, FunctionTheorems, WellFoundedInduction, TLAPS

(***************************************************************************)
(* The ranking of five cards.                                              *)
(***************************************************************************)
LEMMA FacesAre ==
  /\ FACES \in Nat /\ FACES > 5
  /\ Tables!Five!Ace = FACES - 1 /\ Tables!Five!Faces = 0 .. FACES - 1
BY GameAssumption DEF Tables!Five!Ace, Tables!Five!Faces

(***************************************************************************)
(* The instances count as the library does.                                *)
(***************************************************************************)
LEMMA SameCardinality ==
  /\ \A S : Tables!Cardinality(S) = Cardinality(S)
  /\ \A S : Tables!Five!Cardinality(S) = Cardinality(S)
BY Zenon DEF Tables!Cardinality, Tables!Five!Cardinality, Cardinality

One(h, i, f) == IF h[i] = f THEN 1 ELSE 0

(***************************************************************************)
(* How often a face comes is a sum over the five cards.                    *)
(***************************************************************************)
LEMMA CopiesCounted ==
  ASSUME NEW h, NEW f
  PROVE  Tables!Five!Copies(h, f)
           = One(h, 1, f) + One(h, 2, f) + One(h, 3, f) + One(h, 4, f) + One(h, 5, f)
<1> DEFINE C(n) == {i \in 1 .. n : h[i] = f}
<1>1. C(0) = {} /\ IsFiniteSet(C(0)) /\ Cardinality(C(0)) = 0
  BY FS_EmptySet
<1>2. ASSUME NEW n \in 0 .. 4, IsFiniteSet(C(n)), Cardinality(C(n)) \in Nat
      PROVE  /\ IsFiniteSet(C(n + 1))
             /\ Cardinality(C(n + 1)) \in Nat
             /\ Cardinality(C(n + 1)) = Cardinality(C(n)) + One(h, n + 1, f)
  <2>1. CASE h[n + 1] = f
    <3>1. C(n + 1) = C(n) \cup {n + 1} /\ n + 1 \notin C(n)
      BY <2>1
    <3> HIDE DEF C
    <3>2. One(h, n + 1, f) = 1
      BY <2>1 DEF One
    <3> QED BY <1>2, <3>1, <3>2, FS_AddElement
  <2>2. CASE h[n + 1] # f
    <3>1. C(n + 1) = C(n)
      BY <2>2
    <3> QED BY <1>2, <2>2, <3>1 DEF One
  <2> QED BY <2>1, <2>2
<1>3. /\ IsFiniteSet(C(1)) /\ Cardinality(C(1)) \in Nat
      /\ Cardinality(C(1)) = One(h, 1, f)
  <2> HIDE DEF C
  <2>1. 0 \in 0 .. 4 /\ 0 + 1 = 1 OBVIOUS
  <2> QED BY <1>1, <1>2, <2>1 DEF One
<1>4. /\ IsFiniteSet(C(2)) /\ Cardinality(C(2)) \in Nat
      /\ Cardinality(C(2)) = Cardinality(C(1)) + One(h, 2, f)
  <2> HIDE DEF C
  <2>1. 1 \in 0 .. 4 /\ 1 + 1 = 2 OBVIOUS
  <2> QED BY <1>3, <1>2, <2>1
<1>5. /\ IsFiniteSet(C(3)) /\ Cardinality(C(3)) \in Nat
      /\ Cardinality(C(3)) = Cardinality(C(2)) + One(h, 3, f)
  <2> HIDE DEF C
  <2>1. 2 \in 0 .. 4 /\ 2 + 1 = 3 OBVIOUS
  <2> QED BY <1>4, <1>2, <2>1
<1>6. /\ IsFiniteSet(C(4)) /\ Cardinality(C(4)) \in Nat
      /\ Cardinality(C(4)) = Cardinality(C(3)) + One(h, 4, f)
  <2> HIDE DEF C
  <2>1. 3 \in 0 .. 4 /\ 3 + 1 = 4 OBVIOUS
  <2> QED BY <1>5, <1>2, <2>1
<1>7. /\ IsFiniteSet(C(5)) /\ Cardinality(C(5)) \in Nat
      /\ Cardinality(C(5)) = Cardinality(C(4)) + One(h, 5, f)
  <2> HIDE DEF C
  <2>1. 4 \in 0 .. 4 /\ 4 + 1 = 5 OBVIOUS
  <2> QED BY <1>6, <1>2, <2>1
<1>8. Tables!Five!Copies(h, f) = Cardinality({i \in 1 .. 5 : h[i] = f})
  BY SameCardinality DEF Tables!Five!Copies
<1>9. {i \in 1 .. 5 : h[i] = f} = C(5)
  OBVIOUS
<1> HIDE DEF C
<1> QED BY <1>3, <1>4, <1>5, <1>6, <1>7, <1>8, <1>9 DEF One

(***************************************************************************)
(* The faces that come n times, for the hands of each section.             *)
(***************************************************************************)
LEMMA TimesOf ==
  ASSUME NEW h \in [1 .. 5 -> 0 .. FACES - 1], NEW n \in Nat
  PROVE  Tables!Five!Times(h, n) =
           {f \in 0 .. FACES - 1 :
              One(h, 1, f) + One(h, 2, f) + One(h, 3, f) + One(h, 4, f) + One(h, 5, f) = n}
BY FacesAre, CopiesCounted DEF Tables!Five!Times

LEMMA FacesOfHand ==
  ASSUME NEW h
  PROVE  Tables!Five!FacesOf(h) = {h[1], h[2], h[3], h[4], h[5]}
BY DEF Tables!Five!FacesOf

LEMMA UnpairedAre ==
  ASSUME NEW h \in Tables!Five!Unpaired
  PROVE  /\ h \in [1 .. 5 -> 0 .. FACES - 1]
         /\ h[1] > h[2] /\ h[2] > h[3] /\ h[3] > h[4] /\ h[4] > h[5]
         /\ Tables!Five!Times(h, 1) = {h[1], h[2], h[3], h[4], h[5]}
         /\ Tables!Five!Times(h, 2) = {} /\ Tables!Five!Times(h, 3) = {}
         /\ Tables!Five!Times(h, 4) = {}
         /\ Tables!Five!FacesOf(h) \notin Tables!Five!Runs
<1>1. /\ h \in [1 .. 5 -> 0 .. FACES - 1] /\ ~Tables!Five!IsStraight(h)
      /\ h[1] > h[2] /\ h[2] > h[3] /\ h[3] > h[4] /\ h[4] > h[5]
  BY FacesAre DEF Tables!Five!Unpaired, Tables!Five!Descending
<1>2. /\ Tables!Five!Times(h, 1) = {h[1], h[2], h[3], h[4], h[5]}
      /\ Tables!Five!Times(h, 2) = {} /\ Tables!Five!Times(h, 3) = {}
      /\ Tables!Five!Times(h, 4) = {}
  BY <1>1, TimesOf DEF One
<1>3. ASSUME Tables!Five!FacesOf(h) \in Tables!Five!Runs PROVE FALSE
  <2>1. PICK R \in Tables!Five!Runs : R = {h[1], h[2], h[3], h[4], h[5]}
    BY <1>3, FacesOfHand
  <2>2. CASE R = Tables!Five!Wheel
    <3>1. {0, 1, 2, 3, FACES - 1} = {h[1], h[2], h[3], h[4], h[5]}
      BY FacesAre, <2>1, <2>2 DEF Tables!Five!Wheel
    <3>2. \A v \in {0, 1, 2, 3, FACES - 1} : v = h[1] \/ v = h[2] \/ v = h[3] \/ v = h[4] \/ v = h[5]
      BY <3>1
    <3>3. \A i \in 1 .. 5 : h[i] \in {0, 1, 2, 3, FACES - 1}
      BY <3>1
    <3>4. h[1] = FACES - 1
      BY FacesAre, <1>1, <3>2, <3>3
    <3>5. h[2] = 3
      BY FacesAre, <1>1, <3>2, <3>3
    <3> QED BY FacesAre, <1>1, <3>4, <3>5 DEF Tables!Five!IsStraight, Tables!Five!Ace
  <2>3. ASSUME NEW low \in 0 .. FACES - 5, R = low .. low + 4 PROVE FALSE
    BY FacesAre, <1>1, <2>1, <2>3 DEF Tables!Five!IsStraight
  <2> QED BY <2>1, <2>2, <2>3 DEF Tables!Five!Runs
<1> QED BY <1>1, <1>2, <1>3

(***************************************************************************)
(* Five faces of which two are the same are no run.                        *)
(***************************************************************************)
LEMMA PairedIsNoRun ==
  ASSUME NEW h \in [1 .. 5 -> 0 .. FACES - 1], h[1] = h[2]
  PROVE  Tables!Five!FacesOf(h) \notin Tables!Five!Runs
<1> DEFINE IsCard(v) == v = h[2] \/ v = h[3] \/ v = h[4] \/ v = h[5]
<1>1. SUFFICES ASSUME NEW R \in Tables!Five!Runs, R = {h[2], h[3], h[4], h[5]} PROVE FALSE
  BY FacesOfHand
<1>2. CASE R = Tables!Five!Wheel
  <2>1. R = {0, 1, 2, 3, FACES - 1}
    BY FacesAre, <1>2 DEF Tables!Five!Wheel
  <2>2. IsCard(0) /\ IsCard(1) /\ IsCard(2) /\ IsCard(3) /\ IsCard(FACES - 1)
    BY <1>1, <2>1
  <2> QED BY <2>2, FacesAre
<1>3. ASSUME NEW low \in 0 .. FACES - 5, R = low .. low + 4 PROVE FALSE
  <2>1. low \in R /\ low + 1 \in R /\ low + 2 \in R /\ low + 3 \in R /\ low + 4 \in R
    BY FacesAre, <1>3
  <2>2. IsCard(low) /\ IsCard(low + 1) /\ IsCard(low + 2) /\ IsCard(low + 3) /\ IsCard(low + 4)
    BY <1>1, <2>1
  <2>3. low \in Int /\ h[2] \in Int /\ h[3] \in Int /\ h[4] \in Int /\ h[5] \in Int
    BY FacesAre
  <2>4. \A a, b, c, d \in Int :
          ~(/\ low \in {a, b, c, d} /\ low + 1 \in {a, b, c, d} /\ low + 2 \in {a, b, c, d}
            /\ low + 3 \in {a, b, c, d} /\ low + 4 \in {a, b, c, d})
    BY <2>3
  <2> QED BY <2>2, <2>3, <2>4
<1> QED BY <1>2, <1>3 DEF Tables!Five!Runs

LEMMA PairsAre ==
  ASSUME NEW h \in Tables!Five!Pairs
  PROVE  /\ h \in [1 .. 5 -> 0 .. FACES - 1]
         /\ h[1] = h[2] /\ h[3] > h[4] /\ h[4] > h[5]
         /\ h[3] # h[1] /\ h[4] # h[1] /\ h[5] # h[1]
         /\ Tables!Five!Times(h, 1) = {h[3], h[4], h[5]} /\ Tables!Five!Times(h, 2) = {h[1]}
         /\ Tables!Five!Times(h, 3) = {} /\ Tables!Five!Times(h, 4) = {}
         /\ Tables!Five!FacesOf(h) \notin Tables!Five!Runs
<1>1. /\ h \in [1 .. 5 -> 0 .. FACES - 1] /\ h[1] = h[2] /\ h[3] > h[4] /\ h[4] > h[5]
      /\ h[3] # h[1] /\ h[4] # h[1] /\ h[5] # h[1]
  BY FacesAre DEF Tables!Five!Pairs
<1>2. /\ Tables!Five!Times(h, 1) = {h[3], h[4], h[5]} /\ Tables!Five!Times(h, 2) = {h[1]}
      /\ Tables!Five!Times(h, 3) = {} /\ Tables!Five!Times(h, 4) = {}
  BY <1>1, TimesOf DEF One
<1> QED BY <1>1, <1>2, PairedIsNoRun

LEMMA TwoPairsAre ==
  ASSUME NEW h \in Tables!Five!TwoPairs
  PROVE  /\ h \in [1 .. 5 -> 0 .. FACES - 1]
         /\ h[1] = h[2] /\ h[3] = h[4] /\ h[3] < h[1] /\ h[5] # h[1] /\ h[5] # h[3]
         /\ Tables!Five!Times(h, 1) = {h[5]} /\ Tables!Five!Times(h, 2) = {h[1], h[3]}
         /\ Tables!Five!Times(h, 3) = {} /\ Tables!Five!Times(h, 4) = {}
         /\ Tables!Five!FacesOf(h) \notin Tables!Five!Runs
<1>1. /\ h \in [1 .. 5 -> 0 .. FACES - 1]
      /\ h[1] = h[2] /\ h[3] = h[4] /\ h[3] < h[1] /\ h[5] # h[1] /\ h[5] # h[3]
  BY FacesAre DEF Tables!Five!TwoPairs
<1>2. /\ Tables!Five!Times(h, 1) = {h[5]} /\ Tables!Five!Times(h, 2) = {h[1], h[3]}
      /\ Tables!Five!Times(h, 3) = {} /\ Tables!Five!Times(h, 4) = {}
  BY <1>1, TimesOf DEF One
<1> QED BY <1>1, <1>2, PairedIsNoRun

LEMMA TripsAre ==
  ASSUME NEW h \in Tables!Five!Trips
  PROVE  /\ h \in [1 .. 5 -> 0 .. FACES - 1]
         /\ h[1] = h[2] /\ h[2] = h[3] /\ h[5] < h[4] /\ h[4] # h[1] /\ h[5] # h[1]
         /\ Tables!Five!Times(h, 1) = {h[4], h[5]} /\ Tables!Five!Times(h, 2) = {}
         /\ Tables!Five!Times(h, 3) = {h[1]} /\ Tables!Five!Times(h, 4) = {}
         /\ Tables!Five!FacesOf(h) \notin Tables!Five!Runs
<1>1. /\ h \in [1 .. 5 -> 0 .. FACES - 1]
      /\ h[1] = h[2] /\ h[2] = h[3] /\ h[5] < h[4] /\ h[4] # h[1] /\ h[5] # h[1]
  BY FacesAre DEF Tables!Five!Trips
<1>2. /\ Tables!Five!Times(h, 1) = {h[4], h[5]} /\ Tables!Five!Times(h, 2) = {}
      /\ Tables!Five!Times(h, 3) = {h[1]} /\ Tables!Five!Times(h, 4) = {}
  BY <1>1, TimesOf DEF One
<1> QED BY <1>1, <1>2, PairedIsNoRun

LEMMA FullHousesAre ==
  ASSUME NEW h \in Tables!Five!FullHouses
  PROVE  /\ h \in [1 .. 5 -> 0 .. FACES - 1]
         /\ h[1] = h[2] /\ h[2] = h[3] /\ h[4] = h[5] /\ h[1] # h[5]
         /\ Tables!Five!Times(h, 1) = {} /\ Tables!Five!Times(h, 2) = {h[4]}
         /\ Tables!Five!Times(h, 3) = {h[1]} /\ Tables!Five!Times(h, 4) = {}
         /\ Tables!Five!FacesOf(h) \notin Tables!Five!Runs
<1>1. /\ h \in [1 .. 5 -> 0 .. FACES - 1]
      /\ h[1] = h[2] /\ h[2] = h[3] /\ h[4] = h[5] /\ h[1] # h[5]
  BY FacesAre DEF Tables!Five!FullHouses
<1>2. /\ Tables!Five!Times(h, 1) = {} /\ Tables!Five!Times(h, 2) = {h[4]}
      /\ Tables!Five!Times(h, 3) = {h[1]} /\ Tables!Five!Times(h, 4) = {}
  BY <1>1, TimesOf DEF One
<1> QED BY <1>1, <1>2, PairedIsNoRun

LEMMA QuadsAre ==
  ASSUME NEW h \in Tables!Five!Quads
  PROVE  /\ h \in [1 .. 5 -> 0 .. FACES - 1]
         /\ h[1] = h[2] /\ h[2] = h[3] /\ h[3] = h[4] /\ h[1] # h[5]
         /\ Tables!Five!Times(h, 1) = {h[5]} /\ Tables!Five!Times(h, 2) = {}
         /\ Tables!Five!Times(h, 3) = {} /\ Tables!Five!Times(h, 4) = {h[1]}
         /\ Tables!Five!FacesOf(h) \notin Tables!Five!Runs
<1>1. /\ h \in [1 .. 5 -> 0 .. FACES - 1]
      /\ h[1] = h[2] /\ h[2] = h[3] /\ h[3] = h[4] /\ h[1] # h[5]
  BY FacesAre DEF Tables!Five!Quads
<1>2. /\ Tables!Five!Times(h, 1) = {h[5]} /\ Tables!Five!Times(h, 2) = {}
      /\ Tables!Five!Times(h, 3) = {} /\ Tables!Five!Times(h, 4) = {h[1]}
  BY <1>1, TimesOf DEF One
<1> QED BY <1>1, <1>2, PairedIsNoRun

LEMMA LowStraightIs ==
  ASSUME NEW h \in Tables!Five!LowStraight
  PROVE  /\ h \in [1 .. 5 -> 0 .. FACES - 1]
         /\ h[1] = 0 /\ h[2] = 1 /\ h[3] = 2 /\ h[4] = 3 /\ h[5] = FACES - 1
         /\ Tables!Five!FacesOf(h) = Tables!Five!Wheel
         /\ Tables!Five!FacesOf(h) \in Tables!Five!Runs
<1>1. /\ h \in [1 .. 5 -> 0 .. FACES - 1]
      /\ h[1] = 0 /\ h[2] = 1 /\ h[3] = 2 /\ h[4] = 3 /\ h[5] = FACES - 1
  BY FacesAre DEF Tables!Five!LowStraight
<1>2. Tables!Five!FacesOf(h) = Tables!Five!Wheel
  BY <1>1, FacesAre, FacesOfHand DEF Tables!Five!Wheel
<1> QED BY <1>1, <1>2 DEF Tables!Five!Runs

LEMMA StraightsAre ==
  ASSUME NEW h \in Tables!Five!Straights
  PROVE  /\ h \in [1 .. 5 -> 0 .. FACES - 1]
         /\ h[2] = h[1] + 1 /\ h[3] = h[1] + 2 /\ h[4] = h[1] + 3 /\ h[5] = h[1] + 4
         /\ h[1] \in 0 .. FACES - 5
         /\ Tables!Five!FacesOf(h) = h[1] .. h[5]
         /\ Tables!Five!FacesOf(h) # Tables!Five!Wheel
         /\ Tables!Five!FacesOf(h) \in Tables!Five!Runs
<1>1. PICK low \in 0 .. FACES - 5 : h = [i \in 1 .. 5 |-> low + i - 1]
  BY DEF Tables!Five!Straights
<1>2. /\ h \in [1 .. 5 -> 0 .. FACES - 1] /\ h[1] = low
      /\ h[2] = low + 1 /\ h[3] = low + 2 /\ h[4] = low + 3 /\ h[5] = low + 4
  BY <1>1, FacesAre
<1>3. Tables!Five!FacesOf(h) = low .. low + 4
  <2>1. Tables!Five!FacesOf(h) = {low, low + 1, low + 2, low + 3, low + 4}
    BY <1>2, FacesOfHand
  <2>2. {low, low + 1, low + 2, low + 3, low + 4} = low .. low + 4
    BY FacesAre
  <2> QED BY <2>1, <2>2
<1>4. low .. low + 4 # Tables!Five!Wheel
  <2>1. FACES - 1 \in Tables!Five!Wheel /\ 0 \in Tables!Five!Wheel
    BY FacesAre DEF Tables!Five!Wheel
  <2> QED BY <2>1, FacesAre
<1>5. low .. low + 4 \in Tables!Five!Runs
  BY DEF Tables!Five!Runs
<1> QED BY <1>2, <1>3, <1>4, <1>5, FacesAre

-------------------------------------------------------------------------------
(***************************************************************************)
(* A nonempty set of naturals has a least one.                             *)
(***************************************************************************)
LEMMA LeastNat ==
  ASSUME NEW S \in SUBSET Nat, S # {}
  PROVE  \E q \in S : \A r \in S : q <= r
<1> DEFINE T == {0 .. n : n \in S}
           R == StrictSubsetOrdering(Nat)
<1>1. T \subseteq FiniteSubsetsOf(Nat)
  <2>1. \A n \in S : IsFiniteSet(0 .. n) BY FS_Interval
  <2>2. \A n \in S : 0 .. n \subseteq Nat BY SMT
  <2> QED BY <2>1, <2>2, Zenon DEF FiniteSubsetsOf
<1>2. T # {}
  OBVIOUS
<1>3. IsWellFoundedOn(R, FiniteSubsetsOf(Nat))
  BY FS_StrictSubsetOrderingWellFounded
<1>4. \E I \in T : \A J \in T : <<J, I>> \notin R
  <2> HIDE DEF T, R
  <2> QED BY <1>1, <1>2, <1>3, WFMin
<1>5. PICK q \in S : \A r \in S : <<0 .. r, 0 .. q>> \notin R
  <2> HIDE DEF R
  <2> QED BY <1>4
<1>6. ASSUME NEW r \in S, r < q
      PROVE  FALSE
  <2> DEFINE pair == <<0 .. r, 0 .. q>>
  <2>1. 0 .. r \subseteq 0 .. q /\ q \in 0 .. q /\ q \notin 0 .. r
    BY <1>6
  <2>2. 0 .. r \in SUBSET Nat /\ 0 .. q \in SUBSET Nat
    BY SMT
  <2>3. 0 .. r # 0 .. q
    BY <2>1, Zenon
  <2>4. pair \in R
    BY <2>1, <2>2, <2>3 DEF StrictSubsetOrdering
  <2> QED BY <1>5, <2>4
<1> QED BY <1>6

(***************************************************************************)
(* The order of the loops: a nonempty set of hands has a first one.        *)
(***************************************************************************)
LeastAt(S, i) == {h \in S : \A g \in S : h[i] <= g[i]}
LeastsAt(T, S, i) ==
  /\ T # {} /\ T \subseteq S
  /\ \A g, h \in T : g[i] = h[i]
  /\ \A h \in T, g \in S \ T : h[i] < g[i]

LEMMA LeastAtExists ==
  ASSUME NEW N \in Nat, NEW S \in SUBSET [1 .. N -> Nat], S # {}, NEW i \in 1 .. N
  PROVE  LeastAt(S, i) \in SUBSET [1 .. N -> Nat] /\ LeastsAt(LeastAt(S, i), S, i)
<1> DEFINE V == {h[i] : h \in S}
<1>1. V \in SUBSET Nat /\ V # {}
  OBVIOUS
<1>2. PICK m \in V : \A v \in V : m <= v
  <2> HIDE DEF V
  <2> QED BY <1>1, LeastNat
<1>3. m \in Nat /\ (\A g \in S : g[i] \in Nat /\ m <= g[i]) /\ \E h \in S : h[i] = m
  BY <1>1, <1>2
<1> HIDE DEF V
<1>4. LeastAt(S, i) = {h \in S : h[i] = m}
  BY <1>3 DEF LeastAt
<1>5. LeastAt(S, i) # {} /\ LeastAt(S, i) \subseteq S
  BY <1>3, <1>4
<1>6. \A g, h \in LeastAt(S, i) : g[i] = h[i]
  BY <1>4
<1>7. \A h \in LeastAt(S, i), g \in S \ LeastAt(S, i) : h[i] < g[i]
  BY <1>3, <1>4
<1> QED BY <1>5, <1>6, <1>7 DEF LeastsAt

LEMMA FirstExists ==
  ASSUME NEW S \in SUBSET [1 .. 5 -> Nat], S # {}
  PROVE  \E h \in S : Tables!Five!IsFirst(h, S)
<1> DEFINE S1 == LeastAt(S, 1)
           S2 == LeastAt(S1, 2)
           S3 == LeastAt(S2, 3)
           S4 == LeastAt(S3, 4)
           S5 == LeastAt(S4, 5)
<1> HIDE DEF S1, S2, S3, S4, S5
<1>0. \A T, i : T \in SUBSET [1 .. 5 -> Nat] /\ T # {} /\ i \in 1 .. 5
                => LeastAt(T, i) \in SUBSET [1 .. 5 -> Nat] /\ LeastsAt(LeastAt(T, i), T, i)
  <2>1. 5 \in Nat OBVIOUS
  <2> QED BY <2>1, LeastAtExists, Zenon
<1>1. S1 \in SUBSET [1 .. 5 -> Nat] /\ S1 # {} /\ LeastsAt(S1, S, 1)
  BY <1>0 DEF S1, LeastsAt
<1>2. S2 \in SUBSET [1 .. 5 -> Nat] /\ S2 # {} /\ LeastsAt(S2, S1, 2)
  BY <1>0, <1>1 DEF S2, LeastsAt
<1>3. S3 \in SUBSET [1 .. 5 -> Nat] /\ S3 # {} /\ LeastsAt(S3, S2, 3)
  BY <1>0, <1>2 DEF S3, LeastsAt
<1>4. S4 \in SUBSET [1 .. 5 -> Nat] /\ S4 # {} /\ LeastsAt(S4, S3, 4)
  BY <1>0, <1>3 DEF S4, LeastsAt
<1>5. S5 \in SUBSET [1 .. 5 -> Nat] /\ S5 # {} /\ LeastsAt(S5, S4, 5)
  BY <1>0, <1>4 DEF S5, LeastsAt
<1>6. PICK h \in S5 : TRUE
  BY <1>5
<1>7. h \in S /\ h \in S1 /\ h \in S2 /\ h \in S3 /\ h \in S4
  BY <1>1, <1>2, <1>3, <1>4, <1>5 DEF LeastsAt
<1>8. ASSUME NEW g \in S, g # h PROVE Tables!Five!Before(h, g)
  <2>1. CASE g \notin S1
    <3>1. h[1] < g[1]
      BY <1>1, <1>7, <2>1 DEF LeastsAt
    <3> QED BY <3>1 DEF Tables!Five!Before
  <2>2. CASE g \in S1 /\ g \notin S2
    <3>1. h[1] = g[1] /\ h[2] < g[2]
      BY <1>1, <1>2, <1>7, <2>2 DEF LeastsAt
    <3> QED BY <3>1 DEF Tables!Five!Before
  <2>3. CASE g \in S2 /\ g \notin S3
    <3>1. h[1] = g[1] /\ h[2] = g[2] /\ h[3] < g[3]
      BY <1>1, <1>2, <1>3, <1>7, <2>3 DEF LeastsAt
    <3> QED BY <3>1 DEF Tables!Five!Before
  <2>4. CASE g \in S3 /\ g \notin S4
    <3>1. h[1] = g[1] /\ h[2] = g[2] /\ h[3] = g[3] /\ h[4] < g[4]
      BY <1>1, <1>2, <1>3, <1>4, <1>7, <2>4 DEF LeastsAt
    <3> QED BY <3>1 DEF Tables!Five!Before
  <2>5. CASE g \in S4
    <3>1. h[1] = g[1] /\ h[2] = g[2] /\ h[3] = g[3] /\ h[4] = g[4]
      BY <1>1, <1>2, <1>3, <1>4, <1>7, <2>5 DEF LeastsAt
    <3>2. h[5] # g[5]
      BY <1>7, <1>8, <3>1
    <3>3. h[5] < g[5]
      BY <1>5, <1>6, <2>5, <3>2 DEF LeastsAt
    <3> QED BY <3>1, <3>3 DEF Tables!Five!Before
  <2> QED BY <2>1, <2>2, <2>3, <2>4, <2>5
<1> QED BY <1>7, <1>8 DEF Tables!Five!IsFirst

(***************************************************************************)
(* One hand comes before another where they first differ.                  *)
(***************************************************************************)
LEMMA BeforeIs ==
  ASSUME NEW g \in [1 .. 5 -> Nat], NEW h \in [1 .. 5 -> Nat]
  PROVE  Tables!Five!Before(g, h) <=>
           \/ g[1] < h[1]
           \/ g[1] = h[1] /\ g[2] < h[2]
           \/ g[1] = h[1] /\ g[2] = h[2] /\ g[3] < h[3]
           \/ g[1] = h[1] /\ g[2] = h[2] /\ g[3] = h[3] /\ g[4] < h[4]
           \/ g[1] = h[1] /\ g[2] = h[2] /\ g[3] = h[3] /\ g[4] = h[4] /\ g[5] < h[5]
BY DEF Tables!Five!Before

LEMMA FirstIsHand ==
  ASSUME todo \subseteq [1 .. 5 -> Nat], NEW h, Tables!Five!IsFirst(h, todo)
  PROVE  h = Tables!Five!Hand
<1>1. h \in todo /\ \A g \in todo \ {h} : Tables!Five!Before(h, g)
  BY DEF Tables!Five!IsFirst
<1>2. ASSUME NEW g \in todo, Tables!Five!IsFirst(g, todo), g # h PROVE FALSE
  <2>1. Tables!Five!Before(g, h) /\ Tables!Five!Before(h, g)
    BY <1>1, <1>2 DEF Tables!Five!IsFirst
  <2> QED BY <1>1, <2>1, BeforeIs
<1> QED BY <1>1, <1>2 DEF Tables!Five!Hand

-------------------------------------------------------------------------------
(***************************************************************************)
(* A tie is broken at the highest face that only one of the hands has as   *)
(* often.                                                                  *)
(***************************************************************************)
Differ(S, T) == (S \ T) \cup (T \ S)

LEMMA HighestIs ==
  ASSUME NEW S \in SUBSET Nat, NEW f \in S, \A g \in S : g <= f
  PROVE  Tables!Five!Highest(S) = f
<1>1. \A x \in S : (\A g \in S : g <= x) => x = f
  BY SMT
<1> QED BY <1>1, Zenon DEF Tables!Five!Highest

LEMMA TieBroken ==
  ASSUME NEW g, NEW h, Tables!Five!FacesOf(g) \notin Tables!Five!Runs,
         NEW n \in 1 .. 4,
         \A m \in n + 1 .. 4 : Tables!Five!Times(g, m) = Tables!Five!Times(h, m),
         NEW f \in Tables!Five!Times(g, n), f \notin Tables!Five!Times(h, n),
         \A x \in Differ(Tables!Five!Times(g, n), Tables!Five!Times(h, n)) : x <= f
  PROVE  Tables!Five!TieBreak(g, h)
<1>1. Differ(Tables!Five!Times(g, n), Tables!Five!Times(h, n)) \in SUBSET Nat
  BY FacesAre DEF Differ, Tables!Five!Times
<1>2. Tables!Five!Highest(Differ(Tables!Five!Times(g, n), Tables!Five!Times(h, n))) = f
  BY <1>1, HighestIs DEF Differ
<1> QED BY <1>2 DEF Tables!Five!TieBreak, Differ

LEMMA UnpairedTie ==
  ASSUME NEW g \in Tables!Five!Unpaired, NEW h \in Tables!Five!Unpaired, Tables!Five!Before(h, g)
  PROVE  Tables!Five!TieBreak(g, h)
<1>1. /\ g \in [1 .. 5 -> Nat] /\ h \in [1 .. 5 -> Nat]
      /\ g[1] > g[2] /\ g[2] > g[3] /\ g[3] > g[4] /\ g[4] > g[5]
      /\ h[1] > h[2] /\ h[2] > h[3] /\ h[3] > h[4] /\ h[4] > h[5]
  BY UnpairedAre, FacesAre
<1>2. \E i \in 1 .. 5 : /\ g[i] \notin {h[1], h[2], h[3], h[4], h[5]}
                        /\ g[i] \in {g[1], g[2], g[3], g[4], g[5]}
                        /\ \A x \in Differ({g[1], g[2], g[3], g[4], g[5]},
                                           {h[1], h[2], h[3], h[4], h[5]}) : x <= g[i]
  <2>1. CASE h[1] < g[1]
    BY <1>1, <2>1 DEF Differ
  <2>2. CASE h[1] = g[1] /\ h[2] < g[2]
    BY <1>1, <2>2 DEF Differ
  <2>3. CASE h[1] = g[1] /\ h[2] = g[2] /\ h[3] < g[3]
    BY <1>1, <2>3 DEF Differ
  <2>4. CASE h[1] = g[1] /\ h[2] = g[2] /\ h[3] = g[3] /\ h[4] < g[4]
    BY <1>1, <2>4 DEF Differ
  <2>5. CASE h[1] = g[1] /\ h[2] = g[2] /\ h[3] = g[3] /\ h[4] = g[4] /\ h[5] < g[5]
    BY <1>1, <2>5 DEF Differ
  <2> QED BY <1>1, <2>1, <2>2, <2>3, <2>4, <2>5, BeforeIs
<1>3. \A m \in 1 + 1 .. 4 : Tables!Five!Times(g, m) = Tables!Five!Times(h, m)
  <2>1. \A m \in 1 + 1 .. 4 : m = 2 \/ m = 3 \/ m = 4
    OBVIOUS
  <2> QED BY <2>1, UnpairedAre
<1>4. /\ Tables!Five!Times(g, 1) = {g[1], g[2], g[3], g[4], g[5]}
      /\ Tables!Five!Times(h, 1) = {h[1], h[2], h[3], h[4], h[5]}
      /\ Tables!Five!FacesOf(g) \notin Tables!Five!Runs
  BY UnpairedAre
<1> QED BY <1>2, <1>3, <1>4, TieBroken

LEMMA PairsTie ==
  ASSUME NEW g \in Tables!Five!Pairs, NEW h \in Tables!Five!Pairs, Tables!Five!Before(h, g)
  PROVE  Tables!Five!TieBreak(g, h)
<1>1. /\ g \in [1 .. 5 -> Nat] /\ h \in [1 .. 5 -> Nat]
      /\ g[1] = g[2] /\ g[3] > g[4] /\ g[4] > g[5]
      /\ h[1] = h[2] /\ h[3] > h[4] /\ h[4] > h[5]
  BY PairsAre, FacesAre
<1>2. /\ Tables!Five!Times(g, 1) = {g[3], g[4], g[5]} /\ Tables!Five!Times(g, 2) = {g[1]}
      /\ Tables!Five!Times(g, 3) = {} /\ Tables!Five!Times(g, 4) = {}
      /\ Tables!Five!Times(h, 1) = {h[3], h[4], h[5]} /\ Tables!Five!Times(h, 2) = {h[1]}
      /\ Tables!Five!Times(h, 3) = {} /\ Tables!Five!Times(h, 4) = {}
      /\ Tables!Five!FacesOf(g) \notin Tables!Five!Runs
  BY PairsAre
<1>3. CASE h[1] < g[1]
  <2>1. \A m \in 2 + 1 .. 4 : Tables!Five!Times(g, m) = Tables!Five!Times(h, m)
    <3>1. \A m \in 2 + 1 .. 4 : m = 3 \/ m = 4
      OBVIOUS
    <3> QED BY <1>2, <3>1
  <2>2. g[1] \notin {h[1]} /\ \A x \in Differ({g[1]}, {h[1]}) : x <= g[1]
    BY <1>1, <1>3 DEF Differ
  <2> QED BY <1>2, <2>1, <2>2, TieBroken
<1>4. CASE h[1] = g[1]
  <2>1. \A m \in 1 + 1 .. 4 : Tables!Five!Times(g, m) = Tables!Five!Times(h, m)
    <3>1. \A m \in 1 + 1 .. 4 : m = 2 \/ m = 3 \/ m = 4
      OBVIOUS
    <3> QED BY <1>2, <1>4, <3>1
  <2>2. \E i \in 3 .. 5 : /\ g[i] \notin {h[3], h[4], h[5]} /\ g[i] \in {g[3], g[4], g[5]}
                          /\ \A x \in Differ({g[3], g[4], g[5]}, {h[3], h[4], h[5]}) : x <= g[i]
    <3>1. CASE h[3] < g[3]
      BY <1>1, <3>1 DEF Differ
    <3>2. CASE h[3] = g[3] /\ h[4] < g[4]
      BY <1>1, <3>2 DEF Differ
    <3>3. CASE h[3] = g[3] /\ h[4] = g[4] /\ h[5] < g[5]
      BY <1>1, <3>3 DEF Differ
    <3>4. h[3] < g[3] \/ (h[3] = g[3] /\ h[4] < g[4]) \/ (h[3] = g[3] /\ h[4] = g[4] /\ h[5] < g[5])
      <4>1. h[1] # g[1] \/ h[2] # g[2] \/ h[3] < g[3] \/ (h[3] = g[3] /\ h[4] < g[4])
              \/ (h[3] = g[3] /\ h[4] = g[4] /\ h[5] < g[5])
        BY <1>1, BeforeIs
      <4> QED BY <1>1, <1>4, <4>1
    <3> QED BY <3>1, <3>2, <3>3, <3>4
  <2> QED BY <1>2, <2>1, <2>2, TieBroken
<1> QED BY <1>1, <1>3, <1>4, BeforeIs

LEMMA TwoPairsTie ==
  ASSUME NEW g \in Tables!Five!TwoPairs, NEW h \in Tables!Five!TwoPairs, Tables!Five!Before(h, g)
  PROVE  Tables!Five!TieBreak(g, h)
<1>1. /\ g \in [1 .. 5 -> Nat] /\ h \in [1 .. 5 -> Nat]
      /\ g[1] = g[2] /\ g[3] = g[4] /\ g[3] < g[1]
      /\ h[1] = h[2] /\ h[3] = h[4] /\ h[3] < h[1]
  BY TwoPairsAre, FacesAre
<1>2. /\ Tables!Five!Times(g, 1) = {g[5]} /\ Tables!Five!Times(g, 2) = {g[1], g[3]}
      /\ Tables!Five!Times(g, 3) = {} /\ Tables!Five!Times(g, 4) = {}
      /\ Tables!Five!Times(h, 1) = {h[5]} /\ Tables!Five!Times(h, 2) = {h[1], h[3]}
      /\ Tables!Five!Times(h, 3) = {} /\ Tables!Five!Times(h, 4) = {}
      /\ Tables!Five!FacesOf(g) \notin Tables!Five!Runs
  BY TwoPairsAre
<1>3. CASE h[1] < g[1] \/ (h[1] = g[1] /\ h[3] < g[3])
  <2>1. \A m \in 2 + 1 .. 4 : Tables!Five!Times(g, m) = Tables!Five!Times(h, m)
    <3>1. \A m \in 2 + 1 .. 4 : m = 3 \/ m = 4
      OBVIOUS
    <3> QED BY <1>2, <3>1
  <2>2. \E i \in {1, 3} : /\ g[i] \notin {h[1], h[3]} /\ g[i] \in {g[1], g[3]}
                          /\ \A x \in Differ({g[1], g[3]}, {h[1], h[3]}) : x <= g[i]
    BY <1>1, <1>3 DEF Differ
  <2> QED BY <1>2, <2>1, <2>2, TieBroken
<1>4. CASE h[1] = g[1] /\ h[3] = g[3] /\ h[5] < g[5]
  <2>1. \A m \in 1 + 1 .. 4 : Tables!Five!Times(g, m) = Tables!Five!Times(h, m)
    <3>1. \A m \in 1 + 1 .. 4 : m = 2 \/ m = 3 \/ m = 4
      OBVIOUS
    <3> QED BY <1>2, <1>4, <3>1
  <2>2. g[5] \notin {h[5]} /\ \A x \in Differ({g[5]}, {h[5]}) : x <= g[5]
    BY <1>1, <1>4 DEF Differ
  <2> QED BY <1>2, <2>1, <2>2, TieBroken
<1> QED BY <1>1, <1>3, <1>4, BeforeIs

LEMMA TripsTie ==
  ASSUME NEW g \in Tables!Five!Trips, NEW h \in Tables!Five!Trips, Tables!Five!Before(h, g)
  PROVE  Tables!Five!TieBreak(g, h)
<1>1. /\ g \in [1 .. 5 -> Nat] /\ h \in [1 .. 5 -> Nat]
      /\ g[1] = g[2] /\ g[2] = g[3] /\ g[5] < g[4]
      /\ h[1] = h[2] /\ h[2] = h[3] /\ h[5] < h[4]
  BY TripsAre, FacesAre
<1>2. /\ Tables!Five!Times(g, 1) = {g[4], g[5]} /\ Tables!Five!Times(g, 2) = {}
      /\ Tables!Five!Times(g, 3) = {g[1]} /\ Tables!Five!Times(g, 4) = {}
      /\ Tables!Five!Times(h, 1) = {h[4], h[5]} /\ Tables!Five!Times(h, 2) = {}
      /\ Tables!Five!Times(h, 3) = {h[1]} /\ Tables!Five!Times(h, 4) = {}
      /\ Tables!Five!FacesOf(g) \notin Tables!Five!Runs
  BY TripsAre
<1>3. CASE h[1] < g[1]
  <2>1. \A m \in 3 + 1 .. 4 : Tables!Five!Times(g, m) = Tables!Five!Times(h, m)
    <3>1. \A m \in 3 + 1 .. 4 : m = 4
      OBVIOUS
    <3> QED BY <1>2, <3>1
  <2>2. g[1] \notin {h[1]} /\ \A x \in Differ({g[1]}, {h[1]}) : x <= g[1]
    BY <1>1, <1>3 DEF Differ
  <2> QED BY <1>2, <2>1, <2>2, TieBroken
<1>4. CASE h[1] = g[1] /\ (h[4] < g[4] \/ (h[4] = g[4] /\ h[5] < g[5]))
  <2>1. \A m \in 1 + 1 .. 4 : Tables!Five!Times(g, m) = Tables!Five!Times(h, m)
    <3>1. \A m \in 1 + 1 .. 4 : m = 2 \/ m = 3 \/ m = 4
      OBVIOUS
    <3> QED BY <1>2, <1>4, <3>1
  <2>2. \E i \in {4, 5} : /\ g[i] \notin {h[4], h[5]} /\ g[i] \in {g[4], g[5]}
                          /\ \A x \in Differ({g[4], g[5]}, {h[4], h[5]}) : x <= g[i]
    BY <1>1, <1>4 DEF Differ
  <2> QED BY <1>2, <2>1, <2>2, TieBroken
<1> QED BY <1>1, <1>3, <1>4, BeforeIs

LEMMA FullHousesTie ==
  ASSUME NEW g \in Tables!Five!FullHouses, NEW h \in Tables!Five!FullHouses, Tables!Five!Before(h, g)
  PROVE  Tables!Five!TieBreak(g, h)
<1>1. /\ g \in [1 .. 5 -> Nat] /\ h \in [1 .. 5 -> Nat]
      /\ g[1] = g[2] /\ g[2] = g[3] /\ g[4] = g[5]
      /\ h[1] = h[2] /\ h[2] = h[3] /\ h[4] = h[5]
  BY FullHousesAre, FacesAre
<1>2. /\ Tables!Five!Times(g, 1) = {} /\ Tables!Five!Times(g, 2) = {g[4]}
      /\ Tables!Five!Times(g, 3) = {g[1]} /\ Tables!Five!Times(g, 4) = {}
      /\ Tables!Five!Times(h, 1) = {} /\ Tables!Five!Times(h, 2) = {h[4]}
      /\ Tables!Five!Times(h, 3) = {h[1]} /\ Tables!Five!Times(h, 4) = {}
      /\ Tables!Five!FacesOf(g) \notin Tables!Five!Runs
  BY FullHousesAre
<1>3. CASE h[1] < g[1]
  <2>1. \A m \in 3 + 1 .. 4 : Tables!Five!Times(g, m) = Tables!Five!Times(h, m)
    <3>1. \A m \in 3 + 1 .. 4 : m = 4
      OBVIOUS
    <3> QED BY <1>2, <3>1
  <2>2. g[1] \notin {h[1]} /\ \A x \in Differ({g[1]}, {h[1]}) : x <= g[1]
    BY <1>1, <1>3 DEF Differ
  <2> QED BY <1>2, <2>1, <2>2, TieBroken
<1>4. CASE h[1] = g[1] /\ h[4] < g[4]
  <2>1. \A m \in 2 + 1 .. 4 : Tables!Five!Times(g, m) = Tables!Five!Times(h, m)
    <3>1. \A m \in 2 + 1 .. 4 : m = 3 \/ m = 4
      OBVIOUS
    <3> QED BY <1>2, <1>4, <3>1
  <2>2. g[4] \notin {h[4]} /\ \A x \in Differ({g[4]}, {h[4]}) : x <= g[4]
    BY <1>1, <1>4 DEF Differ
  <2> QED BY <1>2, <2>1, <2>2, TieBroken
<1> QED BY <1>1, <1>3, <1>4, BeforeIs

LEMMA QuadsTie ==
  ASSUME NEW g \in Tables!Five!Quads, NEW h \in Tables!Five!Quads, Tables!Five!Before(h, g)
  PROVE  Tables!Five!TieBreak(g, h)
<1>1. /\ g \in [1 .. 5 -> Nat] /\ h \in [1 .. 5 -> Nat]
      /\ g[1] = g[2] /\ g[2] = g[3] /\ g[3] = g[4]
      /\ h[1] = h[2] /\ h[2] = h[3] /\ h[3] = h[4]
  BY QuadsAre, FacesAre
<1>2. /\ Tables!Five!Times(g, 1) = {g[5]} /\ Tables!Five!Times(g, 2) = {}
      /\ Tables!Five!Times(g, 3) = {} /\ Tables!Five!Times(g, 4) = {g[1]}
      /\ Tables!Five!Times(h, 1) = {h[5]} /\ Tables!Five!Times(h, 2) = {}
      /\ Tables!Five!Times(h, 3) = {} /\ Tables!Five!Times(h, 4) = {h[1]}
      /\ Tables!Five!FacesOf(g) \notin Tables!Five!Runs
  BY QuadsAre
<1>3. CASE h[1] < g[1]
  <2>1. \A m \in 4 + 1 .. 4 : Tables!Five!Times(g, m) = Tables!Five!Times(h, m)
    OBVIOUS
  <2>2. g[1] \notin {h[1]} /\ \A x \in Differ({g[1]}, {h[1]}) : x <= g[1]
    BY <1>1, <1>3 DEF Differ
  <2> QED BY <1>2, <2>1, <2>2, TieBroken
<1>4. CASE h[1] = g[1] /\ h[5] < g[5]
  <2>1. \A m \in 1 + 1 .. 4 : Tables!Five!Times(g, m) = Tables!Five!Times(h, m)
    <3>1. \A m \in 1 + 1 .. 4 : m = 2 \/ m = 3 \/ m = 4
      OBVIOUS
    <3> QED BY <1>2, <1>4, <3>1
  <2>2. g[5] \notin {h[5]} /\ \A x \in Differ({g[5]}, {h[5]}) : x <= g[5]
    BY <1>1, <1>4 DEF Differ
  <2> QED BY <1>2, <2>1, <2>2, TieBroken
<1> QED BY <1>1, <1>3, <1>4, BeforeIs

LEMMA StraightsTie ==
  ASSUME NEW g \in Tables!Five!Straights, NEW h \in Tables!Five!Straights, Tables!Five!Before(h, g)
  PROVE  Tables!Five!TieBreak(g, h)
<1>1. /\ g \in [1 .. 5 -> Nat] /\ h \in [1 .. 5 -> Nat]
      /\ g[2] = g[1] + 1 /\ g[3] = g[1] + 2 /\ g[4] = g[1] + 3 /\ g[5] = g[1] + 4
      /\ h[2] = h[1] + 1 /\ h[3] = h[1] + 2 /\ h[4] = h[1] + 3 /\ h[5] = h[1] + 4
  BY StraightsAre, FacesAre
<1>2. h[5] < g[5]
  BY <1>1, BeforeIs
<1>3. Tables!Five!Highest(g[1] .. g[5]) = g[5] /\ Tables!Five!Highest(h[1] .. h[5]) = h[5]
  <2>1. /\ g[1] .. g[5] \in SUBSET Nat /\ g[5] \in g[1] .. g[5] /\ \A x \in g[1] .. g[5] : x <= g[5]
        /\ h[1] .. h[5] \in SUBSET Nat /\ h[5] \in h[1] .. h[5] /\ \A x \in h[1] .. h[5] : x <= h[5]
    BY <1>1
  <2> QED BY <2>1, HighestIs
<1> QED BY <1>2, <1>3, StraightsAre DEF Tables!Five!TieBreak

(***************************************************************************)
(* The category of the hands of each section.                              *)
(***************************************************************************)
CategoryOf == <<0, 1, 2, 3, 4, 4, 5, 6, 7, 8, 8>>
Flushes(s) == s \in Tables!Five!FlushSections

LEMMA SectionsAre ==
  /\ Tables!Five!Sections[1] = Tables!Five!Unpaired
  /\ Tables!Five!Sections[2] = Tables!Five!Pairs
  /\ Tables!Five!Sections[3] = Tables!Five!TwoPairs
  /\ Tables!Five!Sections[4] = Tables!Five!Trips
  /\ Tables!Five!Sections[5] = Tables!Five!LowStraight
  /\ Tables!Five!Sections[6] = Tables!Five!Straights
  /\ Tables!Five!Sections[7] = Tables!Five!Unpaired
  /\ Tables!Five!Sections[8] = Tables!Five!FullHouses
  /\ Tables!Five!Sections[9] = Tables!Five!Quads
  /\ Tables!Five!Sections[10] = Tables!Five!LowStraight
  /\ Tables!Five!Sections[11] = Tables!Five!Straights
  /\ Len(Tables!Five!Sections) = 11
  /\ \A s \in 1 .. 11 : s \in {1, 2, 3, 4, 5, 6, 7, 8, 9, 10, 11}
BY DEF Tables!Five!Sections

LEMMA HandsOfSections ==
  ASSUME NEW s \in 1 .. 11
  PROVE  Tables!Five!Sections[s] \subseteq [1 .. 5 -> 0 .. FACES - 1]
<1> SUFFICES ASSUME NEW h \in Tables!Five!Sections[s] PROVE h \in [1 .. 5 -> 0 .. FACES - 1]
  OBVIOUS
<1>1. s \in {1, 7} => h \in Tables!Five!Unpaired
  BY SectionsAre
<1>2. s = 2 => h \in Tables!Five!Pairs
  BY SectionsAre
<1>3. s = 3 => h \in Tables!Five!TwoPairs
  BY SectionsAre
<1>4. s = 4 => h \in Tables!Five!Trips
  BY SectionsAre
<1>5. s \in {5, 10} => h \in Tables!Five!LowStraight
  BY SectionsAre
<1>6. s \in {6, 11} => h \in Tables!Five!Straights
  BY SectionsAre
<1>7. s = 8 => h \in Tables!Five!FullHouses
  BY SectionsAre
<1>8. s = 9 => h \in Tables!Five!Quads
  BY SectionsAre
<1> QED BY <1>1, <1>2, <1>3, <1>4, <1>5, <1>6, <1>7, <1>8,
           UnpairedAre, PairsAre, TwoPairsAre, TripsAre, LowStraightIs, StraightsAre,
           FullHousesAre, QuadsAre

LEMMA CategoryCases ==
  ASSUME NEW h, NEW flush
  PROVE  /\ Tables!Five!FacesOf(h) \in Tables!Five!Runs
              => Tables!Five!Category(h, flush) = IF flush THEN 8 ELSE 4
         /\ Tables!Five!FacesOf(h) \notin Tables!Five!Runs /\ flush => Tables!Five!Category(h, flush) = 5
         /\ Tables!Five!FacesOf(h) \notin Tables!Five!Runs /\ ~flush =>
              /\ Tables!Five!Times(h, 4) # {} => Tables!Five!Category(h, flush) = 7
              /\ Tables!Five!Times(h, 4) = {} /\ Tables!Five!Times(h, 3) # {}
                  => Tables!Five!Category(h, flush) = IF Tables!Five!Times(h, 2) # {} THEN 6 ELSE 3
              /\ Tables!Five!Times(h, 4) = {} /\ Tables!Five!Times(h, 3) = {}
                  => Tables!Five!Category(h, flush) = Cardinality(Tables!Five!Times(h, 2))
BY SameCardinality DEF Tables!Five!Category

LEMMA CategoryIs ==
  ASSUME NEW s \in 1 .. 11, NEW h \in Tables!Five!Sections[s]
  PROVE  Tables!Five!Category(h, Flushes(s)) = CategoryOf[s]
<1>1. \A x, y : x # y => Cardinality({x, y}) = 2
  <2>1. ASSUME NEW x, NEW y, x # y PROVE Cardinality({x, y}) = 2
    <3>1. Cardinality({x}) = 1 /\ IsFiniteSet({x})
      BY FS_Singleton
    <3>2. {x, y} = {x} \cup {y} /\ y \notin {x}
      BY <2>1
    <3> QED BY <3>1, <3>2, FS_AddElement
  <2> QED BY <2>1
<1>2. Cardinality({}) = 0
  BY FS_EmptySet
<1>0. Flushes(s) \in BOOLEAN /\ (Flushes(s) <=> s \in {7, 10, 11})
  BY DEF Flushes, Tables!Five!FlushSections
<1>3. CASE s = 1 \/ s = 7
  <2>1. h \in Tables!Five!Unpaired
    BY <1>3, SectionsAre
  <2> QED BY <1>0, <1>2, <1>3, <2>1, UnpairedAre, CategoryCases DEF CategoryOf
<1>4. CASE s = 2
  <2>1. h \in Tables!Five!Pairs
    BY <1>4, SectionsAre
  <2>2. /\ Cardinality(Tables!Five!Times(h, 2)) = 1 /\ Tables!Five!Times(h, 3) = {}
        /\ Tables!Five!Times(h, 4) = {} /\ Tables!Five!FacesOf(h) \notin Tables!Five!Runs
    <3>1. Cardinality({h[1]}) = 1
      BY FS_Singleton
    <3> QED BY <2>1, <3>1, PairsAre
  <2> QED BY <1>0, <1>4, <2>2, CategoryCases DEF CategoryOf
<1>5. CASE s = 3
  <2>1. h \in Tables!Five!TwoPairs
    BY <1>5, SectionsAre
  <2>2. h[1] # h[3]
    BY <2>1, TwoPairsAre
  <2>3. /\ Cardinality(Tables!Five!Times(h, 2)) = 2 /\ Tables!Five!Times(h, 3) = {}
        /\ Tables!Five!Times(h, 4) = {} /\ Tables!Five!FacesOf(h) \notin Tables!Five!Runs
    <3>1. Cardinality({h[1], h[3]}) = 2
      BY <1>1, <2>2
    <3> QED BY <2>1, <3>1, TwoPairsAre
  <2> QED BY <1>0, <1>5, <2>3, CategoryCases DEF CategoryOf
<1>6. CASE s = 4
  <2>1. h \in Tables!Five!Trips
    BY <1>6, SectionsAre
  <2> QED BY <1>0, <1>6, <2>1, TripsAre, CategoryCases DEF CategoryOf
<1>7. CASE s = 5 \/ s = 10
  <2>1. h \in Tables!Five!LowStraight
    BY <1>7, SectionsAre
  <2> QED BY <1>0, <1>7, <2>1, LowStraightIs, CategoryCases DEF CategoryOf
<1>8. CASE s = 6 \/ s = 11
  <2>1. h \in Tables!Five!Straights
    BY <1>8, SectionsAre
  <2>2. Tables!Five!FacesOf(h) \in Tables!Five!Runs
    BY <2>1, StraightsAre
  <2> QED BY <1>0, <1>8, <2>2, CategoryCases DEF CategoryOf
<1>9. CASE s = 8
  <2>1. h \in Tables!Five!FullHouses
    BY <1>9, SectionsAre
  <2> QED BY <1>0, <1>9, <2>1, FullHousesAre, CategoryCases DEF CategoryOf
<1>10. CASE s = 9
  <2>1. h \in Tables!Five!Quads
    BY <1>10, SectionsAre
  <2> QED BY <1>0, <1>10, <2>1, QuadsAre, CategoryCases DEF CategoryOf
<1> QED BY <1>3, <1>4, <1>5, <1>6, <1>7, <1>8, <1>9, <1>10, SectionsAre

(***************************************************************************)
(* Within a section a hand beats those that are visited before it; across  *)
(* the end of a section, every hand of the next one beats it.              *)
(***************************************************************************)
LEMMA LaterBeats ==
  ASSUME NEW s \in 1 .. 11, NEW h \in Tables!Five!Sections[s], NEW g \in Tables!Five!Sections[s],
         Tables!Five!Before(h, g)
  PROVE  Tables!Five!Beats(g, Flushes(s), h, Flushes(s))
<1>1. Tables!Five!Category(h, Flushes(s)) = Tables!Five!Category(g, Flushes(s))
  BY CategoryIs
<1>2. Tables!Five!TieBreak(g, h)
  <2>1. CASE s = 1 \/ s = 7
    BY <2>1, SectionsAre, UnpairedTie
  <2>2. CASE s = 2
    BY <2>2, SectionsAre, PairsTie
  <2>3. CASE s = 3
    BY <2>3, SectionsAre, TwoPairsTie
  <2>4. CASE s = 4
    BY <2>4, SectionsAre, TripsTie
  <2>5. CASE s = 5 \/ s = 10
    <3>1. g \in Tables!Five!LowStraight /\ h \in Tables!Five!LowStraight
      BY <2>5, SectionsAre
    <3>2. g = h /\ h \in [1 .. 5 -> Nat]
      BY <3>1, LowStraightIs, FacesAre DEF Tables!Five!LowStraight
    <3> QED BY <3>2, BeforeIs
  <2>6. CASE s = 6 \/ s = 11
    BY <2>6, SectionsAre, StraightsTie
  <2>7. CASE s = 8
    BY <2>7, SectionsAre, FullHousesTie
  <2>8. CASE s = 9
    BY <2>8, SectionsAre, QuadsTie
  <2> QED BY <2>1, <2>2, <2>3, <2>4, <2>5, <2>6, <2>7, <2>8, SectionsAre
<1> QED BY <1>1, <1>2 DEF Tables!Five!Beats

LEMMA NextSectionBeats ==
  ASSUME NEW s \in 1 .. 10, NEW h \in Tables!Five!Sections[s], NEW g \in Tables!Five!Sections[s + 1]
  PROVE  Tables!Five!Beats(g, Flushes(s + 1), h, Flushes(s))
<1>1. /\ Tables!Five!Category(h, Flushes(s)) = CategoryOf[s]
      /\ Tables!Five!Category(g, Flushes(s + 1)) = CategoryOf[s + 1]
  BY CategoryIs
<1>2. CASE s \in {5, 10}
  <2>1. h \in Tables!Five!LowStraight /\ g \in Tables!Five!Straights
    BY <1>2, SectionsAre
  <2>2. Tables!Five!TieBreak(g, h)
    BY <2>1, LowStraightIs, StraightsAre DEF Tables!Five!TieBreak
  <2>3. CategoryOf[s] = CategoryOf[s + 1]
    BY <1>2 DEF CategoryOf
  <2> QED BY <1>1, <2>2, <2>3 DEF Tables!Five!Beats
<1>3. CASE s \notin {5, 10}
  <2>1. CategoryOf[s] < CategoryOf[s + 1]
    <3>1. s \in {1, 2, 3, 4, 6, 7, 8, 9}
      BY <1>3
    <3> QED BY <3>1 DEF CategoryOf
  <2> QED BY <1>1, <2>1 DEF Tables!Five!Beats
<1> QED BY <1>2, <1>3

LEMMA SectionsHaveHands ==
  ASSUME NEW s \in 1 .. 11
  PROVE  Tables!Five!Sections[s] # {}
<1>1. <<5, 4, 2, 1, 0>> \in Tables!Five!Unpaired
  <2>1. <<5, 4, 2, 1, 0>> \in [1 .. 5 -> 0 .. FACES - 1]
    BY FacesAre
  <2>2. \A i \in 1 .. 4 : i \in {1, 2, 3, 4}
    OBVIOUS
  <2> QED BY <2>1, <2>2, FacesAre DEF Tables!Five!Unpaired, Tables!Five!Descending, Tables!Five!IsStraight
<1>2. <<0, 0, 3, 2, 1>> \in Tables!Five!Pairs
  BY FacesAre DEF Tables!Five!Pairs
<1>3. <<1, 1, 0, 0, 2>> \in Tables!Five!TwoPairs
  BY FacesAre DEF Tables!Five!TwoPairs
<1>4. <<0, 0, 0, 2, 1>> \in Tables!Five!Trips
  BY FacesAre DEF Tables!Five!Trips
<1>5. Tables!Five!LowStraight # {} /\ Tables!Five!Straights # {}
  <2>1. 0 \in 0 .. FACES - 5
    BY FacesAre
  <2> QED BY <2>1 DEF Tables!Five!LowStraight, Tables!Five!Straights
<1>6. <<0, 0, 0, 1, 1>> \in Tables!Five!FullHouses
  BY FacesAre DEF Tables!Five!FullHouses
<1>7. <<0, 0, 0, 0, 1>> \in Tables!Five!Quads
  BY FacesAre DEF Tables!Five!Quads
<1> QED BY <1>1, <1>2, <1>3, <1>4, <1>5, <1>6, <1>7, SectionsAre

(***************************************************************************)
(* The loops visit the hands of their section, and no loop is empty.       *)
(***************************************************************************)
Visiting ==
  /\ section \in 1 .. 12
  /\ section = 12 <=> todo = {}
  /\ section # 12 => todo \subseteq Tables!Five!Sections[section]

LEMMA VisitingInit == Init => Visiting
<1> SUFFICES ASSUME Init PROVE Visiting
  OBVIOUS
<1>1. section = 1 /\ todo = Tables!Five!Sections[1]
  BY DEF Init, Tables!Init, Tables!Five!Init
<1> QED BY <1>1, SectionsHaveHands DEF Visiting

(***************************************************************************)
(* A step of the ranking visits the first hand that is left.               *)
(***************************************************************************)
LEMMA HandsLeft ==
  ASSUME Visiting
  PROVE  todo \subseteq [1 .. 5 -> 0 .. FACES - 1] /\ todo \subseteq [1 .. 5 -> Nat]
<1>1. todo \subseteq [1 .. 5 -> 0 .. FACES - 1]
  <2>1. CASE section = 12
    BY <2>1 DEF Visiting
  <2>2. CASE section # 12
    <3>1. section \in 1 .. 11
      BY <2>2 DEF Visiting
    <3> QED BY <2>2, <3>1, HandsOfSections DEF Visiting
  <2> QED BY <2>1, <2>2
<1>2. [1 .. 5 -> 0 .. FACES - 1] \subseteq [1 .. 5 -> Nat]
  BY FacesAre
<1> QED BY <1>1, <1>2

LEMMA StepOfRanking ==
  ASSUME Visiting, Tables!Five!Next
  PROVE  /\ section \in 1 .. 11 /\ Tables!Five!Hand \in Tables!Five!Sections[section]
         /\ Tables!Five!IsFirst(Tables!Five!Hand, todo) /\ Tables!Five!Hand \in todo
         /\ Tables!Five!RankByKey(Tables!Five!Hand) \/ Tables!Five!RankFlush(Tables!Five!Hand)
         /\ Tables!Five!Advance(Tables!Five!Hand)
<1>1. PICK h \in todo : Tables!Five!RankByKey(h) \/ Tables!Five!RankFlush(h)
  BY DEF Tables!Five!Next
<1>2. Tables!Five!IsFirst(h, todo) /\ Tables!Five!Advance(h)
  BY <1>1 DEF Tables!Five!RankByKey, Tables!Five!RankFlush
<1>3. h = Tables!Five!Hand
  BY <1>2, HandsLeft, FirstIsHand
<1>4. section \in 1 .. 11 /\ h \in Tables!Five!Sections[section]
  BY <1>1 DEF Visiting
<1> QED BY <1>1, <1>2, <1>3, <1>4

LEMMA VisitingStep ==
  ASSUME Visiting, Tables!Five!Next
  PROVE  Visiting'
<1> DEFINE h == Tables!Five!Hand
<1> HIDE DEF h
<1>1. section \in 1 .. 11 /\ h \in todo /\ Tables!Five!Advance(h)
  BY StepOfRanking DEF h
<1>2. CASE todo # {h}
  BY <1>1, <1>2 DEF Tables!Five!Advance, Visiting
<1>3. CASE todo = {h}
  <2>1. section' = section + 1
    BY <1>1, <1>3 DEF Tables!Five!Advance
  <2>2. CASE section = 11
    BY <1>1, <1>3, <2>1, <2>2, SectionsAre DEF Tables!Five!Advance, Visiting
  <2>3. CASE section # 11
    <3>1. section + 1 \in 1 .. 11 /\ todo' = Tables!Five!Sections[section + 1]
      BY <1>1, <1>3, <2>3, SectionsAre DEF Tables!Five!Advance
    <3> QED BY <1>1, <2>1, <3>1, SectionsHaveHands DEF Visiting
  <2> QED BY <2>2, <2>3
<1> QED BY <1>2, <1>3

(***************************************************************************)
(* What the steps of the composition do to the state of the ranking.       *)
(***************************************************************************)
LEMMA RankingSteps ==
  ASSUME [Next]_vars
  PROVE  \/ Tables!Five!Next
         \/ /\ UNCHANGED <<section, todo, currentRank, ranks, lastHash>>
            /\ todo = {} \/ UNCHANGED FLUSH_RANKS
<1>1. CASE Generate
  BY <1>1 DEF Generate, Tables!Next, Tables!RankFive, Tables!FillFlush, Tables!RankSeven,
              Tables!fiveVars, Tables!Five!Done
<1>2. ASSUME NEW p \in Factors, NEW s \in Shifts, Load(p, s)
      PROVE  UNCHANGED <<section, todo, currentRank, ranks, lastHash, FLUSH_RANKS>>
  BY <1>2 DEF Load, generator
<1>3. CASE LoadCpp
  BY <1>3 DEF LoadCpp, generator
<1>4. CASE UNCHANGED vars
  BY <1>4 DEF vars, generator
<1> QED BY <1>1, <1>2, <1>3, <1>4 DEF Next

LEMMA VisitingNext == Visiting /\ [Next]_vars => Visiting'
<1> SUFFICES ASSUME Visiting, [Next]_vars PROVE Visiting'
  OBVIOUS
<1>1. CASE UNCHANGED <<section, todo, currentRank, ranks, lastHash>>
  BY <1>1 DEF Visiting
<1> QED BY <1>1, RankingSteps, VisitingStep

LEMMA VisitingAlways == Spec => []Visiting
BY VisitingInit, VisitingNext, PTL DEF Spec

LEMMA NumberedStep ==
  ASSUME Visiting, Tables!Five!Next
  PROVE  Tables!Five!NumberedInOrder
<1> SUFFICES ASSUME todo' # {}
             PROVE  Tables!Five!Beats(Tables!Five!Hand', section' \in Tables!Five!FlushSections,
                                      Tables!Five!Hand, section \in Tables!Five!FlushSections)
  BY DEF Tables!Five!NumberedInOrder, Tables!Five!Done
<1> DEFINE h == Tables!Five!Hand
           g == Tables!Five!Hand'
<1>1. /\ section \in 1 .. 11 /\ h \in Tables!Five!Sections[section] /\ h \in todo
      /\ Tables!Five!IsFirst(h, todo) /\ Tables!Five!Advance(h)
  BY StepOfRanking
<1>2. Visiting'
  BY VisitingStep
<1>3. g \in todo'
  <2>1. todo' \subseteq [1 .. 5 -> Nat]
    <3>1. section' \in 1 .. 11 /\ todo' \subseteq Tables!Five!Sections[section']
      BY <1>2 DEF Visiting
    <3>2. [1 .. 5 -> 0 .. FACES - 1] \subseteq [1 .. 5 -> Nat]
      BY FacesAre
    <3> QED BY <3>1, <3>2, HandsOfSections
  <2>2. \E f \in todo' : Tables!Five!IsFirst(f, todo')
    BY <2>1, FirstExists
  <2> QED BY <2>2 DEF Tables!Five!Hand
<1>4. section' \in 1 .. 11 /\ g \in Tables!Five!Sections[section']
  BY <1>2, <1>3 DEF Visiting
<1> HIDE DEF g, h
<1>5. CASE todo # {h}
  <2>1. section' = section /\ g \in todo /\ g # h
    BY <1>1, <1>3, <1>5 DEF Tables!Five!Advance
  <2>2. Tables!Five!Before(h, g)
    BY <1>1, <2>1 DEF Tables!Five!IsFirst
  <2>3. Tables!Five!Beats(g, Flushes(section), h, Flushes(section))
    BY <1>1, <1>4, <2>1, <2>2, LaterBeats
  <2> QED BY <2>1, <2>3 DEF Flushes, g, h
<1>6. CASE todo = {h}
  <2>1. section' = section + 1
    BY <1>1, <1>6 DEF Tables!Five!Advance
  <2>2. section \in 1 .. 10
    BY <1>1, <1>4, <2>1
  <2>3. Tables!Five!Beats(g, Flushes(section + 1), h, Flushes(section))
    BY <1>1, <1>4, <2>1, <2>2, NextSectionBeats
  <2> QED BY <2>1, <2>3 DEF Flushes, g, h
<1> QED BY <1>5, <1>6

(***************************************************************************)
(* "The higher the rank the better the hand": each number goes to a hand   *)
(* that beats the one numbered before it (FiveEval.h:32).                  *)
(***************************************************************************)
THEOREM RanksAlwaysAscend == Spec => RanksAscend
<1>1. ASSUME Visiting, [Next]_vars
      PROVE  [Tables!Five!NumberedInOrder]_(Tables!Five!vars)
  <2>1. CASE Tables!Five!Next
    BY <1>1, <2>1, NumberedStep
  <2>2. CASE UNCHANGED <<section, todo, currentRank, ranks, lastHash, FLUSH_RANKS>>
    BY <2>2 DEF Tables!Five!vars
  <2>3. CASE UNCHANGED todo /\ todo = {}
    BY <2>3 DEF Tables!Five!NumberedInOrder, Tables!Five!Done
  <2> QED BY <1>1, <2>1, <2>2, <2>3, RankingSteps
<1> QED BY <1>1, VisitingAlways, PTL DEF Spec, RanksAscend, Tables!Five!RanksAscend

-------------------------------------------------------------------------------
(***************************************************************************)
(* How often each face comes tells a hand of the loops from all others.    *)
(***************************************************************************)
Same(g, h) == \A f : Tables!Five!Copies(g, f) = Tables!Five!Copies(h, f)
Keyed == {1, 2, 3, 4, 5, 6, 8, 9}

LEMMA FiveEqual ==
  ASSUME NEW g \in [1 .. 5 -> Nat], NEW h \in [1 .. 5 -> Nat],
         g[1] = h[1], g[2] = h[2], g[3] = h[3], g[4] = h[4], g[5] = h[5]
  PROVE  g = h
<1>1. \A i \in 1 .. 5 : i = 1 \/ i = 2 \/ i = 3 \/ i = 4 \/ i = 5
  OBVIOUS
<1>2. \A i \in 1 .. 5 : g[i] = h[i]
  BY <1>1
<1> QED BY <1>2

LEMMA BeforeTotal ==
  ASSUME NEW g \in [1 .. 5 -> Nat], NEW h \in [1 .. 5 -> Nat], g # h
  PROVE  Tables!Five!Before(g, h) \/ Tables!Five!Before(h, g)
<1>1. g[1] # h[1] \/ g[2] # h[2] \/ g[3] # h[3] \/ g[4] # h[4] \/ g[5] # h[5]
  BY FiveEqual
<1>2. /\ g[1] \in Int /\ g[2] \in Int /\ g[3] \in Int /\ g[4] \in Int /\ g[5] \in Int
      /\ h[1] \in Int /\ h[2] \in Int /\ h[3] \in Int /\ h[4] \in Int /\ h[5] \in Int
  OBVIOUS
<1> QED BY <1>1, <1>2, BeforeIs

LEMMA SameTimes ==
  ASSUME NEW g, NEW h, Same(g, h)
  PROVE  /\ \A n : Tables!Five!Times(g, n) = Tables!Five!Times(h, n)
         /\ Tables!Five!FacesOf(g) = Tables!Five!FacesOf(h)
<1>1. \A n : Tables!Five!Times(g, n) = Tables!Five!Times(h, n)
  BY DEF Same, Tables!Five!Times
<1>2. ASSUME NEW f PROVE f \in {g[1], g[2], g[3], g[4], g[5]} <=> Tables!Five!Copies(g, f) # 0
  BY CopiesCounted DEF One
<1>3. ASSUME NEW f PROVE f \in {h[1], h[2], h[3], h[4], h[5]} <=> Tables!Five!Copies(h, f) # 0
  BY CopiesCounted DEF One
<1>4. {g[1], g[2], g[3], g[4], g[5]} = {h[1], h[2], h[3], h[4], h[5]}
  BY <1>2, <1>3 DEF Same
<1> QED BY <1>1, <1>4, FacesOfHand

LEMMA TieNeedsDifference ==
  ASSUME NEW g, NEW h, Same(g, h), Tables!Five!FacesOf(g) \notin Tables!Five!Runs
  PROVE  ~Tables!Five!TieBreak(g, h)
BY SameTimes DEF Tables!Five!TieBreak

LEMMA SameIsOne ==
  ASSUME NEW s \in Keyed, NEW t \in Keyed,
         NEW g \in Tables!Five!Sections[s], NEW h \in Tables!Five!Sections[t], Same(g, h)
  PROVE  s = t /\ g = h
<1>1. s \in 1 .. 11 /\ t \in 1 .. 11 /\ ~Flushes(s) /\ ~Flushes(t)
  BY DEF Keyed, Flushes, Tables!Five!FlushSections
<1>2. Tables!Five!FacesOf(g) = Tables!Five!FacesOf(h)
      /\ \A n : Tables!Five!Times(g, n) = Tables!Five!Times(h, n)
  BY SameTimes
<1>3. Tables!Five!Category(g, Flushes(s)) = Tables!Five!Category(h, Flushes(t))
  BY <1>1, <1>2 DEF Tables!Five!Category
<1>4. CategoryOf[s] = CategoryOf[t]
  BY <1>1, <1>3, CategoryIs
<1>5. s = t
  <2>1. s = t \/ (s = 5 /\ t = 6) \/ (s = 6 /\ t = 5)
    BY <1>4 DEF Keyed, CategoryOf
  <2>2. CASE s = 5 /\ t = 6
    BY <1>2, <2>2, SectionsAre, LowStraightIs, StraightsAre
  <2>3. CASE s = 6 /\ t = 5
    BY <1>2, <2>3, SectionsAre, LowStraightIs, StraightsAre
  <2> QED BY <2>1, <2>2, <2>3
<1>6. g \in [1 .. 5 -> Nat] /\ h \in [1 .. 5 -> Nat]
  <2>1. g \in [1 .. 5 -> 0 .. FACES - 1] /\ h \in [1 .. 5 -> 0 .. FACES - 1]
    BY <1>1, HandsOfSections
  <2> QED BY <2>1, FacesAre
<1>7. CASE s \in {5, 6}
  <2>1. CASE s = 5
    BY <1>5, <2>1, SectionsAre DEF Tables!Five!LowStraight
  <2>2. CASE s = 6
    <3>1. g \in Tables!Five!Straights /\ h \in Tables!Five!Straights
      BY <1>5, <2>2, SectionsAre
    <3>2. g[1] .. g[5] = h[1] .. h[5]
      BY <1>2, <3>1, StraightsAre
    <3>3. g[1] \in Int /\ g[5] = g[1] + 4 /\ h[1] \in Int /\ h[5] = h[1] + 4
      BY <3>1, StraightsAre, FacesAre
    <3>4. g[1] = h[1]
      BY <3>2, <3>3
    <3> QED BY <1>5, <1>6, <3>1, <3>4, StraightsAre, FiveEqual
  <2> QED BY <1>7, <2>1, <2>2
<1>8. CASE s \notin {5, 6}
  <2>1. Tables!Five!FacesOf(g) \notin Tables!Five!Runs
    <3>1. s \in {1, 2, 3, 4, 8, 9}
      BY <1>8 DEF Keyed
    <3>2. s = 1 => g \in Tables!Five!Unpaired
      BY SectionsAre
    <3>3. s = 2 => g \in Tables!Five!Pairs
      BY SectionsAre
    <3>4. s = 3 => g \in Tables!Five!TwoPairs
      BY SectionsAre
    <3>5. s = 4 => g \in Tables!Five!Trips
      BY SectionsAre
    <3>6. s = 8 => g \in Tables!Five!FullHouses
      BY SectionsAre
    <3>7. s = 9 => g \in Tables!Five!Quads
      BY SectionsAre
    <3> QED BY <3>1, <3>2, <3>3, <3>4, <3>5, <3>6, <3>7,
               UnpairedAre, PairsAre, TwoPairsAre, TripsAre, FullHousesAre, QuadsAre
  <2>2. Same(h, g)
    BY DEF Same
  <2>3. ~Tables!Five!TieBreak(g, h) /\ ~Tables!Five!TieBreak(h, g)
    BY <1>2, <2>1, <2>2, TieNeedsDifference
  <2>4. CategoryOf[s] \in Int
    BY DEF CategoryOf, Keyed
  <2>5. ~Tables!Five!Beats(g, Flushes(s), h, Flushes(s)) /\ ~Tables!Five!Beats(h, Flushes(s), g, Flushes(s))
    <3>1. Tables!Five!Category(g, Flushes(s)) = CategoryOf[s] /\ Tables!Five!Category(h, Flushes(s)) = CategoryOf[s]
      BY <1>1, <1>5, CategoryIs
    <3> QED BY <2>3, <2>4, <3>1 DEF Tables!Five!Beats
  <2>6. ~Tables!Five!Before(g, h) /\ ~Tables!Five!Before(h, g)
    BY <1>1, <1>5, <2>5, LaterBeats
  <2> QED BY <1>5, <1>6, <2>6, BeforeTotal
<1> QED BY <1>5, <1>7, <1>8

(***************************************************************************)
(* Sorted, a hand of the loops is one that can be dealt, and each of those *)
(* comes in the loops.                                                     *)
(***************************************************************************)
Orders == {p \in [1 .. 5 -> 1 .. 5] :
             /\ p[1] # p[2] /\ p[1] # p[3] /\ p[1] # p[4] /\ p[1] # p[5] /\ p[2] # p[3]
             /\ p[2] # p[4] /\ p[2] # p[5] /\ p[3] # p[4] /\ p[3] # p[5] /\ p[4] # p[5]}
Reordered(h, p) == [i \in 1 .. 5 |-> h[p[i]]]

LEMMA SumReordered ==
  ASSUME NEW F \in [1 .. 5 -> Nat], NEW p \in Orders
  PROVE  F[p[1]] + F[p[2]] + F[p[3]] + F[p[4]] + F[p[5]] = F[1] + F[2] + F[3] + F[4] + F[5]
<1>1. /\ p[1] \in 1 .. 5 /\ p[2] \in 1 .. 5 /\ p[3] \in 1 .. 5 /\ p[4] \in 1 .. 5 /\ p[5] \in 1 .. 5
      /\ F[1] \in Nat /\ F[2] \in Nat /\ F[3] \in Nat /\ F[4] \in Nat /\ F[5] \in Nat
  BY DEF Orders
<1> QED BY <1>1 DEF Orders

LEMMA ReorderedIs ==
  ASSUME NEW h \in [1 .. 5 -> 0 .. FACES - 1], NEW p \in Orders
  PROVE  /\ Reordered(h, p) \in [1 .. 5 -> 0 .. FACES - 1]
         /\ Same(Reordered(h, p), h)
         /\ Tables!Five!Key(Reordered(h, p)) = Tables!Five!Key(h)
<1>1. Reordered(h, p) \in [1 .. 5 -> 0 .. FACES - 1]
      /\ \A i \in 1 .. 5 : Reordered(h, p)[i] = h[p[i]] /\ p[i] \in 1 .. 5
  BY DEF Orders, Reordered
<1>2. Same(Reordered(h, p), h)
  <2>1. SUFFICES ASSUME NEW f
                 PROVE  Tables!Five!Copies(Reordered(h, p), f) = Tables!Five!Copies(h, f)
    BY DEF Same
  <2> DEFINE F == [i \in 1 .. 5 |-> One(h, i, f)]
  <2>2. F \in [1 .. 5 -> Nat] /\ \A i \in 1 .. 5 : F[i] = One(h, i, f)
    BY DEF One
  <2>3. \A i \in 1 .. 5 : One(Reordered(h, p), i, f) = F[p[i]]
    BY <1>1, <2>2 DEF One
  <2> HIDE DEF F
  <2>4. F[p[1]] + F[p[2]] + F[p[3]] + F[p[4]] + F[p[5]] = F[1] + F[2] + F[3] + F[4] + F[5]
    BY <2>2, SumReordered
  <2> QED BY <2>2, <2>3, <2>4, CopiesCounted
<1>3. Tables!Five!Key(Reordered(h, p)) = Tables!Five!Key(h)
  <2> DEFINE F == [i \in 1 .. 5 |-> KeyFive[h[i]]]
  <2>1. F \in [1 .. 5 -> Nat] /\ \A i \in 1 .. 5 : F[i] = KeyFive[h[i]]
    BY GameAssumption
  <2>2. \A i \in 1 .. 5 : KeyFive[Reordered(h, p)[i]] = F[p[i]]
    BY <1>1, <2>1
  <2> HIDE DEF F
  <2>3. F[p[1]] + F[p[2]] + F[p[3]] + F[p[4]] + F[p[5]] = F[1] + F[2] + F[3] + F[4] + F[5]
    BY <2>1, SumReordered
  <2> QED BY <2>1, <2>2, <2>3 DEF Tables!Five!Key
<1> QED BY <1>1, <1>2, <1>3

LEMMA DealtIs ==
  ASSUME NEW h \in [1 .. 5 -> 0 .. FACES - 1]
  PROVE  h \in Tables!Five!Dealt <=>
           h[1] <= h[2] /\ h[2] <= h[3] /\ h[3] <= h[4] /\ h[4] <= h[5] /\ h[1] # h[5]
<1>1. (\A i \in 1 .. 4 : h[i] <= h[i + 1]) <=> h[1] <= h[2] /\ h[2] <= h[3] /\ h[3] <= h[4] /\ h[4] <= h[5]
  OBVIOUS
<1>2. ASSUME h[1] <= h[2], h[2] <= h[3], h[3] <= h[4], h[4] <= h[5]
      PROVE  Tables!Five!Times(h, 5) = {} <=> h[1] # h[5]
  <2>1. Tables!Five!Times(h, 5) =
          {f \in 0 .. FACES - 1 :
             One(h, 1, f) + One(h, 2, f) + One(h, 3, f) + One(h, 4, f) + One(h, 5, f) = 5}
    BY TimesOf
  <2>2. /\ h[1] \in 0 .. FACES - 1 /\ h[2] \in 0 .. FACES - 1 /\ h[3] \in 0 .. FACES - 1
        /\ h[4] \in 0 .. FACES - 1 /\ h[5] \in 0 .. FACES - 1 /\ FACES \in Nat
    BY FacesAre
  <2>3. CASE h[1] = h[5]
    <3>1. h[1] \in Tables!Five!Times(h, 5)
      BY <1>2, <2>1, <2>2, <2>3 DEF One
    <3> QED BY <2>3, <3>1
  <2>4. CASE h[1] # h[5]
    <3>1. ASSUME NEW f \in Tables!Five!Times(h, 5) PROVE FALSE
      BY <2>1, <2>4, <3>1 DEF One
    <3> QED BY <2>4, <3>1
  <2> QED BY <2>3, <2>4
<1> QED BY <1>1, <1>2, FacesAre DEF Tables!Five!Dealt

CanBeDealt(h) == \E d \in Tables!Five!Dealt : Tables!Five!Key(d) = Tables!Five!Key(h) /\ Same(d, h)
Comes(d) == \E s \in Keyed : \E h \in Tables!Five!Sections[s] :
              Tables!Five!Key(h) = Tables!Five!Key(d) /\ Same(h, d)

LEMMA Sorted ==
  ASSUME NEW h \in [1 .. 5 -> 0 .. FACES - 1], NEW p \in Orders,
         h[p[1]] <= h[p[2]], h[p[2]] <= h[p[3]], h[p[3]] <= h[p[4]], h[p[4]] <= h[p[5]],
         h[p[1]] # h[p[5]]
  PROVE  CanBeDealt(h)
<1> DEFINE d == Reordered(h, p)
<1>1. /\ d \in [1 .. 5 -> 0 .. FACES - 1] /\ Same(d, h)
      /\ Tables!Five!Key(d) = Tables!Five!Key(h)
  BY ReorderedIs
<1>2. \A i \in 1 .. 5 : d[i] = h[p[i]]
  BY DEF Reordered
<1> HIDE DEF d
<1>3. d \in Tables!Five!Dealt
  BY <1>1, <1>2, DealtIs
<1> QED BY <1>1, <1>3 DEF CanBeDealt

LEMMA OrdersAre ==
  /\ <<5, 4, 3, 2, 1>> \in Orders /\ <<1, 2, 5, 4, 3>> \in Orders /\ <<5, 1, 2, 4, 3>> \in Orders
  /\ <<5, 4, 1, 2, 3>> \in Orders /\ <<5, 4, 3, 1, 2>> \in Orders /\ <<5, 3, 4, 1, 2>> \in Orders
  /\ <<3, 4, 5, 1, 2>> \in Orders /\ <<3, 4, 1, 2, 5>> \in Orders /\ <<1, 2, 3, 5, 4>> \in Orders
  /\ <<5, 1, 2, 3, 4>> \in Orders /\ <<1, 2, 3, 4, 5>> \in Orders /\ <<4, 5, 1, 2, 3>> \in Orders
  /\ <<2, 3, 5, 4, 1>> \in Orders /\ <<3, 4, 5, 2, 1>> \in Orders /\ <<4, 5, 3, 2, 1>> \in Orders
  /\ <<2, 3, 4, 5, 1>> \in Orders /\ <<4, 5, 2, 3, 1>> \in Orders
BY DEF Orders

LEMMA EachIsDealt ==
  ASSUME NEW s \in Keyed, NEW h \in Tables!Five!Sections[s]
  PROVE  CanBeDealt(h)
<1>1. h \in [1 .. 5 -> 0 .. FACES - 1]
  <2>1. s \in 1 .. 11
    BY DEF Keyed
  <2> QED BY <2>1, HandsOfSections
<1>2. /\ h[1] \in Int /\ h[2] \in Int /\ h[3] \in Int /\ h[4] \in Int /\ h[5] \in Int
      /\ FACES \in Nat /\ FACES > 5
  BY <1>1, FacesAre
<1>3. CASE s = 1
  <2>1. h \in Tables!Five!Unpaired
    BY <1>3, SectionsAre
  <2>2. CanBeDealt(h)
    <3>1. h[5] <= h[4] /\ h[4] <= h[3] /\ h[3] <= h[2] /\ h[2] <= h[1] /\ h[5] # h[1]
      BY <1>2, <2>1, UnpairedAre
    <3> QED BY <1>1, <3>1, OrdersAre, Sorted
  <2> QED BY <2>2
<1>4. CASE s = 2
  <2>1. h \in Tables!Five!Pairs
    BY <1>4, SectionsAre
  <2>2. CASE h[1] < h[5]
    <3>1. h[1] <= h[2] /\ h[2] <= h[5] /\ h[5] <= h[4] /\ h[4] <= h[3] /\ h[1] # h[3]
      BY <2>2, <1>2, <2>1, PairsAre
    <3> QED BY <1>1, <3>1, OrdersAre, Sorted
  <2>3. CASE h[5] < h[1] /\ h[1] < h[4]
    <3>1. h[5] <= h[1] /\ h[1] <= h[2] /\ h[2] <= h[4] /\ h[4] <= h[3] /\ h[5] # h[3]
      BY <2>3, <1>2, <2>1, PairsAre
    <3> QED BY <1>1, <3>1, OrdersAre, Sorted
  <2>4. CASE h[4] < h[1] /\ h[1] < h[3]
    <3>1. h[5] <= h[4] /\ h[4] <= h[1] /\ h[1] <= h[2] /\ h[2] <= h[3] /\ h[5] # h[3]
      BY <2>4, <1>2, <2>1, PairsAre
    <3> QED BY <1>1, <3>1, OrdersAre, Sorted
  <2>5. CASE h[3] < h[1]
    <3>1. h[5] <= h[4] /\ h[4] <= h[3] /\ h[3] <= h[1] /\ h[1] <= h[2] /\ h[5] # h[2]
      BY <2>5, <1>2, <2>1, PairsAre
    <3> QED BY <1>1, <3>1, OrdersAre, Sorted
  <2> QED BY <2>2, <2>3, <2>4, <2>5, <1>2, <2>1, PairsAre
<1>5. CASE s = 3
  <2>1. h \in Tables!Five!TwoPairs
    BY <1>5, SectionsAre
  <2>2. CASE h[5] < h[3]
    <3>1. h[5] <= h[3] /\ h[3] <= h[4] /\ h[4] <= h[1] /\ h[1] <= h[2] /\ h[5] # h[2]
      BY <2>2, <1>2, <2>1, TwoPairsAre
    <3> QED BY <1>1, <3>1, OrdersAre, Sorted
  <2>3. CASE h[3] < h[5] /\ h[5] < h[1]
    <3>1. h[3] <= h[4] /\ h[4] <= h[5] /\ h[5] <= h[1] /\ h[1] <= h[2] /\ h[3] # h[2]
      BY <2>3, <1>2, <2>1, TwoPairsAre
    <3> QED BY <1>1, <3>1, OrdersAre, Sorted
  <2>4. CASE h[1] < h[5]
    <3>1. h[3] <= h[4] /\ h[4] <= h[1] /\ h[1] <= h[2] /\ h[2] <= h[5] /\ h[3] # h[5]
      BY <2>4, <1>2, <2>1, TwoPairsAre
    <3> QED BY <1>1, <3>1, OrdersAre, Sorted
  <2> QED BY <2>2, <2>3, <2>4, <1>2, <2>1, TwoPairsAre
<1>6. CASE s = 4
  <2>1. h \in Tables!Five!Trips
    BY <1>6, SectionsAre
  <2>2. CASE h[1] < h[5]
    <3>1. h[1] <= h[2] /\ h[2] <= h[3] /\ h[3] <= h[5] /\ h[5] <= h[4] /\ h[1] # h[4]
      BY <2>2, <1>2, <2>1, TripsAre
    <3> QED BY <1>1, <3>1, OrdersAre, Sorted
  <2>3. CASE h[5] < h[1] /\ h[1] < h[4]
    <3>1. h[5] <= h[1] /\ h[1] <= h[2] /\ h[2] <= h[3] /\ h[3] <= h[4] /\ h[5] # h[4]
      BY <2>3, <1>2, <2>1, TripsAre
    <3> QED BY <1>1, <3>1, OrdersAre, Sorted
  <2>4. CASE h[4] < h[1]
    <3>1. h[5] <= h[4] /\ h[4] <= h[1] /\ h[1] <= h[2] /\ h[2] <= h[3] /\ h[5] # h[3]
      BY <2>4, <1>2, <2>1, TripsAre
    <3> QED BY <1>1, <3>1, OrdersAre, Sorted
  <2> QED BY <2>2, <2>3, <2>4, <1>2, <2>1, TripsAre
<1>7. CASE s = 5
  <2>1. h \in Tables!Five!LowStraight
    BY <1>7, SectionsAre
  <2>2. CanBeDealt(h)
    <3>1. h[1] <= h[2] /\ h[2] <= h[3] /\ h[3] <= h[4] /\ h[4] <= h[5] /\ h[1] # h[5]
      BY <1>2, <2>1, LowStraightIs
    <3> QED BY <1>1, <3>1, OrdersAre, Sorted
  <2> QED BY <2>2
<1>8. CASE s = 6
  <2>1. h \in Tables!Five!Straights
    BY <1>8, SectionsAre
  <2>2. CanBeDealt(h)
    <3>1. h[1] <= h[2] /\ h[2] <= h[3] /\ h[3] <= h[4] /\ h[4] <= h[5] /\ h[1] # h[5]
      BY <1>2, <2>1, StraightsAre
    <3> QED BY <1>1, <3>1, OrdersAre, Sorted
  <2> QED BY <2>2
<1>9. CASE s = 8
  <2>1. h \in Tables!Five!FullHouses
    BY <1>9, SectionsAre
  <2>2. CASE h[1] < h[5]
    <3>1. h[1] <= h[2] /\ h[2] <= h[3] /\ h[3] <= h[4] /\ h[4] <= h[5] /\ h[1] # h[5]
      BY <2>2, <1>2, <2>1, FullHousesAre
    <3> QED BY <1>1, <3>1, OrdersAre, Sorted
  <2>3. CASE h[5] < h[1]
    <3>1. h[4] <= h[5] /\ h[5] <= h[1] /\ h[1] <= h[2] /\ h[2] <= h[3] /\ h[4] # h[3]
      BY <2>3, <1>2, <2>1, FullHousesAre
    <3> QED BY <1>1, <3>1, OrdersAre, Sorted
  <2> QED BY <2>2, <2>3, <1>2, <2>1, FullHousesAre
<1>10. CASE s = 9
  <2>1. h \in Tables!Five!Quads
    BY <1>10, SectionsAre
  <2>2. CASE h[1] < h[5]
    <3>1. h[1] <= h[2] /\ h[2] <= h[3] /\ h[3] <= h[4] /\ h[4] <= h[5] /\ h[1] # h[5]
      BY <2>2, <1>2, <2>1, QuadsAre
    <3> QED BY <1>1, <3>1, OrdersAre, Sorted
  <2>3. CASE h[5] < h[1]
    <3>1. h[5] <= h[1] /\ h[1] <= h[2] /\ h[2] <= h[3] /\ h[3] <= h[4] /\ h[5] # h[4]
      BY <2>3, <1>2, <2>1, QuadsAre
    <3> QED BY <1>1, <3>1, OrdersAre, Sorted
  <2> QED BY <2>2, <2>3, <1>2, <2>1, QuadsAre
<1> QED BY <1>3, <1>4, <1>5, <1>6, <1>7, <1>8, <1>9, <1>10 DEF Keyed

(***************************************************************************)
(* Which hands a section has.                                              *)
(***************************************************************************)
LEMMA TupleOf ==
  ASSUME NEW h \in [1 .. 5 -> 0 .. FACES - 1]
  PROVE  h = <<h[1], h[2], h[3], h[4], h[5]>>
OBVIOUS

LEMMA SectionsHave ==
  ASSUME NEW h \in [1 .. 5 -> 0 .. FACES - 1]
  PROVE  /\ h[1] > h[2] /\ h[2] > h[3] /\ h[3] > h[4] /\ h[4] > h[5] /\ ~Tables!Five!IsStraight(h)
              => h \in Tables!Five!Unpaired
         /\ h[1] = h[2] /\ h[3] > h[4] /\ h[4] > h[5] /\ h[3] # h[1] /\ h[4] # h[1] /\ h[5] # h[1]
              => h \in Tables!Five!Pairs
         /\ h[1] = h[2] /\ h[3] = h[4] /\ h[3] < h[1] /\ h[5] # h[1] /\ h[5] # h[3]
              => h \in Tables!Five!TwoPairs
         /\ h[1] = h[2] /\ h[2] = h[3] /\ h[5] < h[4] /\ h[1] # h[4] /\ h[1] # h[5]
              => h \in Tables!Five!Trips
         /\ h[1] = 0 /\ h[2] = 1 /\ h[3] = 2 /\ h[4] = 3 /\ h[5] = FACES - 1
              => h \in Tables!Five!LowStraight
         /\ h[2] = h[1] + 1 /\ h[3] = h[1] + 2 /\ h[4] = h[1] + 3 /\ h[5] = h[1] + 4
              => h \in Tables!Five!Straights
         /\ h[1] = h[2] /\ h[2] = h[3] /\ h[4] = h[5] /\ h[1] # h[5] => h \in Tables!Five!FullHouses
         /\ h[1] = h[2] /\ h[2] = h[3] /\ h[3] = h[4] /\ h[1] # h[5] => h \in Tables!Five!Quads
<1>1. h = <<h[1], h[2], h[3], h[4], h[5]>>
  BY TupleOf
<1>2. /\ h[1] \in 0 .. FACES - 1 /\ h[2] \in 0 .. FACES - 1 /\ h[3] \in 0 .. FACES - 1
      /\ h[4] \in 0 .. FACES - 1 /\ h[5] \in 0 .. FACES - 1
  OBVIOUS
<1>3. h[1] > h[2] /\ h[2] > h[3] /\ h[3] > h[4] /\ h[4] > h[5] /\ ~Tables!Five!IsStraight(h)
        => h \in Tables!Five!Unpaired
  <2>1. \A i \in 1 .. 4 : i = 1 \/ i = 2 \/ i = 3 \/ i = 4
    OBVIOUS
  <2> QED BY <2>1, FacesAre DEF Tables!Five!Unpaired, Tables!Five!Descending
<1>4. h[1] = h[2] /\ h[3] > h[4] /\ h[4] > h[5] /\ h[3] # h[1] /\ h[4] # h[1] /\ h[5] # h[1]
        => h \in Tables!Five!Pairs
  <2>1. \A i \in 3 .. 5 : i = 3 \/ i = 4 \/ i = 5
    OBVIOUS
  <2>2. h[1] = h[2] => h \in {<<p, p, c1, c2, c3>> : p, c1, c2, c3 \in Tables!Five!Faces}
    BY <1>1, <1>2, FacesAre
  <2> QED BY <2>1, <2>2, FacesAre DEF Tables!Five!Pairs
<1>5. h[1] = h[2] /\ h[3] = h[4] /\ h[3] < h[1] /\ h[5] # h[1] /\ h[5] # h[3]
        => h \in Tables!Five!TwoPairs
  <2>1. h[1] = h[2] /\ h[3] = h[4] => h \in {<<p, p, q, q, c>> : p, q, c \in Tables!Five!Faces}
    BY <1>1, <1>2, FacesAre
  <2> QED BY <2>1 DEF Tables!Five!TwoPairs
<1>6. h[1] = h[2] /\ h[2] = h[3] /\ h[5] < h[4] /\ h[1] # h[4] /\ h[1] # h[5]
        => h \in Tables!Five!Trips
  <2>1. h[1] = h[2] /\ h[2] = h[3] => h \in {<<t, t, t, c1, c2>> : t, c1, c2 \in Tables!Five!Faces}
    BY <1>1, <1>2, FacesAre
  <2> QED BY <2>1 DEF Tables!Five!Trips
<1>7. h[1] = 0 /\ h[2] = 1 /\ h[3] = 2 /\ h[4] = 3 /\ h[5] = FACES - 1
        => h \in Tables!Five!LowStraight
  BY <1>1, FacesAre DEF Tables!Five!LowStraight
<1>8. h[2] = h[1] + 1 /\ h[3] = h[1] + 2 /\ h[4] = h[1] + 3 /\ h[5] = h[1] + 4
        => h \in Tables!Five!Straights
  <2>1. SUFFICES ASSUME h[2] = h[1] + 1, h[3] = h[1] + 2, h[4] = h[1] + 3, h[5] = h[1] + 4
                 PROVE  h \in Tables!Five!Straights
    OBVIOUS
  <2>2. h[1] \in 0 .. FACES - 5
    BY <1>2, <2>1, FacesAre
  <2>3. h = [i \in 1 .. 5 |-> h[1] + i - 1]
    <3>1. \A i \in 1 .. 5 : i = 1 \/ i = 2 \/ i = 3 \/ i = 4 \/ i = 5
      OBVIOUS
    <3>2. \A i \in 1 .. 5 : h[i] = h[1] + i - 1
      BY <1>2, <2>1, <3>1, FacesAre
    <3> QED BY <3>2
  <2> QED BY <2>2, <2>3 DEF Tables!Five!Straights
<1>9. h[1] = h[2] /\ h[2] = h[3] /\ h[4] = h[5] /\ h[1] # h[5] => h \in Tables!Five!FullHouses
  <2>1. h[1] = h[2] /\ h[2] = h[3] /\ h[4] = h[5] => h \in {<<t, t, t, p, p>> : t, p \in Tables!Five!Faces}
    BY <1>1, <1>2, FacesAre
  <2> QED BY <2>1 DEF Tables!Five!FullHouses
<1>10. h[1] = h[2] /\ h[2] = h[3] /\ h[3] = h[4] /\ h[1] # h[5] => h \in Tables!Five!Quads
  <2>1. h[1] = h[2] /\ h[2] = h[3] /\ h[3] = h[4] => h \in {<<q, q, q, q, c>> : q, c \in Tables!Five!Faces}
    BY <1>1, <1>2, FacesAre
  <2> QED BY <2>1 DEF Tables!Five!Quads
<1> QED BY <1>3, <1>4, <1>5, <1>6, <1>7, <1>8, <1>9, <1>10

LEMMA EachComes ==
  ASSUME NEW d \in Tables!Five!Dealt
  PROVE  Comes(d)
<1>1. d \in [1 .. 5 -> 0 .. FACES - 1]
  BY FacesAre DEF Tables!Five!Dealt
<1>2. d[1] <= d[2] /\ d[2] <= d[3] /\ d[3] <= d[4] /\ d[4] <= d[5] /\ d[1] # d[5]
  BY <1>1, DealtIs
<1>3. /\ d[1] \in Int /\ d[2] \in Int /\ d[3] \in Int /\ d[4] \in Int /\ d[5] \in Int
      /\ d[1] >= 0 /\ d[5] < FACES /\ FACES \in Nat /\ FACES > 5
  BY <1>1, FacesAre
<1>4. ASSUME NEW p \in Orders, NEW s \in Keyed, Reordered(d, p) \in Tables!Five!Sections[s]
      PROVE  Comes(d)
  BY <1>1, <1>4, ReorderedIs DEF Comes
<1>5. ASSUME NEW p \in Orders
      PROVE  /\ Reordered(d, p) \in [1 .. 5 -> 0 .. FACES - 1]
             /\ Reordered(d, p)[1] = d[p[1]] /\ Reordered(d, p)[2] = d[p[2]]
             /\ Reordered(d, p)[3] = d[p[3]] /\ Reordered(d, p)[4] = d[p[4]]
             /\ Reordered(d, p)[5] = d[p[5]]
  <2>1. Reordered(d, p) \in [1 .. 5 -> 0 .. FACES - 1]
    BY <1>1, ReorderedIs
  <2>2. \A i \in 1 .. 5 : Reordered(d, p)[i] = d[p[i]]
    BY DEF Reordered
  <2> QED BY <2>1, <2>2
<1>6. CASE d[1] # d[2] /\ d[2] # d[3] /\ d[3] # d[4] /\ d[4] # d[5]
  <2>1. CASE d[5] - d[1] = 4
    <3>1. Reordered(d, <<1, 2, 3, 4, 5>>) \in Tables!Five!Straights
      <4>1. /\ Reordered(d, <<1, 2, 3, 4, 5>>) \in [1 .. 5 -> 0 .. FACES - 1]
            /\ Reordered(d, <<1, 2, 3, 4, 5>>)[1] = d[1] /\ Reordered(d, <<1, 2, 3, 4, 5>>)[2] = d[2] /\ Reordered(d, <<1, 2, 3, 4, 5>>)[3] = d[3]
            /\ Reordered(d, <<1, 2, 3, 4, 5>>)[4] = d[4] /\ Reordered(d, <<1, 2, 3, 4, 5>>)[5] = d[5]
        BY <1>5, OrdersAre
      <4> QED BY <4>1, <1>2, <1>3, <1>6, <2>1, SectionsHave
    <3> QED BY <1>4, <3>1, OrdersAre, SectionsAre DEF Keyed
  <2>2. CASE d[5] = FACES - 1 /\ d[4] = 3
    <3>1. Reordered(d, <<1, 2, 3, 4, 5>>) \in Tables!Five!LowStraight
      <4>1. /\ Reordered(d, <<1, 2, 3, 4, 5>>) \in [1 .. 5 -> 0 .. FACES - 1]
            /\ Reordered(d, <<1, 2, 3, 4, 5>>)[1] = d[1] /\ Reordered(d, <<1, 2, 3, 4, 5>>)[2] = d[2] /\ Reordered(d, <<1, 2, 3, 4, 5>>)[3] = d[3]
            /\ Reordered(d, <<1, 2, 3, 4, 5>>)[4] = d[4] /\ Reordered(d, <<1, 2, 3, 4, 5>>)[5] = d[5]
        BY <1>5, OrdersAre
      <4> QED BY <4>1, <1>2, <1>3, <1>6, <2>2, SectionsHave
    <3> QED BY <1>4, <3>1, OrdersAre, SectionsAre DEF Keyed
  <2>3. CASE d[5] - d[1] # 4 /\ ~(d[5] = FACES - 1 /\ d[4] = 3)
    <3>1. ~Tables!Five!IsStraight(Reordered(d, <<5, 4, 3, 2, 1>>))
      BY <1>3, <1>5, <2>3, OrdersAre, FacesAre DEF Tables!Five!IsStraight
    <3>2. Reordered(d, <<5, 4, 3, 2, 1>>) \in Tables!Five!Unpaired
      <4>1. /\ Reordered(d, <<5, 4, 3, 2, 1>>) \in [1 .. 5 -> 0 .. FACES - 1]
            /\ Reordered(d, <<5, 4, 3, 2, 1>>)[1] = d[5] /\ Reordered(d, <<5, 4, 3, 2, 1>>)[2] = d[4] /\ Reordered(d, <<5, 4, 3, 2, 1>>)[3] = d[3]
            /\ Reordered(d, <<5, 4, 3, 2, 1>>)[4] = d[2] /\ Reordered(d, <<5, 4, 3, 2, 1>>)[5] = d[1]
        BY <1>5, OrdersAre
      <4> QED BY <4>1, <1>2, <1>3, <1>6, <3>1, SectionsHave
    <3> QED BY <1>4, <3>2, OrdersAre, SectionsAre DEF Keyed
  <2> QED BY <2>1, <2>2, <2>3
<1>7. CASE d[1] = d[2] /\ d[2] # d[3] /\ d[3] # d[4] /\ d[4] # d[5]
  <2>1. Reordered(d, <<1, 2, 5, 4, 3>>) \in Tables!Five!Pairs
    <3>1. /\ Reordered(d, <<1, 2, 5, 4, 3>>) \in [1 .. 5 -> 0 .. FACES - 1]
          /\ Reordered(d, <<1, 2, 5, 4, 3>>)[1] = d[1] /\ Reordered(d, <<1, 2, 5, 4, 3>>)[2] = d[2] /\ Reordered(d, <<1, 2, 5, 4, 3>>)[3] = d[5]
          /\ Reordered(d, <<1, 2, 5, 4, 3>>)[4] = d[4] /\ Reordered(d, <<1, 2, 5, 4, 3>>)[5] = d[3]
      BY <1>5, OrdersAre
    <3> QED BY <3>1, <1>2, <1>3, <1>7, SectionsHave
  <2> QED BY <1>4, <2>1, OrdersAre, SectionsAre DEF Keyed
<1>8. CASE d[1] # d[2] /\ d[2] = d[3] /\ d[3] # d[4] /\ d[4] # d[5]
  <2>1. Reordered(d, <<2, 3, 5, 4, 1>>) \in Tables!Five!Pairs
    <3>1. /\ Reordered(d, <<2, 3, 5, 4, 1>>) \in [1 .. 5 -> 0 .. FACES - 1]
          /\ Reordered(d, <<2, 3, 5, 4, 1>>)[1] = d[2] /\ Reordered(d, <<2, 3, 5, 4, 1>>)[2] = d[3] /\ Reordered(d, <<2, 3, 5, 4, 1>>)[3] = d[5]
          /\ Reordered(d, <<2, 3, 5, 4, 1>>)[4] = d[4] /\ Reordered(d, <<2, 3, 5, 4, 1>>)[5] = d[1]
      BY <1>5, OrdersAre
    <3> QED BY <3>1, <1>2, <1>3, <1>8, SectionsHave
  <2> QED BY <1>4, <2>1, OrdersAre, SectionsAre DEF Keyed
<1>9. CASE d[1] # d[2] /\ d[2] # d[3] /\ d[3] = d[4] /\ d[4] # d[5]
  <2>1. Reordered(d, <<3, 4, 5, 2, 1>>) \in Tables!Five!Pairs
    <3>1. /\ Reordered(d, <<3, 4, 5, 2, 1>>) \in [1 .. 5 -> 0 .. FACES - 1]
          /\ Reordered(d, <<3, 4, 5, 2, 1>>)[1] = d[3] /\ Reordered(d, <<3, 4, 5, 2, 1>>)[2] = d[4] /\ Reordered(d, <<3, 4, 5, 2, 1>>)[3] = d[5]
          /\ Reordered(d, <<3, 4, 5, 2, 1>>)[4] = d[2] /\ Reordered(d, <<3, 4, 5, 2, 1>>)[5] = d[1]
      BY <1>5, OrdersAre
    <3> QED BY <3>1, <1>2, <1>3, <1>9, SectionsHave
  <2> QED BY <1>4, <2>1, OrdersAre, SectionsAre DEF Keyed
<1>10. CASE d[1] # d[2] /\ d[2] # d[3] /\ d[3] # d[4] /\ d[4] = d[5]
  <2>1. Reordered(d, <<4, 5, 3, 2, 1>>) \in Tables!Five!Pairs
    <3>1. /\ Reordered(d, <<4, 5, 3, 2, 1>>) \in [1 .. 5 -> 0 .. FACES - 1]
          /\ Reordered(d, <<4, 5, 3, 2, 1>>)[1] = d[4] /\ Reordered(d, <<4, 5, 3, 2, 1>>)[2] = d[5] /\ Reordered(d, <<4, 5, 3, 2, 1>>)[3] = d[3]
          /\ Reordered(d, <<4, 5, 3, 2, 1>>)[4] = d[2] /\ Reordered(d, <<4, 5, 3, 2, 1>>)[5] = d[1]
      BY <1>5, OrdersAre
    <3> QED BY <3>1, <1>2, <1>3, <1>10, SectionsHave
  <2> QED BY <1>4, <2>1, OrdersAre, SectionsAre DEF Keyed
<1>11. CASE d[1] = d[2] /\ d[2] = d[3] /\ d[3] # d[4] /\ d[4] # d[5]
  <2>1. Reordered(d, <<1, 2, 3, 5, 4>>) \in Tables!Five!Trips
    <3>1. /\ Reordered(d, <<1, 2, 3, 5, 4>>) \in [1 .. 5 -> 0 .. FACES - 1]
          /\ Reordered(d, <<1, 2, 3, 5, 4>>)[1] = d[1] /\ Reordered(d, <<1, 2, 3, 5, 4>>)[2] = d[2] /\ Reordered(d, <<1, 2, 3, 5, 4>>)[3] = d[3]
          /\ Reordered(d, <<1, 2, 3, 5, 4>>)[4] = d[5] /\ Reordered(d, <<1, 2, 3, 5, 4>>)[5] = d[4]
      BY <1>5, OrdersAre
    <3> QED BY <3>1, <1>2, <1>3, <1>11, SectionsHave
  <2> QED BY <1>4, <2>1, OrdersAre, SectionsAre DEF Keyed
<1>12. CASE d[1] # d[2] /\ d[2] = d[3] /\ d[3] = d[4] /\ d[4] # d[5]
  <2>1. Reordered(d, <<2, 3, 4, 5, 1>>) \in Tables!Five!Trips
    <3>1. /\ Reordered(d, <<2, 3, 4, 5, 1>>) \in [1 .. 5 -> 0 .. FACES - 1]
          /\ Reordered(d, <<2, 3, 4, 5, 1>>)[1] = d[2] /\ Reordered(d, <<2, 3, 4, 5, 1>>)[2] = d[3] /\ Reordered(d, <<2, 3, 4, 5, 1>>)[3] = d[4]
          /\ Reordered(d, <<2, 3, 4, 5, 1>>)[4] = d[5] /\ Reordered(d, <<2, 3, 4, 5, 1>>)[5] = d[1]
      BY <1>5, OrdersAre
    <3> QED BY <3>1, <1>2, <1>3, <1>12, SectionsHave
  <2> QED BY <1>4, <2>1, OrdersAre, SectionsAre DEF Keyed
<1>13. CASE d[1] # d[2] /\ d[2] # d[3] /\ d[3] = d[4] /\ d[4] = d[5]
  <2>1. Reordered(d, <<3, 4, 5, 2, 1>>) \in Tables!Five!Trips
    <3>1. /\ Reordered(d, <<3, 4, 5, 2, 1>>) \in [1 .. 5 -> 0 .. FACES - 1]
          /\ Reordered(d, <<3, 4, 5, 2, 1>>)[1] = d[3] /\ Reordered(d, <<3, 4, 5, 2, 1>>)[2] = d[4] /\ Reordered(d, <<3, 4, 5, 2, 1>>)[3] = d[5]
          /\ Reordered(d, <<3, 4, 5, 2, 1>>)[4] = d[2] /\ Reordered(d, <<3, 4, 5, 2, 1>>)[5] = d[1]
      BY <1>5, OrdersAre
    <3> QED BY <3>1, <1>2, <1>3, <1>13, SectionsHave
  <2> QED BY <1>4, <2>1, OrdersAre, SectionsAre DEF Keyed
<1>14. CASE d[1] = d[2] /\ d[2] # d[3] /\ d[3] = d[4] /\ d[4] # d[5]
  <2>1. Reordered(d, <<3, 4, 1, 2, 5>>) \in Tables!Five!TwoPairs
    <3>1. /\ Reordered(d, <<3, 4, 1, 2, 5>>) \in [1 .. 5 -> 0 .. FACES - 1]
          /\ Reordered(d, <<3, 4, 1, 2, 5>>)[1] = d[3] /\ Reordered(d, <<3, 4, 1, 2, 5>>)[2] = d[4] /\ Reordered(d, <<3, 4, 1, 2, 5>>)[3] = d[1]
          /\ Reordered(d, <<3, 4, 1, 2, 5>>)[4] = d[2] /\ Reordered(d, <<3, 4, 1, 2, 5>>)[5] = d[5]
      BY <1>5, OrdersAre
    <3> QED BY <3>1, <1>2, <1>3, <1>14, SectionsHave
  <2> QED BY <1>4, <2>1, OrdersAre, SectionsAre DEF Keyed
<1>15. CASE d[1] = d[2] /\ d[2] # d[3] /\ d[3] # d[4] /\ d[4] = d[5]
  <2>1. Reordered(d, <<4, 5, 1, 2, 3>>) \in Tables!Five!TwoPairs
    <3>1. /\ Reordered(d, <<4, 5, 1, 2, 3>>) \in [1 .. 5 -> 0 .. FACES - 1]
          /\ Reordered(d, <<4, 5, 1, 2, 3>>)[1] = d[4] /\ Reordered(d, <<4, 5, 1, 2, 3>>)[2] = d[5] /\ Reordered(d, <<4, 5, 1, 2, 3>>)[3] = d[1]
          /\ Reordered(d, <<4, 5, 1, 2, 3>>)[4] = d[2] /\ Reordered(d, <<4, 5, 1, 2, 3>>)[5] = d[3]
      BY <1>5, OrdersAre
    <3> QED BY <3>1, <1>2, <1>3, <1>15, SectionsHave
  <2> QED BY <1>4, <2>1, OrdersAre, SectionsAre DEF Keyed
<1>16. CASE d[1] # d[2] /\ d[2] = d[3] /\ d[3] # d[4] /\ d[4] = d[5]
  <2>1. Reordered(d, <<4, 5, 2, 3, 1>>) \in Tables!Five!TwoPairs
    <3>1. /\ Reordered(d, <<4, 5, 2, 3, 1>>) \in [1 .. 5 -> 0 .. FACES - 1]
          /\ Reordered(d, <<4, 5, 2, 3, 1>>)[1] = d[4] /\ Reordered(d, <<4, 5, 2, 3, 1>>)[2] = d[5] /\ Reordered(d, <<4, 5, 2, 3, 1>>)[3] = d[2]
          /\ Reordered(d, <<4, 5, 2, 3, 1>>)[4] = d[3] /\ Reordered(d, <<4, 5, 2, 3, 1>>)[5] = d[1]
      BY <1>5, OrdersAre
    <3> QED BY <3>1, <1>2, <1>3, <1>16, SectionsHave
  <2> QED BY <1>4, <2>1, OrdersAre, SectionsAre DEF Keyed
<1>17. CASE d[1] = d[2] /\ d[2] = d[3] /\ d[3] = d[4] /\ d[4] # d[5]
  <2>1. Reordered(d, <<1, 2, 3, 4, 5>>) \in Tables!Five!Quads
    <3>1. /\ Reordered(d, <<1, 2, 3, 4, 5>>) \in [1 .. 5 -> 0 .. FACES - 1]
          /\ Reordered(d, <<1, 2, 3, 4, 5>>)[1] = d[1] /\ Reordered(d, <<1, 2, 3, 4, 5>>)[2] = d[2] /\ Reordered(d, <<1, 2, 3, 4, 5>>)[3] = d[3]
          /\ Reordered(d, <<1, 2, 3, 4, 5>>)[4] = d[4] /\ Reordered(d, <<1, 2, 3, 4, 5>>)[5] = d[5]
      BY <1>5, OrdersAre
    <3> QED BY <3>1, <1>2, <1>3, <1>17, SectionsHave
  <2> QED BY <1>4, <2>1, OrdersAre, SectionsAre DEF Keyed
<1>18. CASE d[1] # d[2] /\ d[2] = d[3] /\ d[3] = d[4] /\ d[4] = d[5]
  <2>1. Reordered(d, <<2, 3, 4, 5, 1>>) \in Tables!Five!Quads
    <3>1. /\ Reordered(d, <<2, 3, 4, 5, 1>>) \in [1 .. 5 -> 0 .. FACES - 1]
          /\ Reordered(d, <<2, 3, 4, 5, 1>>)[1] = d[2] /\ Reordered(d, <<2, 3, 4, 5, 1>>)[2] = d[3] /\ Reordered(d, <<2, 3, 4, 5, 1>>)[3] = d[4]
          /\ Reordered(d, <<2, 3, 4, 5, 1>>)[4] = d[5] /\ Reordered(d, <<2, 3, 4, 5, 1>>)[5] = d[1]
      BY <1>5, OrdersAre
    <3> QED BY <3>1, <1>2, <1>3, <1>18, SectionsHave
  <2> QED BY <1>4, <2>1, OrdersAre, SectionsAre DEF Keyed
<1>19. CASE d[1] = d[2] /\ d[2] = d[3] /\ d[3] # d[4] /\ d[4] = d[5]
  <2>1. Reordered(d, <<1, 2, 3, 4, 5>>) \in Tables!Five!FullHouses
    <3>1. /\ Reordered(d, <<1, 2, 3, 4, 5>>) \in [1 .. 5 -> 0 .. FACES - 1]
          /\ Reordered(d, <<1, 2, 3, 4, 5>>)[1] = d[1] /\ Reordered(d, <<1, 2, 3, 4, 5>>)[2] = d[2] /\ Reordered(d, <<1, 2, 3, 4, 5>>)[3] = d[3]
          /\ Reordered(d, <<1, 2, 3, 4, 5>>)[4] = d[4] /\ Reordered(d, <<1, 2, 3, 4, 5>>)[5] = d[5]
      BY <1>5, OrdersAre
    <3> QED BY <3>1, <1>2, <1>3, <1>19, SectionsHave
  <2> QED BY <1>4, <2>1, OrdersAre, SectionsAre DEF Keyed
<1>20. CASE d[1] = d[2] /\ d[2] # d[3] /\ d[3] = d[4] /\ d[4] = d[5]
  <2>1. Reordered(d, <<3, 4, 5, 1, 2>>) \in Tables!Five!FullHouses
    <3>1. /\ Reordered(d, <<3, 4, 5, 1, 2>>) \in [1 .. 5 -> 0 .. FACES - 1]
          /\ Reordered(d, <<3, 4, 5, 1, 2>>)[1] = d[3] /\ Reordered(d, <<3, 4, 5, 1, 2>>)[2] = d[4] /\ Reordered(d, <<3, 4, 5, 1, 2>>)[3] = d[5]
          /\ Reordered(d, <<3, 4, 5, 1, 2>>)[4] = d[1] /\ Reordered(d, <<3, 4, 5, 1, 2>>)[5] = d[2]
      BY <1>5, OrdersAre
    <3> QED BY <3>1, <1>2, <1>3, <1>20, SectionsHave
  <2> QED BY <1>4, <2>1, OrdersAre, SectionsAre DEF Keyed
<1> QED BY <1>2, <1>6, <1>7, <1>8, <1>9, <1>10, <1>11, <1>12, <1>13, <1>14, <1>15, <1>16, <1>17, <1>18, <1>19, <1>20

LEMMA FiniteFunctions ==
  ASSUME NEW S, NEW T, IsFiniteSet(S), IsFiniteSet(T)
  PROVE  IsFiniteSet([S -> T])
<1> DEFINE graph == [f \in [S -> T] |-> {<<x, f[x]>> : x \in S}]
<1>1. IsFiniteSet(SUBSET (S \X T))
  <2>1. IsFiniteSet(S \X T) BY FS_Product, Zenon
  <2> QED BY <2>1, FS_SUBSET, Zenon
<1>2. graph \in [[S -> T] -> SUBSET (S \X T)]
  OBVIOUS
<1>3. ASSUME NEW f \in [S -> T], NEW g \in [S -> T], graph[f] = graph[g]
      PROVE  f = g
  <2>1. \A x \in S : <<x, f[x]>> \in graph[g]
    BY <1>3
  <2>2. \A x \in S : f[x] = g[x]
    BY <2>1
  <2> QED BY <2>2
<1>4. graph \in Injection([S -> T], SUBSET (S \X T))
  <2> HIDE DEF graph
  <2> QED BY <1>2, <1>3, Fun_IsInj
<1> HIDE DEF graph
<1> QED BY <1>1, <1>4, FS_Injection

(***************************************************************************)
(* The keys tell the hands of the loops from one another, and have no      *)
(* others.                                                                 *)
(***************************************************************************)
LEMMA DealtFinite == IsFiniteSet(Tables!Five!Dealt) /\ Cardinality(Tables!Five!Dealt) \in Nat
<1>1. IsFiniteSet([1 .. 5 -> 0 .. FACES - 1])
  <2>1. IsFiniteSet(1 .. 5) /\ IsFiniteSet(0 .. FACES - 1)
    <3>1. 1 \in Int /\ 5 \in Int /\ 0 \in Int /\ FACES - 1 \in Int
      BY FacesAre
    <3> QED BY <3>1, FS_Interval, Zenon
  <2> QED BY <2>1, FiniteFunctions
<1>2. Tables!Five!Dealt \in SUBSET [1 .. 5 -> 0 .. FACES - 1]
  BY FacesAre DEF Tables!Five!Dealt
<1>3. IsFiniteSet(Tables!Five!Dealt)
  BY <1>1, <1>2, FS_Subset
<1> QED BY <1>3, FS_CardinalityType

LEMMA KeysTellDealt ==
  ASSUME NEW d \in Tables!Five!Dealt, NEW e \in Tables!Five!Dealt,
         Tables!Five!Key(d) = Tables!Five!Key(e)
  PROVE  d = e
<1> DEFINE D == Tables!Five!Dealt
           K == {Tables!Five!Key(h) : h \in D}
           f == [h \in D |-> Tables!Five!Key(h)]
<1>1. Cardinality(K) = Cardinality(D)
  BY KeysAssumption
<1>2. f \in [D -> K] /\ (\A h \in D : f[h] = Tables!Five!Key(h)) /\ \A k \in K : \E h \in D : f[h] = k
  OBVIOUS
<1>3. IsFiniteSet(D)
  BY DealtFinite
<1>4. d \in D /\ e \in D /\ f[d] = f[e]
  BY <1>2
<1> HIDE DEF D, K, f
<1>5. f \in Surjection(D, K)
  BY <1>2 DEF Surjection
<1>6. f \in Injection(D, K)
  BY <1>1, <1>3, <1>5, FS_SurjSameCardinalityImpliesInj
<1> QED BY <1>4, <1>6 DEF Injection, IsInjective

LEMMA KeysTellHands ==
  ASSUME NEW s \in Keyed, NEW t \in Keyed,
         NEW g \in Tables!Five!Sections[s], NEW h \in Tables!Five!Sections[t],
         Tables!Five!Key(g) = Tables!Five!Key(h)
  PROVE  s = t /\ g = h
<1>1. PICK d \in Tables!Five!Dealt : Tables!Five!Key(d) = Tables!Five!Key(g) /\ Same(d, g)
  BY EachIsDealt DEF CanBeDealt
<1>2. PICK e \in Tables!Five!Dealt : Tables!Five!Key(e) = Tables!Five!Key(h) /\ Same(e, h)
  BY EachIsDealt DEF CanBeDealt
<1>3. d = e
  BY <1>1, <1>2, KeysTellDealt
<1>4. Same(g, h)
  BY <1>1, <1>2, <1>3 DEF Same
<1> QED BY <1>4, SameIsOne

LEMMA KeysOfDealt ==
  ASSUME NEW k
  PROVE  (\E s \in Keyed : \E h \in Tables!Five!Sections[s] : k = Tables!Five!Key(h))
           <=> k \in {Tables!Five!Key(d) : d \in Tables!Five!Dealt}
<1>1. ASSUME NEW s \in Keyed, NEW h \in Tables!Five!Sections[s]
      PROVE  \E d \in Tables!Five!Dealt : Tables!Five!Key(d) = Tables!Five!Key(h)
  BY EachIsDealt DEF CanBeDealt
<1>2. ASSUME NEW d \in Tables!Five!Dealt
      PROVE  \E s \in Keyed : \E h \in Tables!Five!Sections[s] : Tables!Five!Key(h) = Tables!Five!Key(d)
  BY EachComes DEF Comes
<1> QED BY <1>1, <1>2

LEMMA KeyIsNat ==
  ASSUME NEW h \in [1 .. 5 -> 0 .. FACES - 1]
  PROVE  Tables!Five!Key(h) \in Nat
<1>1. \A i \in 1 .. 5 : KeyFive[h[i]] \in Nat
  BY GameAssumption
<1> QED BY <1>1 DEF Tables!Five!Key

(***************************************************************************)
(* The last hand that gets a key is the one with the largest: four aces    *)
(* and a king.                                                             *)
(***************************************************************************)
FourAces == <<FACES - 1, FACES - 1, FACES - 1, FACES - 1, FACES - 2>>

LEMMA Monotone ==
  ASSUME NEW key \in [0 .. FACES - 1 -> Nat], \A f \in 1 .. FACES - 1 : key[f - 1] < key[f]
  PROVE  \A f, g \in 0 .. FACES - 1 : f <= g => key[f] <= key[g]
<1> SUFFICES ASSUME NEW f \in 0 .. FACES - 1,
                    {g \in 0 .. FACES - 1 : f <= g /\ ~(key[f] <= key[g])} # {}
             PROVE  FALSE
  OBVIOUS
<1> DEFINE Bad == {g \in 0 .. FACES - 1 : f <= g /\ ~(key[f] <= key[g])}
<1>1. Bad \in SUBSET Nat /\ Bad # {}
  BY FacesAre
<1>2. PICK g \in Bad : \A r \in Bad : g <= r
  <2> HIDE DEF Bad
  <2> QED BY <1>1, LeastNat
<1>3. g # f /\ f < g /\ g - 1 \in 0 .. FACES - 1 /\ g \in 1 .. FACES - 1 /\ f <= g - 1
  BY <1>2, FacesAre
<1>4. g - 1 \notin Bad
  BY <1>2, <1>3, FacesAre
<1>5. key[f] <= key[g - 1]
  BY <1>3, <1>4
<1>6. key[g - 1] < key[g] /\ key[f] \in Nat /\ key[g] \in Nat /\ key[g - 1] \in Nat
  BY <1>3
<1> QED BY <1>2, <1>5, <1>6

LEMMA KeysAscend ==
  /\ \A f, g \in 0 .. FACES - 1 : f <= g => KeyFive[f] <= KeyFive[g]
  /\ \A f, g \in 0 .. FACES - 1 : f <= g => KeySeven[f] <= KeySeven[g]
BY GameAssumption, KeysAssumption, Monotone

LEMMA FourAcesLast ==
  /\ FourAces \in Tables!Five!Quads
  /\ \A h \in Tables!Five!Quads : h # FourAces => Tables!Five!Before(h, FourAces)
  /\ \A d \in Tables!Five!Dealt : Tables!Five!Key(d) <= Tables!Five!Key(FourAces)
<1>1. /\ FourAces \in [1 .. 5 -> 0 .. FACES - 1] /\ FourAces[1] = FACES - 1 /\ FourAces[2] = FACES - 1
      /\ FourAces[3] = FACES - 1 /\ FourAces[4] = FACES - 1 /\ FourAces[5] = FACES - 2
  BY FacesAre DEF FourAces
<1>2. FourAces \in Tables!Five!Quads
  BY <1>1, SectionsHave, FacesAre
<1>3. ASSUME NEW h \in Tables!Five!Quads, h # FourAces
      PROVE  Tables!Five!Before(h, FourAces)
  <2>1. h \in [1 .. 5 -> Nat] /\ FourAces \in [1 .. 5 -> Nat]
    BY <1>1, QuadsAre, FacesAre
  <2>2. /\ h[1] = h[2] /\ h[2] = h[3] /\ h[3] = h[4] /\ h[1] # h[5]
        /\ h[1] <= FACES - 1 /\ h[5] <= FACES - 1
    BY QuadsAre, FacesAre
  <2>3. h[1] # FACES - 1 \/ h[5] # FACES - 2
    BY <1>1, <1>3, <2>1, <2>2, FiveEqual
  <2>4. h[1] < FACES - 1 \/ (h[1] = FACES - 1 /\ h[5] < FACES - 2)
    BY <2>1, <2>2, <2>3, FacesAre
  <2> QED BY <1>1, <2>1, <2>2, <2>4, BeforeIs
<1>4. ASSUME NEW d \in Tables!Five!Dealt
      PROVE  Tables!Five!Key(d) <= Tables!Five!Key(FourAces)
  <2>1. d \in [1 .. 5 -> 0 .. FACES - 1]
    BY FacesAre DEF Tables!Five!Dealt
  <2>2. d[1] <= d[2] /\ d[2] <= d[3] /\ d[3] <= d[4] /\ d[4] <= d[5] /\ d[1] # d[5]
    BY <2>1, DealtIs
  <2>3. d[1] \in 0 .. FACES - 2 /\ FACES - 2 \in 0 .. FACES - 1 /\ FACES - 1 \in 0 .. FACES - 1
    BY <2>1, <2>2, FacesAre
  <2>4. \A i \in 1 .. 5 : KeyFive[d[i]] <= KeyFive[FACES - 1]
    BY <2>1, <2>3, KeysAscend, FacesAre
  <2>5. KeyFive[d[1]] <= KeyFive[FACES - 2]
    BY <2>3, KeysAscend, FacesAre
  <2>6. (\A i \in 1 .. 5 : KeyFive[d[i]] \in Nat) /\ KeyFive[FACES - 1] \in Nat /\ KeyFive[FACES - 2] \in Nat
    BY <2>1, <2>3, GameAssumption
  <2> QED BY <1>1, <2>4, <2>5, <2>6 DEF Tables!Five!Key
<1> QED BY <1>2, <1>3, <1>4

-------------------------------------------------------------------------------
(***************************************************************************)
(* Flushes: the hands of five different faces, one for each set of five.   *)
(***************************************************************************)
Distinct(h) ==
  /\ h[1] # h[2] /\ h[1] # h[3] /\ h[1] # h[4] /\ h[1] # h[5] /\ h[2] # h[3]
  /\ h[2] # h[4] /\ h[2] # h[5] /\ h[3] # h[4] /\ h[3] # h[5] /\ h[4] # h[5]
FiveSets == {S \in SUBSET (0 .. FACES - 1) : Cardinality(S) = 5}

LEMMA DistinctCopies ==
  ASSUME NEW h, Distinct(h), NEW f
  PROVE  Tables!Five!Copies(h, f) = IF f \in Tables!Five!FacesOf(h) THEN 1 ELSE 0
<1>1. Tables!Five!FacesOf(h) = {h[1], h[2], h[3], h[4], h[5]}
  BY FacesOfHand
<1>2. CASE f \in {h[1], h[2], h[3], h[4], h[5]}
  BY <1>1, <1>2, CopiesCounted DEF One, Distinct
<1>3. CASE f \notin {h[1], h[2], h[3], h[4], h[5]}
  BY <1>1, <1>3, CopiesCounted DEF One
<1> QED BY <1>2, <1>3

LEMMA DistinctFaces ==
  ASSUME NEW h \in [1 .. 5 -> 0 .. FACES - 1], Distinct(h)
  PROVE  Tables!Five!FacesOf(h) \in FiveSets
<1>1. IsFiniteSet({}) /\ Cardinality({}) = 0
  BY FS_EmptySet
<1>2. ASSUME NEW S, IsFiniteSet(S), NEW x, x \notin S
      PROVE  IsFiniteSet(S \cup {x}) /\ Cardinality(S \cup {x}) = Cardinality(S) + 1
  BY <1>2, FS_AddElement
<1> DEFINE S1 == {h[1]}
           S2 == {h[1], h[2]}
           S3 == {h[1], h[2], h[3]}
           S4 == {h[1], h[2], h[3], h[4]}
           S5 == {h[1], h[2], h[3], h[4], h[5]}
<1>3. /\ S1 = {} \cup {h[1]} /\ S2 = S1 \cup {h[2]} /\ S3 = S2 \cup {h[3]} /\ S4 = S3 \cup {h[4]}
      /\ S5 = S4 \cup {h[5]} /\ h[1] \notin {} /\ h[2] \notin S1 /\ h[3] \notin S2 /\ h[4] \notin S3
      /\ h[5] \notin S4
  BY DEF Distinct
<1>4. Tables!Five!FacesOf(h) = S5 /\ S5 \in SUBSET (0 .. FACES - 1)
  BY FacesOfHand
<1> HIDE DEF S1, S2, S3, S4, S5
<1>5. IsFiniteSet(S1) /\ Cardinality(S1) = 1
  BY FS_Singleton DEF S1
<1>6. IsFiniteSet(S2) /\ Cardinality(S2) = 2
  BY <1>2, <1>3, <1>5
<1>7. IsFiniteSet(S3) /\ Cardinality(S3) = 3
  BY <1>2, <1>3, <1>6
<1>8. IsFiniteSet(S4) /\ Cardinality(S4) = 4
  BY <1>2, <1>3, <1>7
<1>9. IsFiniteSet(S5) /\ Cardinality(S5) = 5
  <2>1. IsFiniteSet(S4 \cup {h[5]}) /\ Cardinality(S4 \cup {h[5]}) = Cardinality(S4) + 1
    BY <1>2, <1>3, <1>8
  <2> QED BY <1>3, <1>8, <2>1
<1> QED BY <1>4, <1>9 DEF FiveSets

LEMMA FlushHands ==
  ASSUME NEW s \in 1 .. 11, Flushes(s), NEW h \in Tables!Five!Sections[s]
  PROVE  /\ h \in [1 .. 5 -> 0 .. FACES - 1] /\ Distinct(h)
         /\ \E t \in {1, 5, 6} : h \in Tables!Five!Sections[t] /\ s = t + (IF t = 1 THEN 6 ELSE 5)
<1>1. s \in {7, 10, 11}
  BY DEF Flushes, Tables!Five!FlushSections
<1>2. CASE s = 7
  <2>1. h \in Tables!Five!Unpaired /\ h \in Tables!Five!Sections[1]
    BY <1>2, SectionsAre
  <2>2. h \in [1 .. 5 -> 0 .. FACES - 1] /\ Distinct(h)
    BY <2>1, UnpairedAre, FacesAre DEF Distinct
  <2> QED BY <1>2, <2>1, <2>2
<1>3. CASE s = 10
  <2>1. h \in Tables!Five!LowStraight /\ h \in Tables!Five!Sections[5]
    BY <1>3, SectionsAre
  <2>2. h \in [1 .. 5 -> 0 .. FACES - 1] /\ Distinct(h)
    BY <2>1, LowStraightIs, FacesAre DEF Distinct
  <2> QED BY <1>3, <2>1, <2>2
<1>4. CASE s = 11
  <2>1. h \in Tables!Five!Straights /\ h \in Tables!Five!Sections[6]
    BY <1>4, SectionsAre
  <2>2. h \in [1 .. 5 -> 0 .. FACES - 1] /\ Distinct(h)
    BY <2>1, StraightsAre, FacesAre DEF Distinct
  <2> QED BY <1>4, <2>1, <2>2
<1> QED BY <1>1, <1>2, <1>3, <1>4

LEMMA FacesTellFlushes ==
  ASSUME NEW s \in 1 .. 11, NEW t \in 1 .. 11, Flushes(s), Flushes(t),
         NEW g \in Tables!Five!Sections[s], NEW h \in Tables!Five!Sections[t],
         Tables!Five!FacesOf(g) = Tables!Five!FacesOf(h)
  PROVE  s = t /\ g = h
<1>1. PICK x \in {1, 5, 6} : g \in Tables!Five!Sections[x] /\ s = x + (IF x = 1 THEN 6 ELSE 5)
  BY FlushHands
<1>2. PICK y \in {1, 5, 6} : h \in Tables!Five!Sections[y] /\ t = y + (IF y = 1 THEN 6 ELSE 5)
  BY FlushHands
<1>3. Same(g, h)
  BY FlushHands, DistinctCopies DEF Same
<1>4. x \in Keyed /\ y \in Keyed
  BY DEF Keyed
<1>5. x = y /\ g = h
  BY <1>1, <1>2, <1>3, <1>4, SameIsOne
<1> QED BY <1>1, <1>2, <1>5

LEMMA TakeLeast ==
  ASSUME NEW S \in SUBSET Nat, IsFiniteSet(S), NEW n \in Nat, Cardinality(S) = n + 1
  PROVE  \E x \in S : /\ \A y \in S \ {x} : x < y
                      /\ IsFiniteSet(S \ {x}) /\ Cardinality(S \ {x}) = n
<1>1. S # {}
  BY FS_EmptySet
<1>2. PICK x \in S : \A y \in S : x <= y
  BY <1>1, LeastNat
<1>3. IsFiniteSet(S \ {x}) /\ Cardinality(S \ {x}) = Cardinality(S) - 1
  BY FS_RemoveElement
<1>4. \A y \in S \ {x} : x < y
  BY <1>2
<1> QED BY <1>3, <1>4

LEMMA FiveOf ==
  ASSUME NEW S \in FiveSets
  PROVE  \E d \in [1 .. 5 -> 0 .. FACES - 1] :
           /\ d[1] < d[2] /\ d[2] < d[3] /\ d[3] < d[4] /\ d[4] < d[5]
           /\ Tables!Five!FacesOf(d) = S
<1>1. S \in SUBSET Nat /\ IsFiniteSet(S) /\ Cardinality(S) = 4 + 1
  <2>1. IsFiniteSet(0 .. FACES - 1)
    BY FacesAre, FS_Interval
  <2>2. S \subseteq 0 .. FACES - 1 /\ Cardinality(S) = 5
    BY DEF FiveSets
  <2>3. IsFiniteSet(S)
    BY <2>1, <2>2, FS_Subset
  <2>4. S \in SUBSET Nat
    BY <2>2, FacesAre
  <2> QED BY <2>2, <2>3, <2>4
<1>2. PICK a \in S : /\ \A y \in S \ {a} : a < y
                     /\ IsFiniteSet(S \ {a}) /\ Cardinality(S \ {a}) = 3 + 1
  BY <1>1, TakeLeast
<1> DEFINE T == S \ {a}
<1>3. T \in SUBSET Nat /\ IsFiniteSet(T) /\ Cardinality(T) = 3 + 1
  BY <1>1, <1>2
<1> HIDE DEF T
<1>4. PICK b \in T : /\ \A y \in T \ {b} : b < y
                     /\ IsFiniteSet(T \ {b}) /\ Cardinality(T \ {b}) = 2 + 1
  BY <1>3, TakeLeast
<1> DEFINE U == T \ {b}
<1>5. U \in SUBSET Nat /\ IsFiniteSet(U) /\ Cardinality(U) = 2 + 1
  BY <1>3, <1>4
<1> HIDE DEF U
<1>6. PICK c \in U : /\ \A y \in U \ {c} : c < y
                     /\ IsFiniteSet(U \ {c}) /\ Cardinality(U \ {c}) = 1 + 1
  BY <1>5, TakeLeast
<1> DEFINE V == U \ {c}
<1>7. V \in SUBSET Nat /\ IsFiniteSet(V) /\ Cardinality(V) = 1 + 1
  BY <1>5, <1>6
<1> HIDE DEF V
<1>8. PICK d \in V : /\ \A y \in V \ {d} : d < y
                     /\ IsFiniteSet(V \ {d}) /\ Cardinality(V \ {d}) = 0 + 1
  BY <1>7, TakeLeast
<1> DEFINE W == V \ {d}
<1>9. W \in SUBSET Nat /\ IsFiniteSet(W) /\ Cardinality(W) = 0 + 1
  BY <1>7, <1>8
<1> HIDE DEF W
<1>10. PICK e \in W : IsFiniteSet(W \ {e}) /\ Cardinality(W \ {e}) = 0
  BY <1>9, TakeLeast
<1>11. W \ {e} = {}
  BY <1>10, FS_EmptySet
<1>12. S = {a, b, c, d, e}
  BY <1>11 DEF T, U, V, W
<1>13. a < b /\ b < c /\ c < d /\ d < e
  BY <1>2, <1>4, <1>6, <1>8 DEF T, U, V, W
<1> DEFINE h == <<a, b, c, d, e>>
<1>14. h[1] = a /\ h[2] = b /\ h[3] = c /\ h[4] = d /\ h[5] = e
  OBVIOUS
<1>15. h \in [1 .. 5 -> 0 .. FACES - 1]
  <2>1. S \subseteq 0 .. FACES - 1
    BY DEF FiveSets
  <2> QED BY <1>12, <2>1
<1>16. Tables!Five!FacesOf(h) = S
  BY <1>12, <1>14, FacesOfHand
<1> HIDE DEF h
<1> QED BY <1>13, <1>14, <1>15, <1>16

LEMMA EachFlushComes ==
  ASSUME NEW S
  PROVE  S \in FiveSets <=> \E s \in 1 .. 11 : /\ Flushes(s)
                                               /\ \E h \in Tables!Five!Sections[s] : S = Tables!Five!FacesOf(h)
<1>1. ASSUME NEW s \in 1 .. 11, Flushes(s), NEW h \in Tables!Five!Sections[s]
      PROVE  Tables!Five!FacesOf(h) \in FiveSets
  BY <1>1, FlushHands, DistinctFaces
<1>2. ASSUME S \in FiveSets
      PROVE  \E s \in 1 .. 11 : Flushes(s) /\ \E h \in Tables!Five!Sections[s] : S = Tables!Five!FacesOf(h)
  <2>1. PICK d \in [1 .. 5 -> 0 .. FACES - 1] :
          /\ d[1] < d[2] /\ d[2] < d[3] /\ d[3] < d[4] /\ d[4] < d[5]
          /\ Tables!Five!FacesOf(d) = S
    BY <1>2, FiveOf
  <2>2. d \in Tables!Five!Dealt /\ Distinct(d)
    <3>1. d[1] \in Int /\ d[2] \in Int /\ d[3] \in Int /\ d[4] \in Int /\ d[5] \in Int
      BY FacesAre
    <3> QED BY <2>1, <3>1, DealtIs DEF Distinct
  <2>3. PICK t \in Keyed : \E h \in Tables!Five!Sections[t] : Same(h, d)
    BY <2>2, EachComes DEF Comes
  <2>4. PICK h \in Tables!Five!Sections[t] : Same(h, d)
    BY <2>3
  <2>5. Tables!Five!FacesOf(h) = S
    BY <2>1, <2>4, SameTimes
  <2>6. Tables!Five!Times(h, 2) = {} /\ Tables!Five!Times(h, 3) = {} /\ Tables!Five!Times(h, 4) = {}
    <3>1. \A f : Tables!Five!Copies(h, f) \in {0, 1}
      BY <2>2, <2>4, DistinctCopies DEF Same
    <3> QED BY <3>1 DEF Tables!Five!Times
  <2>7. t \in {1, 5, 6}
    <3>1. t # 2
      BY <2>6, SectionsAre, PairsAre
    <3>2. t # 3
      BY <2>6, SectionsAre, TwoPairsAre
    <3>3. t # 4
      BY <2>6, SectionsAre, TripsAre
    <3>4. t # 8
      BY <2>6, SectionsAre, FullHousesAre
    <3>5. t # 9
      BY <2>6, SectionsAre, QuadsAre
    <3> QED BY <3>1, <3>2, <3>3, <3>4, <3>5 DEF Keyed
  <2>8. /\ 7 \in 1 .. 11 /\ 10 \in 1 .. 11 /\ 11 \in 1 .. 11
        /\ Flushes(7) /\ Flushes(10) /\ Flushes(11)
    BY DEF Flushes, Tables!Five!FlushSections
  <2> QED BY <2>5, <2>7, <2>8, SectionsAre
<1> QED BY <1>1, <1>2

-------------------------------------------------------------------------------
(***************************************************************************)
(* The hands of a section that have been visited, the keys and the sets of *)
(* faces that they got ranks by, and how a step adds one to them.          *)
(***************************************************************************)
VisitedIn(s) == {h \in Tables!Five!Sections[s] : s < section \/ (s = section /\ h \notin todo)}
KeysVisited == {Tables!Five!Key(h) : h \in UNION {VisitedIn(s) : s \in Keyed}}
FlushesVisited == {Tables!Five!FacesOf(h) : h \in UNION {VisitedIn(s) : s \in Tables!Five!FlushSections}}

LEMMA VisitedStep ==
  ASSUME Visiting, Tables!Five!Next, NEW s \in 1 .. 11
  PROVE  VisitedIn(s)' = IF s = section THEN VisitedIn(s) \cup {Tables!Five!Hand} ELSE VisitedIn(s)
<1> DEFINE h == Tables!Five!Hand
<1> HIDE DEF h
<1>1. section \in 1 .. 11 /\ h \in todo /\ h \in Tables!Five!Sections[section] /\ Tables!Five!Advance(h)
  BY StepOfRanking DEF h
<1>2. todo \subseteq Tables!Five!Sections[section]
  BY <1>1 DEF Visiting
<1>3. CASE todo # {h}
  <2>1. section' = section /\ todo' = todo \ {h}
    BY <1>1, <1>3 DEF Tables!Five!Advance
  <2> QED BY <1>1, <1>2, <2>1 DEF VisitedIn, h
<1>4. CASE todo = {h}
  <2>1. section' = section + 1
    BY <1>1, <1>4 DEF Tables!Five!Advance
  <2>2. section # 11 => todo' = Tables!Five!Sections[section + 1]
    BY <1>1, <1>4, SectionsAre DEF Tables!Five!Advance
  <2>3. CASE s = section
    BY <1>1, <1>2, <1>4, <2>1, <2>3 DEF VisitedIn, h
  <2>4. CASE s = section + 1
    <3>1. todo' = Tables!Five!Sections[s]
      BY <1>1, <2>2, <2>4
    <3> QED BY <1>1, <2>1, <2>4, <3>1 DEF VisitedIn
  <2>5. CASE s < section \/ s > section + 1
    BY <1>1, <2>1, <2>5 DEF VisitedIn
  <2> QED BY <1>1, <2>3, <2>4, <2>5
<1> QED BY <1>3, <1>4

LEMMA SectionsSplit ==
  /\ Keyed \subseteq 1 .. 11 /\ Tables!Five!FlushSections \subseteq 1 .. 11
  /\ \A s \in 1 .. 11 : s \in Keyed <=> s \notin Tables!Five!FlushSections
  /\ \A s \in Tables!Five!FlushSections : Flushes(s)
<1>1. \A s \in 1 .. 11 : s \in Keyed <=> s \notin Tables!Five!FlushSections
  BY SectionsAre DEF Keyed, Tables!Five!FlushSections
<1> QED BY <1>1 DEF Keyed, Tables!Five!FlushSections, Flushes

LEMMA KeyVisited ==
  ASSUME Visiting, Tables!Five!Next, section \notin Tables!Five!FlushSections
  PROVE  /\ KeysVisited' = KeysVisited \cup {Tables!Five!Key(Tables!Five!Hand)}
         /\ Tables!Five!Key(Tables!Five!Hand) \notin KeysVisited
         /\ FlushesVisited' = FlushesVisited
<1> DEFINE h == Tables!Five!Hand
<1> HIDE DEF h
<1>1. section \in Keyed /\ section \in 1 .. 11 /\ h \in todo /\ h \in Tables!Five!Sections[section]
  BY StepOfRanking, SectionsSplit DEF h
<1>2. \A s \in Keyed : VisitedIn(s)' = IF s = section THEN VisitedIn(s) \cup {h} ELSE VisitedIn(s)
  BY VisitedStep, SectionsSplit DEF h
<1>3. \A s \in Tables!Five!FlushSections : VisitedIn(s)' = VisitedIn(s)
  BY VisitedStep, SectionsSplit
<1>4. UNION {VisitedIn(s)' : s \in Keyed} = (UNION {VisitedIn(s) : s \in Keyed}) \cup {h}
  <2>1. \A x : x \in UNION {VisitedIn(s)' : s \in Keyed} <=> \E s \in Keyed : x \in VisitedIn(s)'
    OBVIOUS
  <2>2. \A x : x \in UNION {VisitedIn(s) : s \in Keyed} <=> \E s \in Keyed : x \in VisitedIn(s)
    OBVIOUS
  <2>3. section \in Keyed
    BY <1>1
  <2>4. \A x : (\E s \in Keyed : x \in VisitedIn(s)') <=> (\E s \in Keyed : x \in VisitedIn(s)) \/ x = h
    BY <1>2, <2>3
  <2> QED BY <2>1, <2>2, <2>4
<1>5. UNION {VisitedIn(s)' : s \in Tables!Five!FlushSections}
        = UNION {VisitedIn(s) : s \in Tables!Five!FlushSections}
  BY <1>3
<1>6. KeysVisited' = KeysVisited \cup {Tables!Five!Key(h)}
  <2> DEFINE U == UNION {VisitedIn(s) : s \in Keyed}
             W == UNION {VisitedIn(s)' : s \in Keyed}
  <2>1. KeysVisited' = {Tables!Five!Key(g) : g \in W} /\ KeysVisited = {Tables!Five!Key(g) : g \in U}
    BY DEF KeysVisited, Tables!Five!Key
  <2>2. W = U \cup {h}
    BY <1>4
  <2> HIDE DEF U, W
  <2> QED BY <2>1, <2>2
<1>7. FlushesVisited' = FlushesVisited
  BY <1>5 DEF FlushesVisited, Tables!Five!FacesOf
<1>8. ASSUME Tables!Five!Key(h) \in KeysVisited
      PROVE  FALSE
  <2>0. PICK t \in Keyed : \E g \in VisitedIn(t) : Tables!Five!Key(g) = Tables!Five!Key(h)
    BY <1>8 DEF KeysVisited
  <2>1. PICK g \in VisitedIn(t) : Tables!Five!Key(g) = Tables!Five!Key(h)
    BY <2>0
  <2>2. g \in Tables!Five!Sections[t]
    BY <2>1 DEF VisitedIn
  <2>3. t = section /\ g = h
    BY <1>1, <2>1, <2>2, KeysTellHands
  <2> QED BY <1>1, <2>1, <2>3 DEF VisitedIn
<1> QED BY <1>6, <1>7, <1>8 DEF h

LEMMA FlushVisited ==
  ASSUME Visiting, Tables!Five!Next, section \in Tables!Five!FlushSections
  PROVE  /\ FlushesVisited' = FlushesVisited \cup {Tables!Five!FacesOf(Tables!Five!Hand)}
         /\ Tables!Five!FacesOf(Tables!Five!Hand) \notin FlushesVisited
         /\ Tables!Five!FacesOf(Tables!Five!Hand) \in FiveSets
         /\ KeysVisited' = KeysVisited
<1> DEFINE h == Tables!Five!Hand
<1> HIDE DEF h
<1>1. /\ Flushes(section) /\ section \in 1 .. 11
      /\ h \in todo /\ h \in Tables!Five!Sections[section]
  BY StepOfRanking, SectionsSplit DEF h
<1>2. \A s \in Tables!Five!FlushSections :
        VisitedIn(s)' = IF s = section THEN VisitedIn(s) \cup {h} ELSE VisitedIn(s)
  BY VisitedStep, SectionsSplit DEF h
<1>3. \A s \in Keyed : VisitedIn(s)' = VisitedIn(s)
  BY VisitedStep, SectionsSplit
<1>4. UNION {VisitedIn(s)' : s \in Tables!Five!FlushSections}
        = (UNION {VisitedIn(s) : s \in Tables!Five!FlushSections}) \cup {h}
  <2>1. \A x : x \in UNION {VisitedIn(s)' : s \in Tables!Five!FlushSections} <=> \E s \in Tables!Five!FlushSections : x \in VisitedIn(s)'
    OBVIOUS
  <2>2. \A x : x \in UNION {VisitedIn(s) : s \in Tables!Five!FlushSections} <=> \E s \in Tables!Five!FlushSections : x \in VisitedIn(s)
    OBVIOUS
  <2>3. section \in Tables!Five!FlushSections
    BY <1>1
  <2>4. \A x : (\E s \in Tables!Five!FlushSections : x \in VisitedIn(s)') <=> (\E s \in Tables!Five!FlushSections : x \in VisitedIn(s)) \/ x = h
    BY <1>2, <2>3
  <2> QED BY <2>1, <2>2, <2>4
<1>5. UNION {VisitedIn(s)' : s \in Keyed} = UNION {VisitedIn(s) : s \in Keyed}
  BY <1>3
<1>6. FlushesVisited' = FlushesVisited \cup {Tables!Five!FacesOf(h)}
  <2> DEFINE U == UNION {VisitedIn(s) : s \in Tables!Five!FlushSections}
             W == UNION {VisitedIn(s)' : s \in Tables!Five!FlushSections}
  <2>1. FlushesVisited' = {Tables!Five!FacesOf(g) : g \in W} /\ FlushesVisited = {Tables!Five!FacesOf(g) : g \in U}
    BY DEF FlushesVisited, Tables!Five!FacesOf
  <2>2. W = U \cup {h}
    BY <1>4
  <2> HIDE DEF U, W
  <2> QED BY <2>1, <2>2
<1>7. KeysVisited' = KeysVisited
  BY <1>5 DEF KeysVisited, Tables!Five!Key
<1>8. ASSUME Tables!Five!FacesOf(h) \in FlushesVisited
      PROVE  FALSE
  <2>0. PICK t \in Tables!Five!FlushSections :
          \E g \in VisitedIn(t) : Tables!Five!FacesOf(g) = Tables!Five!FacesOf(h)
    BY <1>8 DEF FlushesVisited
  <2>1. PICK g \in VisitedIn(t) : Tables!Five!FacesOf(g) = Tables!Five!FacesOf(h)
    BY <2>0
  <2>2. g \in Tables!Five!Sections[t] /\ t \in 1 .. 11 /\ Flushes(t)
    BY <2>1, SectionsSplit DEF VisitedIn
  <2>3. t = section /\ g = h
    BY <1>1, <2>1, <2>2, FacesTellFlushes
  <2> QED BY <1>1, <2>1, <2>3 DEF VisitedIn
<1>9. Tables!Five!FacesOf(h) \in FiveSets
  BY <1>1, FlushHands, DistinctFaces
<1> QED BY <1>6, <1>7, <1>8, <1>9 DEF h

(***************************************************************************)
(* Each visit takes one number, and none is left out: the numbers that     *)
(* have been given are as many as the places they were given to.           *)
(***************************************************************************)
Counted ==
  /\ DOMAIN ranks = KeysVisited /\ IsFiniteSet(KeysVisited)
  /\ DOMAIN FLUSH_RANKS = FlushesVisited \cup (Tables!SetsToFill \ toFill)
  /\ IsFiniteSet(FlushesVisited) /\ FlushesVisited \subseteq FiveSets
  /\ currentRank \in Nat
  /\ currentRank = 1 + Cardinality(KeysVisited) + Cardinality(FlushesVisited)
  /\ toFill \subseteq Tables!SetsToFill /\ (todo # {} => toFill = Tables!SetsToFill)

(***************************************************************************)
(* The numbers that have been given are below the next one; and four aces, *)
(* whose key is the largest, come last of the hands with a key.            *)
(***************************************************************************)
Numbered ==
  /\ \A k \in KeysVisited : ranks[k] \in 1 .. currentRank - 1
  /\ \A S \in FlushesVisited : FLUSH_RANKS[S] \in 1 .. currentRank - 1
AcesLast ==
  /\ lastHash \in Nat
  /\ section = 9 => FourAces \in todo
  /\ section > 9 => lastHash = Tables!Five!Key(FourAces)

Ranked == Visiting /\ Counted /\ Numbered /\ AcesLast

LEMMA AssignedIs ==
  ASSUME NEW f, NEW x, NEW y
  PROVE  /\ DOMAIN Tables!Five!Assigned(f, x, y) = DOMAIN f \cup {x}
         /\ Tables!Five!Assigned(f, x, y)[x] = y
         /\ \A z \in DOMAIN f : z # x => Tables!Five!Assigned(f, x, y)[z] = f[z]
BY DEF Tables!Five!Assigned

LEMMA NotToFill ==
  /\ FiveSets \cap Tables!SetsToFill = {}
  /\ \A S : S \in Tables!SetsToFill
       <=> S \in SUBSET (0 .. FACES - 1) /\ (Cardinality(S) = 6 \/ Cardinality(S) = 7)
  /\ \A S : S \in FiveSets <=> S \in SUBSET (0 .. FACES - 1) /\ Cardinality(S) = 5
<1>1. \A S : S \in Tables!SetsToFill
        <=> S \in SUBSET (0 .. FACES - 1) /\ (Cardinality(S) = 6 \/ Cardinality(S) = 7)
  BY SameCardinality DEF Tables!SetsToFill, Tables!Faces
<1> QED BY <1>1 DEF FiveSets

LEMMA RankedInit == Init => Ranked
<1> SUFFICES ASSUME Init PROVE Ranked
  OBVIOUS
<1>1. /\ section = 1 /\ todo = Tables!Five!Sections[1] /\ currentRank = 1 /\ lastHash = 0
      /\ ranks = [k \in {} |-> 0] /\ FLUSH_RANKS = [S \in {} |-> 0] /\ toFill = Tables!SetsToFill
  BY DEF Init, Tables!Init, Tables!Five!Init
<1>2. \A s \in 1 .. 11 : VisitedIn(s) = {}
  BY <1>1 DEF VisitedIn
<1>3. KeysVisited = {} /\ FlushesVisited = {}
  BY <1>2, SectionsSplit DEF KeysVisited, FlushesVisited
<1>4. Counted
  BY <1>1, <1>3, FS_EmptySet DEF Counted
<1>5. Numbered /\ AcesLast
  BY <1>1, <1>3 DEF Numbered, AcesLast
<1> QED BY <1>4, <1>5, VisitingInit DEF Ranked

LEMMA AcesStep ==
  ASSUME Visiting, AcesLast, Tables!Five!Next
  PROVE  AcesLast'
<1> DEFINE h == Tables!Five!Hand
<1> HIDE DEF h
<1>1. /\ section \in 1 .. 11 /\ h \in todo /\ h \in Tables!Five!Sections[section]
      /\ Tables!Five!IsFirst(h, todo) /\ Tables!Five!Advance(h)
      /\ Tables!Five!RankByKey(h) \/ Tables!Five!RankFlush(h)
  BY StepOfRanking DEF h
<1>2. lastHash' \in Nat
  <2>1. Tables!Five!Key(h) \in Nat
    BY <1>1, HandsOfSections, KeyIsNat
  <2> QED BY <1>1, <2>1 DEF Tables!Five!RankByKey, Tables!Five!RankFlush, AcesLast
<1>3. section' = IF todo = {h} THEN section + 1 ELSE section
  BY <1>1 DEF Tables!Five!Advance
<1>4. ASSUME section' = 9
      PROVE  FourAces \in todo'
  <2>1. CASE todo = {h}
    <3>1. section = 8
      BY <1>1, <1>3, <1>4, <2>1
    <3>2. todo' = Tables!Five!Sections[9]
      BY <1>1, <2>1, <3>1, SectionsAre DEF Tables!Five!Advance
    <3> QED BY <3>2, FourAcesLast, SectionsAre
  <2>2. CASE todo # {h}
    <3>1. section = 9 /\ todo' = todo \ {h} /\ FourAces \in todo
      BY <1>1, <1>3, <1>4, <2>2 DEF Tables!Five!Advance, AcesLast
    <3>2. todo \subseteq Tables!Five!Quads /\ FourAces \in Tables!Five!Quads
      BY <3>1, FourAcesLast, SectionsAre DEF Visiting
    <3>3. ASSUME h = FourAces
          PROVE  FALSE
      <4>1. PICK g \in todo : g # h
        BY <1>1, <2>2
      <4>2. Tables!Five!Before(h, g) /\ Tables!Five!Before(g, h)
        BY <1>1, <3>2, <3>3, <4>1, FourAcesLast DEF Tables!Five!IsFirst
      <4>3. g \in [1 .. 5 -> Nat] /\ h \in [1 .. 5 -> Nat]
        BY <1>1, <4>1, HandsLeft
      <4> QED BY <4>2, <4>3, BeforeIs
    <3> QED BY <3>1, <3>3
  <2> QED BY <2>1, <2>2
<1>5. ASSUME section' > 9
      PROVE  lastHash' = Tables!Five!Key(FourAces)
  <2>1. CASE section = 9
    <3>1. todo = {h} /\ FourAces \in todo
      BY <1>3, <1>5, <2>1 DEF AcesLast
    <3>2. Tables!Five!RankByKey(h)
      BY <1>1, <2>1 DEF Tables!Five!RankFlush, Tables!Five!FlushSections
    <3> QED BY <3>1, <3>2 DEF Tables!Five!RankByKey
  <2>2. CASE section # 9
    <3>1. section \in {10, 11}
      BY <1>1, <1>3, <1>5, <2>2, SectionsAre
    <3>2. Tables!Five!RankFlush(h)
      BY <1>1, <3>1 DEF Tables!Five!RankByKey, Tables!Five!FlushSections
    <3> QED BY <3>1, <3>2 DEF Tables!Five!RankFlush, AcesLast
  <2> QED BY <2>1, <2>2
<1>6. (Tables!Five!Key(FourAces))' = Tables!Five!Key(FourAces)
  BY DEF Tables!Five!Key, FourAces
<1> QED BY <1>2, <1>4, <1>5, <1>6 DEF AcesLast

LEMMA CountedStep ==
  ASSUME Ranked, Tables!Five!Next, UNCHANGED toFill
  PROVE  Counted' /\ Numbered'
<1> USE DEF Ranked
<1> DEFINE h == Tables!Five!Hand
           k == Tables!Five!Key(h)
           S == Tables!Five!FacesOf(h)
<1> HIDE DEF h
<1>1. section \in 1 .. 11 /\ h \in todo /\ (Tables!Five!RankByKey(h) \/ Tables!Five!RankFlush(h))
  BY StepOfRanking DEF h
<1>2. toFill' = Tables!SetsToFill /\ toFill = Tables!SetsToFill /\ Tables!SetsToFill' = Tables!SetsToFill
  <2>1. toFill = Tables!SetsToFill /\ toFill' = toFill
    <3>1. todo # {}
      <4>1. h \in todo
        BY <1>1
      <4> QED BY <4>1
    <3>2. toFill = Tables!SetsToFill
      BY <3>1 DEF Counted
    <3> QED BY <3>2
  <2>2. Tables!SetsToFill' = Tables!SetsToFill
    BY DEF Tables!SetsToFill, Tables!Faces
  <2> QED BY <2>1, <2>2
<1>3. FiveSets' = FiveSets
  BY DEF FiveSets
<1>4. \A T : IsFiniteSet(T) => Cardinality(T) \in Nat
  BY FS_CardinalityType
<1>5. CASE section \notin Tables!Five!FlushSections
  <2>1. /\ KeysVisited' = KeysVisited \cup {k} /\ k \notin KeysVisited
        /\ FlushesVisited' = FlushesVisited
    BY <1>5, KeyVisited DEF h
  <2>2. /\ ranks' = Tables!Five!Assigned(ranks, k, currentRank)
        /\ currentRank' = currentRank + 1 /\ FLUSH_RANKS' = FLUSH_RANKS
    BY <1>1, <1>5 DEF Tables!Five!RankByKey, Tables!Five!RankFlush
  <2>3. IsFiniteSet(KeysVisited') /\ Cardinality(KeysVisited') = Cardinality(KeysVisited) + 1
    BY <2>1, FS_AddElement DEF Counted
  <2>4. DOMAIN ranks' = KeysVisited'
    BY <2>1, <2>2, AssignedIs DEF Counted
  <2>5. Counted'
    BY <1>2, <1>3, <1>4, <2>1, <2>2, <2>3, <2>4 DEF Counted
  <2>6. currentRank \in Nat \ {0}
    BY <1>4 DEF Counted
  <2>7. \A x \in KeysVisited' : ranks'[x] \in 1 .. currentRank' - 1
    <3>1. ranks'[k] = currentRank /\ \A x \in KeysVisited : ranks'[x] = ranks[x]
      <4> DEFINE f == Tables!Five!Assigned(ranks, k, currentRank)
      <4>1. f[k] = currentRank /\ \A z \in DOMAIN ranks : z # k => f[z] = ranks[z]
        <5> HIDE DEF k
        <5> QED BY DEF Tables!Five!Assigned
      <4>2. ranks' = f /\ DOMAIN ranks = KeysVisited
        BY <2>2 DEF Counted
      <4> HIDE DEF f, k
      <4> QED BY <2>1, <4>1, <4>2
    <3> QED BY <2>1, <2>2, <2>6, <3>1 DEF Numbered
  <2>8. Numbered'
    BY <2>1, <2>2, <2>6, <2>7 DEF Numbered
  <2> QED BY <2>5, <2>8
<1>6. CASE section \in Tables!Five!FlushSections
  <2>1. /\ FlushesVisited' = FlushesVisited \cup {S} /\ S \notin FlushesVisited /\ S \in FiveSets
        /\ KeysVisited' = KeysVisited
    BY <1>6, FlushVisited DEF h
  <2>2. /\ FLUSH_RANKS' = Tables!Five!Assigned(FLUSH_RANKS, S, currentRank)
        /\ currentRank' = currentRank + 1 /\ ranks' = ranks
    BY <1>1, <1>6 DEF Tables!Five!RankByKey, Tables!Five!RankFlush
  <2>3. IsFiniteSet(FlushesVisited') /\ Cardinality(FlushesVisited') = Cardinality(FlushesVisited) + 1
    BY <2>1, FS_AddElement DEF Counted
  <2>4. DOMAIN FLUSH_RANKS = FlushesVisited
    BY <1>2 DEF Counted
  <2>5. DOMAIN FLUSH_RANKS' = FlushesVisited'
    BY <2>1, <2>2, <2>4, AssignedIs
  <2>6. Counted'
    BY <1>2, <1>3, <1>4, <2>1, <2>2, <2>3, <2>5 DEF Counted
  <2>7. currentRank \in Nat \ {0}
    BY <1>4 DEF Counted
  <2>8. \A T \in FlushesVisited' : FLUSH_RANKS'[T] \in 1 .. currentRank' - 1
    <3>1. FLUSH_RANKS'[S] = currentRank /\ \A T \in FlushesVisited : FLUSH_RANKS'[T] = FLUSH_RANKS[T]
      <4> DEFINE f == Tables!Five!Assigned(FLUSH_RANKS, S, currentRank)
      <4>1. f[S] = currentRank /\ \A T \in DOMAIN FLUSH_RANKS : T # S => f[T] = FLUSH_RANKS[T]
        <5> HIDE DEF S
        <5> QED BY DEF Tables!Five!Assigned
      <4>2. FLUSH_RANKS' = f
        BY <2>2
      <4> HIDE DEF f, S
      <4> QED BY <2>1, <2>4, <4>1, <4>2
    <3> QED BY <2>1, <2>2, <2>7, <3>1 DEF Numbered
  <2>9. Numbered'
    BY <2>1, <2>2, <2>7, <2>8 DEF Numbered
  <2> QED BY <2>6, <2>9
<1> QED BY <1>5, <1>6

(***************************************************************************)
(* What each step does to the sets that are left to fill: a step of the    *)
(* ranking nothing, FillFlush takes one of them and gives it a rank.       *)
(***************************************************************************)
RankedState == <<section, todo, currentRank, ranks, lastHash>>

LEMMA FillSteps ==
  ASSUME [Next]_vars
  PROVE  \/ Tables!Five!Next /\ UNCHANGED toFill
         \/ \E S \in toFill : Tables!FillFlush(S) /\ UNCHANGED RankedState
         \/ UNCHANGED RankedState /\ UNCHANGED <<FLUSH_RANKS, toFill>>
<1>1. CASE Generate
  BY <1>1 DEF Generate, Tables!Next, Tables!RankFive, Tables!FillFlush, Tables!RankSeven,
              Tables!fiveVars, RankedState
<1>2. ASSUME NEW p \in Factors, NEW s \in Shifts, Load(p, s)
      PROVE  UNCHANGED RankedState /\ UNCHANGED <<FLUSH_RANKS, toFill>>
  BY <1>2 DEF Load, generator, RankedState
<1>3. CASE LoadCpp
  BY <1>3 DEF LoadCpp, generator, RankedState
<1>4. CASE UNCHANGED vars
  BY <1>4 DEF vars, generator, RankedState
<1> QED BY <1>1, <1>2, <1>3, <1>4 DEF Next

LEMMA RankedKept ==
  ASSUME Ranked, UNCHANGED RankedState
  PROVE  /\ Visiting' /\ AcesLast' /\ KeysVisited' = KeysVisited /\ FlushesVisited' = FlushesVisited
         /\ FiveSets' = FiveSets /\ Tables!SetsToFill' = Tables!SetsToFill
<1>1. section' = section /\ todo' = todo /\ currentRank' = currentRank /\ ranks' = ranks /\ lastHash' = lastHash
  BY DEF RankedState
<1>2. Visiting'
  BY <1>1 DEF Visiting, Ranked
<1>3. AcesLast'
  BY <1>1 DEF AcesLast, Ranked, Tables!Five!Key, FourAces
<1>4. \A s : VisitedIn(s)' = VisitedIn(s)
  BY <1>1 DEF VisitedIn
<1>5. KeysVisited' = KeysVisited
  BY <1>4 DEF KeysVisited, Tables!Five!Key
<1>6. FlushesVisited' = FlushesVisited
  BY <1>4 DEF FlushesVisited, Tables!Five!FacesOf
<1> QED BY <1>2, <1>3, <1>5, <1>6 DEF FiveSets, Tables!SetsToFill, Tables!Faces

LEMMA RankedNext == Ranked /\ [Next]_vars => Ranked'
<1> SUFFICES ASSUME Ranked, [Next]_vars PROVE Ranked'
  OBVIOUS
<1>1. CASE Tables!Five!Next /\ UNCHANGED toFill
  BY <1>1, VisitingStep, AcesStep, CountedStep DEF Ranked
<1>2. ASSUME NEW S \in toFill, Tables!FillFlush(S), UNCHANGED RankedState
      PROVE  Ranked'
  <2>1. /\ Visiting' /\ AcesLast' /\ KeysVisited' = KeysVisited /\ FlushesVisited' = FlushesVisited
        /\ FiveSets' = FiveSets /\ Tables!SetsToFill' = Tables!SetsToFill
    BY <1>2, RankedKept
  <2>2. todo = {} /\ todo' = {} /\ toFill' = toFill \ {S} /\ currentRank' = currentRank /\ ranks' = ranks
    BY <1>2 DEF Tables!FillFlush, Tables!Five!Done, RankedState
  <2>3. S \in Tables!SetsToFill /\ S \notin FlushesVisited
    BY NotToFill DEF Ranked, Counted
  <2>4. PICK rank : FLUSH_RANKS' = Tables!Five!Assigned(FLUSH_RANKS, S, rank)
    BY <1>2 DEF Tables!FillFlush
  <2> DEFINE f == Tables!Five!Assigned(FLUSH_RANKS, S, rank)
  <2>f. DOMAIN f = DOMAIN FLUSH_RANKS \cup {S} /\ \A T \in DOMAIN FLUSH_RANKS : T # S => f[T] = FLUSH_RANKS[T]
    BY DEF Tables!Five!Assigned
  <2>g. FLUSH_RANKS' = f
    BY <2>4
  <2> HIDE DEF f
  <2>h. DOMAIN FLUSH_RANKS = FlushesVisited \cup (Tables!SetsToFill \ toFill)
    BY DEF Ranked, Counted
  <2>5. DOMAIN FLUSH_RANKS' = FlushesVisited \cup (Tables!SetsToFill \ toFill')
    <3>1. Tables!SetsToFill \ toFill' = (Tables!SetsToFill \ toFill) \cup {S}
      BY <2>2, <2>3
    <3> QED BY <2>f, <2>g, <2>h, <3>1
  <2>6. \A T \in FlushesVisited : FLUSH_RANKS'[T] = FLUSH_RANKS[T]
    BY <2>3, <2>f, <2>g, <2>h
  <2>7. Counted'
    BY <2>1, <2>2, <2>5 DEF Ranked, Counted
  <2>8. Numbered'
    BY <2>1, <2>2, <2>6 DEF Ranked, Numbered
  <2> QED BY <2>1, <2>7, <2>8 DEF Ranked
<1>3. CASE UNCHANGED RankedState /\ UNCHANGED <<FLUSH_RANKS, toFill>>
  <2>1. /\ Visiting' /\ AcesLast' /\ KeysVisited' = KeysVisited /\ FlushesVisited' = FlushesVisited
        /\ FiveSets' = FiveSets /\ Tables!SetsToFill' = Tables!SetsToFill
    BY <1>3, RankedKept
  <2>2. Counted' /\ Numbered'
    BY <1>3, <2>1 DEF Ranked, Counted, Numbered, RankedState
  <2> QED BY <2>1, <2>2 DEF Ranked
<1> QED BY <1>1, <1>2, <1>3, FillSteps

LEMMA RankedAlways == Spec => []Ranked
BY RankedInit, RankedNext, PTL DEF Spec

(***************************************************************************)
(* When no hand is left, all of them have been visited.                    *)
(***************************************************************************)
LEMMA AllVisited ==
  ASSUME Ranked, todo = {}
  PROVE  /\ KeysVisited = {Tables!Five!Key(d) : d \in Tables!Five!Dealt}
         /\ FlushesVisited = FiveSets
         /\ lastHash = Tables!Five!Key(FourAces)
<1>1. section = 12
  BY DEF Ranked, Visiting
<1>2. \A s \in 1 .. 11 : VisitedIn(s) = Tables!Five!Sections[s]
  BY <1>1 DEF VisitedIn
<1>3. \A k : k \in KeysVisited <=> \E s \in Keyed : \E h \in Tables!Five!Sections[s] : k = Tables!Five!Key(h)
  BY <1>2, SectionsSplit DEF KeysVisited
<1>4. KeysVisited = {Tables!Five!Key(d) : d \in Tables!Five!Dealt}
  BY <1>3, KeysOfDealt
<1>5. \A S : S \in FlushesVisited
        <=> \E s \in 1 .. 11 : Flushes(s) /\ \E h \in Tables!Five!Sections[s] : S = Tables!Five!FacesOf(h)
  BY <1>2, SectionsSplit DEF FlushesVisited, Flushes
<1>6. FlushesVisited = FiveSets
  BY <1>5, EachFlushComes
<1> QED BY <1>1, <1>4, <1>6 DEF Ranked, AcesLast

(***************************************************************************)
(* "Two hands of equal rank tie" (FiveEval.h:32): every hand that can be   *)
(* dealt has a number of its own, in a place of its own, nothing else has  *)
(* one, and the last key is the largest, from which HashTable takes the    *)
(* width of a key.                                                         *)
(***************************************************************************)
THEOREM EveryHandIsRanked == Spec => []EveryHandRanked
<1>1. ASSUME Ranked
      PROVE  EveryHandRanked
  <2> SUFFICES ASSUME toFill = Tables!SetsToFill, todo = {}
               PROVE  /\ DOMAIN ranks = {Tables!Five!Key(h) : h \in Tables!Five!Dealt}
                      /\ Tables!Five!Cardinality(DOMAIN ranks) = Tables!Five!Cardinality(Tables!Five!Dealt)
                      /\ DOMAIN FLUSH_RANKS = {S \in SUBSET Tables!Five!Faces : Tables!Five!Cardinality(S) = 5}
                      /\ currentRank = 1 + Tables!Five!Cardinality(Tables!Five!Dealt)
                                         + Tables!Five!Cardinality(DOMAIN FLUSH_RANKS)
                      /\ \A k \in DOMAIN ranks : k <= lastHash
    BY DEF EveryHandRanked, Tables!Five!EveryHandRanked, Tables!Five!Done
  <2>1. /\ KeysVisited = {Tables!Five!Key(d) : d \in Tables!Five!Dealt}
        /\ FlushesVisited = FiveSets /\ lastHash = Tables!Five!Key(FourAces)
    BY <1>1, AllVisited
  <2>2. DOMAIN ranks = {Tables!Five!Key(d) : d \in Tables!Five!Dealt} /\ DOMAIN FLUSH_RANKS = FiveSets
    BY <1>1, <2>1 DEF Ranked, Counted
  <2>3. Cardinality(KeysVisited) = Cardinality(Tables!Five!Dealt)
    BY <2>1, KeysAssumption
  <2>4. FiveSets = {S \in SUBSET Tables!Five!Faces : Tables!Five!Cardinality(S) = 5}
    BY FacesAre, SameCardinality DEF FiveSets
  <2>5. currentRank = 1 + Cardinality(Tables!Five!Dealt) + Cardinality(FiveSets)
    BY <1>1, <2>1, <2>3 DEF Ranked, Counted
  <2>6. \A k \in DOMAIN ranks : k <= lastHash
    BY <2>1, <2>2, FourAcesLast
  <2> QED BY <2>1, <2>2, <2>3, <2>4, <2>5, <2>6, SameCardinality
<1> QED BY <1>1, RankedAlways, PTL

-------------------------------------------------------------------------------
(***************************************************************************)
(* Six and seven cards of a suit: every set that has been filled has the   *)
(* rank of its best set of five.                                           *)
(***************************************************************************)
LEMMA GreatestIs ==
  ASSUME NEW S \in SUBSET Nat, NEW x \in S, \A y \in S : y <= x
  PROVE  Tables!Greatest(S) = x
<1>1. \A z \in S : (\A y \in S : y <= z) => z = x
  OBVIOUS
<1> QED BY <1>1 DEF Tables!Greatest

LEMMA GreatestNat ==
  ASSUME NEW S \in SUBSET Nat, S # {}, NEW b \in Nat, \A x \in S : x <= b
  PROVE  \E q \in S : \A r \in S : r <= q
<1> DEFINE T == {b - x : x \in S}
<1>1. T \in SUBSET Nat /\ T # {}
  <2>1. \A x \in S : b - x \in Nat
    OBVIOUS
  <2> QED BY <2>1
<1>2. PICK t \in T : \A r \in T : t <= r
  <2> HIDE DEF T
  <2> QED BY <1>1, LeastNat
<1>3. PICK q \in S : t = b - q
  BY <1>2
<1>4. ASSUME NEW r \in S
      PROVE  r <= q
  <2>1. b - q <= b - r /\ q \in Nat /\ r \in Nat
    BY <1>2, <1>3
  <2> QED BY <2>1
<1> QED BY <1>4

IsBest(S) ==
  /\ \E T \in FiveSets : T \subseteq S /\ FLUSH_RANKS[S] = FLUSH_RANKS[T]
  /\ \A T \in FiveSets : T \subseteq S => FLUSH_RANKS[T] <= FLUSH_RANKS[S]
Filled == \A S \in Tables!SetsToFill \ toFill : IsBest(S)

LEMMA FiveSetsFinite ==
  \A S \in SUBSET (0 .. FACES - 1) : IsFiniteSet(S) /\ Cardinality(S) \in Nat
<1>1. IsFiniteSet(0 .. FACES - 1)
  BY FacesAre, FS_Interval
<1> QED BY <1>1, FS_Subset, FS_CardinalityType

LEMMA OnlyItself ==
  ASSUME NEW S \in FiveSets, NEW T \in FiveSets, T \subseteq S
  PROVE  T = S
<1>1. IsFiniteSet(S) /\ Cardinality(S) = 5 /\ Cardinality(T) = 5
  BY FiveSetsFinite DEF FiveSets
<1> QED BY <1>1, FS_Subset

(***************************************************************************)
(* The set with a face less comes before: its highest difference is that   *)
(* face.  So it has its rank when the set is visited.                      *)
(***************************************************************************)
LEMMA LessComesFirst ==
  ASSUME Ranked, Filled, todo = {}, NEW S \in toFill, \A T \in toFill \ {S} : Tables!Below(S, T),
         NEW f \in S
  PROVE  /\ S \ {f} \in DOMAIN FLUSH_RANKS /\ IsBest(S \ {f})
         /\ FLUSH_RANKS[S \ {f}] \in 0 .. currentRank
<1>1. S \in SUBSET (0 .. FACES - 1) /\ Cardinality(S) \in {6, 7}
  BY NotToFill DEF Ranked, Counted
<1>2. IsFiniteSet(S) /\ f \in Nat
  BY <1>1, FiveSetsFinite, FacesAre
<1> DEFINE T == S \ {f}
<1>3. Cardinality(T) = Cardinality(S) - 1 /\ T \in SUBSET (0 .. FACES - 1)
  BY <1>1, <1>2, FS_RemoveElement
<1>4. T \notin toFill
  <2> SUFFICES ASSUME T \in toFill PROVE FALSE
    OBVIOUS
  <2>1. Tables!Below(S, T)
    OBVIOUS
  <2>2. (S \ T) \cup (T \ S) = {f}
    OBVIOUS
  <2>3. Tables!Greatest({f}) = f
    BY <1>2, GreatestIs
  <2> QED BY <2>1, <2>2, <2>3 DEF Tables!Below
<1>5. FlushesVisited = FiveSets
  BY AllVisited
<1>6. \A U \in FiveSets : FLUSH_RANKS[U] \in 0 .. currentRank
  BY <1>5 DEF Ranked, Numbered, Counted
<1>7. CASE Cardinality(S) = 6
  <2>1. T \in FiveSets
    BY <1>3, <1>7 DEF FiveSets
  <2>2. T \in DOMAIN FLUSH_RANKS
    BY <1>5, <2>1 DEF Ranked, Counted
  <2>3. \A U \in FiveSets : U \subseteq T => U = T
    BY <2>1, OnlyItself
  <2>4. IsBest(T)
    <3> HIDE DEF T
    <3> QED BY <1>6, <2>1, <2>3 DEF IsBest
  <2> QED BY <1>6, <2>1, <2>2, <2>4
<1>8. CASE Cardinality(S) = 7
  <2>1. T \in Tables!SetsToFill \ toFill
    BY <1>3, <1>4, <1>8, NotToFill
  <2>2. T \in DOMAIN FLUSH_RANKS /\ IsBest(T)
    BY <2>1 DEF Ranked, Counted, Filled
  <2>3. FLUSH_RANKS[T] \in 0 .. currentRank
    BY <1>6, <2>2 DEF IsBest
  <2> QED BY <2>2, <2>3
<1> QED BY <1>1, <1>7, <1>8

LEMMA FillFlushStep ==
  ASSUME Ranked, Filled, NEW S \in toFill, Tables!FillFlush(S), UNCHANGED RankedState
  PROVE  Filled'
<1>1. todo = {} /\ (\A T \in toFill \ {S} : Tables!Below(S, T)) /\ toFill' = toFill \ {S}
  BY DEF Tables!FillFlush, Tables!Five!Done
<1>2. \A f \in S : /\ S \ {f} \in DOMAIN FLUSH_RANKS /\ IsBest(S \ {f})
                   /\ FLUSH_RANKS[S \ {f}] \in 0 .. currentRank
  BY <1>1, LessComesFirst
<1> DEFINE V == {FLUSH_RANKS[S \ {f}] : f \in S}
<1>3. S \in SUBSET (0 .. FACES - 1) /\ Cardinality(S) \in {6, 7} /\ S \in Tables!SetsToFill /\ S \notin FiveSets
  BY NotToFill DEF Ranked, Counted
<1>4. S # {}
  BY <1>3, FS_EmptySet
<1>5. currentRank \in Nat
  BY DEF Ranked, Counted
<1>6. V \in SUBSET Nat /\ V # {} /\ \A x \in V : x <= currentRank
  <2>1. \A x \in 0 .. currentRank : x \in Nat /\ x <= currentRank
    BY <1>5
  <2>2. \A f \in S : FLUSH_RANKS[S \ {f}] \in Nat /\ FLUSH_RANKS[S \ {f}] <= currentRank
    BY <1>2, <2>1
  <2> QED BY <1>4, <2>2
<1>7. PICK q \in V : \A r \in V : r <= q
  <2> HIDE DEF V
  <2> QED BY <1>5, <1>6, GreatestNat
<1>8. Tables!Greatest({Tables!OrZero(FLUSH_RANKS, S \ {f}) : f \in S}) = q
  <2>1. {Tables!OrZero(FLUSH_RANKS, S \ {f}) : f \in S} = V
    BY <1>2 DEF Tables!OrZero
  <2>2. Tables!Greatest(V) = q
    <3> HIDE DEF V
    <3> QED BY <1>6, <1>7, GreatestIs
  <2> QED BY <2>1, <2>2
<1>9. FLUSH_RANKS' = Tables!Five!Assigned(FLUSH_RANKS, S, q)
  BY <1>8 DEF Tables!FillFlush
<1>10. FLUSH_RANKS'[S] = q /\ \A T \in DOMAIN FLUSH_RANKS : T # S => FLUSH_RANKS'[T] = FLUSH_RANKS[T]
  <2> DEFINE g == Tables!Five!Assigned(FLUSH_RANKS, S, q)
  <2>1. g[S] = q /\ \A T \in DOMAIN FLUSH_RANKS : T # S => g[T] = FLUSH_RANKS[T]
    BY DEF Tables!Five!Assigned
  <2> HIDE DEF g
  <2> QED BY <1>9, <2>1 DEF g
<1>11. \A T \in FiveSets : T \in DOMAIN FLUSH_RANKS /\ FLUSH_RANKS'[T] = FLUSH_RANKS[T] /\ FLUSH_RANKS[T] \in Nat
  <2>1. FlushesVisited = FiveSets
    BY <1>1, AllVisited
  <2>2. \A T \in FiveSets : T \in DOMAIN FLUSH_RANKS /\ FLUSH_RANKS[T] \in Nat
    BY <1>5, <2>1 DEF Ranked, Counted, Numbered
  <2> QED BY <1>3, <1>10, <2>2
<1>12. PICK best \in S : q = FLUSH_RANKS[S \ {best}]
  BY <1>7
<1>13. \E T \in FiveSets : T \subseteq S /\ FLUSH_RANKS'[S] = FLUSH_RANKS'[T]
  <2>1. PICK T \in FiveSets : T \subseteq S \ {best} /\ FLUSH_RANKS[S \ {best}] = FLUSH_RANKS[T]
    BY <1>2 DEF IsBest
  <2> QED BY <1>10, <1>11, <1>12, <2>1
<1>14. ASSUME NEW T \in FiveSets, T \subseteq S
       PROVE  FLUSH_RANKS'[T] <= FLUSH_RANKS'[S]
  <2>1. PICK f \in S : f \notin T
    <3>1. T # S
      BY <1>3
    <3> QED BY <1>14, <3>1
  <2>2. T \subseteq S \ {f}
    BY <1>14, <2>1
  <2>3. FLUSH_RANKS[T] <= FLUSH_RANKS[S \ {f}] /\ FLUSH_RANKS[S \ {f}] \in Nat
    BY <1>2, <1>5, <2>2 DEF IsBest
  <2>4. FLUSH_RANKS[S \ {f}] <= q /\ q \in Nat
    BY <1>6, <1>7
  <2> QED BY <1>10, <1>11, <2>3, <2>4
<1>15. FiveSets' = FiveSets /\ Tables!SetsToFill' = Tables!SetsToFill
  BY RankedKept
<1>16. ASSUME NEW U \in Tables!SetsToFill \ toFill'
       PROVE  IsBest(U)'
  <2>1. CASE U = S
    BY <1>13, <1>14, <1>15, <2>1 DEF IsBest
  <2>2. CASE U # S
    <3>1. U \in Tables!SetsToFill \ toFill
      BY <1>1, <2>2
    <3>2. U \in DOMAIN FLUSH_RANKS /\ IsBest(U)
      BY <3>1 DEF Ranked, Counted, Filled
    <3>3. FLUSH_RANKS'[U] = FLUSH_RANKS[U]
      BY <1>10, <2>2, <3>2
    <3> QED BY <1>11, <1>15, <3>2, <3>3 DEF IsBest
  <2> QED BY <2>1, <2>2
<1> QED BY <1>15, <1>16 DEF Filled

LEMMA FilledInit == Init => Filled
BY DEF Init, Tables!Init, Filled

LEMMA FilledNext == Ranked /\ Filled /\ [Next]_vars => Filled'
<1> SUFFICES ASSUME Ranked, Filled, [Next]_vars PROVE Filled'
  OBVIOUS
<1>1. CASE Tables!Five!Next /\ UNCHANGED toFill
  <2>1. todo # {}
    BY <1>1 DEF Tables!Five!Next
  <2>2. toFill' = Tables!SetsToFill
    BY <1>1, <2>1 DEF Ranked, Counted
  <2> QED BY <2>2 DEF Filled, Tables!SetsToFill, Tables!Faces
<1>2. CASE \E S \in toFill : Tables!FillFlush(S) /\ UNCHANGED RankedState
  BY <1>2, FillFlushStep
<1>3. CASE UNCHANGED RankedState /\ UNCHANGED <<FLUSH_RANKS, toFill>>
  <2>1. \A S : IsBest(S)' = IsBest(S)
    BY <1>3 DEF IsBest, FiveSets
  <2> QED BY <1>3, <2>1 DEF Filled, Tables!SetsToFill, Tables!Faces
<1> QED BY <1>1, <1>2, <1>3, FillSteps

LEMMA FilledAlways == Spec => []Filled
BY RankedAlways, FilledInit, FilledNext, PTL DEF Spec

(***************************************************************************)
(* Six and seven cards of a suit have the rank of the best five of them:   *)
(* fillSevenFlushRanks reads no rank that it has not written yet.          *)
(***************************************************************************)
THEOREM FlushIsAlwaysBestOfFive == Spec => []FlushIsBestOfFive
<1>1. ASSUME Ranked, Filled
      PROVE  FlushIsBestOfFive
  <2> SUFFICES ASSUME todo = {}, NEW S \in DOMAIN FLUSH_RANKS
               PROVE  FLUSH_RANKS[S] = Tables!Greatest({FLUSH_RANKS[T] : T \in {T \in SUBSET S : Tables!Cardinality(T) = 5}})
    BY DEF FlushIsBestOfFive, Tables!FlushIsBestOfFive, Tables!Five!Done
  <2> DEFINE V == {FLUSH_RANKS[T] : T \in {T \in SUBSET S : Tables!Cardinality(T) = 5}}
  <2>1. FlushesVisited = FiveSets /\ currentRank \in Nat
    BY <1>1, AllVisited DEF Ranked, Counted
  <2>2. S \in FiveSets \/ S \in Tables!SetsToFill \ toFill
    BY <1>1, <2>1 DEF Ranked, Counted
  <2>3. S \in SUBSET (0 .. FACES - 1)
    BY <2>2, NotToFill
  <2>4. \A T : T \in {U \in SUBSET S : Tables!Cardinality(U) = 5} <=> T \in FiveSets /\ T \subseteq S
    BY <2>3, SameCardinality DEF FiveSets
  <2>5. \A T \in FiveSets : FLUSH_RANKS[T] \in Nat
    BY <1>1, <2>1 DEF Ranked, Numbered
  <2>6. IsBest(S)
    <3>1. CASE S \in FiveSets
      BY <2>5, <3>1, OnlyItself DEF IsBest
    <3>2. CASE S \in Tables!SetsToFill \ toFill
      BY <1>1, <3>2 DEF Filled
    <3> QED BY <2>2, <3>1, <3>2
  <2>7. V \in SUBSET Nat
    BY <2>4, <2>5
  <2>8. FLUSH_RANKS[S] \in V /\ \A y \in V : y <= FLUSH_RANKS[S]
    BY <2>4, <2>6 DEF IsBest
  <2> HIDE DEF V
  <2>9. Tables!Greatest(V) = FLUSH_RANKS[S]
    BY <2>7, <2>8, GreatestIs
  <2> QED BY <2>9 DEF V
<1> QED BY <1>1, RankedAlways, FilledAlways, PTL

-------------------------------------------------------------------------------
(***************************************************************************)
(* Hands of seven cards.  Ascending, no face comes five times just when    *)
(* each card is below the fourth one after it.                             *)
(***************************************************************************)
OfSeven(c) == c \in [1 .. 7 -> 0 .. FACES - 1] /\ \A n \in 1 .. 6 : c[n] <= c[n + 1]

LEMMA Ascending ==
  ASSUME NEW c, OfSeven(c)
  PROVE  /\ c[1] <= c[2] /\ c[2] <= c[3] /\ c[3] <= c[4] /\ c[4] <= c[5] /\ c[5] <= c[6] /\ c[6] <= c[7]
         /\ \A i \in 1 .. 7 : c[i] \in 0 .. FACES - 1 /\ c[i] \in Int
         /\ \A i, j \in 1 .. 7 : i <= j => c[i] <= c[j]
<1>1. c[1] <= c[2] /\ c[2] <= c[3] /\ c[3] <= c[4] /\ c[4] <= c[5] /\ c[5] <= c[6] /\ c[6] <= c[7]
  BY DEF OfSeven
<1>2. \A i \in 1 .. 7 : c[i] \in 0 .. FACES - 1 /\ c[i] \in Int
  BY FacesAre DEF OfSeven
<1>3. 1 .. 7 = {1, 2, 3, 4, 5, 6, 7}
  OBVIOUS
<1>4. /\ c[1] \in Int /\ c[2] \in Int /\ c[3] \in Int /\ c[4] \in Int /\ c[5] \in Int /\ c[6] \in Int
      /\ c[7] \in Int
  BY <1>2
<1>5. \A i, j \in 1 .. 7 : i <= j => c[i] <= c[j]
  BY <1>1, <1>3, <1>4
<1> QED BY <1>1, <1>2, <1>5

LEMMA FourOfAFace ==
  ASSUME NEW c, OfSeven(c)
  PROVE  (\A f \in 0 .. FACES - 1 : Cardinality({n \in 1 .. 7 : c[n] = f}) <= 4)
           <=> c[1] < c[5] /\ c[2] < c[6] /\ c[3] < c[7]
<1>1. /\ \A i \in 1 .. 7 : c[i] \in 0 .. FACES - 1 /\ c[i] \in Int
      /\ \A i, j \in 1 .. 7 : i <= j => c[i] <= c[j]
  BY Ascending
<1> DEFINE copies(f) == {n \in 1 .. 7 : c[n] = f}
<1>2. \A f : IsFiniteSet(copies(f)) /\ Cardinality(copies(f)) \in Nat
  <2>1. IsFiniteSet(1 .. 7)
    <3>1. 1 \in Int /\ 7 \in Int
      OBVIOUS
    <3> QED BY <3>1, FS_Interval, Zenon
  <2>2. \A f : copies(f) \in SUBSET (1 .. 7)
    OBVIOUS
  <2> HIDE DEF copies
  <2> QED BY <2>1, <2>2, FS_Subset, FS_CardinalityType
<1>3. ASSUME NEW i \in 1 .. 3, ~(c[i] < c[i + 4])
      PROVE  Cardinality(copies(c[i])) >= 5
  <2>1. i \in 1 .. 7 /\ i + 4 \in 1 .. 7 /\ c[i] \in Int /\ c[i + 4] \in Int /\ c[i] <= c[i + 4]
    BY <1>1
  <2>2. ASSUME NEW n \in i .. i + 4
        PROVE  n \in copies(c[i])
    <3>1. n \in 1 .. 7 /\ c[i] <= c[n] /\ c[n] <= c[i + 4] /\ c[n] \in Int
      BY <1>1, <2>1
    <3> QED BY <1>3, <2>1, <3>1
  <2>3. i .. i + 4 \subseteq copies(c[i])
    BY <2>2
  <2>4. Cardinality(i .. i + 4) = 5
    BY FS_Interval
  <2> HIDE DEF copies
  <2> QED BY <1>2, <2>3, <2>4, FS_Subset
<1>4. ASSUME \A i \in 1 .. 3 : c[i] < c[i + 4], NEW f
      PROVE  Cardinality(copies(f)) <= 4
  <2>1. CASE copies(f) = {}
    BY <2>1, FS_EmptySet
  <2>2. CASE copies(f) # {}
    <3>1. PICK a \in copies(f) : \A n \in copies(f) : a <= n
      <4>1. copies(f) \in SUBSET Nat
        OBVIOUS
      <4> HIDE DEF copies
      <4> QED BY <2>2, <4>1, LeastNat
    <3>2. ASSUME NEW n \in copies(f), n > a + 3
          PROVE  FALSE
      <4>1. a \in 1 .. 3 /\ a + 4 \in 1 .. 7 /\ a + 4 <= n /\ n \in 1 .. 7
        BY <3>2
      <4>2. c[a] < c[a + 4] /\ c[a + 4] <= c[n] /\ c[a] = f /\ c[n] = f
        BY <1>1, <1>4, <4>1
      <4> QED BY <1>1, <4>1, <4>2
    <3>3. copies(f) \subseteq a .. a + 3 /\ a \in Int
      BY <3>1, <3>2
    <3>4. IsFiniteSet(a .. a + 3) /\ Cardinality(a .. a + 3) = 4
      BY <3>3, FS_Interval
    <3> HIDE DEF copies
    <3> QED BY <3>3, <3>4, FS_Subset
  <2> QED BY <2>1, <2>2
<1>5. (\A i \in 1 .. 3 : c[i] < c[i + 4]) <=> c[1] < c[5] /\ c[2] < c[6] /\ c[3] < c[7]
  <2>1. \A i \in 1 .. 3 : i = 1 \/ i = 2 \/ i = 3
    OBVIOUS
  <2> QED BY <2>1
<1>6. ASSUME \A f \in 0 .. FACES - 1 : Cardinality(copies(f)) <= 4, NEW i \in 1 .. 3
      PROVE  c[i] < c[i + 4]
  <2>1. c[i] \in 0 .. FACES - 1
    BY <1>1
  <2> HIDE DEF copies
  <2>2. Cardinality(copies(c[i])) <= 4 /\ Cardinality(copies(c[i])) \in Nat
    BY <1>2, <1>6, <2>1
  <2> QED BY <1>3, <2>2
<1> QED BY <1>4, <1>5, <1>6

LEMMA HandsOfSevenAre ==
  /\ \A c : c \in Tables!HandsOfSeven <=> OfSeven(c) /\ c[1] < c[5] /\ c[2] < c[6] /\ c[3] < c[7]
  /\ Tables!HandsOfSeven = Tables!Dealt7
<1>1. \A c : c \in Tables!HandsOfSeven <=> OfSeven(c) /\ c[1] < c[5] /\ c[2] < c[6] /\ c[3] < c[7]
  BY DEF Tables!HandsOfSeven, Tables!Faces, OfSeven
<1>2. \A c : c \in Tables!Dealt7
        <=> OfSeven(c) /\ \A f \in 0 .. FACES - 1 : Cardinality({n \in 1 .. 7 : c[n] = f}) <= 4
  BY SameCardinality DEF Tables!Dealt7, Tables!Faces, OfSeven
<1> QED BY <1>1, <1>2, FourOfAFace

(***************************************************************************)
(* The loops of generateFlatTable visit the hands in lexicographic order.  *)
(***************************************************************************)
LEMMA EarlierIs ==
  ASSUME NEW c, NEW d
  PROVE  Tables!Earlier(c, d) <=>
           \/ c[1] < d[1]
           \/ c[1] = d[1] /\ c[2] < d[2]
           \/ c[1] = d[1] /\ c[2] = d[2] /\ c[3] < d[3]
           \/ c[1] = d[1] /\ c[2] = d[2] /\ c[3] = d[3] /\ c[4] < d[4]
           \/ c[1] = d[1] /\ c[2] = d[2] /\ c[3] = d[3] /\ c[4] = d[4] /\ c[5] < d[5]
           \/ c[1] = d[1] /\ c[2] = d[2] /\ c[3] = d[3] /\ c[4] = d[4] /\ c[5] = d[5] /\ c[6] < d[6]
           \/ /\ c[1] = d[1] /\ c[2] = d[2] /\ c[3] = d[3] /\ c[4] = d[4] /\ c[5] = d[5] /\ c[6] = d[6]
              /\ c[7] < d[7]
<1> DEFINE differ(i) == c[i] < d[i] /\ \A j \in 1 .. i - 1 : c[j] = d[j]
<1>1. Tables!Earlier(c, d) <=> \E i \in {1, 2, 3, 4, 5, 6, 7} : differ(i)
  <2>1. 1 .. 7 = {1, 2, 3, 4, 5, 6, 7}
    OBVIOUS
  <2> QED BY <2>1 DEF Tables!Earlier
<1>2. differ(1) <=> c[1] < d[1]
  OBVIOUS
<1>3. differ(2) <=> c[1] = d[1] /\ c[2] < d[2]
  OBVIOUS
<1>4. differ(3) <=> c[1] = d[1] /\ c[2] = d[2] /\ c[3] < d[3]
  <2>1. 1 .. 3 - 1 = {1, 2}
    OBVIOUS
  <2> QED BY <2>1
<1>5. differ(4) <=> c[1] = d[1] /\ c[2] = d[2] /\ c[3] = d[3] /\ c[4] < d[4]
  <2>1. 1 .. 4 - 1 = {1, 2, 3}
    OBVIOUS
  <2> QED BY <2>1
<1>6. differ(5) <=> c[1] = d[1] /\ c[2] = d[2] /\ c[3] = d[3] /\ c[4] = d[4] /\ c[5] < d[5]
  <2>1. 1 .. 5 - 1 = {1, 2, 3, 4}
    OBVIOUS
  <2> QED BY <2>1
<1>7. differ(6) <=> /\ c[1] = d[1] /\ c[2] = d[2] /\ c[3] = d[3] /\ c[4] = d[4] /\ c[5] = d[5]
                    /\ c[6] < d[6]
  <2>1. 1 .. 6 - 1 = {1, 2, 3, 4, 5}
    OBVIOUS
  <2> QED BY <2>1
<1>8. differ(7) <=> /\ c[1] = d[1] /\ c[2] = d[2] /\ c[3] = d[3] /\ c[4] = d[4] /\ c[5] = d[5]
                    /\ c[6] = d[6] /\ c[7] < d[7]
  <2>1. 1 .. 7 - 1 = {1, 2, 3, 4, 5, 6}
    OBVIOUS
  <2> QED BY <2>1
<1> HIDE DEF differ
<1> QED BY <1>1, <1>2, <1>3, <1>4, <1>5, <1>6, <1>7, <1>8

LEMMA NextSevenExists ==
  ASSUME NEW S \in SUBSET [1 .. 7 -> Nat], S # {}
  PROVE  \E c \in S : \A d \in S \ {c} : Tables!Earlier(c, d)
<1> DEFINE S1 == LeastAt(S, 1)
           S2 == LeastAt(S1, 2)
           S3 == LeastAt(S2, 3)
           S4 == LeastAt(S3, 4)
           S5 == LeastAt(S4, 5)
           S6 == LeastAt(S5, 6)
           S7 == LeastAt(S6, 7)
<1> HIDE DEF S1, S2, S3, S4, S5, S6, S7
<1>0. \A T, i : T \in SUBSET [1 .. 7 -> Nat] /\ T # {} /\ i \in 1 .. 7
                => LeastAt(T, i) \in SUBSET [1 .. 7 -> Nat] /\ LeastsAt(LeastAt(T, i), T, i)
  <2>1. 7 \in Nat OBVIOUS
  <2> QED BY <2>1, LeastAtExists, Zenon
<1>1. S1 \in SUBSET [1 .. 7 -> Nat] /\ S1 # {} /\ LeastsAt(S1, S, 1)
  BY <1>0 DEF S1, LeastsAt
<1>2. S2 \in SUBSET [1 .. 7 -> Nat] /\ S2 # {} /\ LeastsAt(S2, S1, 2)
  BY <1>0, <1>1 DEF S2, LeastsAt
<1>3. S3 \in SUBSET [1 .. 7 -> Nat] /\ S3 # {} /\ LeastsAt(S3, S2, 3)
  BY <1>0, <1>2 DEF S3, LeastsAt
<1>4. S4 \in SUBSET [1 .. 7 -> Nat] /\ S4 # {} /\ LeastsAt(S4, S3, 4)
  BY <1>0, <1>3 DEF S4, LeastsAt
<1>5. S5 \in SUBSET [1 .. 7 -> Nat] /\ S5 # {} /\ LeastsAt(S5, S4, 5)
  BY <1>0, <1>4 DEF S5, LeastsAt
<1>6. S6 \in SUBSET [1 .. 7 -> Nat] /\ S6 # {} /\ LeastsAt(S6, S5, 6)
  BY <1>0, <1>5 DEF S6, LeastsAt
<1>7. S7 \in SUBSET [1 .. 7 -> Nat] /\ S7 # {} /\ LeastsAt(S7, S6, 7)
  BY <1>0, <1>6 DEF S7, LeastsAt
<1>8. PICK c \in S7 : TRUE
  BY <1>7
<1>9. c \in S /\ c \in S1 /\ c \in S2 /\ c \in S3 /\ c \in S4 /\ c \in S5 /\ c \in S6
  BY <1>1, <1>2, <1>3, <1>4, <1>5, <1>6, <1>7 DEF LeastsAt
<1>10. ASSUME NEW d \in S, d # c PROVE Tables!Earlier(c, d)
  <2>1. CASE d \notin S1
    <3>1. c[1] < d[1]
      BY <1>1, <1>9, <2>1 DEF LeastsAt
    <3> QED BY <3>1, EarlierIs
  <2>2. CASE d \in S1 /\ d \notin S2
    <3>1. c[1] = d[1] /\ c[2] < d[2]
      BY <1>1, <1>2, <1>9, <2>2 DEF LeastsAt
    <3> QED BY <3>1, EarlierIs
  <2>3. CASE d \in S2 /\ d \notin S3
    <3>1. c[1] = d[1] /\ c[2] = d[2] /\ c[3] < d[3]
      BY <1>1, <1>2, <1>3, <1>9, <2>3 DEF LeastsAt
    <3> QED BY <3>1, EarlierIs
  <2>4. CASE d \in S3 /\ d \notin S4
    <3>1. c[1] = d[1] /\ c[2] = d[2] /\ c[3] = d[3] /\ c[4] < d[4]
      BY <1>1, <1>2, <1>3, <1>4, <1>9, <2>4 DEF LeastsAt
    <3> QED BY <3>1, EarlierIs
  <2>5. CASE d \in S4
    <3>1. c[1] = d[1] /\ c[2] = d[2] /\ c[3] = d[3] /\ c[4] = d[4]
      BY <1>1, <1>2, <1>3, <1>4, <1>9, <2>5 DEF LeastsAt
    <3>2. CASE d \notin S5
      <4>1. c[5] < d[5]
        BY <1>5, <1>9, <2>5, <3>2 DEF LeastsAt
      <4> QED BY <3>1, <4>1, EarlierIs
    <3>3. CASE d \in S5 /\ d \notin S6
      <4>1. c[5] = d[5] /\ c[6] < d[6]
        BY <1>5, <1>6, <1>9, <3>3 DEF LeastsAt
      <4> QED BY <3>1, <4>1, EarlierIs
    <3>4. CASE d \in S6
      <4>1. c[5] = d[5] /\ c[6] = d[6]
        BY <1>5, <1>6, <1>9, <3>4 DEF LeastsAt
      <4>2. c \in [1 .. 7 -> Nat] /\ d \in [1 .. 7 -> Nat]
        BY <1>9
      <4>3. c[7] # d[7]
        <5>1. 1 .. 7 = {1, 2, 3, 4, 5, 6, 7}
          OBVIOUS
        <5> QED BY <1>10, <3>1, <4>1, <4>2, <5>1
      <4>4. c[7] < d[7]
        BY <1>7, <1>8, <3>4, <4>3 DEF LeastsAt
      <4> QED BY <3>1, <4>1, <4>4, EarlierIs
    <3> QED BY <3>2, <3>3, <3>4
  <2> QED BY <2>1, <2>2, <2>3, <2>4, <2>5
<1> QED BY <1>9, <1>10

(***************************************************************************)
(* The last hand of the loops is three kings and four aces; its key is the *)
(* largest.                                                                *)
(***************************************************************************)
LastOfSeven == <<FACES - 2, FACES - 2, FACES - 2, FACES - 1, FACES - 1, FACES - 1, FACES - 1>>
KeyOfSeven(c) == Tables!KeyOf(c, KeySeven)

LEMMA LastOfSevenLast ==
  /\ LastOfSeven \in Tables!HandsOfSeven
  /\ \A d \in Tables!HandsOfSeven : /\ ~Tables!Earlier(LastOfSeven, d)
                                    /\ KeyOfSeven(d) \in Nat /\ KeyOfSeven(d) <= KeyOfSeven(LastOfSeven)
<1>1. /\ LastOfSeven \in [1 .. 7 -> 0 .. FACES - 1]
      /\ LastOfSeven[1] = FACES - 2 /\ LastOfSeven[2] = FACES - 2 /\ LastOfSeven[3] = FACES - 2
      /\ LastOfSeven[4] = FACES - 1 /\ LastOfSeven[5] = FACES - 1 /\ LastOfSeven[6] = FACES - 1
      /\ LastOfSeven[7] = FACES - 1
  BY FacesAre DEF LastOfSeven
<1>2. LastOfSeven \in Tables!HandsOfSeven
  <2>1. \A n \in 1 .. 6 : n \in {1, 2, 3, 4, 5, 6}
    OBVIOUS
  <2>2. \A n \in 1 .. 6 : LastOfSeven[n] <= LastOfSeven[n + 1]
    BY <1>1, <2>1, FacesAre
  <2> QED BY <1>1, <2>2, HandsOfSevenAre, FacesAre DEF OfSeven
<1>3. ASSUME NEW d \in Tables!HandsOfSeven
      PROVE  /\ d[1] <= FACES - 2 /\ d[2] <= FACES - 2 /\ d[3] <= FACES - 2 /\ d[4] <= FACES - 1
             /\ d[5] <= FACES - 1 /\ d[6] <= FACES - 1 /\ d[7] <= FACES - 1
             /\ \A i \in 1 .. 7 : d[i] \in 0 .. FACES - 1 /\ d[i] \in Int
  <2>1. OfSeven(d) /\ d[3] < d[7]
    BY HandsOfSevenAre
  <2>2. /\ d[1] <= d[2] /\ d[2] <= d[3]
        /\ \A i \in 1 .. 7 : d[i] \in 0 .. FACES - 1 /\ d[i] \in Int
    BY <2>1, Ascending
  <2>3. \A i \in 1 .. 7 : d[i] <= FACES - 1
    <3>1. \A x \in 0 .. FACES - 1 : x <= FACES - 1
      BY FacesAre
    <3> QED BY <2>2, <3>1
  <2>4. d[1] \in Int /\ d[2] \in Int /\ d[3] \in Int /\ d[7] \in Int /\ d[7] <= FACES - 1 /\ FACES - 1 \in Int
    BY <2>2, <2>3, FacesAre
  <2>5. d[3] <= FACES - 2 /\ d[2] <= FACES - 2 /\ d[1] <= FACES - 2
    <3>1. d[3] < d[7] /\ d[1] <= d[2] /\ d[2] <= d[3]
      BY <2>1, <2>2
    <3>2. \A x, y, z, w, F \in Int : w < z /\ z <= F - 1 /\ x <= y /\ y <= w => w <= F - 2 /\ y <= F - 2 /\ x <= F - 2
      OBVIOUS
    <3>3. FACES \in Int
      BY FacesAre
    <3> QED BY <2>4, <3>1, <3>2, <3>3
  <2> QED BY <2>2, <2>3, <2>5
<1>4. ASSUME NEW d \in Tables!HandsOfSeven
      PROVE  ~Tables!Earlier(LastOfSeven, d)
  <2>1. /\ d[1] \in Int /\ d[2] \in Int /\ d[3] \in Int /\ d[4] \in Int /\ d[5] \in Int /\ d[6] \in Int
        /\ d[7] \in Int
    BY <1>3
  <2> QED BY <1>1, <1>3, <2>1, EarlierIs, FacesAre
<1>5. ASSUME NEW d \in Tables!HandsOfSeven
      PROVE  KeyOfSeven(d) \in Nat /\ KeyOfSeven(d) <= KeyOfSeven(LastOfSeven)
  <2>1. /\ FACES - 1 \in 0 .. FACES - 1 /\ FACES - 2 \in 0 .. FACES - 1
        /\ KeySeven[FACES - 1] \in Nat /\ KeySeven[FACES - 2] \in Nat
    BY GameAssumption
  <2>2. \A i \in 1 .. 7 : KeySeven[d[i]] \in Nat
    BY <1>3, GameAssumption
  <2>3. /\ KeySeven[d[1]] <= KeySeven[FACES - 2] /\ KeySeven[d[2]] <= KeySeven[FACES - 2]
        /\ KeySeven[d[3]] <= KeySeven[FACES - 2]
    BY <1>3, <2>1, KeysAscend
  <2>4. /\ KeySeven[d[4]] <= KeySeven[FACES - 1] /\ KeySeven[d[5]] <= KeySeven[FACES - 1]
        /\ KeySeven[d[6]] <= KeySeven[FACES - 1] /\ KeySeven[d[7]] <= KeySeven[FACES - 1]
    BY <1>3, <2>1, KeysAscend
  <2>5. KeyOfSeven(d) = KeySeven[d[1]] + KeySeven[d[2]] + KeySeven[d[3]] + KeySeven[d[4]]
                        + KeySeven[d[5]] + KeySeven[d[6]] + KeySeven[d[7]]
    BY DEF KeyOfSeven, Tables!KeyOf
  <2>6. KeyOfSeven(LastOfSeven)
          = KeySeven[FACES - 2] + KeySeven[FACES - 2] + KeySeven[FACES - 2] + KeySeven[FACES - 1]
            + KeySeven[FACES - 1] + KeySeven[FACES - 1] + KeySeven[FACES - 1]
    BY <1>1 DEF KeyOfSeven, Tables!KeyOf
  <2> QED BY <2>1, <2>2, <2>3, <2>4, <2>5, <2>6
<1> QED BY <1>2, <1>4, <1>5

(***************************************************************************)
(* The hands of seven that have been visited have the keys of the table;   *)
(* the last one is left until it is the only one.                          *)
(***************************************************************************)
SevenVisited ==
  /\ toRank \subseteq Tables!HandsOfSeven
  /\ DOMAIN ranksSeven = {KeyOfSeven(c) : c \in Tables!HandsOfSeven \ toRank}
  /\ lastSeven \in Nat
  /\ IF toRank = {} THEN lastSeven = KeyOfSeven(LastOfSeven) ELSE LastOfSeven \in toRank
  /\ ranksSeven # [k \in {} |-> 0] => todo = {} /\ toFill = {}

LEMMA SevenSteps ==
  ASSUME [Next]_vars
  PROVE  /\ Tables!RankSeven(Tables!NextSeven) \/ UNCHANGED <<toRank, ranksSeven, lastSeven>>
         /\ todo = {} => todo' = {}
         /\ toFill = {} => toFill' = {}
<1>1. CASE Generate
  BY <1>1 DEF Generate, Tables!Next, Tables!RankFive, Tables!FillFlush, Tables!RankSeven,
              Tables!fiveVars, Tables!sevenVars, Tables!Five!Next
<1>2. ASSUME NEW p \in Factors, NEW s \in Shifts, Load(p, s)
      PROVE  UNCHANGED generator
  BY <1>2 DEF Load
<1>3. ASSUME UNCHANGED generator
      PROVE  UNCHANGED <<toRank, ranksSeven, lastSeven>> /\ todo' = todo /\ toFill' = toFill
  BY <1>3 DEF generator
<1>4. LoadCpp => UNCHANGED generator
  BY DEF LoadCpp
<1>5. UNCHANGED vars => UNCHANGED generator
  BY DEF vars
<1> QED BY <1>1, <1>2, <1>3, <1>4, <1>5 DEF Next

LEMMA SevenVisitedInit == Init => SevenVisited
<1> SUFFICES ASSUME Init PROVE SevenVisited
  OBVIOUS
<1>1. toRank = Tables!HandsOfSeven /\ ranksSeven = [k \in {} |-> 0] /\ lastSeven = 0
  BY DEF Init, Tables!Init
<1> QED BY <1>1, LastOfSevenLast DEF SevenVisited

LEMMA SevenVisitedNext == SevenVisited /\ [Next]_vars => SevenVisited'
<1> SUFFICES ASSUME SevenVisited, [Next]_vars PROVE SevenVisited'
  OBVIOUS
<1>1. /\ Tables!HandsOfSeven' = Tables!HandsOfSeven
      /\ \A c : KeyOfSeven(c)' = KeyOfSeven(c)
  BY DEF Tables!HandsOfSeven, Tables!Faces, KeyOfSeven, Tables!KeyOf
<1>2. (KeyOfSeven(LastOfSeven))' = KeyOfSeven(LastOfSeven) /\ LastOfSeven' = LastOfSeven
  BY DEF KeyOfSeven, Tables!KeyOf, LastOfSeven
<1>3. CASE UNCHANGED <<toRank, ranksSeven, lastSeven>>
  BY <1>1, <1>2, <1>3, SevenSteps DEF SevenVisited
<1>4. CASE Tables!RankSeven(Tables!NextSeven)
  <2> DEFINE c == Tables!NextSeven
  <2>1. /\ todo = {} /\ toFill = {} /\ toRank # {} /\ toRank' = toRank \ {c}
        /\ lastSeven' = KeyOfSeven(c)
        /\ \E rank : ranksSeven' = Tables!Five!Assigned(ranksSeven, KeyOfSeven(c), rank)
    BY <1>4 DEF Tables!RankSeven, Tables!Five!Done, KeyOfSeven
  <2>2. toRank \in SUBSET [1 .. 7 -> Nat]
    BY HandsOfSevenAre, FacesAre DEF SevenVisited, OfSeven
  <2>3. c \in toRank /\ \A d \in toRank \ {c} : Tables!Earlier(c, d)
    <3>1. \E e \in toRank : \A d \in toRank \ {e} : Tables!Earlier(e, d)
      BY <2>1, <2>2, NextSevenExists
    <3> QED BY <3>1 DEF Tables!NextSeven
  <2> HIDE DEF c
  <2>4. DOMAIN ranksSeven' = {KeyOfSeven(e) : e \in Tables!HandsOfSeven \ toRank'}
    <3>1. DOMAIN ranksSeven' = {KeyOfSeven(e) : e \in Tables!HandsOfSeven \ toRank} \cup {KeyOfSeven(c)}
      BY <2>1, AssignedIs DEF SevenVisited
    <3>2. Tables!HandsOfSeven \ toRank' = (Tables!HandsOfSeven \ toRank) \cup {c}
      BY <2>1, <2>3 DEF SevenVisited
    <3> QED BY <3>1, <3>2
  <2>5. lastSeven' \in Nat
    BY <2>1, <2>3, LastOfSevenLast DEF SevenVisited
  <2>6. IF toRank' = {} THEN lastSeven' = KeyOfSeven(LastOfSeven) ELSE LastOfSeven \in toRank'
    <3>1. LastOfSeven \in toRank
      BY <2>1 DEF SevenVisited
    <3>2. CASE toRank' = {}
      <4>1. c = LastOfSeven
        BY <2>1, <3>1, <3>2
      <4> QED BY <2>1, <3>2, <4>1
    <3>3. CASE toRank' # {}
      <4>1. PICK d \in toRank : d # c
        BY <2>1, <3>3
      <4>2. Tables!Earlier(c, d) /\ d \in Tables!HandsOfSeven
        BY <2>3, <4>1 DEF SevenVisited
      <4>3. c # LastOfSeven
        BY <4>2, LastOfSevenLast
      <4> QED BY <2>1, <3>1, <3>3, <4>3
    <3> QED BY <3>2, <3>3
  <2>7. todo' = {} /\ toFill' = {}
    BY <2>1, SevenSteps
  <2>8. toRank' \subseteq Tables!HandsOfSeven
    BY <2>1 DEF SevenVisited
  <2> QED BY <1>1, <1>2, <2>4, <2>5, <2>6, <2>7, <2>8 DEF SevenVisited
<1> QED BY <1>3, <1>4, SevenSteps

LEMMA SevenVisitedAlways == Spec => []SevenVisited
BY SevenVisitedInit, SevenVisitedNext, PTL DEF Spec

(***************************************************************************)
(* The table of seven cards has exactly the hands that can be dealt, each  *)
(* with a key of its own, and the last key is the largest: HashTable takes *)
(* the width of a key from it (HashTable.java:35).                         *)
(***************************************************************************)
THEOREM EveryHandOfSevenIsRanked == Spec => []EveryHandOfSevenRanked
<1>1. ASSUME SevenVisited
      PROVE  EveryHandOfSevenRanked
  <2> SUFFICES ASSUME toRank = {}
               PROVE  /\ DOMAIN ranksSeven = {Tables!KeyOf(c, KeySeven) : c \in Tables!Dealt7}
                      /\ Tables!Cardinality(DOMAIN ranksSeven) = Tables!Cardinality(Tables!Dealt7)
                      /\ lastSeven = Tables!Greatest(DOMAIN ranksSeven)
    BY DEF EveryHandOfSevenRanked, Tables!EveryHandOfSevenRanked, Tables!Done
  <2>1. DOMAIN ranksSeven = {KeyOfSeven(c) : c \in Tables!HandsOfSeven}
    BY <1>1 DEF SevenVisited
  <2>2. DOMAIN ranksSeven = {Tables!KeyOf(c, KeySeven) : c \in Tables!Dealt7}
    BY <2>1, HandsOfSevenAre DEF KeyOfSeven
  <2>3. Tables!Cardinality(DOMAIN ranksSeven) = Tables!Cardinality(Tables!Dealt7)
    BY <2>2, KeysAssumption, SameCardinality
  <2>4. lastSeven = KeyOfSeven(LastOfSeven) /\ lastSeven \in DOMAIN ranksSeven
    BY <1>1, <2>1, LastOfSevenLast DEF SevenVisited
  <2>5. DOMAIN ranksSeven \in SUBSET Nat /\ \A k \in DOMAIN ranksSeven : k <= lastSeven
    BY <2>1, <2>4, LastOfSevenLast
  <2>6. lastSeven = Tables!Greatest(DOMAIN ranksSeven)
    BY <2>4, <2>5, GreatestIs
  <2> QED BY <2>2, <2>3, <2>6
<1> QED BY <1>1, SevenVisitedAlways, PTL

-------------------------------------------------------------------------------
(***************************************************************************)
(* The suit of a flush.  How many cards of each suit a hand has is told by *)
(* the sum of their suits.                                                 *)
(***************************************************************************)
Counts == [{0, 1, 2, 3} -> Nat]
Total(n) == n[0] + n[1] + n[2] + n[3]
With(n, s, k) == [n EXCEPT ![s] = @ + k]

LEMMA SuitsAre ==
  /\ Tables!Suits = {0, 1, 2, 3} /\ Suits = {0, 1, 2, 3}
  /\ SuitKeys[0] \in Nat /\ SuitKeys[1] \in Nat /\ SuitKeys[2] \in Nat /\ SuitKeys[3] \in Nat
  /\ SuitKeys[0] <= SuitKeys[3] /\ SuitKeys[1] <= SuitKeys[3] /\ SuitKeys[2] <= SuitKeys[3]
<1>1. Tables!Suits = {0, 1, 2, 3} /\ Suits = {0, 1, 2, 3}
  BY DEF Tables!Suits, Suits
<1>2. SuitKeys[0] \in Nat /\ SuitKeys[1] \in Nat /\ SuitKeys[2] \in Nat /\ SuitKeys[3] \in Nat
  BY <1>1, GameAssumption
<1>3. SuitKeys[0] < SuitKeys[1] /\ SuitKeys[1] < SuitKeys[2] /\ SuitKeys[2] < SuitKeys[3]
  <2>1. \A s \in 1 .. 3 : SuitKeys[s - 1] < SuitKeys[s]
    BY KeysAssumption
  <2>2. 1 \in 1 .. 3 /\ 2 \in 1 .. 3 /\ 3 \in 1 .. 3 /\ 1 - 1 = 0 /\ 2 - 1 = 1 /\ 3 - 1 = 2
    OBVIOUS
  <2> QED BY <2>1, <2>2
<1> QED BY <1>1, <1>2, <1>3

Adds(n, s, k, m) ==
  /\ m \in Counts /\ Total(m) = Total(n) + k
  /\ Tables!SumOfSuits(m) = Tables!SumOfSuits(n) + k * SuitKeys[s]
  /\ m[s] = n[s] + k /\ \A x \in {0, 1, 2, 3} : n[x] <= m[x]

LEMMA WithIs ==
  ASSUME NEW n \in Counts, NEW s \in {0, 1, 2, 3}, NEW k \in Nat
  PROVE  Adds(n, s, k, With(n, s, k))
<1> DEFINE m == With(n, s, k)
<1>1. /\ m \in [{0, 1, 2, 3} -> Nat] /\ n \in [{0, 1, 2, 3} -> Nat] /\ m[s] = n[s] + k /\ \A x \in {0, 1, 2, 3} : x # s => m[x] = n[x]
  BY DEF With, Counts
<1> HIDE DEF m
<1>2. \A x \in {0, 1, 2, 3} : n[x] \in Nat /\ n[x] <= m[x]
  BY <1>1
<1>3. Total(m) = Total(n) + k
  BY <1>1, <1>2 DEF Total
<1>4. \A a, b, c \in Nat : (a + b) * c = a * c + b * c
  OBVIOUS
<1>5. m[s] * SuitKeys[s] = n[s] * SuitKeys[s] + k * SuitKeys[s]
  BY <1>1, <1>2, <1>4, SuitsAre
<1>6. \A x \in {0, 1, 2, 3} : n[x] * SuitKeys[x] \in Int /\ k * SuitKeys[x] \in Int
  BY <1>2, SuitsAre
<1>7. Tables!SumOfSuits(m) = Tables!SumOfSuits(n) + k * SuitKeys[s]
  <2>1. \A x \in {0, 1, 2, 3} : x # s => m[x] * SuitKeys[x] = n[x] * SuitKeys[x]
    BY <1>1
  <2> DEFINE P == [x \in {0, 1, 2, 3} |-> n[x] * SuitKeys[x]]
             Q == [x \in {0, 1, 2, 3} |-> m[x] * SuitKeys[x]]
             e == k * SuitKeys[s]
  <2>2. Q[s] = P[s] + e /\ (\A x \in {0, 1, 2, 3} : x # s => Q[x] = P[x]) /\ e \in Int
    BY <1>5, <1>6, <2>1
  <2>3. \A x \in {0, 1, 2, 3} : P[x] \in Int
    BY <1>6
  <2>4. /\ Tables!SumOfSuits(m) = Q[0] + Q[1] + Q[2] + Q[3]
        /\ Tables!SumOfSuits(n) = P[0] + P[1] + P[2] + P[3]
    BY DEF Tables!SumOfSuits
  <2> HIDE DEF P, Q, e
  <2>5. Q[0] + Q[1] + Q[2] + Q[3] = P[0] + P[1] + P[2] + P[3] + e
    BY <2>2, <2>3
  <2> QED BY <2>4, <2>5 DEF e
<1>8. m \in Counts
  BY <1>1 DEF Counts
<1> QED BY <1>1, <1>2, <1>3, <1>7, <1>8 DEF m, Adds

LEMMA SuitCountsAre ==
  \A n : n \in Tables!SuitCounts <=> n \in [{0, 1, 2, 3} -> Nat] /\ Total(n) = 7
<1>1. \A n : n \in Tables!SuitCounts <=> n \in [{0, 1, 2, 3} -> 0 .. 7] /\ Total(n) = 7
  BY SuitsAre DEF Tables!SuitCounts, Total
<1>2. ASSUME NEW n \in [{0, 1, 2, 3} -> Nat], Total(n) = 7
      PROVE  n \in [{0, 1, 2, 3} -> 0 .. 7]
  <2>1. n[0] \in Nat /\ n[1] \in Nat /\ n[2] \in Nat /\ n[3] \in Nat
    OBVIOUS
  <2>2. n[0] \in 0 .. 7 /\ n[1] \in 0 .. 7 /\ n[2] \in 0 .. 7 /\ n[3] \in 0 .. 7
    BY <1>2, <2>1 DEF Total
  <2> QED BY <2>2
<1> QED BY <1>1, <1>2

LEMMA SumsTellSuits ==
  ASSUME NEW m \in Tables!SuitCounts, NEW n \in Tables!SuitCounts,
         Tables!SumOfSuits(m) = Tables!SumOfSuits(n)
  PROVE  m = n
<1> DEFINE D == Tables!SuitCounts
           K == {Tables!SumOfSuits(x) : x \in D}
           f == [x \in D |-> Tables!SumOfSuits(x)]
<1>1. Cardinality(K) = Cardinality(D)
  BY KeysAssumption
<1>2. f \in [D -> K] /\ (\A x \in D : f[x] = Tables!SumOfSuits(x)) /\ \A k \in K : \E x \in D : f[x] = k
  OBVIOUS
<1>3. IsFiniteSet(D)
  <2>1. IsFiniteSet(0 .. 7) /\ IsFiniteSet(0 .. 3)
    <3>1. 0 \in Int /\ 7 \in Int /\ 3 \in Int
      OBVIOUS
    <3> QED BY <3>1, FS_Interval, Zenon
  <2>2. IsFiniteSet([0 .. 3 -> 0 .. 7])
    BY <2>1, FiniteFunctions
  <2>3. D \subseteq [0 .. 3 -> 0 .. 7]
    BY DEF Tables!SuitCounts, Tables!Suits
  <2> QED BY <2>2, <2>3, FS_Subset
<1>4. m \in D /\ n \in D /\ f[m] = f[n]
  BY <1>2
<1> HIDE DEF D, K, f
<1>5. f \in Surjection(D, K)
  BY <1>2 DEF Surjection
<1>6. f \in Injection(D, K)
  BY <1>1, <1>3, <1>5, FS_SurjSameCardinalityImpliesInj
<1> QED BY <1>4, <1>6 DEF Injection, IsInjective

(***************************************************************************)
(* A sum is one that generateFlushCheck marks for a suit just when five    *)
(* cards or more are of that suit.                                         *)
(***************************************************************************)
LEMMA FlushSumsAre ==
  ASSUME NEW n \in Tables!SuitCounts, NEW suit \in {0, 1, 2, 3}
  PROVE  Tables!SumOfSuits(n) \in Tables!FlushSums(suit) <=> n[suit] >= 5
<1>1. n \in Counts /\ Total(n) = 7
  BY SuitCountsAre DEF Counts
<1>2. \A sum : sum \in Tables!FlushSums(suit)
        <=> \E s, t \in {0, 1, 2, 3} : sum = 5 * SuitKeys[suit] + SuitKeys[s] + SuitKeys[t]
  BY SuitsAre DEF Tables!FlushSums
<1> DEFINE none == [x \in {0, 1, 2, 3} |-> 0]
<1>3. none \in Counts /\ Total(none) = 0 /\ Tables!SumOfSuits(none) = 0 /\ none[suit] = 0
  BY SuitsAre DEF Total, Tables!SumOfSuits, Counts
<1> HIDE DEF none
<1>4. ASSUME NEW s \in {0, 1, 2, 3}, NEW t \in {0, 1, 2, 3},
             Tables!SumOfSuits(n) = 5 * SuitKeys[suit] + SuitKeys[s] + SuitKeys[t]
      PROVE  n[suit] >= 5
  <2> DEFINE a == With(none, suit, 5)
             b == With(a, s, 1)
             c == With(b, t, 1)
  <2>0. /\ 5 \in Nat /\ 1 \in Nat
        /\ \A x \in {0, 1, 2, 3} : SuitKeys[x] \in Nat /\ 5 * SuitKeys[x] \in Nat /\ 1 * SuitKeys[x] = SuitKeys[x]
    BY SuitsAre
  <2>1. /\ a \in Counts /\ Total(a) = 5 /\ Tables!SumOfSuits(a) = 5 * SuitKeys[suit]
        /\ a[suit] = 5
    <3>1. Adds(none, suit, 5, a)
      BY <1>3, <2>0, WithIs
    <3> HIDE DEF a
    <3>2. a[suit] = none[suit] + 5 /\ Total(a) = Total(none) + 5
      BY <3>1 DEF Adds
    <3>3. Tables!SumOfSuits(a) = Tables!SumOfSuits(none) + 5 * SuitKeys[suit] /\ a \in Counts
      BY <3>1 DEF Adds
    <3> QED BY <1>3, <2>0, <3>2, <3>3
  <2> HIDE DEF a
  <2>2. /\ b \in Counts /\ Total(b) = 6 /\ a[suit] <= b[suit]
        /\ Tables!SumOfSuits(b) = 5 * SuitKeys[suit] + SuitKeys[s]
    <3>1. Adds(a, s, 1, b)
      BY <2>0, <2>1, WithIs
    <3> HIDE DEF b
    <3>2. b \in Counts /\ Total(b) = Total(a) + 1 /\ a[suit] <= b[suit]
      BY <3>1 DEF Adds
    <3>3. Tables!SumOfSuits(b) = Tables!SumOfSuits(a) + 1 * SuitKeys[s]
      BY <3>1 DEF Adds
    <3> QED BY <2>0, <2>1, <3>2, <3>3
  <2> HIDE DEF b
  <2>3. /\ c \in Counts /\ Total(c) = 7 /\ b[suit] <= c[suit]
        /\ Tables!SumOfSuits(c) = 5 * SuitKeys[suit] + SuitKeys[s] + SuitKeys[t]
    <3>1. Adds(b, t, 1, c)
      BY <2>0, <2>2, WithIs
    <3> HIDE DEF c
    <3>2. c \in Counts /\ Total(c) = Total(b) + 1 /\ b[suit] <= c[suit]
      BY <3>1 DEF Adds
    <3>3. Tables!SumOfSuits(c) = Tables!SumOfSuits(b) + 1 * SuitKeys[t]
      BY <3>1 DEF Adds
    <3> QED BY <2>0, <2>2, <3>2, <3>3
  <2> HIDE DEF c
  <2>4. c \in Tables!SuitCounts
    BY <2>3, SuitCountsAre DEF Counts
  <2>5. c = n
    BY <1>4, <2>3, <2>4, SumsTellSuits
  <2>6. a[suit] = 5 /\ b[suit] \in Nat /\ c[suit] \in Nat
    BY <2>1, <2>2, <2>3 DEF Counts
  <2>7. c[suit] >= 5
    BY <2>2, <2>3, <2>6
  <2> QED BY <2>5, <2>7
<1>5. ASSUME n[suit] >= 5
      PROVE  \E s, t \in {0, 1, 2, 3} : Tables!SumOfSuits(n) = 5 * SuitKeys[suit] + SuitKeys[s] + SuitKeys[t]
  <2>0. ASSUME NEW x \in Counts, NEW s \in {0, 1, 2, 3}, NEW k \in Nat, x[s] >= k
        PROVE  \E y \in Counts : x = With(y, s, k)
    <3> DEFINE y == [x EXCEPT ![s] = x[s] - k]
               z == With(y, s, k)
    <3>1. x[s] - k \in Nat /\ (x[s] - k) + k = x[s]
      <4>1. x[s] \in Nat
        BY DEF Counts
      <4> QED BY <2>0, <4>1
    <3>2. y \in Counts /\ y[s] = x[s] - k /\ \A w \in {0, 1, 2, 3} : w # s => y[w] = x[w]
      BY <3>1 DEF Counts
    <3> HIDE DEF y
    <3>3. /\ z = [w \in {0, 1, 2, 3} |-> z[w]] /\ z[s] = y[s] + k
          /\ \A w \in {0, 1, 2, 3} : w # s => z[w] = y[w]
      BY <3>2 DEF With, Counts
    <3> HIDE DEF z
    <3>4. x = z
      <4>1. \A w \in {0, 1, 2, 3} : z[w] = x[w]
        BY <3>1, <3>2, <3>3
      <4>2. x = [w \in {0, 1, 2, 3} |-> x[w]]
        BY DEF Counts
      <4> QED BY <3>3, <4>1, <4>2
    <3> QED BY <3>2, <3>4 DEF z
  <2>k. /\ 5 \in Nat /\ 1 \in Nat
        /\ \A x \in {0, 1, 2, 3} : SuitKeys[x] \in Nat /\ 5 * SuitKeys[x] \in Nat /\ 1 * SuitKeys[x] = SuitKeys[x]
    BY SuitsAre
  <2>1. PICK a \in Counts : n = With(a, suit, 5)
    BY <1>1, <1>5, <2>0, <2>k
  <2>2. Total(a) = 2 /\ Tables!SumOfSuits(n) = Tables!SumOfSuits(a) + 5 * SuitKeys[suit]
    <3>1. Total(a) \in Int
      BY <2>1 DEF Total, Counts
    <3>2. Total(n) = Total(a) + 5 /\ Tables!SumOfSuits(n) = Tables!SumOfSuits(a) + 5 * SuitKeys[suit]
      <4>1. Adds(a, suit, 5, n)
        BY <2>1, <2>k, WithIs
      <4> QED BY <4>1 DEF Adds
    <3> QED BY <1>1, <3>1, <3>2
  <2>3. PICK s \in {0, 1, 2, 3} : a[s] >= 1
    BY <2>2 DEF Total, Counts
  <2>4. PICK b \in Counts : a = With(b, s, 1)
    BY <2>3, <2>0, <2>k
  <2>5. Total(b) = 1 /\ Tables!SumOfSuits(a) = Tables!SumOfSuits(b) + SuitKeys[s]
    <3>1. Total(b) \in Int
      BY <2>4 DEF Total, Counts
    <3>2. Total(a) = Total(b) + 1 /\ Tables!SumOfSuits(a) = Tables!SumOfSuits(b) + 1 * SuitKeys[s]
      <4>1. Adds(b, s, 1, a)
        BY <2>4, <2>k, WithIs
      <4> QED BY <4>1 DEF Adds
    <3> QED BY <2>2, <2>k, <3>1, <3>2
  <2>6. PICK t \in {0, 1, 2, 3} : b[t] >= 1
    BY <2>5 DEF Total, Counts
  <2>7. PICK c \in Counts : b = With(c, t, 1)
    BY <2>6, <2>0, <2>k
  <2>8. Total(c) = 0 /\ Tables!SumOfSuits(b) = Tables!SumOfSuits(c) + SuitKeys[t]
    <3>1. Total(c) \in Int
      BY <2>7 DEF Total, Counts
    <3>2. Total(b) = Total(c) + 1 /\ Tables!SumOfSuits(b) = Tables!SumOfSuits(c) + 1 * SuitKeys[t]
      <4>1. Adds(c, t, 1, b)
        BY <2>7, <2>k, WithIs
      <4> QED BY <4>1 DEF Adds
    <3>3. Total(c) = 0
      BY <2>5, <3>1, <3>2
    <3> QED BY <2>k, <3>2, <3>3
  <2>9. Tables!SumOfSuits(c) = 0
    <3>1. c[0] = 0 /\ c[1] = 0 /\ c[2] = 0 /\ c[3] = 0
      BY <2>8 DEF Total, Counts
    <3> QED BY <3>1, SuitsAre DEF Tables!SumOfSuits
  <2> QED BY <2>2, <2>5, <2>8, <2>9, SuitsAre
<1> QED BY <1>2, <1>4, <1>5

LEMMA SumsFit ==
  ASSUME NEW n \in Tables!SuitCounts
  PROVE  Tables!SumOfSuits(n) \in 0 .. 7 * SuitKeys[3]
<1>1. n[0] \in Nat /\ n[1] \in Nat /\ n[2] \in Nat /\ n[3] \in Nat /\ n[0] + n[1] + n[2] + n[3] = 7
  BY SuitCountsAre DEF Total
<1>2. ASSUME NEW a \in Nat, NEW x \in Nat, NEW y \in Nat, x <= y
      PROVE  a * x \in Nat /\ a * y \in Nat /\ a * x <= a * y
  <2>1. a * (y - x) >= 0
    BY <1>2
  <2>2. a * (y - x) = a * y - a * x
    OBVIOUS
  <2>3. a * x \in Nat /\ a * y \in Nat
    OBVIOUS
  <2> QED BY <2>1, <2>2, <2>3
<1> DEFINE K == SuitKeys[3]
<1>3. /\ n[0] * SuitKeys[0] \in Nat /\ n[1] * SuitKeys[1] \in Nat /\ n[2] * SuitKeys[2] \in Nat
      /\ n[0] * K \in Nat /\ n[1] * K \in Nat /\ n[2] * K \in Nat /\ n[3] * K \in Nat
      /\ n[0] * SuitKeys[0] <= n[0] * K /\ n[1] * SuitKeys[1] <= n[1] * K /\ n[2] * SuitKeys[2] <= n[2] * K
  BY <1>1, <1>2, SuitsAre
<1>4. n[0] * K + n[1] * K + n[2] * K + n[3] * K = 7 * K
  <2>1. n[0] * K + n[1] * K + n[2] * K + n[3] * K = (n[0] + n[1] + n[2] + n[3]) * K
    BY <1>1, SuitsAre
  <2> QED BY <1>1, <2>1
<1>5. 0 <= Tables!SumOfSuits(n) /\ Tables!SumOfSuits(n) <= 7 * K /\ Tables!SumOfSuits(n) \in Int
  BY <1>3, <1>4 DEF Tables!SumOfSuits
<1>6. 7 * K \in Int
  BY SuitsAre
<1> QED BY <1>5, <1>6

(***************************************************************************)
(* A flush is found exactly when five of seven cards are of one suit, and  *)
(* its suit is the right one (README.md:30).                               *)
(***************************************************************************)
THEOREM FlushIsAlwaysFound == Spec => []FlushFound
<1>1. ASSUME NEW n \in Tables!SuitCounts
      PROVE  LET sum == Tables!SumOfSuits(n)
             IN  IF \E s \in Tables!Suits : n[s] >= 5
                   THEN Tables!FlushCheck[sum] \in {s \in Tables!Suits : n[s] >= 5}
                   ELSE Tables!FlushCheck[sum] = Tables!NoSuit
  <2> DEFINE sum == Tables!SumOfSuits(n)
             marked == {suit \in Tables!Suits : sum \in Tables!FlushSums(suit)}
             flushes == {s \in Tables!Suits : n[s] >= 5}
  <2>1. sum \in 0 .. 7 * SuitKeys[3]
    BY SumsFit
  <2>2. marked = flushes
    BY FlushSumsAre, SuitsAre
  <2>3. Tables!FlushCheck[sum] = IF \E suit \in Tables!Suits : sum \in Tables!FlushSums(suit)
                                   THEN Tables!Greatest(marked) ELSE Tables!NoSuit
    BY <2>1 DEF Tables!FlushCheck
  <2>4. (\E suit \in Tables!Suits : sum \in Tables!FlushSums(suit)) <=> marked # {}
    OBVIOUS
  <2>5. (\E s \in Tables!Suits : n[s] >= 5) <=> flushes # {}
    OBVIOUS
  <2>6. marked # {} => Tables!Greatest(marked) \in marked
    <3> SUFFICES ASSUME marked # {} PROVE Tables!Greatest(marked) \in marked
      OBVIOUS
    <3>1. marked \in SUBSET Nat /\ \A x \in marked : x <= 3
      BY SuitsAre
    <3> HIDE DEF marked
    <3>2. PICK q \in marked : \A r \in marked : r <= q
      BY <3>1, GreatestNat
    <3> QED BY <3>1, <3>2, GreatestIs
  <2> QED BY <2>2, <2>3, <2>4, <2>5, <2>6
<1>2. FlushFound
  BY <1>1 DEF FlushFound, Tables!FlushFound
<1> QED BY <1>2, PTL

-------------------------------------------------------------------------------
(***************************************************************************)
(* What is loaded is not the absence of it.                                *)
(***************************************************************************)
LEMMA LoadedIs ==
  /\ \A cards, key, check, table : Statics(cards, key, check, table) # NotLoaded
  /\ Slow!Statics # NotLoaded /\ Oracle!Constructed # NotLoaded
  /\ \A a, b, c, d : [rank_hash |-> a, offsets |-> b, flush_ranks |-> c, flush_check |-> d] # NotLoaded
<1>0. \A f : f = NotLoaded => DOMAIN f = {"HASH_PRIME"}
  BY DEF NotLoaded
<1>1. ASSUME NEW cards, NEW key, NEW check, NEW table
      PROVE  Statics(cards, key, check, table) # NotLoaded
  <2>1. "CARDS" \in DOMAIN Statics(cards, key, check, table)
    BY DEF Statics
  <2> QED BY <1>0, <2>1
<1>2. Slow!Statics # NotLoaded
  <2>1. "MAX_PAIR_CLASS" \in DOMAIN Slow!Statics
    BY DEF Slow!Statics
  <2> QED BY <1>0, <2>1
<1>3. Oracle!Constructed # NotLoaded
  <2>1. "mRankPtr" \in DOMAIN Oracle!Constructed
    BY DEF Oracle!Constructed
  <2> QED BY <1>0, <2>1
<1>4. ASSUME NEW a, NEW b, NEW c, NEW d
      PROVE  [rank_hash |-> a, offsets |-> b, flush_ranks |-> c, flush_check |-> d] # NotLoaded
  BY <1>0
<1> QED BY <1>1, <1>2, <1>3, <1>4

LEMMA CompressedIs ==
  ASSUME NEW p, NEW s, NEW rank, NEW keyBits
  PROVE  /\ Compressed(p, s, rank, keyBits).prime = p
         /\ DOMAIN Compressed(p, s, rank, keyBits).offsets = 0 .. 2^(keyBits - s) - 1
BY DEF Compressed

(***************************************************************************)
(* The laws of powers of two: 2^n is the number of subsets of a set of n   *)
(* elements, and one more element makes twice as many.                     *)
(***************************************************************************)
LEMMA CountedPower ==
  ASSUME NEW n \in Nat
  PROVE  /\ IsFiniteSet(SUBSET (1 .. n)) /\ Cardinality(SUBSET (1 .. n)) = 2^n
         /\ 2^n \in Nat \ {0}
<1> DEFINE T == 1 .. n
<1>1. IsFiniteSet(T) /\ Cardinality(T) = n
  <2>1. 1 \in Int /\ n \in Int /\ (1 > n => n = 0) /\ n - 1 + 1 = n
    OBVIOUS
  <2> QED BY <2>1, FS_Interval
<1> HIDE DEF T
<1>2. IsFiniteSet(SUBSET T) /\ Cardinality(SUBSET T) = 2^n
  BY <1>1, FS_SUBSET, Zenon
<1>3. SUBSET T # {}
  OBVIOUS
<1>4. Cardinality(SUBSET T) \in Nat /\ Cardinality(SUBSET T) # 0
  BY <1>2, <1>3, FS_CardinalityType, FS_EmptySet
<1> QED BY <1>2, <1>4 DEF T

LEMMA PowerDoubles ==
  ASSUME NEW n \in Nat
  PROVE  2^(n + 1) = 2 * 2^n
<1> DEFINE A == 1 .. n
           C == 1 .. n + 1
           with == {S \cup {n + 1} : S \in SUBSET A}
           f == [S \in SUBSET A |-> S \cup {n + 1}]
<1>1. C = A \cup {n + 1} /\ n + 1 \notin A
  OBVIOUS
<1>2. /\ IsFiniteSet(SUBSET A) /\ Cardinality(SUBSET A) = 2^n
      /\ IsFiniteSet(SUBSET C) /\ Cardinality(SUBSET C) = 2^(n + 1)
  <2>1. n + 1 \in Nat
    OBVIOUS
  <2> QED BY <2>1, CountedPower, Zenon
<1> HIDE DEF A, C
<1>3. f \in [SUBSET A -> with] /\ \A x \in with : \E S \in SUBSET A : f[S] = x
  OBVIOUS
<1>4. ASSUME NEW S \in SUBSET A, NEW T \in SUBSET A, f[S] = f[T]
      PROVE  S = T
  <2>1. S \cup {n + 1} = T \cup {n + 1} /\ n + 1 \notin S /\ n + 1 \notin T
    BY <1>1, <1>4
  <2>2. \A x : x \in S <=> x \in T
    <3>1. \A x : (x \in S \/ x = n + 1) <=> (x \in T \/ x = n + 1)
      BY <2>1
    <3> QED BY <2>1, <3>1
  <2> QED BY <2>2
<1>5. SUBSET C = (SUBSET A) \cup with /\ (SUBSET A) \cap with = {}
  <2>1. ASSUME NEW S \in SUBSET C, S \notin SUBSET A
        PROVE  S \in with
    <3>1. n + 1 \in S /\ S \ {n + 1} \in SUBSET A
      BY <1>1, <2>1
    <3>2. S = (S \ {n + 1}) \cup {n + 1}
      BY <3>1
    <3> QED BY <3>1, <3>2
  <2>2. ASSUME NEW S \in SUBSET A
        PROVE  S \cup {n + 1} \in SUBSET C /\ S \cup {n + 1} \notin SUBSET A
    BY <1>1
  <2>3. with \subseteq SUBSET C /\ (SUBSET A) \cap with = {}
    BY <2>2
  <2>4. SUBSET A \subseteq SUBSET C
    BY <1>1
  <2> HIDE DEF f, with
  <2> QED BY <2>1, <2>3, <2>4
<1> HIDE DEF f, with
<1>6. f \in Bijection(SUBSET A, with)
  BY <1>3, <1>4, Fun_IsBij
<1>7. ExistsBijection(SUBSET A, with)
  BY <1>6 DEF ExistsBijection
<1>8. IsFiniteSet(with) /\ Cardinality(with) = 2^n
  BY <1>2, <1>7, FS_Bijection
<1>9. Cardinality(SUBSET C)
        = Cardinality(SUBSET A) + Cardinality(with) - Cardinality((SUBSET A) \cap with)
  BY <1>2, <1>5, <1>8, FS_Union
<1>10. Cardinality((SUBSET A) \cap with) = 0
  BY <1>5, FS_EmptySet
<1>11. 2^n \in Nat
  BY CountedPower
<1> QED BY <1>2, <1>8, <1>9, <1>10, <1>11

LEMMA PowerGrows ==
  ASSUME NEW m \in Nat, NEW n \in Nat, m < n
  PROVE  2 * 2^m <= 2^n
<1> DEFINE A == 1 .. m + 1
           C == 1 .. n
<1>1. A \subseteq C /\ m + 1 \in Nat
  OBVIOUS
<1>2. /\ IsFiniteSet(SUBSET A) /\ Cardinality(SUBSET A) = 2^(m + 1)
      /\ IsFiniteSet(SUBSET C) /\ Cardinality(SUBSET C) = 2^n
  BY <1>1, CountedPower, Zenon
<1> HIDE DEF A, C
<1>3. SUBSET A \subseteq SUBSET C
  BY <1>1
<1>4. Cardinality(SUBSET A) <= Cardinality(SUBSET C)
  BY <1>2, <1>3, FS_Subset
<1> QED BY <1>2, <1>4, PowerDoubles

(***************************************************************************)
(* The width of a number: there is one, and only one, and that of the      *)
(* largest number of m bits is m.                                          *)
(***************************************************************************)
IsLength(x, n) == x < 2^n /\ (n = 0 \/ 2^(n - 1) <= x)

LEMMA OneLength ==
  ASSUME NEW x \in Nat, NEW m \in Nat, NEW n \in Nat, IsLength(x, m), IsLength(x, n)
  PROVE  m = n
<1>1. ASSUME NEW a \in Nat, NEW b \in Nat, IsLength(x, a), IsLength(x, b), a < b
      PROVE  FALSE
  <2>1. b - 1 \in Nat /\ b # 0 /\ a <= b - 1
    BY <1>1
  <2>2. 2^a <= 2^(b - 1)
    <3>1. CASE a = b - 1
      <4>1. 2^a \in Nat /\ 2^a = 2^(b - 1)
        BY <3>1, CountedPower
      <4> QED BY <4>1
    <3>2. CASE a < b - 1
      <4>1. 2 * 2^a <= 2^(b - 1) /\ 2^a \in Nat /\ 2^(b - 1) \in Nat
        BY <2>1, <3>2, PowerGrows, CountedPower
      <4> QED BY <4>1
    <3> QED BY <2>1, <3>1, <3>2
  <2>3. 2^a \in Nat /\ 2^(b - 1) \in Nat /\ x < 2^a /\ 2^(b - 1) <= x
    BY <1>1, <2>1, CountedPower DEF IsLength
  <2> QED BY <2>2, <2>3
<1>2. m < n \/ n < m \/ m = n
  OBVIOUS
<1> QED BY <1>1, <1>2

LEMMA BitLengthIs ==
  ASSUME NEW x \in Nat, NEW n \in 0 .. IntBits, IsLength(x, n)
  PROVE  BitLength(x) = n
<1>1. \A m \in 0 .. IntBits : m \in Nat
  BY WidthAssumption
<1>2. \A m \in 0 .. IntBits : IsLength(x, m) => m = n
  BY <1>1, OneLength
<1>3. BitLength(x) = CHOOSE m \in 0 .. IntBits : IsLength(x, m)
  BY DEF BitLength, IsLength
<1> QED BY <1>2, <1>3

LEMMA LengthExists ==
  ASSUME NEW x \in Nat, x < 2^IntBits
  PROVE  BitLength(x) \in 0 .. IntBits
<1> DEFINE N == {n \in 0 .. IntBits : n = 0 \/ 2^(n - 1) <= x}
<1>1. IntBits \in Nat
  BY WidthAssumption
<1>2. N \in SUBSET Nat /\ 0 \in N /\ \A n \in N : n <= IntBits
  BY <1>1
<1>3. PICK q \in N : \A r \in N : r <= q
  <2>1. N # {}
    BY <1>2
  <2> HIDE DEF N
  <2> QED BY <1>1, <1>2, <2>1, GreatestNat
<1>4. q \in 0 .. IntBits /\ q \in Nat /\ (q = 0 \/ 2^(q - 1) <= x)
  BY <1>2, <1>3
<1>5. x < 2^q
  <2>1. CASE q = IntBits
    BY <2>1
  <2>2. CASE q # IntBits
    <3>1. q + 1 \in 0 .. IntBits /\ (q + 1) - 1 = q /\ q + 1 # 0
      BY <1>1, <1>4, <2>2
    <3>2. q + 1 \notin N
      <4> HIDE DEF N
      <4>1. ~(q + 1 <= q)
        BY <1>4
      <4> QED BY <1>3, <4>1
    <3>3. ~(2^q <= x) /\ 2^q \in Nat
      BY <1>4, <3>1, <3>2, CountedPower
    <3> QED BY <3>3
  <2> QED BY <2>1, <2>2
<1>6. IsLength(x, q)
  BY <1>4, <1>5 DEF IsLength
<1> QED BY <1>4, <1>6, BitLengthIs

LEMMA LengthOfPower ==
  ASSUME NEW m \in 0 .. IntBits
  PROVE  BitLength(2^m - 1) = m
<1>1. m \in Nat /\ 2^m \in Nat \ {0}
  <2>1. m \in Nat
    BY WidthAssumption
  <2> QED BY <2>1, CountedPower
<1>2. 2^m - 1 \in Nat /\ 2^m - 1 < 2^m
  BY <1>1
<1>3. ASSUME m # 0
      PROVE  2^(m - 1) <= 2^m - 1
  <2>1. m - 1 \in Nat /\ (m - 1) + 1 = m
    BY <1>1, <1>3
  <2>2. 2^m = 2 * 2^(m - 1) /\ 2^(m - 1) \in Nat \ {0}
    BY <2>1, PowerDoubles, CountedPower
  <2> QED BY <2>2
<1>4. IsLength(2^m - 1, m)
  BY <1>2, <1>3 DEF IsLength
<1> QED BY <1>2, <1>4, BitLengthIs

(***************************************************************************)
(* The width that the static block takes from the keys of the cards is the *)
(* one that HashTable took from the last key, so that the bits of a bucket *)
(* come back from the number of the offsets.                               *)
(***************************************************************************)
LEMMA WidthsAre ==
  /\ FlushBitShift(7, KeySeven) = BitLength(KeyOfSeven(LastOfSeven))
  /\ FlushBitShift(5, KeyFive) = BitLength(Tables!Five!Key(FourAces))
  /\ FlushBitShift(7, KeySeven) \in 0 .. IntBits /\ FlushBitShift(5, KeyFive) \in 0 .. IntBits
<1>1. FACES - 1 \in 0 .. FACES - 1 /\ FACES - 2 \in 0 .. FACES - 1
  BY GameAssumption
<1>2. /\ KeySeven[FACES - 1] \in Nat /\ KeySeven[FACES - 2] \in Nat
      /\ KeyFive[FACES - 1] \in Nat /\ KeyFive[FACES - 2] \in Nat
  BY <1>1, GameAssumption
<1>3. KeyOfSeven(LastOfSeven) = 4 * KeySeven[FACES - 1] + (7 - 4) * KeySeven[FACES - 2]
  BY <1>2 DEF KeyOfSeven, LastOfSeven, Tables!KeyOf
<1>4. Tables!Five!Key(FourAces) = 4 * KeyFive[FACES - 1] + (5 - 4) * KeyFive[FACES - 2]
  BY <1>2 DEF FourAces, Tables!Five!Key
<1>5. /\ KeyOfSeven(LastOfSeven) \in Nat /\ KeyOfSeven(LastOfSeven) < 2^IntBits
      /\ Tables!Five!Key(FourAces) \in Nat /\ Tables!Five!Key(FourAces) < 2^IntBits
  <2>1. /\ 4 * KeySeven[FACES - 1] + 3 * KeySeven[FACES - 2] < 2^IntBits
        /\ 4 * KeyFive[FACES - 1] + KeyFive[FACES - 2] < 2^IntBits
    BY WidthAssumption
  <2>2. /\ KeyOfSeven(LastOfSeven) = 4 * KeySeven[FACES - 1] + 3 * KeySeven[FACES - 2]
        /\ Tables!Five!Key(FourAces) = 4 * KeyFive[FACES - 1] + KeyFive[FACES - 2]
    BY <1>2, <1>3, <1>4
  <2> QED BY <1>2, <2>1, <2>2
<1>6. /\ FlushBitShift(7, KeySeven) = BitLength(KeyOfSeven(LastOfSeven))
      /\ FlushBitShift(5, KeyFive) = BitLength(Tables!Five!Key(FourAces))
  BY <1>3, <1>4 DEF FlushBitShift
<1> QED BY <1>5, <1>6, LengthExists

LEMMA ShiftKept ==
  ASSUME NEW b \in 0 .. IntBits, NEW s \in 0 .. b, NEW offsets, DOMAIN offsets = 0 .. 2^(b - s) - 1
  PROVE  HashShift(b, offsets) = s
<1>1. b \in Nat /\ s \in Nat /\ s <= b /\ b - s \in 0 .. IntBits /\ b - s \in Nat
  BY WidthAssumption
<1>2. 2^(b - s) \in Nat \ {0}
  BY <1>1, CountedPower
<1>3. Cardinality(DOMAIN offsets) = 2^(b - s)
  <2> DEFINE P == 2^(b - s)
  <2>1. 0 \in Int /\ P - 1 \in Int /\ ~(0 > P - 1) /\ P - 1 - 0 + 1 = P
    BY <1>2
  <2> HIDE DEF P
  <2>2. Cardinality(0 .. P - 1) = P
    BY <2>1, FS_Interval
  <2> QED BY <2>2 DEF P
<1>4. BitLength(Cardinality(DOMAIN offsets) - 1) = b - s
  BY <1>1, <1>3, LengthOfPower
<1>5. HashShift(b, offsets) = b - (b - s)
  BY <1>4 DEF HashShift
<1> QED BY <1>1, <1>5

LEMMA WrapTwice ==
  ASSUME NEW x \in Int
  PROVE  Wrap(Wrap(x)) = Wrap(x)
<1> DEFINE H == 2^(IntBits - 1)
           M == 2^IntBits
<1>1. H \in Nat /\ M \in Nat \ {0}
  <2>1. IntBits \in Nat /\ IntBits - 1 \in Nat
    BY WidthAssumption
  <2> QED BY <2>1, CountedPower
<1>2. \A y : Wrap(y) = ((y + H) % M) - H
  BY DEF Wrap
<1> HIDE DEF H, M
<1> DEFINE r == (x + H) % M
<1>3. r \in 0 .. M - 1
  <2>1. x + H \in Int
    BY <1>1
  <2> QED BY <1>1, <2>1
<1> HIDE DEF r
<1>4. Wrap(x) = r - H /\ (r - H) + H = r /\ r \in Nat
  BY <1>1, <1>2, <1>3 DEF r
<1>5. r % M = r
  BY <1>1, <1>3
<1> QED BY <1>2, <1>4, <1>5

(***************************************************************************)
(* A key array of either class, and the card in it.                        *)
(***************************************************************************)
LEMMA CardsWrapped ==
  ASSUME NEW key \in [0 .. FACES - 1 -> Nat], NEW shift \in Nat, NEW card \in 0 .. 4 * FACES - 1
  PROVE  key[card % FACES] + SuitKeys[card \div FACES] * 2^shift \in Int
<1>1. FACES \in Nat \ {0} /\ card \in Nat /\ card < 4 * FACES
  BY GameAssumption
<1>2. card % FACES \in 0 .. FACES - 1
  BY <1>1
<1>3. card \div FACES \in 0 .. 3
  <2>1. card \div FACES \in Nat /\ card = (card \div FACES) * FACES + (card % FACES)
    BY <1>1
  <2>2. card \div FACES < 4
    <3> DEFINE q == card \div FACES
    <3>1. q \in Nat /\ q * FACES <= card
      BY <1>1, <1>2, <2>1
    <3> HIDE DEF q
    <3>2. ASSUME q >= 4
          PROVE  FALSE
      <4>1. q * FACES >= 4 * FACES
        BY <1>1, <3>1, <3>2
      <4> QED BY <1>1, <3>1, <4>1
    <3> QED BY <3>1, <3>2 DEF q
  <2> QED BY <2>1, <2>2
<1>4. key[card % FACES] \in Nat /\ SuitKeys[card \div FACES] \in Nat /\ 2^shift \in Nat
  BY <1>2, <1>3, GameAssumption, CountedPower DEF Suits
<1> QED BY <1>4

WellLoaded(t) ==
  /\ t.HASH_PRIME \in Factors /\ t.RANK_OFFSET_SHIFT \in Shifts
  /\ \A card \in DOMAIN t.CARDS : t.CARDS[card] = Wrap(t.CARDS[card])

LEMMA StaticsWellLoaded ==
  ASSUME NEW cards, NEW key \in [0 .. FACES - 1 -> Nat], NEW check, NEW rank,
         NEW p \in Factors, NEW s \in Shifts,
         FlushBitShift(cards, key) \in 0 .. IntBits, s \in 0 .. FlushBitShift(cards, key)
  PROVE  WellLoaded(Statics(cards, key, check, Compressed(p, s, rank, FlushBitShift(cards, key))))
<1> DEFINE b == FlushBitShift(cards, key)
           table == Compressed(p, s, rank, b)
           t == Statics(cards, key, check, table)
<1> HIDE DEF b, table, t
<1>1. table.prime = p /\ DOMAIN table.offsets = 0 .. 2^(b - s) - 1
  BY CompressedIs DEF table
<1>2. b \in 0 .. IntBits /\ s \in 0 .. b /\ b \in Nat
  BY WidthAssumption DEF b
<1>3. HashShift(b, table.offsets) = s
  BY <1>1, <1>2, ShiftKept
<1>4. /\ t.HASH_PRIME = p /\ t.RANK_OFFSET_SHIFT = s
      /\ t.CARDS = [card \in 0 .. 4 * FACES - 1 |->
                      Wrap(key[card % FACES] + SuitKeys[card \div FACES] * 2^b)]
  <2>1. /\ t.HASH_PRIME = table.prime /\ t.RANK_OFFSET_SHIFT = HashShift(b, table.offsets)
        /\ t.CARDS = [card \in 0 .. 4 * FACES - 1 |->
                        Wrap(key[card % FACES] + SuitKeys[card \div FACES] * 2^b)]
    BY DEF Statics, t, b
  <2> QED BY <1>1, <1>3, <2>1
<1>5. ASSUME NEW card \in DOMAIN t.CARDS
      PROVE  t.CARDS[card] = Wrap(t.CARDS[card])
  <2> DEFINE x == key[card % FACES] + SuitKeys[card \div FACES] * 2^b
  <2>1. card \in 0 .. 4 * FACES - 1 /\ t.CARDS[card] = Wrap(x)
    BY <1>4
  <2>2. x \in Int
    BY <1>2, <2>1, CardsWrapped
  <2> HIDE DEF x
  <2> QED BY <2>1, <2>2, WrapTwice
<1>6. WellLoaded(t)
  BY <1>4, <1>5 DEF WellLoaded
<1> QED BY <1>6 DEF t, table, b

(***************************************************************************)
(* The static fields are loaded together, from tables that are complete.   *)
(***************************************************************************)
Fields ==
  /\ (seven = NotLoaded) = (five = NotLoaded) /\ (seven = NotLoaded) = (slow = NotLoaded)
  /\ (cpp = NotLoaded) = (oracle = NotLoaded)
  /\ Loaded \/ LoadedCpp => toRank = {}
  /\ Loaded => WellLoaded(seven) /\ WellLoaded(five)

LEMMA WidthsLoaded ==
  ASSUME Ranked, SevenVisited, toRank = {}
  PROVE  /\ BitLength(lastSeven) = FlushBitShift(7, KeySeven)
         /\ BitLength(lastHash) = FlushBitShift(5, KeyFive)
<1>1. lastSeven = KeyOfSeven(LastOfSeven)
  BY DEF SevenVisited
<1>2. ranksSeven # [k \in {} |-> 0]
  <2>1. KeyOfSeven(LastOfSeven) \in DOMAIN ranksSeven
    BY LastOfSevenLast DEF SevenVisited
  <2> QED BY <2>1
<1>3. todo = {}
  BY <1>2 DEF SevenVisited
<1>4. lastHash = Tables!Five!Key(FourAces)
  BY <1>3, AllVisited
<1> QED BY <1>1, <1>4, WidthsAre

LEMMA FieldsInit == Init => Fields
BY DEF Init, Fields, Loaded, LoadedCpp

LEMMA FieldsNext == Ranked /\ SevenVisited /\ Fields /\ [Next]_vars => Fields'
<1> SUFFICES ASSUME Ranked, SevenVisited, Fields, [Next]_vars PROVE Fields'
  OBVIOUS
<1>1. CASE Generate
  <2>1. UNCHANGED <<seven, five, slow, cpp, oracle>>
    BY <1>1 DEF Generate, java
  <2>2. toRank = {} => toRank' = {}
    BY SevenSteps DEF Tables!RankSeven
  <2>3. NotLoaded' = NotLoaded
    BY DEF NotLoaded
  <2>4. Loaded' = Loaded /\ LoadedCpp' = LoadedCpp
    BY <2>1, <2>3 DEF Loaded, LoadedCpp
  <2>5. (WellLoaded(seven))' = WellLoaded(seven) /\ (WellLoaded(five))' = WellLoaded(five)
    BY <2>1 DEF WellLoaded, Wrap
  <2> QED BY <2>1, <2>2, <2>3, <2>4, <2>5 DEF Fields
<1>2. ASSUME NEW p \in Factors, NEW s \in Shifts, Load(p, s)
      PROVE  Fields'
  <2>1. /\ toRank = {} /\ toRank' = {} /\ cpp' = cpp /\ oracle' = oracle
        /\ seven' = Statics(7, KeySeven, Tables!FlushCheck, Compressed(p, s, ranksSeven, BitLength(lastSeven)))
        /\ five' = Statics(5, KeyFive, Tables!FlushCheckFive, Compressed(p, s, ranks, BitLength(lastHash)))
        /\ slow' = Slow!Statics
    BY <1>2 DEF Load, Generated, Tables!Done, generator
  <2>2. seven' # NotLoaded /\ five' # NotLoaded /\ slow' # NotLoaded /\ NotLoaded' = NotLoaded
    BY <2>1, LoadedIs DEF NotLoaded
  <2>3. s \in 0 .. FlushBitShift(7, KeySeven) /\ s \in 0 .. FlushBitShift(5, KeyFive)
    BY WidthAssumption
  <2>4. KeySeven \in [0 .. FACES - 1 -> Nat] /\ KeyFive \in [0 .. FACES - 1 -> Nat]
    BY GameAssumption
  <2>5. WellLoaded(seven')
    <3>1. WellLoaded(Statics(7, KeySeven, Tables!FlushCheck,
                             Compressed(p, s, ranksSeven, FlushBitShift(7, KeySeven))))
      BY <2>3, <2>4, WidthsAre, StaticsWellLoaded
    <3> QED BY <2>1, <3>1, WidthsLoaded
  <2>6. WellLoaded(five')
    <3>1. WellLoaded(Statics(5, KeyFive, Tables!FlushCheckFive,
                             Compressed(p, s, ranks, FlushBitShift(5, KeyFive))))
      BY <2>3, <2>4, WidthsAre, StaticsWellLoaded
    <3> QED BY <2>1, <3>1, WidthsLoaded
  <2>7. (WellLoaded(seven))' /\ (WellLoaded(five))'
    BY <2>5, <2>6 DEF WellLoaded, Wrap
  <2> QED BY <2>1, <2>2, <2>7 DEF Fields, Loaded, LoadedCpp
<1>3. CASE LoadCpp
  <2>1. /\ toRank' = {} /\ seven' = seven /\ five' = five /\ slow' = slow
        /\ cpp' # NotLoaded /\ oracle' # NotLoaded /\ NotLoaded' = NotLoaded
    BY <1>3, LoadedIs DEF LoadCpp, Generated, Tables!Done, generator, java, NotLoaded
  <2>2. Generated => seven = NotLoaded
    BY DEF Generated
  <2>3. seven = NotLoaded
    BY <1>3, <2>2 DEF LoadCpp
  <2> QED BY <2>1, <2>3 DEF Fields, Loaded, LoadedCpp
<1>4. CASE UNCHANGED vars
  <2>1. UNCHANGED <<seven, five, slow, cpp, oracle, toRank>>
    BY <1>4 DEF vars, java, generator
  <2>2. NotLoaded' = NotLoaded
    BY DEF NotLoaded
  <2>3. Loaded' = Loaded /\ LoadedCpp' = LoadedCpp
    BY <2>1, <2>2 DEF Loaded, LoadedCpp
  <2>4. (WellLoaded(seven))' = WellLoaded(seven) /\ (WellLoaded(five))' = WellLoaded(five)
    BY <2>1 DEF WellLoaded, Wrap
  <2> QED BY <2>1, <2>2, <2>3, <2>4 DEF Fields
<1> QED BY <1>1, <1>2, <1>3, <1>4 DEF Next

LEMMA FieldsAlways == Spec => []Fields
<1>1. Init => Fields
  BY FieldsInit
<1> QED BY <1>1, FieldsNext, RankedAlways, SevenVisitedAlways, PTL DEF Spec

(***************************************************************************)
(* Types of the generator's state and of the static fields: all keys of    *)
(* cards are ints, and the bits of a bucket, which are nowhere written     *)
(* down, come out of the arrays as they went in.                           *)
(***************************************************************************)
THEOREM TypesAlwaysOK == Spec => []TypeOK
<1>1. ASSUME Ranked, Filled
      PROVE  Tables!Five!TypeOK
  <2>1. section \in 1 .. 11 + 1 /\ (IF todo = {} THEN section = 11 + 1 ELSE todo \subseteq Tables!Five!Sections[section])
    BY <1>1 DEF Ranked, Visiting
  <2>2. Len(Tables!Five!Sections) = 11
    BY DEF Tables!Five!Sections
  <2>3. /\ currentRank \in Nat /\ lastHash \in Nat
        /\ DOMAIN ranks = KeysVisited /\ \A k \in KeysVisited : ranks[k] \in 1 .. currentRank - 1
    BY <1>1 DEF Ranked, Counted, Numbered, AcesLast
  <2>4. KeysVisited \subseteq Nat
    <3>1. ASSUME NEW h \in UNION {VisitedIn(s) : s \in Keyed}
          PROVE  Tables!Five!Key(h) \in Nat
      <4>1. PICK s \in 1 .. 11 : h \in Tables!Five!Sections[s]
        BY DEF VisitedIn, Keyed
      <4> QED BY <4>1, HandsOfSections, KeyIsNat
    <3> QED BY <3>1 DEF KeysVisited
  <2>5. DOMAIN FLUSH_RANKS \subseteq SUBSET (0 .. FACES - 1)
    BY <1>1, NotToFill DEF Ranked, Counted
  <2>6. ASSUME NEW S \in DOMAIN FLUSH_RANKS
        PROVE  FLUSH_RANKS[S] \in 1 .. currentRank - 1
    <3>1. CASE S \in FlushesVisited
      BY <1>1, <3>1 DEF Ranked, Numbered
    <3>2. CASE S \notin FlushesVisited
      <4>1. S \in Tables!SetsToFill \ toFill
        BY <1>1, <3>2 DEF Ranked, Counted
      <4>2. PICK T \in FiveSets : FLUSH_RANKS[S] = FLUSH_RANKS[T]
        BY <1>1, <4>1 DEF Filled, IsBest
      <4>3. todo = {}
        BY <1>1, <4>1 DEF Ranked, Counted
      <4>4. T \in FlushesVisited
        BY <1>1, <4>3, AllVisited
      <4> QED BY <1>1, <4>2, <4>4 DEF Ranked, Numbered
    <3> QED BY <3>1, <3>2
  <2>7. Tables!Five!Faces = 0 .. FACES - 1
    BY FacesAre
  <2> QED BY <2>1, <2>2, <2>3, <2>4, <2>5, <2>6, <2>7 DEF Tables!Five!TypeOK, Tables!Five!Done
<1>2. ASSUME Ranked, SevenVisited
      PROVE  Tables!TypeOK
  <2>1. toFill \subseteq SUBSET Tables!Faces
    BY <1>2 DEF Ranked, Counted, Tables!SetsToFill
  <2>2. DOMAIN ranksSeven \subseteq Nat
    BY <1>2, LastOfSevenLast DEF SevenVisited
  <2> QED BY <1>2, <2>1, <2>2 DEF SevenVisited, Tables!TypeOK, Tables!Five!Done
<1>3. Ranked /\ Filled /\ SevenVisited /\ Fields => TypeOK
  BY <1>1, <1>2 DEF Fields, WellLoaded, TypeOK, Tables!Done
<1> QED BY <1>3, RankedAlways, FilledAlways, SevenVisitedAlways, FieldsAlways, PTL

-------------------------------------------------------------------------------
(***************************************************************************)
(* The ranks tell which of two hands is the better one.  First the rules:  *)
(* of two hands no more than one beats the other, and what counts is how   *)
(* often each face comes.                                                  *)
(***************************************************************************)
LEMMA HighestIn ==
  ASSUME NEW S \in SUBSET (0 .. FACES - 1), S # {}
  PROVE  Tables!Five!Highest(S) \in S
<1>1. S \in SUBSET Nat /\ FACES \in Nat /\ \A x \in S : x <= FACES
  BY FacesAre
<1>2. PICK q \in S : \A r \in S : r <= q
  BY <1>1, GreatestNat
<1>3. Tables!Five!Highest(S) = q
  BY <1>1, <1>2, HighestIs
<1> QED BY <1>3

LEMMA TieOneWay ==
  ASSUME NEW g \in [1 .. 5 -> 0 .. FACES - 1], NEW h \in [1 .. 5 -> 0 .. FACES - 1],
         Tables!Five!FacesOf(g) \in Tables!Five!Runs <=> Tables!Five!FacesOf(h) \in Tables!Five!Runs,
         Tables!Five!TieBreak(g, h)
  PROVE  ~Tables!Five!TieBreak(h, g)
<1>1. CASE Tables!Five!FacesOf(g) \in Tables!Five!Runs
  <2>1. \A f \in [1 .. 5 -> 0 .. FACES - 1] :
          Tables!Five!FacesOf(f) \in SUBSET (0 .. FACES - 1) /\ Tables!Five!FacesOf(f) # {}
    BY DEF Tables!Five!FacesOf
  <2>2. /\ Tables!Five!Highest(Tables!Five!FacesOf(g)) \in Int
        /\ Tables!Five!Highest(Tables!Five!FacesOf(h)) \in Int
    <3>1. /\ Tables!Five!Highest(Tables!Five!FacesOf(g)) \in Tables!Five!FacesOf(g)
          /\ Tables!Five!Highest(Tables!Five!FacesOf(h)) \in Tables!Five!FacesOf(h)
      BY <2>1, HighestIn
    <3>2. \A x \in 0 .. FACES - 1 : x \in Int
      OBVIOUS
    <3> QED BY <2>1, <3>1, <3>2
  <2>3. /\ Tables!Five!FacesOf(g) # Tables!Five!Wheel
        /\ \/ Tables!Five!FacesOf(h) = Tables!Five!Wheel
           \/ Tables!Five!Highest(Tables!Five!FacesOf(g)) > Tables!Five!Highest(Tables!Five!FacesOf(h))
    BY <1>1 DEF Tables!Five!TieBreak
  <2>4. Tables!Five!TieBreak(h, g) =>
          /\ Tables!Five!FacesOf(h) # Tables!Five!Wheel
          /\ \/ Tables!Five!FacesOf(g) = Tables!Five!Wheel
             \/ Tables!Five!Highest(Tables!Five!FacesOf(h)) > Tables!Five!Highest(Tables!Five!FacesOf(g))
    BY <1>1 DEF Tables!Five!TieBreak
  <2> HIDE DEF Tables!Five!Highest
  <2> QED BY <2>2, <2>3, <2>4
<1>2. CASE Tables!Five!FacesOf(g) \notin Tables!Five!Runs
  <2> SUFFICES ASSUME Tables!Five!TieBreak(h, g) PROVE FALSE
    OBVIOUS
  <2> DEFINE T(f, n) == Tables!Five!Times(f, n)
  <2>1. PICK n \in 1 .. 4 :
          /\ \A k \in n + 1 .. 4 : T(g, k) = T(h, k)
          /\ T(g, n) # T(h, n) /\ Tables!Five!Highest(Differ(T(g, n), T(h, n))) \in T(g, n)
    BY <1>2 DEF Tables!Five!TieBreak, Differ
  <2>2. PICK m \in 1 .. 4 :
          /\ \A k \in m + 1 .. 4 : T(h, k) = T(g, k)
          /\ T(h, m) # T(g, m) /\ Tables!Five!Highest(Differ(T(h, m), T(g, m))) \in T(h, m)
    BY <1>2 DEF Tables!Five!TieBreak, Differ
  <2>3. n = m
    <3>1. ~(n < m)
      <4>1. n < m => m \in n + 1 .. 4
        OBVIOUS
      <4> QED BY <2>1, <2>2, <4>1
    <3>2. ~(m < n)
      <4>1. m < n => n \in m + 1 .. 4
        OBVIOUS
      <4> QED BY <2>1, <2>2, <4>1
    <3> QED BY <3>1, <3>2
  <2> DEFINE D == Differ(T(g, n), T(h, n))
  <2>4. Differ(T(h, n), T(g, n)) = D
    BY DEF Differ
  <2>5. D # {} /\ D \in SUBSET (0 .. FACES - 1)
    BY <2>1, FacesAre DEF Differ, Tables!Five!Times
  <2>6. Tables!Five!Highest(D) \in D
    <3> HIDE DEF D
    <3> QED BY <2>5, HighestIn
  <2>7. Tables!Five!Highest(D) \in T(g, n) /\ Tables!Five!Highest(D) \in T(h, n)
    BY <2>1, <2>2, <2>3, <2>4
  <2> QED BY <2>6, <2>7 DEF Differ
<1> QED BY <1>1, <1>2

LEMMA SameBeats ==
  ASSUME NEW g, NEW h, NEW g2, NEW h2, NEW gFlush, NEW hFlush, Same(g, g2), Same(h, h2)
  PROVE  Tables!Five!Beats(g, gFlush, h, hFlush) <=> Tables!Five!Beats(g2, gFlush, h2, hFlush)
<1>1. /\ \A n : Tables!Five!Times(g, n) = Tables!Five!Times(g2, n)
      /\ \A n : Tables!Five!Times(h, n) = Tables!Five!Times(h2, n)
      /\ Tables!Five!FacesOf(g) = Tables!Five!FacesOf(g2)
      /\ Tables!Five!FacesOf(h) = Tables!Five!FacesOf(h2)
  BY SameTimes
<1>2. /\ Tables!Five!Category(g, gFlush) = Tables!Five!Category(g2, gFlush)
      /\ Tables!Five!Category(h, hFlush) = Tables!Five!Category(h2, hFlush)
  BY <1>1 DEF Tables!Five!Category
<1>3. Tables!Five!TieBreak(g, h) <=> Tables!Five!TieBreak(g2, h2)
  BY <1>1 DEF Tables!Five!TieBreak
<1> QED BY <1>2, <1>3 DEF Tables!Five!Beats

(***************************************************************************)
(* Of two hands of the loops, the one that is visited later beats the      *)
(* other, and is not beaten by it.                                         *)
(***************************************************************************)
Precedes(s, g, t, h) == s < t \/ (s = t /\ Tables!Five!Before(g, h))

LEMMA RunsOfSections ==
  ASSUME NEW s \in 1 .. 11, NEW h \in Tables!Five!Sections[s]
  PROVE  Tables!Five!FacesOf(h) \in Tables!Five!Runs <=> s \in {5, 6, 10, 11}
BY SectionsAre, UnpairedAre, PairsAre, TwoPairsAre, TripsAre, LowStraightIs, StraightsAre,
   FullHousesAre, QuadsAre

LEMMA LaterIsBetter ==
  ASSUME NEW s \in 1 .. 11, NEW g \in Tables!Five!Sections[s],
         NEW t \in 1 .. 11, NEW h \in Tables!Five!Sections[t], Precedes(s, g, t, h)
  PROVE  /\ Tables!Five!Beats(h, Flushes(t), g, Flushes(s))
         /\ ~Tables!Five!Beats(g, Flushes(s), h, Flushes(t))
<1>1. /\ Tables!Five!Category(g, Flushes(s)) = CategoryOf[s]
      /\ Tables!Five!Category(h, Flushes(t)) = CategoryOf[t]
  BY CategoryIs
<1>2. g \in [1 .. 5 -> 0 .. FACES - 1] /\ h \in [1 .. 5 -> 0 .. FACES - 1]
  BY HandsOfSections
<1>3. ASSUME CategoryOf[s] = CategoryOf[t], CategoryOf[s] \in Int, Tables!Five!Beats(h, Flushes(t), g, Flushes(s)),
             s \in {5, 6, 10, 11} <=> t \in {5, 6, 10, 11}
      PROVE  ~Tables!Five!Beats(g, Flushes(s), h, Flushes(t))
  <2>1. Tables!Five!TieBreak(h, g)
    BY <1>1, <1>3 DEF Tables!Five!Beats
  <2>2. ~Tables!Five!TieBreak(g, h)
    BY <1>2, <1>3, <2>1, RunsOfSections, TieOneWay
  <2> QED BY <1>1, <1>3, <2>2 DEF Tables!Five!Beats
<1>4. CASE s = t
  <2>1. Tables!Five!Beats(h, Flushes(t), g, Flushes(s))
    BY <1>4, LaterBeats DEF Precedes
  <2>2. CategoryOf[s] \in Int
    BY SectionsAre DEF CategoryOf
  <2> QED BY <1>3, <1>4, <2>1, <2>2
<1>5. CASE t = s + 1 /\ s \in {5, 10}
  <2>1. s \in 1 .. 10
    BY <1>5
  <2>2. Tables!Five!Beats(h, Flushes(t), g, Flushes(s))
    BY <1>5, <2>1, NextSectionBeats
  <2>3. CategoryOf[s] = CategoryOf[t] /\ CategoryOf[s] \in Int
    BY <1>5 DEF CategoryOf
  <2> QED BY <1>3, <1>5, <2>2, <2>3
<1>6. CASE s < t /\ ~(t = s + 1 /\ s \in {5, 10})
  <2>1. CategoryOf[s] < CategoryOf[t] /\ CategoryOf[s] \in Int /\ CategoryOf[t] \in Int
    <3>1. s \in {1, 2, 3, 4, 5, 6, 7, 8, 9, 10, 11} /\ t \in {1, 2, 3, 4, 5, 6, 7, 8, 9, 10, 11}
      BY SectionsAre
    <3> QED BY <1>6, <3>1 DEF CategoryOf
  <2> QED BY <1>1, <2>1 DEF Tables!Five!Beats
<1> QED BY <1>4, <1>5, <1>6 DEF Precedes

(***************************************************************************)
(* Then the numbers: a hand that is visited later has a greater one.       *)
(***************************************************************************)
RankIn(s, h) == IF Flushes(s) THEN FLUSH_RANKS[Tables!Five!FacesOf(h)] ELSE ranks[Tables!Five!Key(h)]
InOrder ==
  \A s \in 1 .. 11 : \A h \in VisitedIn(s), g \in todo : s = section => Tables!Five!Before(h, g)
LaterGreater ==
  \A s, t \in 1 .. 11 : \A g \in VisitedIn(s), h \in VisitedIn(t) :
    Precedes(s, g, t, h) => RankIn(s, g) < RankIn(t, h)
Ordered == InOrder /\ LaterGreater

LEMMA PlacesVisited ==
  ASSUME NEW s \in 1 .. 11, NEW h \in VisitedIn(s)
  PROVE  /\ h \in Tables!Five!Sections[s] /\ h \in [1 .. 5 -> Nat]
         /\ ~Flushes(s) => Tables!Five!Key(h) \in KeysVisited
         /\ Flushes(s) => Tables!Five!FacesOf(h) \in FlushesVisited
<1>1. h \in Tables!Five!Sections[s]
  BY DEF VisitedIn
<1>2. h \in [1 .. 5 -> Nat]
  <2>1. h \in [1 .. 5 -> 0 .. FACES - 1]
    BY <1>1, HandsOfSections
  <2> QED BY <2>1, FacesAre
<1>3. ~Flushes(s) => s \in Keyed
  BY SectionsSplit DEF Flushes
<1>4. Flushes(s) => s \in Tables!Five!FlushSections
  BY DEF Flushes
<1> QED BY <1>1, <1>2, <1>3, <1>4 DEF KeysVisited, FlushesVisited

LEMMA OrderedInit == Init => Ordered
<1> SUFFICES ASSUME Init PROVE Ordered
  OBVIOUS
<1>1. section = 1 /\ todo = Tables!Five!Sections[1]
  BY DEF Init, Tables!Init, Tables!Five!Init
<1>2. \A s \in 1 .. 11 : VisitedIn(s) = {}
  BY <1>1 DEF VisitedIn
<1> QED BY <1>1, <1>2 DEF Ordered, InOrder, LaterGreater

(***************************************************************************)
(* A visit: the hand gets the greatest number so far, and is visited after *)
(* all others.                                                             *)
(***************************************************************************)
LEMMA RanksOfStep ==
  ASSUME Ranked, Tables!Five!Next, UNCHANGED toFill
  PROVE  /\ \A s \in 1 .. 11 : \A h : s = section /\ h = Tables!Five!Hand => RankIn(s, h)' = currentRank
         /\ \A s \in 1 .. 11 : \A h \in VisitedIn(s) :
              RankIn(s, h)' = RankIn(s, h) /\ RankIn(s, h) < currentRank
<1> USE DEF Ranked
<1> DEFINE H == Tables!Five!Hand
           k == Tables!Five!Key(H)
           S == Tables!Five!FacesOf(H)
<1>1. section \in 1 .. 11 /\ (Tables!Five!RankByKey(H) \/ Tables!Five!RankFlush(H))
  BY StepOfRanking
<1>2. ASSUME NEW s \in 1 .. 11, NEW h
      PROVE  RankIn(s, h)' = IF Flushes(s) THEN FLUSH_RANKS'[Tables!Five!FacesOf(h)]
                                           ELSE ranks'[Tables!Five!Key(h)]
  BY DEF RankIn, Flushes, Tables!Five!FlushSections, Tables!Five!FacesOf, Tables!Five!Key
<1>3. currentRank \in Nat /\ DOMAIN ranks = KeysVisited
  BY DEF Counted
<1>4. toFill = Tables!SetsToFill
  <2>1. todo # {}
    BY StepOfRanking
  <2> QED BY <2>1 DEF Counted
<1>5. DOMAIN FLUSH_RANKS = FlushesVisited
  BY <1>4 DEF Counted
<1>6. \A s \in 1 .. 11 : \A h \in VisitedIn(s) : RankIn(s, h) < currentRank
  <2>1. ASSUME NEW s \in 1 .. 11, NEW h \in VisitedIn(s) PROVE RankIn(s, h) \in 1 .. currentRank - 1
    BY PlacesVisited DEF RankIn, Numbered
  <2> QED BY <1>3, <2>1
<1>7. CASE section \notin Tables!Five!FlushSections
  <2>1. k \notin KeysVisited
    BY <1>7, KeyVisited
  <2>2. ranks' = Tables!Five!Assigned(ranks, k, currentRank) /\ FLUSH_RANKS' = FLUSH_RANKS
    BY <1>1, <1>7 DEF Tables!Five!RankByKey, Tables!Five!RankFlush
  <2>3. ranks'[k] = currentRank /\ \A x \in KeysVisited : ranks'[x] = ranks[x]
    <3> DEFINE f == Tables!Five!Assigned(ranks, k, currentRank)
    <3>1. f[k] = currentRank /\ \A z \in DOMAIN ranks : z # k => f[z] = ranks[z]
      <4> HIDE DEF k
      <4> QED BY DEF Tables!Five!Assigned
    <3>2. ranks' = f
      BY <2>2
    <3> HIDE DEF f, k
    <3> QED BY <1>3, <2>1, <3>1, <3>2
  <2>4. \A s \in 1 .. 11 : \A h \in VisitedIn(s) : RankIn(s, h)' = RankIn(s, h)
    BY <1>2, <2>2, <2>3, PlacesVisited DEF RankIn
  <2>5. \A s \in 1 .. 11 : \A h : s = section /\ h = H => RankIn(s, h)' = currentRank
    BY <1>2, <1>7, <2>3 DEF Flushes
  <2> QED BY <1>6, <2>4, <2>5
<1>8. CASE section \in Tables!Five!FlushSections
  <2>1. S \notin FlushesVisited
    BY <1>8, FlushVisited
  <2>2. FLUSH_RANKS' = Tables!Five!Assigned(FLUSH_RANKS, S, currentRank) /\ ranks' = ranks
    BY <1>1, <1>8 DEF Tables!Five!RankByKey, Tables!Five!RankFlush
  <2>3. FLUSH_RANKS'[S] = currentRank /\ \A x \in FlushesVisited : FLUSH_RANKS'[x] = FLUSH_RANKS[x]
    <3> DEFINE f == Tables!Five!Assigned(FLUSH_RANKS, S, currentRank)
    <3>1. f[S] = currentRank /\ \A z \in DOMAIN FLUSH_RANKS : z # S => f[z] = FLUSH_RANKS[z]
      <4> HIDE DEF S
      <4> QED BY DEF Tables!Five!Assigned
    <3>2. FLUSH_RANKS' = f
      BY <2>2
    <3> HIDE DEF f, S
    <3> QED BY <1>5, <2>1, <3>1, <3>2
  <2>4. \A s \in 1 .. 11 : \A h \in VisitedIn(s) : RankIn(s, h)' = RankIn(s, h)
    BY <1>2, <2>2, <2>3, PlacesVisited DEF RankIn
  <2>5. \A s \in 1 .. 11 : \A h : s = section /\ h = H => RankIn(s, h)' = currentRank
    BY <1>2, <1>8, <2>3 DEF Flushes
  <2> QED BY <1>6, <2>4, <2>5
<1> QED BY <1>7, <1>8

LEMMA BeforeOneWay ==
  ASSUME NEW g \in [1 .. 5 -> Nat], NEW h \in [1 .. 5 -> Nat], Tables!Five!Before(g, h)
  PROVE  ~Tables!Five!Before(h, g)
BY BeforeIs

LEMMA OrderedStep ==
  ASSUME Ranked, Ordered, Tables!Five!Next, UNCHANGED toFill
  PROVE  Ordered'
<1> DEFINE H == Tables!Five!Hand
<1> HIDE DEF H
<1>v. Visiting
  BY DEF Ranked
<1>1. /\ section \in 1 .. 11 /\ H \in todo /\ Tables!Five!IsFirst(H, todo) /\ Tables!Five!Advance(H)
      /\ todo \subseteq [1 .. 5 -> Nat]
  BY <1>v, StepOfRanking, HandsLeft DEF H
<1>2. \A s \in 1 .. 11 : VisitedIn(s)' = IF s = section THEN VisitedIn(s) \cup {H} ELSE VisitedIn(s)
  BY <1>v, VisitedStep DEF H
<1>3. \A s \in 1 .. 11 : \A h \in VisitedIn(s) : s <= section
  BY <1>1 DEF VisitedIn
<1>4. InOrder'
  <2> SUFFICES ASSUME NEW s \in 1 .. 11, NEW h \in VisitedIn(s)', NEW g \in todo', s = section'
               PROVE  Tables!Five!Before(h, g)
    BY DEF InOrder, Tables!Five!Before
  <2>1. CASE todo # {H}
    <3>1. s = section /\ g \in todo \ {H}
      BY <1>1, <2>1 DEF Tables!Five!Advance
    <3>2. h = H \/ h \in VisitedIn(s)
      BY <1>2, <3>1
    <3> QED BY <1>1, <3>1, <3>2 DEF Ordered, InOrder, Tables!Five!IsFirst
  <2>2. CASE todo = {H}
    <3>1. s = section + 1
      BY <1>1, <2>2 DEF Tables!Five!Advance
    <3> QED BY <1>1, <1>2, <1>3, <3>1
  <2> QED BY <2>1, <2>2
<1>5. LaterGreater'
  <2> SUFFICES ASSUME NEW s \in 1 .. 11, NEW t \in 1 .. 11, NEW g \in VisitedIn(s)', NEW h \in VisitedIn(t)',
                      Precedes(s, g, t, h)
               PROVE  RankIn(s, g)' < RankIn(t, h)'
    BY DEF LaterGreater, Precedes, Tables!Five!Before
  <2>1. /\ \A r \in 1 .. 11 : \A f : r = section /\ f = H => RankIn(r, f)' = currentRank
        /\ \A r \in 1 .. 11 : \A f \in VisitedIn(r) : RankIn(r, f)' = RankIn(r, f) /\ RankIn(r, f) < currentRank
    BY RanksOfStep DEF H
  <2>2. g \in VisitedIn(s) \/ (s = section /\ g = H)
    BY <1>2
  <2>3. h \in VisitedIn(t) \/ (t = section /\ h = H)
    BY <1>2
  <2>4. CASE g \in VisitedIn(s) /\ h \in VisitedIn(t)
    BY <2>1, <2>4 DEF Ordered, LaterGreater
  <2>5. CASE g \in VisitedIn(s) /\ t = section /\ h = H
    BY <2>1, <2>5
  <2>6. CASE s = section /\ g = H
    <3>1. t = section /\ Tables!Five!Before(H, h)
      BY <1>1, <1>3, <2>3, <2>6 DEF Precedes
    <3>2. h = H \/ Tables!Five!Before(h, H)
      BY <1>1, <2>3, <3>1 DEF Ordered, InOrder
    <3>3. h \in [1 .. 5 -> Nat] /\ H \in [1 .. 5 -> Nat]
      BY <1>1, <2>3, PlacesVisited
    <3> QED BY <3>1, <3>2, <3>3, BeforeOneWay
  <2> QED BY <2>2, <2>3, <2>4, <2>5, <2>6
<1> QED BY <1>4, <1>5 DEF Ordered

LEMMA OrderedNext == Ranked /\ Ordered /\ [Next]_vars => Ordered'
<1> SUFFICES ASSUME Ranked, Ordered, [Next]_vars PROVE Ordered'
  OBVIOUS
<1>1. ASSUME UNCHANGED RankedState, \A S \in FlushesVisited : FLUSH_RANKS'[S] = FLUSH_RANKS[S]
      PROVE  Ordered'
  <2>1. section' = section /\ todo' = todo /\ ranks' = ranks
    BY <1>1 DEF RankedState
  <2>2. \A s \in 1 .. 11 : VisitedIn(s)' = VisitedIn(s)
    BY <2>1 DEF VisitedIn
  <2>3. \A s \in 1 .. 11 : \A h \in VisitedIn(s) : RankIn(s, h)' = RankIn(s, h)
    <3> SUFFICES ASSUME NEW s \in 1 .. 11, NEW h \in VisitedIn(s) PROVE RankIn(s, h)' = RankIn(s, h)
      OBVIOUS
    <3>1. RankIn(s, h)' = IF Flushes(s) THEN FLUSH_RANKS'[Tables!Five!FacesOf(h)] ELSE ranks[Tables!Five!Key(h)]
      BY <2>1 DEF RankIn, Flushes, Tables!Five!FlushSections, Tables!Five!FacesOf, Tables!Five!Key
    <3> QED BY <1>1, <3>1, PlacesVisited DEF RankIn
  <2>4. InOrder'
    BY <2>1, <2>2 DEF Ordered, InOrder, Tables!Five!Before
  <2>5. LaterGreater'
    <3> SUFFICES ASSUME NEW s \in 1 .. 11, NEW t \in 1 .. 11, NEW g \in VisitedIn(s), NEW h \in VisitedIn(t),
                        Precedes(s, g, t, h)
                 PROVE  RankIn(s, g)' < RankIn(t, h)'
      BY <2>2 DEF LaterGreater, Precedes, Tables!Five!Before
    <3> QED BY <2>3 DEF Ordered, LaterGreater
  <2> QED BY <2>4, <2>5 DEF Ordered
<1>2. CASE Tables!Five!Next /\ UNCHANGED toFill
  BY <1>2, OrderedStep
<1>3. ASSUME NEW S \in toFill, Tables!FillFlush(S), UNCHANGED RankedState
      PROVE  Ordered'
  <2>1. S \in Tables!SetsToFill /\ S \notin FlushesVisited
    BY NotToFill DEF Ranked, Counted
  <2>2. PICK rank : FLUSH_RANKS' = Tables!Five!Assigned(FLUSH_RANKS, S, rank)
    BY <1>3 DEF Tables!FillFlush
  <2>3. \A T \in FlushesVisited : T \in DOMAIN FLUSH_RANKS /\ T # S
    BY <2>1 DEF Ranked, Counted
  <2>4. \A T \in FlushesVisited : FLUSH_RANKS'[T] = FLUSH_RANKS[T]
    BY <2>2, <2>3 DEF Tables!Five!Assigned
  <2> QED BY <1>1, <1>3, <2>4
<1>4. CASE UNCHANGED RankedState /\ UNCHANGED <<FLUSH_RANKS, toFill>>
  BY <1>1, <1>4
<1> QED BY <1>2, <1>3, <1>4, FillSteps

LEMMA OrderedAlways == Spec => []Ordered
BY RankedAlways, OrderedInit, OrderedNext, PTL DEF Spec

(***************************************************************************)
(* Every hand that can be dealt has a place in the loops, as a flush if    *)
(* its cards may be of one suit, and otherwise.                            *)
(***************************************************************************)
LEMMA PlaceInLoops ==
  ASSUME NEW d \in Tables!Five!Dealt, NEW flush \in BOOLEAN, flush => Distinct(d)
  PROVE  \E s \in 1 .. 11 : \E h \in Tables!Five!Sections[s] :
           /\ Flushes(s) <=> flush
           /\ Same(d, h) /\ Tables!Five!FacesOf(h) = Tables!Five!FacesOf(d)
           /\ ~flush => Tables!Five!Key(h) = Tables!Five!Key(d)
<1>1. CASE ~flush
  <2>1. PICK s \in Keyed : \E h \in Tables!Five!Sections[s] :
          Tables!Five!Key(h) = Tables!Five!Key(d) /\ Same(h, d)
    BY EachComes DEF Comes
  <2>2. PICK h \in Tables!Five!Sections[s] : Tables!Five!Key(h) = Tables!Five!Key(d) /\ Same(h, d)
    BY <2>1
  <2>3. s \in 1 .. 11 /\ ~Flushes(s)
    BY SectionsSplit DEF Flushes
  <2>4. Same(d, h) /\ Tables!Five!FacesOf(h) = Tables!Five!FacesOf(d)
    BY <2>2, SameTimes DEF Same
  <2> QED BY <1>1, <2>2, <2>3, <2>4
<1>2. CASE flush
  <2>1. d \in [1 .. 5 -> 0 .. FACES - 1] /\ Distinct(d)
    BY <1>2, FacesAre DEF Tables!Five!Dealt
  <2>2. Tables!Five!FacesOf(d) \in FiveSets
    BY <2>1, DistinctFaces
  <2>3. PICK s \in 1 .. 11 : Flushes(s) /\ \E h \in Tables!Five!Sections[s] :
                                            Tables!Five!FacesOf(d) = Tables!Five!FacesOf(h)
    BY <2>2, EachFlushComes
  <2>4. PICK h \in Tables!Five!Sections[s] : Tables!Five!FacesOf(d) = Tables!Five!FacesOf(h)
    BY <2>3
  <2>5. Distinct(h)
    BY <2>3, FlushHands
  <2>6. Same(d, h)
    BY <2>1, <2>4, <2>5, DistinctCopies DEF Same
  <2> QED BY <1>2, <2>3, <2>4, <2>6
<1> QED BY <1>1, <1>2

(***************************************************************************)
(* "The higher the rank the better the hand. Two hands of equal rank tie." *)
(* (FiveEval.h:32): of any two hands that can be dealt, flushes or not,    *)
(* the first has the greater rank exactly when the rules of the game let   *)
(* it beat the second.                                                     *)
(***************************************************************************)
RankOf(h, flush) == IF flush THEN FLUSH_RANKS[Tables!Five!FacesOf(h)] ELSE ranks[Tables!Five!Key(h)]
RanksTellStrength ==
  todo = {} =>
    \A g, h \in Tables!Five!Dealt : \A gFlush, hFlush \in BOOLEAN :
      (gFlush => Distinct(g)) /\ (hFlush => Distinct(h)) =>
        (RankOf(g, gFlush) > RankOf(h, hFlush) <=> Tables!Five!Beats(g, gFlush, h, hFlush))

LEMMA StrengthTold ==
  ASSUME Ranked, Ordered
  PROVE  RanksTellStrength
<1> SUFFICES ASSUME todo = {}, NEW g \in Tables!Five!Dealt, NEW h \in Tables!Five!Dealt,
                    NEW gFlush \in BOOLEAN, NEW hFlush \in BOOLEAN,
                    gFlush => Distinct(g), hFlush => Distinct(h)
             PROVE  RankOf(g, gFlush) > RankOf(h, hFlush) <=> Tables!Five!Beats(g, gFlush, h, hFlush)
  BY DEF RanksTellStrength
<1>1. section = 12
  BY DEF Ranked, Visiting
<1>2. \A s \in 1 .. 11 : VisitedIn(s) = Tables!Five!Sections[s]
  BY <1>1 DEF VisitedIn
<1>3. PICK s \in 1 .. 11 : \E a \in Tables!Five!Sections[s] :
        /\ Flushes(s) <=> gFlush
        /\ Same(g, a) /\ Tables!Five!FacesOf(a) = Tables!Five!FacesOf(g)
        /\ ~gFlush => Tables!Five!Key(a) = Tables!Five!Key(g)
  BY PlaceInLoops
<1>4. PICK a \in Tables!Five!Sections[s] :
        /\ Flushes(s) <=> gFlush
        /\ Same(g, a) /\ Tables!Five!FacesOf(a) = Tables!Five!FacesOf(g)
        /\ ~gFlush => Tables!Five!Key(a) = Tables!Five!Key(g)
  BY <1>3
<1>5. PICK t \in 1 .. 11 : \E b \in Tables!Five!Sections[t] :
        /\ Flushes(t) <=> hFlush
        /\ Same(h, b) /\ Tables!Five!FacesOf(b) = Tables!Five!FacesOf(h)
        /\ ~hFlush => Tables!Five!Key(b) = Tables!Five!Key(h)
  BY PlaceInLoops
<1>6. PICK b \in Tables!Five!Sections[t] :
        /\ Flushes(t) <=> hFlush
        /\ Same(h, b) /\ Tables!Five!FacesOf(b) = Tables!Five!FacesOf(h)
        /\ ~hFlush => Tables!Five!Key(b) = Tables!Five!Key(h)
  BY <1>5
<1>7. RankOf(g, gFlush) = RankIn(s, a) /\ RankOf(h, hFlush) = RankIn(t, b)
  BY <1>4, <1>6 DEF RankOf, RankIn
<1>8. Tables!Five!Beats(g, gFlush, h, hFlush) <=> Tables!Five!Beats(a, Flushes(s), b, Flushes(t))
  <2>1. (gFlush = Flushes(s)) /\ (hFlush = Flushes(t))
    BY <1>4, <1>6 DEF Flushes
  <2> QED BY <1>4, <1>6, <2>1, SameBeats
<1>9. RankIn(s, a) \in Nat /\ RankIn(t, b) \in Nat
  <2>1. ASSUME NEW r \in 1 .. 11, NEW c \in VisitedIn(r) PROVE RankIn(r, c) \in Nat
    BY PlacesVisited DEF RankIn, Ranked, Numbered
  <2> QED BY <1>2, <2>1
<1>10. CASE Precedes(s, a, t, b)
  <2>1. RankIn(s, a) < RankIn(t, b)
    BY <1>2, <1>10 DEF Ordered, LaterGreater
  <2>2. ~Tables!Five!Beats(a, Flushes(s), b, Flushes(t))
    BY <1>10, LaterIsBetter
  <2> QED BY <1>7, <1>8, <1>9, <2>1, <2>2
<1>11. CASE Precedes(t, b, s, a)
  <2>1. RankIn(t, b) < RankIn(s, a)
    BY <1>2, <1>11 DEF Ordered, LaterGreater
  <2>2. Tables!Five!Beats(a, Flushes(s), b, Flushes(t))
    BY <1>11, LaterIsBetter
  <2> QED BY <1>7, <1>8, <1>9, <2>1, <2>2
<1>12. CASE s = t /\ a = b
  <2>1. a \in [1 .. 5 -> 0 .. FACES - 1]
    BY HandsOfSections
  <2>2. ~Tables!Five!TieBreak(a, a)
    BY <2>1, TieOneWay
  <2>3. Tables!Five!Category(a, Flushes(s)) \in Int
    <3>1. Tables!Five!Category(a, Flushes(s)) = CategoryOf[s]
      BY CategoryIs
    <3> QED BY <3>1, SectionsAre DEF CategoryOf
  <2>4. ~Tables!Five!Beats(a, Flushes(s), b, Flushes(t))
    BY <1>12, <2>2, <2>3 DEF Tables!Five!Beats
  <2> QED BY <1>7, <1>8, <1>9, <1>12, <2>4
<1>13. Precedes(s, a, t, b) \/ Precedes(t, b, s, a) \/ (s = t /\ a = b)
  <2>1. a \in [1 .. 5 -> Nat] /\ b \in [1 .. 5 -> Nat]
    BY <1>2, PlacesVisited
  <2> QED BY <2>1, BeforeTotal DEF Precedes
<1> QED BY <1>10, <1>11, <1>12, <1>13

THEOREM RanksAlwaysTellStrength == Spec => []RanksTellStrength
BY RankedAlways, OrderedAlways, StrengthTold, PTL

-------------------------------------------------------------------------------
(***************************************************************************)
(* The table of seven cards, hand by hand.  The keys of seven cards tell   *)
(* the hands from one another.                                             *)
(***************************************************************************)
LEMMA KeysTellSeven ==
  ASSUME NEW c \in Tables!HandsOfSeven, NEW d \in Tables!HandsOfSeven, KeyOfSeven(c) = KeyOfSeven(d)
  PROVE  c = d
<1> DEFINE D == Tables!Dealt7
           K == {Tables!KeyOf(e, KeySeven) : e \in D}
           f == [e \in D |-> Tables!KeyOf(e, KeySeven)]
<1>1. Cardinality(K) = Cardinality(D)
  BY KeysAssumption
<1>2. f \in [D -> K] /\ (\A e \in D : f[e] = Tables!KeyOf(e, KeySeven)) /\ \A k \in K : \E e \in D : f[e] = k
  OBVIOUS
<1>3. IsFiniteSet(D)
  <2>1. IsFiniteSet(1 .. 7) /\ IsFiniteSet(0 .. FACES - 1)
    <3>1. 1 \in Int /\ 7 \in Int /\ 0 \in Int /\ FACES - 1 \in Int
      BY FacesAre
    <3> QED BY <3>1, FS_Interval, Zenon
  <2>2. IsFiniteSet([1 .. 7 -> 0 .. FACES - 1])
    BY <2>1, FiniteFunctions
  <2>3. D \in SUBSET [1 .. 7 -> 0 .. FACES - 1]
    BY DEF Tables!Dealt7, Tables!Faces
  <2> QED BY <2>2, <2>3, FS_Subset
<1>4. c \in D /\ d \in D /\ f[c] = f[d]
  BY <1>2, HandsOfSevenAre DEF KeyOfSeven
<1> HIDE DEF D, K, f
<1>5. f \in Surjection(D, K)
  BY <1>2 DEF Surjection
<1>6. f \in Injection(D, K)
  BY <1>1, <1>3, <1>5, FS_SurjSameCardinalityImpliesInj
<1> QED BY <1>4, <1>6 DEF Injection, IsInjective

(***************************************************************************)
(* Each hand that has been visited has in its place the rank that          *)
(* best5CardsRank found for it, and no other hand takes the place.         *)
(***************************************************************************)
SevenRanked ==
  \A c \in Tables!HandsOfSeven \ toRank : ranksSeven[KeyOfSeven(c)] = Tables!Best5CardsRank(c)

LEMMA SevenRankedInit == Init => SevenRanked
BY DEF Init, Tables!Init, SevenRanked

LEMMA SevenRankedNext == Ranked /\ SevenVisited /\ SevenRanked /\ [Next]_vars => SevenRanked'
<1> SUFFICES ASSUME Ranked, SevenVisited, SevenRanked, [Next]_vars PROVE SevenRanked'
  OBVIOUS
<1>1. /\ Tables!HandsOfSeven' = Tables!HandsOfSeven
      /\ \A c : KeyOfSeven(c)' = KeyOfSeven(c)
  BY DEF Tables!HandsOfSeven, Tables!Faces, KeyOfSeven, Tables!KeyOf
<1>2. ranks' = ranks => \A c : Tables!Best5CardsRank(c)' = Tables!Best5CardsRank(c)
  BY DEF Tables!Best5CardsRank, Tables!Greatest, Tables!OrZero, Tables!KeyOf
<1>3. CASE Tables!RankSeven(Tables!NextSeven)
  <2> DEFINE c == Tables!NextSeven
  <2>1. /\ toRank # {} /\ toRank' = toRank \ {c} /\ ranks' = ranks
        /\ ranksSeven' = Tables!Five!Assigned(ranksSeven, KeyOfSeven(c), Tables!Best5CardsRank(c))
    BY <1>3 DEF Tables!RankSeven, KeyOfSeven, Tables!fiveVars
  <2>2. toRank \in SUBSET [1 .. 7 -> Nat]
    BY HandsOfSevenAre, FacesAre DEF SevenVisited, OfSeven
  <2>3. c \in toRank
    <3>1. \E e \in toRank : \A d \in toRank \ {e} : Tables!Earlier(e, d)
      BY <2>1, <2>2, NextSevenExists
    <3> QED BY <3>1 DEF Tables!NextSeven
  <2> HIDE DEF c
  <2>4. c \in Tables!HandsOfSeven
    BY <2>3 DEF SevenVisited
  <2>5. /\ ranksSeven'[KeyOfSeven(c)] = Tables!Best5CardsRank(c)
        /\ \A k \in DOMAIN ranksSeven : k # KeyOfSeven(c) => ranksSeven'[k] = ranksSeven[k]
    <3> DEFINE place == KeyOfSeven(c)
               best == Tables!Best5CardsRank(c)
    <3>1. ranksSeven' = Tables!Five!Assigned(ranksSeven, place, best)
      BY <2>1
    <3> HIDE DEF place, best
    <3>2. /\ ranksSeven'[place] = best
          /\ \A k \in DOMAIN ranksSeven : k # place => ranksSeven'[k] = ranksSeven[k]
      BY <3>1 DEF Tables!Five!Assigned
    <3> QED BY <3>2 DEF place, best
  <2>6. ASSUME NEW d \in Tables!HandsOfSeven \ toRank'
        PROVE  ranksSeven'[KeyOfSeven(d)] = Tables!Best5CardsRank(d)
    <3>1. CASE d = c
      BY <2>5, <3>1
    <3>2. CASE d # c
      <4>1. d \in Tables!HandsOfSeven \ toRank
        BY <2>1, <3>2
      <4>2. KeyOfSeven(d) \in DOMAIN ranksSeven /\ KeyOfSeven(d) # KeyOfSeven(c)
        BY <2>4, <3>2, <4>1, KeysTellSeven DEF SevenVisited
      <4> QED BY <2>5, <4>1, <4>2 DEF SevenRanked
    <3> QED BY <3>1, <3>2
  <2> QED BY <1>1, <1>2, <2>1, <2>6 DEF SevenRanked
<1>4. CASE UNCHANGED <<toRank, ranksSeven, lastSeven>>
  <2>1. CASE Tables!Five!Next
    <3>1. todo # {}
      BY <2>1 DEF Tables!Five!Next
    <3>2. DOMAIN ranksSeven = {}
      BY <3>1 DEF SevenVisited
    <3>3. Tables!HandsOfSeven \ toRank = {}
      BY <3>2 DEF SevenVisited
    <3> QED BY <1>1, <1>4, <3>3 DEF SevenRanked
  <2>2. CASE ranks' = ranks
    BY <1>1, <1>2, <1>4, <2>2 DEF SevenRanked
  <2> QED BY <2>1, <2>2, FillSteps DEF RankedState
<1> QED BY <1>3, <1>4, SevenSteps

LEMMA SevenRankedAlways == Spec => []SevenRanked
BY RankedAlways, SevenVisitedAlways, SevenRankedInit, SevenRankedNext, PTL DEF Spec

(***************************************************************************)
(* Two cards taken away from a hand of seven, j-th and i-th: the hands of  *)
(* five that it holds can all be dealt, and their keys are what is left of *)
(* its sum.                                                                *)
(***************************************************************************)
PlaceWithout(i, j, n) == IF n < j THEN n ELSE IF n < i - 1 THEN n + 1 ELSE n + 2
Without(c, i, j) == [n \in 1 .. 5 |-> c[PlaceWithout(i, j, n)]]
TwoOfSeven == {ij \in (1 .. 7) \X (1 .. 7) : ij[2] < ij[1]}
FivesOf(c) == {Without(c, ij[1], ij[2]) : ij \in TwoOfSeven}

LEMMA SumWithout ==
  ASSUME NEW K \in [1 .. 7 -> Int], NEW i \in 1 .. 7, NEW j \in 1 .. 7, j < i
  PROVE  K[PlaceWithout(i, j, 1)] + K[PlaceWithout(i, j, 2)] + K[PlaceWithout(i, j, 3)]
           + K[PlaceWithout(i, j, 4)] + K[PlaceWithout(i, j, 5)]
         = K[1] + K[2] + K[3] + K[4] + K[5] + K[6] + K[7] - K[i] - K[j]
<1>1. /\ K[1] \in Int /\ K[2] \in Int /\ K[3] \in Int /\ K[4] \in Int /\ K[5] \in Int
      /\ K[6] \in Int /\ K[7] \in Int
  OBVIOUS
<1>2. j \in {1, 2, 3, 4, 5, 6} /\ i \in {2, 3, 4, 5, 6, 7}
  OBVIOUS
<1>3. CASE j = 1
  BY <1>1, <1>2, <1>3 DEF PlaceWithout
<1>4. CASE j = 2
  BY <1>1, <1>2, <1>4 DEF PlaceWithout
<1>5. CASE j = 3
  BY <1>1, <1>2, <1>5 DEF PlaceWithout
<1>6. CASE j = 4
  BY <1>1, <1>2, <1>6 DEF PlaceWithout
<1>7. CASE j = 5
  BY <1>1, <1>2, <1>7 DEF PlaceWithout
<1>8. CASE j = 6
  BY <1>1, <1>2, <1>8 DEF PlaceWithout
<1> QED BY <1>2, <1>3, <1>4, <1>5, <1>6, <1>7, <1>8

LEMMA WithoutIs ==
  ASSUME NEW c \in Tables!HandsOfSeven, NEW i \in 1 .. 7, NEW j \in 1 .. 7, j < i
  PROVE  /\ Without(c, i, j) \in Tables!Five!Dealt
         /\ Tables!Five!Key(Without(c, i, j)) = Tables!KeyOf(c, KeyFive) - KeyFive[c[i]] - KeyFive[c[j]]
<1> DEFINE h == Without(c, i, j)
           at(n) == PlaceWithout(i, j, n)
<1>1. OfSeven(c) /\ c[1] < c[5] /\ c[2] < c[6] /\ c[3] < c[7]
  BY HandsOfSevenAre
<1>2. /\ \A n \in 1 .. 7 : c[n] \in 0 .. FACES - 1 /\ c[n] \in Int
      /\ \A m, n \in 1 .. 7 : m <= n => c[m] <= c[n]
  BY <1>1, Ascending
<1>3. /\ \A n \in 1 .. 5 : at(n) \in 1 .. 7
      /\ at(1) < at(2) /\ at(2) < at(3) /\ at(3) < at(4) /\ at(4) < at(5)
      /\ at(1) \in 1 .. 3 /\ at(1) + 4 <= at(5)
  BY DEF PlaceWithout
<1>4. h \in [1 .. 5 -> 0 .. FACES - 1] /\ \A n \in 1 .. 5 : h[n] = c[at(n)]
  BY <1>2, <1>3 DEF Without
<1>5. h \in Tables!Five!Dealt
  <2>1. 1 \in 1 .. 5 /\ 2 \in 1 .. 5 /\ 3 \in 1 .. 5 /\ 4 \in 1 .. 5 /\ 5 \in 1 .. 5
    OBVIOUS
  <2>2. at(1) \in 1 .. 7 /\ at(2) \in 1 .. 7 /\ at(3) \in 1 .. 7 /\ at(4) \in 1 .. 7 /\ at(5) \in 1 .. 7
    BY <1>3, <2>1
  <2> HIDE DEF at, h
  <2>3. h[1] <= h[2] /\ h[2] <= h[3] /\ h[3] <= h[4] /\ h[4] <= h[5]
    BY <1>2, <1>3, <1>4, <2>1, <2>2
  <2>4. h[1] # h[5]
    <3>1. \A n \in 1 .. 3 : n = 1 \/ n = 2 \/ n = 3
      OBVIOUS
    <3>2. c[at(1)] < c[at(1) + 4]
      BY <1>1, <1>3, <3>1
    <3>3. at(1) + 4 \in 1 .. 7
      BY <1>3
    <3>4. c[at(1) + 4] <= c[at(5)]
      BY <1>2, <1>3, <2>2, <3>3
    <3> QED BY <1>2, <1>4, <2>1, <2>2, <3>2, <3>3, <3>4
  <2> QED BY <1>4, <2>3, <2>4, DealtIs
<1>6. Tables!Five!Key(h) = Tables!KeyOf(c, KeyFive) - KeyFive[c[i]] - KeyFive[c[j]]
  <2> DEFINE K == [n \in 1 .. 7 |-> KeyFive[c[n]]]
  <2>1. K \in [1 .. 7 -> Int] /\ \A n \in 1 .. 7 : K[n] = KeyFive[c[n]]
    <3>1. \A f \in 0 .. FACES - 1 : KeyFive[f] \in Int
      BY GameAssumption
    <3> QED BY <1>2, <3>1
  <2>2. Tables!Five!Key(h) = K[at(1)] + K[at(2)] + K[at(3)] + K[at(4)] + K[at(5)]
    <3> HIDE DEF at, h, K
    <3> QED BY <1>3, <1>4, <2>1 DEF Tables!Five!Key
  <2>3. Tables!KeyOf(c, KeyFive) = K[1] + K[2] + K[3] + K[4] + K[5] + K[6] + K[7]
    <3> HIDE DEF K
    <3> QED BY <2>1 DEF Tables!KeyOf
  <2>4. K[i] = KeyFive[c[i]] /\ K[j] = KeyFive[c[j]]
    BY <2>1
  <2>5. K[at(1)] + K[at(2)] + K[at(3)] + K[at(4)] + K[at(5)]
          = K[1] + K[2] + K[3] + K[4] + K[5] + K[6] + K[7] - K[i] - K[j]
    <3> HIDE DEF K
    <3> QED BY <2>1, SumWithout
  <2> HIDE DEF K, at, h
  <2> DEFINE left == K[at(1)] + K[at(2)] + K[at(3)] + K[at(4)] + K[at(5)]
             all == K[1] + K[2] + K[3] + K[4] + K[5] + K[6] + K[7]
  <2>6. \A n \in 1 .. 7 : K[n] \in Int
    BY <2>1
  <2>7. Tables!Five!Key(h) = left /\ Tables!KeyOf(c, KeyFive) = all
    BY <2>2, <2>3
  <2>8. left = all - K[i] - K[j]
    BY <2>5, <2>6
  <2> HIDE DEF left, all
  <2> QED BY <2>4, <2>7, <2>8
<1> QED BY <1>5, <1>6

(***************************************************************************)
(* "the evaluation should be the max of the evaluation of each 5-cards     *)
(* hand possible" (EvaluatorTest.java:12-13): the rank of a hand of seven  *)
(* is that of one of the hands of five that it holds, and none of them     *)
(* beats that one.                                                         *)
(***************************************************************************)
SevenIsBestOfFive ==
  Tables!Done =>
    \A c \in Tables!Dealt7 :
      \E h \in FivesOf(c) : /\ ranksSeven[KeyOfSeven(c)] = ranks[Tables!Five!Key(h)]
                            /\ \A g \in FivesOf(c) : ~Tables!Five!Beats(g, FALSE, h, FALSE)

LEMMA SevenDone ==
  ASSUME SevenVisited, Tables!Done
  PROVE  toRank = {} /\ todo = {} /\ toFill = {}
<1>1. toRank = {}
  BY DEF Tables!Done
<1>2. LastOfSeven \in Tables!HandsOfSeven \ toRank
  BY <1>1, LastOfSevenLast
<1>3. DOMAIN ranksSeven # {}
  BY <1>2 DEF SevenVisited
<1>4. DOMAIN [k \in {} |-> 0] = {}
  OBVIOUS
<1>5. ranksSeven # [k \in {} |-> 0]
  BY <1>3, <1>4
<1> QED BY <1>1, <1>5 DEF SevenVisited

LEMMA FivesAreDealt ==
  ASSUME NEW c \in Tables!HandsOfSeven, NEW h \in FivesOf(c)
  PROVE  h \in Tables!Five!Dealt
<1>1. PICK ij \in TwoOfSeven : h = Without(c, ij[1], ij[2])
  BY DEF FivesOf
<1>2. ij[1] \in 1 .. 7 /\ ij[2] \in 1 .. 7 /\ ij[2] < ij[1]
  BY DEF TwoOfSeven
<1> QED BY <1>1, <1>2, WithoutIs

LEMMA BestIs ==
  ASSUME Ranked, Ordered, SevenVisited, SevenRanked, Tables!Done, NEW c \in Tables!HandsOfSeven
  PROVE  \E h \in FivesOf(c) : /\ ranksSeven[KeyOfSeven(c)] = ranks[Tables!Five!Key(h)]
                               /\ \A g \in FivesOf(c) : ~Tables!Five!Beats(g, FALSE, h, FALSE)
<1>1. toRank = {} /\ todo = {}
  BY SevenDone
<1>2. \A d \in Tables!Five!Dealt : /\ Tables!Five!Key(d) \in DOMAIN ranks
                                   /\ ranks[Tables!Five!Key(d)] \in 1 .. currentRank - 1
  <2>1. ASSUME NEW d \in Tables!Five!Dealt PROVE Tables!Five!Key(d) \in KeysVisited
    BY <1>1, AllVisited
  <2> QED BY <2>1 DEF Ranked, Counted, Numbered
<1> DEFINE V == {ranks[Tables!Five!Key(h)] : h \in FivesOf(c)}
<1>3. Tables!Best5CardsRank(c) = Tables!Greatest(V)
  <2> DEFINE rest(ij) == Tables!OrZero(ranks, Tables!KeyOf(c, KeyFive) - KeyFive[c[ij[1]]] - KeyFive[c[ij[2]]])
  <2>1. ASSUME NEW ij \in TwoOfSeven
        PROVE  rest(ij) = ranks[Tables!Five!Key(Without(c, ij[1], ij[2]))]
    <3> DEFINE h == Without(c, ij[1], ij[2])
    <3>1. ij[1] \in 1 .. 7 /\ ij[2] \in 1 .. 7 /\ ij[2] < ij[1]
      BY DEF TwoOfSeven
    <3>2. /\ h \in Tables!Five!Dealt
          /\ Tables!Five!Key(h) = Tables!KeyOf(c, KeyFive) - KeyFive[c[ij[1]]] - KeyFive[c[ij[2]]]
      BY <3>1, WithoutIs
    <3> HIDE DEF h
    <3>3. rest(ij) = ranks[Tables!Five!Key(h)]
      BY <1>2, <3>2 DEF Tables!OrZero
    <3> QED BY <1>2, <3>2, <3>3 DEF h
  <2>2. V = {rest(ij) : ij \in TwoOfSeven}
    <3> HIDE DEF rest
    <3> QED BY <2>1 DEF FivesOf
  <2>3. Tables!Best5CardsRank(c) = Tables!Greatest({rest(ij) : ij \in TwoOfSeven})
    BY DEF Tables!Best5CardsRank, TwoOfSeven
  <2> HIDE DEF V, rest
  <2> QED BY <2>2, <2>3
<1>4. V \in SUBSET Nat /\ V # {} /\ currentRank \in Nat /\ \A x \in V : x <= currentRank
  <2>1. currentRank \in Nat
    BY DEF Ranked, Counted
  <2>2. \A h \in FivesOf(c) : ranks[Tables!Five!Key(h)] \in 1 .. currentRank - 1
    BY <1>2, FivesAreDealt
  <2>3. FivesOf(c) # {}
    <3>1. <<2, 1>> \in TwoOfSeven
      BY DEF TwoOfSeven
    <3> QED BY <3>1 DEF FivesOf
  <2> QED BY <2>1, <2>2, <2>3
<1> HIDE DEF V
<1>5. PICK q \in V : \A x \in V : x <= q
  BY <1>4, GreatestNat
<1>6. Tables!Greatest(V) = q
  BY <1>4, <1>5, GreatestIs
<1>7. PICK h \in FivesOf(c) : q = ranks[Tables!Five!Key(h)]
  BY <1>5 DEF V
<1>8. ranksSeven[KeyOfSeven(c)] = ranks[Tables!Five!Key(h)]
  BY <1>1, <1>3, <1>6, <1>7 DEF SevenRanked
<1>9. ASSUME NEW g \in FivesOf(c) PROVE ~Tables!Five!Beats(g, FALSE, h, FALSE)
  <2>1. ranks[Tables!Five!Key(g)] <= ranks[Tables!Five!Key(h)]
    BY <1>5, <1>7 DEF V
  <2>2. g \in Tables!Five!Dealt /\ h \in Tables!Five!Dealt
    BY FivesAreDealt
  <2>3. ranks[Tables!Five!Key(g)] \in Int /\ ranks[Tables!Five!Key(h)] \in Int
    BY <1>2, <2>2
  <2>4. ~(ranks[Tables!Five!Key(g)] > ranks[Tables!Five!Key(h)])
    BY <2>1, <2>3
  <2>5. ~(RankOf(g, FALSE) > RankOf(h, FALSE))
    BY <2>4 DEF RankOf
  <2> QED BY <1>1, <2>2, <2>5, StrengthTold DEF RanksTellStrength
<1> QED BY <1>8, <1>9

THEOREM SevenIsAlwaysBestOfFive == Spec => []SevenIsBestOfFive
<1>1. Ranked /\ Ordered /\ SevenVisited /\ SevenRanked => SevenIsBestOfFive
  BY BestIs, HandsOfSevenAre DEF SevenIsBestOfFive
<1> QED BY <1>1, RankedAlways, OrderedAlways, SevenVisitedAlways, SevenRankedAlways, PTL

(***************************************************************************)
(* If five of seven cards are of one suit, no five of them with other      *)
(* suits are better: they have three faces at least, so they are neither a *)
(* full house nor four of a kind.                                          *)
(***************************************************************************)
LEMMA FiveAmongFour ==
  ASSUME NEW S \in FiveSets, NEW x, NEW y, NEW z, NEW w, S \subseteq {x, y, z, w}
  PROVE  FALSE
<1>1. ASSUME NEW T, IsFiniteSet(T), NEW n \in Nat, Cardinality(T) >= n + 1, NEW u
      PROVE  IsFiniteSet(T \ {u}) /\ Cardinality(T \ {u}) >= n
  <2>1. Cardinality(T) \in Nat
    BY <1>1, FS_CardinalityType
  <2>2. IsFiniteSet(T \ {u}) /\ Cardinality(T \ {u}) = IF u \in T THEN Cardinality(T) - 1 ELSE Cardinality(T)
    BY <1>1, FS_RemoveElement, Zenon
  <2> QED BY <1>1, <2>1, <2>2
<1>2. IsFiniteSet(S) /\ Cardinality(S) = 5
  BY FiveSetsFinite DEF FiveSets
<1> DEFINE S1 == S \ {x}
           S2 == S1 \ {y}
           S3 == S2 \ {z}
           S4 == S3 \ {w}
<1>3. S4 = {}
  OBVIOUS
<1> HIDE DEF S4
<1>4. IsFiniteSet(S1) /\ Cardinality(S1) >= 4
  BY <1>1, <1>2
<1> HIDE DEF S1
<1>5. IsFiniteSet(S2) /\ Cardinality(S2) >= 3
  BY <1>1, <1>4
<1> HIDE DEF S2
<1>6. IsFiniteSet(S3) /\ Cardinality(S3) >= 2
  BY <1>1, <1>5
<1> HIDE DEF S3
<1>7. IsFiniteSet(S4) /\ Cardinality(S4) >= 1
  BY <1>1, <1>6 DEF S4
<1> QED BY <1>3, <1>7, FS_EmptySet

LEMMA FlushAbove ==
  ASSUME Ranked, Ordered, SevenVisited, SevenRanked, Tables!Done, NEW c \in Tables!HandsOfSeven,
         NEW S \in FiveSets, S \subseteq {c[n] : n \in 1 .. 7}
  PROVE  ranksSeven[KeyOfSeven(c)] < FLUSH_RANKS[S]
<1>1. PICK h \in FivesOf(c) : ranksSeven[KeyOfSeven(c)] = ranks[Tables!Five!Key(h)]
  BY BestIs
<1>2. PICK ij \in TwoOfSeven : h = Without(c, ij[1], ij[2])
  BY DEF FivesOf
<1> DEFINE i == ij[1]
           j == ij[2]
<1>3. i \in 1 .. 7 /\ j \in 1 .. 7 /\ j < i
  BY DEF TwoOfSeven
<1> HIDE DEF i, j
<1>4. S \subseteq Tables!Five!FacesOf(h) \cup {c[i], c[j]}
  <2> SUFFICES ASSUME NEW n \in 1 .. 7, n # i, n # j
               PROVE  \E m \in 1 .. 5 : h[m] = c[n]
    BY DEF Tables!Five!FacesOf
  <2> DEFINE m == IF n < j THEN n ELSE IF n < i THEN n - 1 ELSE n - 2
  <2>1. m \in 1 .. 5 /\ PlaceWithout(i, j, m) = n
    BY <1>3 DEF PlaceWithout
  <2>2. h = [k \in 1 .. 5 |-> c[PlaceWithout(i, j, k)]]
    BY <1>2 DEF Without, i, j
  <2> HIDE DEF m
  <2> QED BY <2>1, <2>2
<1>5. ASSUME NEW x, NEW y PROVE ~(Tables!Five!FacesOf(h) \subseteq {x, y})
  <2> SUFFICES ASSUME Tables!Five!FacesOf(h) \subseteq {x, y} PROVE FALSE
    OBVIOUS
  <2>1. S \subseteq {x, y, c[i], c[j]}
    BY <1>4
  <2> QED BY <2>1, FiveAmongFour
<1>6. h \in Tables!Five!Dealt
  BY FivesAreDealt
<1>7. PICK s \in 1 .. 11 : \E b \in Tables!Five!Sections[s] :
        /\ ~Flushes(s) /\ Tables!Five!FacesOf(b) = Tables!Five!FacesOf(h)
        /\ Tables!Five!Key(b) = Tables!Five!Key(h)
  <2>1. FALSE \in BOOLEAN /\ (FALSE => Distinct(h))
    OBVIOUS
  <2> QED BY <1>6, <2>1, PlaceInLoops
<1>8. PICK b \in Tables!Five!Sections[s] :
        /\ ~Flushes(s) /\ Tables!Five!FacesOf(b) = Tables!Five!FacesOf(h)
        /\ Tables!Five!Key(b) = Tables!Five!Key(h)
  BY <1>7
<1>9. s \in 1 .. 6
  <2>1. ASSUME s \in {8, 9} PROVE FALSE
    <3>1. Tables!Five!FacesOf(b) = {b[1], b[2], b[3], b[4], b[5]}
      BY FacesOfHand
    <3>2. Tables!Five!FacesOf(b) \subseteq {b[1], b[5]}
      <4>1. s = 8 => b \in Tables!Five!FullHouses
        BY SectionsAre
      <4>2. s = 9 => b \in Tables!Five!Quads
        BY SectionsAre
      <4> QED BY <2>1, <3>1, <4>1, <4>2, FullHousesAre, QuadsAre
    <3> QED BY <1>5, <1>8, <3>2
  <2>2. s \in Keyed
    BY <1>8, SectionsSplit DEF Flushes
  <2> QED BY <2>1, <2>2 DEF Keyed
<1>10. PICK t \in 1 .. 11 : Flushes(t) /\ \E a \in Tables!Five!Sections[t] : S = Tables!Five!FacesOf(a)
  BY EachFlushComes
<1>11. PICK a \in Tables!Five!Sections[t] : S = Tables!Five!FacesOf(a)
  BY <1>10
<1>12. s < t
  BY <1>9, <1>10 DEF Flushes, Tables!Five!FlushSections
<1>13. todo = {} /\ section = 12
  BY SevenDone DEF Ranked, Visiting
<1>14. b \in VisitedIn(s) /\ a \in VisitedIn(t)
  BY <1>13 DEF VisitedIn
<1>15. RankIn(s, b) < RankIn(t, a)
  BY <1>12, <1>14 DEF Ordered, LaterGreater, Precedes
<1> QED BY <1>1, <1>8, <1>10, <1>11, <1>15 DEF RankIn

(***************************************************************************)
(* The evaluators look a flush up among the flushes alone, and leave the   *)
(* table of the hands by key (SevenEval.h:44-46,                           *)
(* SevenCardsEvaluator.java:53-55).  They may: if five or more of seven    *)
(* cards are of one suit, the rank of their faces as a flush is above the  *)
(* rank that the table has for the seven.                                  *)
(***************************************************************************)
FlushOutranks ==
  Tables!Done =>
    \A c \in Tables!Dealt7 : \A S \in DOMAIN FLUSH_RANKS :
      S \subseteq {c[n] : n \in 1 .. 7} => ranksSeven[KeyOfSeven(c)] < FLUSH_RANKS[S]

THEOREM FlushAlwaysOutranks == Spec => []FlushOutranks
<1>1. ASSUME Ranked, Ordered, Filled, SevenVisited, SevenRanked
      PROVE  FlushOutranks
  <2> SUFFICES ASSUME Tables!Done, NEW c \in Tables!HandsOfSeven, NEW S \in DOMAIN FLUSH_RANKS,
                      S \subseteq {c[n] : n \in 1 .. 7}
               PROVE  ranksSeven[KeyOfSeven(c)] < FLUSH_RANKS[S]
    BY HandsOfSevenAre DEF FlushOutranks
  <2>1. toFill = {} /\ todo = {}
    BY <1>1, SevenDone
  <2>2. S \in FiveSets \/ S \in Tables!SetsToFill
    BY <1>1, <2>1 DEF Ranked, Counted
  <2>3. CASE S \in FiveSets
    BY <1>1, <2>3, FlushAbove
  <2>4. CASE S \in Tables!SetsToFill
    <3>1. PICK T \in FiveSets : T \subseteq S /\ FLUSH_RANKS[S] = FLUSH_RANKS[T]
      BY <1>1, <2>1, <2>4 DEF Filled, IsBest
    <3> QED BY <1>1, <3>1, FlushAbove
  <2> QED BY <2>2, <2>3, <2>4
<1> QED BY <1>1, RankedAlways, OrderedAlways, FilledAlways, SevenVisitedAlways, SevenRankedAlways, PTL
=============================================================================
