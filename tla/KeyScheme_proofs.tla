--------------------------- MODULE KeyScheme_proofs ---------------------------
(***************************************************************************)
(* For every number of faces: the greedy search for the keys never accepts *)
(* a key that gives two hands one sum, passes over a key only for that     *)
(* reason, and is never refused a copy.  When it ends, the keys are such   *)
(* as the tables and the evaluators take for granted (KeysAlwaysFit).      *)
(*                                                                         *)
(* What makes it work: the hands that can be dealt from one face more are  *)
(* those that could be dealt before and those that the loops visit         *)
(* (NewHands), and the sums of the former do not change (OldSum).          *)
(***************************************************************************)
EXTENDS KeyScheme, FiniteSetTheorems, FunctionTheorems, TLAPS

(***************************************************************************)
(* A nonempty set of naturals has a least one.                             *)
(***************************************************************************)
LEMMA LeastNat ==
  ASSUME NEW S \in SUBSET Nat, S # {}
  PROVE  \E q \in S : \A r \in S : q <= r
<1> DEFINE T == {0 .. n : n \in S}
           R == StrictSubsetOrdering(Nat)
<1>1. T \subseteq FiniteSubsetsOf(Nat)
  <2>1. \A n \in S : IsFiniteSet(0 .. n) BY FS_Interval
  <2>2. \A n \in S : 0 .. n \subseteq Nat BY SMT
  <2> QED BY <2>1, <2>2, Zenon DEF FiniteSubsetsOf
<1>2. T # {}
  OBVIOUS
<1>3. IsWellFoundedOn(R, FiniteSubsetsOf(Nat))
  BY FS_StrictSubsetOrderingWellFounded
<1>4. \E I \in T : \A J \in T : <<J, I>> \notin R
  <2> HIDE DEF T, R
  <2> QED BY <1>1, <1>2, <1>3, WFMin
<1>5. PICK q \in S : \A r \in S : <<0 .. r, 0 .. q>> \notin R
  <2> HIDE DEF R
  <2> QED BY <1>4
<1>6. ASSUME NEW r \in S, r < q
      PROVE  FALSE
  <2> DEFINE pair == <<0 .. r, 0 .. q>>
  <2>1. 0 .. r \subseteq 0 .. q /\ q \in 0 .. q /\ q \notin 0 .. r
    BY <1>6
  <2>2. 0 .. r \in SUBSET Nat /\ 0 .. q \in SUBSET Nat
    BY SMT
  <2>3. 0 .. r # 0 .. q
    BY <2>1, Zenon
  <2>4. pair \in R
    BY <2>1, <2>2, <2>3 DEF StrictSubsetOrdering
  <2> QED BY <1>5, <2>4
<1> QED BY <1>6

LEMMA FiniteFunctions ==
  ASSUME NEW S, NEW T, IsFiniteSet(S), IsFiniteSet(T)
  PROVE  IsFiniteSet([S -> T])
<1> DEFINE graph == [f \in [S -> T] |-> {<<x, f[x]>> : x \in S}]
<1>1. IsFiniteSet(SUBSET (S \X T))
  <2>1. IsFiniteSet(S \X T) BY FS_Product, Zenon
  <2> QED BY <2>1, FS_SUBSET, Zenon
<1>2. graph \in [[S -> T] -> SUBSET (S \X T)]
  OBVIOUS
<1>3. ASSUME NEW f \in [S -> T], NEW g \in [S -> T], graph[f] = graph[g]
      PROVE  f = g
  <2>1. \A x \in S : <<x, f[x]>> \in graph[g]
    BY <1>3
  <2>2. \A x \in S : f[x] = g[x]
    BY <2>1
  <2> QED BY <2>2
<1>4. graph \in Injection([S -> T], SUBSET (S \X T))
  <2> HIDE DEF graph
  <2> QED BY <1>2, <1>3, Fun_IsInj
<1> HIDE DEF graph
<1> QED BY <1>1, <1>4, FS_Injection

(***************************************************************************)
(* The sums of a finite set of hands are as many as the hands just when no *)
(* two of them are equal.                                                  *)
(***************************************************************************)
LEMMA CountSums ==
  ASSUME NEW H, IsFiniteSet(H), NEW key
  PROVE  LET S == {Sum(c, key) : c \in H}
         IN  /\ IsFiniteSet(S) /\ Cardinality(S) \in Nat /\ Cardinality(H) \in Nat
             /\ Cardinality(S) <= Cardinality(H)
             /\ Cardinality(S) = Cardinality(H)
                  <=> \A c, d \in H : Sum(c, key) = Sum(d, key) => c = d
<1> DEFINE S == {Sum(c, key) : c \in H}
           f == [c \in H |-> Sum(c, key)]
<1>1. f \in [H -> S] /\ \A c \in H : f[c] = Sum(c, key)
  OBVIOUS
<1>2. \A s \in S : \E c \in H : Sum(c, key) = s
  OBVIOUS
<1> HIDE DEF f, S
<1>3. f \in Surjection(H, S)
  BY <1>1, <1>2 DEF Surjection
<1>4. f \in Injection(H, S) <=> \A c, d \in H : Sum(c, key) = Sum(d, key) => c = d
  BY <1>1 DEF Injection, IsInjective
<1>5. /\ IsFiniteSet(S) /\ Cardinality(S) <= Cardinality(H)
      /\ Cardinality(S) = Cardinality(H) <=> f \in Injection(H, S)
  BY <1>3, FS_Surjection
<1>6. Cardinality(S) \in Nat /\ Cardinality(H) \in Nat
  BY <1>5, FS_CardinalityType
<1> QED BY <1>4, <1>5, <1>6 DEF S

-------------------------------------------------------------------------------
(***************************************************************************)
(* The hands of m from the first k faces, without the function.            *)
(***************************************************************************)
Tuples(m, k) == {c \in [1 .. Cards[m] -> 0 .. k - 1] : Ascends(c)}
Fits(m, k, c) == \A f \in 0 .. k - 1 : Cardinality({n \in 1 .. Cards[m] : c[n] = f}) <= Limit[m]

LEMMA HandsOf ==
  ASSUME NEW m \in Methods, NEW k \in 0 .. Faces[m]
  PROVE  /\ Hands[m][k] = {c \in Tuples(m, k) : Fits(m, k, c)}
         /\ IsFiniteSet(Hands[m][k])
<1>1. Hands[m][k] = {c \in Tuples(m, k) : Fits(m, k, c)}
  BY DEF Hands, Tuples, Fits
<1>2. IsFiniteSet([1 .. Cards[m] -> 0 .. k - 1])
  <2>1. Faces[m] \in Nat /\ Cards[m] \in Nat
    BY SchemeAssumption DEF Methods, Cards
  <2>2. IsFiniteSet(1 .. Cards[m]) /\ IsFiniteSet(0 .. k - 1)
    <3>1. 1 \in Int /\ Cards[m] \in Int /\ 0 \in Int /\ k - 1 \in Int BY <2>1
    <3> QED BY <3>1, FS_Interval
  <2> QED BY <2>2, FiniteFunctions
<1>3. Hands[m][k] \in SUBSET [1 .. Cards[m] -> 0 .. k - 1]
  BY <1>1 DEF Tuples
<1> QED BY <1>1, <1>2, <1>3, FS_Subset

(***************************************************************************)
(* Ascending hands: no face comes five times just when every card is below *)
(* the fourth one after it.                                                *)
(***************************************************************************)
LEMMA SortedTuple ==
  ASSUME NEW m \in Methods, NEW k \in Nat, NEW c \in Tuples(m, k)
  PROVE  /\ \A i, j \in 1 .. Cards[m] : i <= j => c[i] <= c[j]
         /\ \A i \in 1 .. Cards[m] : c[i] \in Int /\ 0 <= c[i] /\ c[i] < k
<1>1. c \in [1 .. Cards[m] -> 0 .. k - 1] /\ Ascends(c)
  BY DEF Tuples
<1>2. \A i \in 1 .. Cards[m] : c[i] \in Int /\ 0 <= c[i] /\ c[i] < k
  BY <1>1
<1>3. \A i \in 1 .. Cards[m] : i + 1 \in 1 .. Cards[m] => c[i] <= c[i + 1]
  BY <1>1 DEF Ascends
<1>4. CASE m = "five"
  <2>1. Cards[m] = 5 BY <1>4 DEF Cards
  <2>2. c[1] <= c[2] /\ c[2] <= c[3] /\ c[3] <= c[4] /\ c[4] <= c[5]
    BY <1>3, <2>1
  <2>3. /\ c[1] \in Int /\ c[2] \in Int /\ c[3] \in Int /\ c[4] \in Int /\ c[5] \in Int
        /\ 1 .. 5 = {1, 2, 3, 4, 5}
    BY <1>2, <2>1
  <2> QED BY <1>2, <2>1, <2>2, <2>3
<1>5. CASE m # "five"
  <2>1. Cards[m] = 7 BY <1>5 DEF Cards, Methods
  <2>2. /\ c[1] <= c[2] /\ c[2] <= c[3] /\ c[3] <= c[4] /\ c[4] <= c[5]
        /\ c[5] <= c[6] /\ c[6] <= c[7]
    BY <1>3, <2>1
  <2>3. /\ c[1] \in Int /\ c[2] \in Int /\ c[3] \in Int /\ c[4] \in Int /\ c[5] \in Int
        /\ c[6] \in Int /\ c[7] \in Int
        /\ 1 .. 7 = {1, 2, 3, 4, 5, 6, 7}
    BY <1>2, <2>1
  <2> QED BY <1>2, <2>1, <2>2, <2>3
<1> QED BY <1>4, <1>5

LEMMA FourCopies ==
  ASSUME NEW m \in {"seven", "five"}, NEW k \in Nat, NEW c \in Tuples(m, k)
  PROVE  Fits(m, k, c) <=> \A i \in 1 .. Cards[m] - 4 : c[i] < c[i + 4]
<1>0. Cards[m] \in {5, 7} /\ Limit[m] = 4 /\ m \in Methods
  BY DEF Cards, Limit, Methods
<1>1. /\ \A i, j \in 1 .. Cards[m] : i <= j => c[i] <= c[j]
      /\ \A i \in 1 .. Cards[m] : c[i] \in Int /\ 0 <= c[i] /\ c[i] < k
  BY <1>0, SortedTuple
<1> DEFINE copies(f) == {n \in 1 .. Cards[m] : c[n] = f}
<1>a. \A f : IsFiniteSet(copies(f)) /\ Cardinality(copies(f)) \in Nat
  <2>0. 1 \in Int /\ Cards[m] \in Int BY <1>0
  <2>1. IsFiniteSet(1 .. Cards[m]) BY ONLY <2>0, FS_Interval, Zenon
  <2>2. \A f : copies(f) \in SUBSET (1 .. Cards[m]) OBVIOUS
  <2>3. \A f : IsFiniteSet(copies(f)) BY <2>1, <2>2, FS_Subset
  <2> QED BY <2>3, FS_CardinalityType
<1>2. ASSUME Fits(m, k, c), NEW i \in 1 .. Cards[m] - 4, ~(c[i] < c[i + 4])
      PROVE  FALSE
  <2>1. i \in 1 .. Cards[m] /\ i + 4 \in 1 .. Cards[m]
    BY <1>0
  <2>2. c[i] = c[i + 4]
    BY <1>1, <1>2, <2>1
  <2>3. \A n \in i .. i + 4 : n \in 1 .. Cards[m] /\ c[n] = c[i]
    <3>1. ASSUME NEW n \in i .. i + 4
          PROVE  n \in 1 .. Cards[m] /\ c[n] = c[i]
      <4>1. n \in 1 .. Cards[m] /\ i <= n /\ n <= i + 4 BY <1>0, <2>1
      <4>2. c[i] <= c[n] /\ c[n] <= c[i + 4] BY <1>1, <2>1, <4>1
      <4>3. c[n] \in Int /\ c[i] \in Int BY <1>1, <2>1, <4>1
      <4> QED BY <2>2, <4>1, <4>2, <4>3
    <3> QED BY <3>1
  <2>4. i .. i + 4 \in SUBSET copies(c[i])
    BY <2>3
  <2>5. Cardinality(i .. i + 4) = 5
    BY FS_Interval
  <2>6. 5 <= Cardinality(copies(c[i]))
    <3> HIDE DEF copies
    <3> QED BY <1>a, <2>4, <2>5, FS_Subset
  <2>7. c[i] \in 0 .. k - 1
    BY <1>1, <2>1
  <2>8. Cardinality(copies(c[i])) <= 4
    BY <1>0, <1>2, <2>7 DEF Fits
  <2>9. Cardinality(copies(c[i])) \in Nat
    BY <1>a
  <2> HIDE DEF copies
  <2> QED BY <2>6, <2>8, <2>9
<1>3. ASSUME \A i \in 1 .. Cards[m] - 4 : c[i] < c[i + 4], NEW f \in 0 .. k - 1
      PROVE  Cardinality(copies(f)) <= 4
  <2>1. CASE copies(f) = {} BY <2>1, FS_EmptySet
  <2>2. CASE copies(f) # {}
    <3>1. PICK a \in copies(f) : \A n \in copies(f) : a <= n
      <4>1. copies(f) \in SUBSET Nat OBVIOUS
      <4> HIDE DEF copies
      <4> QED BY <2>2, <4>1, LeastNat
    <3>2. \A n \in copies(f) : n \in a .. a + 3
      <4>1. SUFFICES ASSUME NEW n \in copies(f), ~(n <= a + 3) PROVE FALSE
        BY <3>1
      <4>2. a \in 1 .. Cards[m] - 4 /\ a + 4 <= n /\ a + 4 \in 1 .. Cards[m]
        BY <1>0, <4>1
      <4>3. c[a] < c[a + 4] /\ c[a + 4] <= c[n] /\ c[a] = f /\ c[n] = f
        BY <1>1, <1>3, <4>2
      <4> QED BY <1>1, <4>2, <4>3
    <3>3. copies(f) \in SUBSET (a .. a + 3) /\ a \in Int
      BY <3>2
    <3>4. IsFiniteSet(a .. a + 3) /\ Cardinality(a .. a + 3) = 4
      BY <3>3, FS_Interval
    <3> QED BY <3>3, <3>4, FS_Subset
  <2> QED BY <2>1, <2>2
<1>4. ASSUME \A i \in 1 .. Cards[m] - 4 : c[i] < c[i + 4]
      PROVE  Fits(m, k, c)
  BY <1>0, <1>3, <1>4 DEF Fits
<1> QED BY <1>2, <1>4

LEMMA SuitsFit ==
  ASSUME NEW k \in Nat, NEW c
  PROVE  Fits("suits", k, c)
<1>1. Cards["suits"] = 7 /\ Limit["suits"] = 7
  BY DEF Cards, Limit
<1>2. IsFiniteSet(1 .. 7) /\ Cardinality(1 .. 7) = 7
  <2>1. 1 \in Int /\ 7 \in Int /\ ~(1 > 7) /\ 7 - 1 + 1 = 7 OBVIOUS
  <2> QED BY <2>1, FS_Interval, Zenon
<1>3. ASSUME NEW f PROVE Cardinality({n \in 1 .. 7 : c[n] = f}) <= 7
  BY <1>2, FS_Subset
<1> QED BY <1>1, <1>3 DEF Fits

(***************************************************************************)
(* The hands from one face more are the old ones and those the loops       *)
(* visit.                                                                  *)
(***************************************************************************)
NoFifth(m, c) == m # "suits" => \A i \in 1 .. Cards[m] - 4 : c[i] < c[i + 4]

LEMMA FitsWhen ==
  ASSUME NEW m \in Methods, NEW k \in Nat, NEW c \in Tuples(m, k)
  PROVE  Fits(m, k, c) <=> NoFifth(m, c)
<1>1. CASE m = "suits" BY <1>1, SuitsFit DEF NoFifth
<1>2. CASE m # "suits"
  <2>1. m \in {"seven", "five"} BY <1>2 DEF Methods
  <2> QED BY <1>2, <2>1, FourCopies DEF NoFifth
<1> QED BY <1>1, <1>2

LEMMA NewHands ==
  ASSUME NEW m \in Methods, NEW k \in 0 .. Faces[m] - 1
  PROVE  /\ k \in 0 .. Faces[m] /\ k + 1 \in 0 .. Faces[m]
         /\ Hands[m][k + 1] = Hands[m][k] \cup Loops[m][k]
         /\ Hands[m][k] \cap Loops[m][k] = {}
         /\ IsFiniteSet(Hands[m][k]) /\ IsFiniteSet(Loops[m][k])
<1>0. k \in Nat /\ k + 1 \in Nat /\ k \in 0 .. Faces[m] /\ k + 1 \in 0 .. Faces[m]
      /\ k + 1 - 1 = k /\ Cards[m] \in 1 .. 7
  BY SchemeAssumption DEF Methods, Cards
<1>1. \A c : c \in Hands[m][k] <=> c \in Tuples(m, k) /\ NoFifth(m, c)
  BY <1>0, HandsOf, FitsWhen
<1>2. \A c : c \in Hands[m][k + 1] <=> c \in Tuples(m, k + 1) /\ NoFifth(m, c)
  <2>1. Hands[m][k + 1] = {c \in Tuples(m, k + 1) : Fits(m, k + 1, c)}
    BY <1>0, HandsOf
  <2>2. \A c \in Tuples(m, k + 1) : Fits(m, k + 1, c) <=> NoFifth(m, c)
    BY <1>0, FitsWhen
  <2> QED BY <2>1, <2>2
<1>3. Loops[m][k] = Loop(m, k)
  BY DEF Loops
<1>4. ASSUME NEW c \in Tuples(m, k)
      PROVE  c \in Tuples(m, k + 1) /\ c[Cards[m]] # k
  <2>1. c \in [1 .. Cards[m] -> 0 .. k - 1] /\ Ascends(c)
    BY DEF Tuples
  <2>2. c \in [1 .. Cards[m] -> 0 .. k]
    BY <1>0, <2>1
  <2>3. c[Cards[m]] \in 0 .. k - 1
    BY <1>0, <2>1
  <2> QED BY <1>0, <2>1, <2>2, <2>3 DEF Tuples
<1>5. ASSUME NEW c \in Tuples(m, k + 1)
      PROVE  /\ c[Cards[m]] # k => c \in Tuples(m, k)
             /\ c \in Loop(m, k) <=> c[Cards[m]] = k /\ NoFifth(m, c)
  <2>1. c \in [1 .. Cards[m] -> 0 .. k] /\ Ascends(c)
    BY <1>0 DEF Tuples
  <2>2. /\ \A i, j \in 1 .. Cards[m] : i <= j => c[i] <= c[j]
        /\ \A i \in 1 .. Cards[m] : c[i] \in Int /\ 0 <= c[i] /\ c[i] < k + 1
    BY <1>0, SortedTuple
  <2>3. ASSUME c[Cards[m]] # k
        PROVE  c \in Tuples(m, k)
    <3>1. \A i \in 1 .. Cards[m] : c[i] \in 0 .. k - 1
      BY <1>0, <2>2, <2>3
    <3>2. c \in [1 .. Cards[m] -> 0 .. k - 1]
      BY <2>1, <3>1
    <3> QED BY <2>1, <3>2 DEF Tuples
  <2>4. c \in Loop(m, k) <=> /\ c[Cards[m]] = k
                             /\ m = "seven" => c[3] < k /\ c[1] < c[5] /\ c[2] < c[6]
                             /\ m = "five"  => c[1] < k
    BY <2>1 DEF Loop
  <2>5. CASE m = "seven"
    <3>1. Cards[m] = 7 /\ Cards[m] - 4 = 3 /\ 1 .. 3 = {1, 2, 3}
      BY <2>5 DEF Cards
    <3>2. NoFifth(m, c) <=> c[1] < c[5] /\ c[2] < c[6] /\ c[3] < c[7]
      BY <2>5, <3>1 DEF NoFifth
    <3> QED BY <2>3, <2>4, <2>5, <3>1, <3>2
  <2>6. CASE m = "five"
    <3>1. Cards[m] = 5 /\ Cards[m] - 4 = 1 /\ 1 .. 1 = {1}
      BY <2>6 DEF Cards
    <3>2. NoFifth(m, c) <=> c[1] < c[5]
      BY <2>6, <3>1 DEF NoFifth
    <3> QED BY <2>3, <2>4, <2>6, <3>1, <3>2
  <2>7. CASE m = "suits"
    BY <2>3, <2>4, <2>7 DEF NoFifth
  <2> QED BY <2>5, <2>6, <2>7 DEF Methods
<1>6. Loop(m, k) \subseteq Tuples(m, k + 1)
  BY <1>0 DEF Loop, Tuples
<1>7. Hands[m][k + 1] = Hands[m][k] \cup Loops[m][k]
  BY <1>1, <1>2, <1>3, <1>4, <1>5, <1>6
<1>8. Hands[m][k] \cap Loops[m][k] = {}
  BY <1>1, <1>3, <1>4, <1>5, <1>6
<1>9. IsFiniteSet(Hands[m][k]) /\ IsFiniteSet(Hands[m][k + 1])
  BY <1>0, HandsOf
<1>10. Loops[m][k] \in SUBSET Hands[m][k + 1]
  BY <1>7
<1> QED BY <1>0, <1>7, <1>8, <1>9, <1>10, FS_Subset

(***************************************************************************)
(* The hands from fewer faces are among those from more.                   *)
(***************************************************************************)
LEMMA FewerFaces ==
  ASSUME NEW m \in Methods, NEW j \in 0 .. Faces[m]
  PROVE  Cardinality(Hands[m][j]) <= Cardinality(Hands[m][Faces[m]])
<1>0. j \in Nat /\ Faces[m] \in Nat /\ Faces[m] \in 0 .. Faces[m] /\ j <= Faces[m]
  BY SchemeAssumption
<1>1. Tuples(m, j) \subseteq Tuples(m, Faces[m])
  <2>1. 0 .. j - 1 \subseteq 0 .. Faces[m] - 1 BY <1>0
  <2> QED BY <2>1 DEF Tuples
<1>2. \A c : c \in Hands[m][j] => c \in Hands[m][Faces[m]]
  <2>1. \A c \in Tuples(m, j) : Fits(m, j, c) <=> NoFifth(m, c)
    BY <1>0, FitsWhen
  <2>2. \A c \in Tuples(m, Faces[m]) : Fits(m, Faces[m], c) <=> NoFifth(m, c)
    BY <1>0, FitsWhen
  <2>3. Hands[m][Faces[m]] = {c \in Tuples(m, Faces[m]) : Fits(m, Faces[m], c)}
    BY <1>0, HandsOf
  <2>4. Hands[m][j] = {c \in Tuples(m, j) : Fits(m, j, c)}
    BY HandsOf
  <2> QED BY <1>1, <2>1, <2>2, <2>3, <2>4
<1>3. IsFiniteSet(Hands[m][Faces[m]])
  BY <1>0, HandsOf
<1>4. Hands[m][j] \in SUBSET Hands[m][Faces[m]]
  BY <1>2
<1> QED BY <1>3, <1>4, FS_Subset

-------------------------------------------------------------------------------
(***************************************************************************)
(* A hash set grows to the least capacity that has room; powers of two are *)
(* what the library knows of the numbers of subsets.                       *)
(***************************************************************************)
LEMMA Powers ==
  ASSUME NEW n \in Nat
  PROVE  2^n \in Nat \ {0}
<1>1. IsFiniteSet(1 .. n) /\ Cardinality(1 .. n) = n
  <2>1. 1 \in Int /\ n \in Int /\ (1 > n => n = 0) /\ n - 1 + 1 = n OBVIOUS
  <2> QED BY <2>1, FS_Interval
<1>2. IsFiniteSet(SUBSET (1 .. n)) /\ Cardinality(SUBSET (1 .. n)) = 2^n
  BY <1>1, FS_SUBSET, Zenon
<1>3. SUBSET (1 .. n) # {}
  OBVIOUS
<1>4. Cardinality(SUBSET (1 .. n)) \in Nat /\ Cardinality(SUBSET (1 .. n)) # 0
  BY <1>2, <1>3, FS_CardinalityType, FS_EmptySet
<1> QED BY <1>2, <1>4

LEMMA GrownFits ==
  ASSUME NEW c \in Nat, c >= InitialCapacity, NEW size \in Nat,
         size <= Threshold(InitialCapacity * 2^MaxDoublings)
  PROVE  Grown(c, size) \in Nat /\ Grown(c, size) >= c
<1>1. \A n \in 0 .. MaxDoublings : 2^n \in Nat \ {0}
  BY Powers
<1>2. \A n \in 0 .. MaxDoublings : c * 2^n \in Nat /\ c * 2^n >= c
  <2>1. ASSUME NEW x \in Nat \ {0} PROVE c * x \in Nat /\ c * x >= c
    OBVIOUS
  <2> QED BY <1>1, <2>1
<1>3. c * 2^MaxDoublings \in Fitting(c, size)
  <2>1. MaxDoublings \in 0 .. MaxDoublings
    BY SchemeAssumption
  <2>2. ASSUME NEW x \in Nat PROVE c * x >= InitialCapacity * x
    BY DEF InitialCapacity
  <2>3. c * 2^MaxDoublings >= InitialCapacity * 2^MaxDoublings
    BY <1>1, <2>1, <2>2
  <2>4. InitialCapacity * 2^MaxDoublings \in Nat
    BY <1>1, <2>1 DEF InitialCapacity
  <2>5. \A x, y \in Nat : x >= y => Threshold(x) >= Threshold(y) /\ Threshold(x) \in Int
    BY DEF Threshold
  <2>6. size <= Threshold(c * 2^MaxDoublings)
    <3> DEFINE x == c * 2^MaxDoublings
               y == InitialCapacity * 2^MaxDoublings
    <3>1. x \in Nat /\ y \in Nat /\ x >= y /\ size <= Threshold(y)
      BY <1>2, <2>1, <2>3, <2>4
    <3> HIDE DEF x, y
    <3>2. Threshold(x) >= Threshold(y) /\ Threshold(x) \in Int /\ Threshold(y) \in Int
      BY <2>5, <3>1
    <3>3. size <= Threshold(x)
      BY <3>1, <3>2
    <3> QED BY <3>3 DEF x
  <2> QED BY <2>1, <2>6 DEF Fitting
<1>4. Fitting(c, size) \in SUBSET Nat /\ \A d \in Fitting(c, size) : d >= c
  BY <1>2 DEF Fitting
<1>5. \E d \in Fitting(c, size) : \A e \in Fitting(c, size) : d <= e
  BY <1>3, <1>4, LeastNat
<1>6. Grown(c, size) \in Fitting(c, size)
  BY <1>5 DEF Grown
<1> QED BY <1>4, <1>6

-------------------------------------------------------------------------------
(***************************************************************************)
(* The inductive invariant.                                                *)
(***************************************************************************)
TypeRight == /\ method \in Methods
             /\ \E k \in 0 .. Faces[method] : keys \in [0 .. k - 1 -> Nat]
             /\ nextKey \in Nat
Distinct(H, key) == \A c, d \in H : Sum(c, key) = Sum(d, key) => c = d
Capacities == /\ current \in Nat /\ capacity \in Nat
              /\ InitialCapacity <= capacity /\ capacity <= current

IInv == TypeRight /\ Distinct(Hands[method][Place], keys) /\ ValidatedExact /\ Capacities

LEMMA DomainOf ==
  ASSUME NEW k \in Nat, NEW key, DOMAIN key = 0 .. k - 1
  PROVE  Cardinality(DOMAIN key) = k
<1>1. 0 \in Int /\ k - 1 \in Int /\ (0 > k - 1 => k = 0) /\ (k - 1) - 0 + 1 = k
  OBVIOUS
<1> QED BY <1>1, FS_Interval

LEMMA PlaceRight ==
  ASSUME TypeRight
  PROVE  /\ Place \in 0 .. Faces[method] /\ Faces[method] \in Nat
         /\ keys \in [0 .. Place - 1 -> Nat] /\ DOMAIN keys = 0 .. Place - 1
<1>1. PICK k \in 0 .. Faces[method] : keys \in [0 .. k - 1 -> Nat]
  BY DEF TypeRight
<1>2. Faces[method] \in Nat
  BY SchemeAssumption DEF TypeRight
<1>3. k \in Nat /\ DOMAIN keys = 0 .. k - 1
  BY <1>1, <1>2
<1>4. Place = k
  BY <1>3, DomainOf DEF Place
<1> QED BY <1>1, <1>2, <1>3, <1>4

LEMMA WithRight ==
  ASSUME TypeRight
  PROVE  /\ With(nextKey) \in [0 .. Place -> Nat]
         /\ Cardinality(DOMAIN With(nextKey)) = Place + 1
         /\ \A n \in DOMAIN keys : With(nextKey)[n] = keys[n]
<1>1. Place \in Nat /\ DOMAIN keys = 0 .. Place - 1 /\ keys \in [0 .. Place - 1 -> Nat]
  BY PlaceRight
<1>2. DOMAIN keys \cup {Place} = 0 .. Place
  BY <1>1
<1>3. With(nextKey) = [n \in 0 .. Place |-> IF n = Place THEN nextKey ELSE keys[n]]
  BY <1>2 DEF With
<1>4. \A n \in 0 .. Place : n # Place => n \in 0 .. Place - 1
  BY <1>1
<1>5. With(nextKey) \in [0 .. Place -> Nat]
  BY <1>1, <1>3, <1>4 DEF TypeRight
<1>6. \A n \in DOMAIN keys : With(nextKey)[n] = keys[n]
  BY <1>1, <1>3
<1>7. Cardinality(DOMAIN With(nextKey)) = Place + 1
  <2>1. DOMAIN With(nextKey) = 0 .. (Place + 1) - 1 /\ Place + 1 \in Nat
    BY <1>1, <1>3
  <2> QED BY <2>1, DomainOf
<1> QED BY <1>5, <1>6, <1>7

(***************************************************************************)
(* The sum of an old hand has not changed.                                 *)
(***************************************************************************)
LEMMA OldSum ==
  ASSUME TypeRight, NEW c \in Hands[method][Place]
  PROVE  Sum(c, With(nextKey)) = Sum(c, keys)
<1>1. method \in Methods /\ Place \in 0 .. Faces[method] /\ DOMAIN keys = 0 .. Place - 1
  BY PlaceRight DEF TypeRight
<1>2. c \in [1 .. Cards[method] -> 0 .. Place - 1]
  BY <1>1, HandsOf DEF Tuples
<1>3. \A n \in DOMAIN c : c[n] \in DOMAIN keys
  BY <1>1, <1>2
<1>4. \A n \in DOMAIN c : With(nextKey)[c[n]] = keys[c[n]]
  BY <1>3, WithRight
<1>5. \A n : KeyOf(c, n, With(nextKey)) = KeyOf(c, n, keys)
  BY <1>4 DEF KeyOf
<1> QED BY <1>5 DEF Sum

(***************************************************************************)
(* What a round finds out: a clash among the new hands, or of a new and an *)
(* old one, is all there is to look for.                                   *)
(***************************************************************************)
LEMMA Round ==
  ASSUME IInv, Place < Faces[method]
  PROVE  /\ SumsOf(With(nextKey)) = validated \cup Sums
         /\ ~Clash <=> Distinct(Hands[method][Place + 1], With(nextKey))
         /\ Identifies(With(nextKey)) <=> Distinct(Hands[method][Place + 1], With(nextKey))
<1> DEFINE old == Hands[method][Place]
           new == Loops[method][Place]
           W == With(nextKey)
<1>0. TypeRight /\ method \in Methods /\ Place \in 0 .. Faces[method] - 1
  <2>1. TypeRight BY DEF IInv
  <2> QED BY <2>1, PlaceRight DEF TypeRight
<1>1. /\ Hands[method][Place + 1] = old \cup new /\ old \cap new = {}
      /\ IsFiniteSet(old) /\ IsFiniteSet(new) /\ IsFiniteSet(old \cup new)
  <2>1. /\ Hands[method][Place + 1] = old \cup new /\ old \cap new = {}
        /\ IsFiniteSet(old) /\ IsFiniteSet(new)
    BY <1>0, NewHands
  <2> HIDE DEF old, new
  <2> QED BY <2>1, FS_Union
<1>2. Cardinality(DOMAIN W) = Place + 1 /\ Cardinality(DOMAIN keys) = Place
  BY <1>0, WithRight DEF Place
<1>3. SumsOf(W) = {Sum(c, W) : c \in old \cup new}
  BY <1>1, <1>2 DEF SumsOf
<1>4. validated = {Sum(c, keys) : c \in old}
  BY <1>2 DEF IInv, ValidatedExact, SumsOf
<1>5. Sums = {Sum(c, W) : c \in new}
  BY DEF Sums
<1>6. \A c \in old : Sum(c, W) = Sum(c, keys)
  BY <1>0, OldSum
<1>7. \A c, d \in old : Sum(c, keys) = Sum(d, keys) => c = d
  BY DEF IInv, Distinct
<1> HIDE DEF old, new, W
<1>8. SumsOf(W) = validated \cup Sums
  BY <1>3, <1>4, <1>5, <1>6
<1>9. Cardinality(Sums) = Cardinality(new) <=> \A c, d \in new : Sum(c, W) = Sum(d, W) => c = d
  BY <1>1, <1>5, CountSums
<1>10. ~(Cardinality(Sums) < Cardinality(new)) <=> Cardinality(Sums) = Cardinality(new)
  <2>1. /\ Cardinality(Sums) \in Nat /\ Cardinality(new) \in Nat
        /\ Cardinality(Sums) <= Cardinality(new)
    BY <1>1, <1>5, CountSums
  <2> QED BY <2>1
<1>11. ~Clash <=> /\ Sums \cap validated = {}
                  /\ \A c, d \in new : Sum(c, W) = Sum(d, W) => c = d
  BY <1>9, <1>10 DEF Clash, new
<1>12. Distinct(old \cup new, W) <=> /\ Sums \cap validated = {}
                                     /\ \A c, d \in new : Sum(c, W) = Sum(d, W) => c = d
  <2>1. ASSUME Distinct(old \cup new, W)
        PROVE  Sums \cap validated = {} /\ \A c, d \in new : Sum(c, W) = Sum(d, W) => c = d
    <3>1. ASSUME NEW s \in Sums, s \in validated
          PROVE  FALSE
      <4>1. PICK c \in new : s = Sum(c, W) BY <1>5
      <4>2. PICK d \in old : s = Sum(d, keys) BY <1>4, <3>1
      <4>3. c = d BY <1>6, <2>1, <4>1, <4>2 DEF Distinct
      <4> QED BY <1>1, <4>3
    <3> QED BY <2>1, <3>1 DEF Distinct
  <2>2. ASSUME Sums \cap validated = {}, \A c, d \in new : Sum(c, W) = Sum(d, W) => c = d
        PROVE  Distinct(old \cup new, W)
    <3>1. SUFFICES ASSUME NEW c \in old \cup new, NEW d \in old \cup new, Sum(c, W) = Sum(d, W)
                   PROVE  c = d
      BY DEF Distinct
    <3>2. CASE c \in old /\ d \in old BY <1>6, <1>7, <3>1, <3>2
    <3>3. CASE c \in new /\ d \in new BY <2>2, <3>1, <3>3
    <3>4. CASE c \in old /\ d \in new
      <4>1. Sum(c, W) \in validated /\ Sum(c, W) \in Sums BY <1>4, <1>5, <1>6, <3>1, <3>4
      <4> QED BY <2>2, <4>1
    <3>5. CASE c \in new /\ d \in old
      <4>1. Sum(d, W) \in validated /\ Sum(d, W) \in Sums BY <1>4, <1>5, <1>6, <3>1, <3>5
      <4> QED BY <2>2, <4>1
    <3> QED BY <3>2, <3>3, <3>4, <3>5
  <2> QED BY <2>1, <2>2
<1>13. Cardinality(SumsOf(W)) = Cardinality(old \cup new) <=> Distinct(old \cup new, W)
  BY <1>1, <1>3, CountSums DEF Distinct
<1> QED BY <1>1, <1>2, <1>8, <1>11, <1>12, <1>13 DEF Identifies, W

(***************************************************************************)
(* A round never asks for more room than the largest capacity has.         *)
(***************************************************************************)
LEMMA Room ==
  ASSUME IInv, Place < Faces[method],
         NEW size \in Nat, size <= Cardinality(validated \cup Sums)
  PROVE  size <= Threshold(InitialCapacity * 2^MaxDoublings)
<1>1. TypeRight /\ method \in Methods /\ Place + 1 \in 0 .. Faces[method]
  <2>1. TypeRight BY DEF IInv
  <2> QED BY <2>1, PlaceRight DEF TypeRight
<1> DEFINE H == Hands[method][Place + 1]
<1>2. SumsOf(With(nextKey)) = {Sum(c, With(nextKey)) : c \in H} /\ IsFiniteSet(H)
  <2>1. Cardinality(DOMAIN With(nextKey)) = Place + 1 BY <1>1, WithRight
  <2>2. IsFiniteSet(H) BY <1>1, HandsOf
  <2> QED BY <2>1, <2>2 DEF SumsOf
<1>3. /\ Cardinality(validated \cup Sums) \in Nat /\ Cardinality(H) \in Nat
      /\ Cardinality(validated \cup Sums) <= Cardinality(H)
  <2> HIDE DEF H
  <2>1. validated \cup Sums = {Sum(c, With(nextKey)) : c \in H}
    BY <1>2, Round
  <2> QED BY <1>2, <2>1, CountSums
<1>4. /\ Cardinality(H) <= Cardinality(Hands[method][Faces[method]])
      /\ Cardinality(Hands[method][Faces[method]]) \in Nat
  <2>1. Faces[method] \in 0 .. Faces[method]
    BY <1>1, PlaceRight
  <2>2. IsFiniteSet(Hands[method][Faces[method]])
    BY <1>1, <2>1, HandsOf
  <2> QED BY <1>1, <2>2, FewerFaces, FS_CardinalityType
<1>5. Cardinality(Hands[method][Faces[method]]) <= Threshold(InitialCapacity * 2^MaxDoublings)
  BY <1>1, DoublingsAssumption
<1>6. Threshold(InitialCapacity * 2^MaxDoublings) \in Int
  <2>1. 2^MaxDoublings \in Nat BY Powers, SchemeAssumption
  <2> QED BY <2>1 DEF Threshold, InitialCapacity
<1> HIDE DEF H
<1> QED BY <1>3, <1>4, <1>5, <1>6

-------------------------------------------------------------------------------
LEMMA InitIInv == Init => IInv
<1> SUFFICES ASSUME Init PROVE IInv
  OBVIOUS
<1>1. /\ method \in Methods /\ keys = [n \in {} |-> 0] /\ nextKey = 0
      /\ validated = {} /\ capacity = 8 /\ current = 8
  BY DEF Init, InitialCapacity
<1>2. TypeRight
  <2>1. 0 \in 0 .. Faces[method] /\ 0 .. 0 - 1 = {}
    BY <1>1, SchemeAssumption
  <2>2. keys \in [0 .. 0 - 1 -> Nat]
    BY <1>1, <2>1
  <2> QED BY <1>1, <2>1, <2>2 DEF TypeRight
<1>3. Place = 0
  BY <1>1, FS_EmptySet DEF Place
<1>4. Hands[method][0] = {}
  <2>1. 0 \in 0 .. Faces[method] /\ 0 .. 0 - 1 = {} /\ 1 \in 1 .. Cards[method]
    BY <1>1, SchemeAssumption DEF Cards, Methods
  <2>2. Tuples(method, 0) = {}
    <3>1. ASSUME NEW c \in [1 .. Cards[method] -> {}] PROVE FALSE
      BY <2>1
    <3> QED BY <2>1, <3>1 DEF Tuples
  <2> QED BY <1>1, <2>1, <2>2, HandsOf
<1>5. Distinct(Hands[method][Place], keys)
  BY <1>3, <1>4 DEF Distinct
<1>6. ValidatedExact
  BY <1>1, <1>3, <1>4 DEF ValidatedExact, SumsOf, Place
<1>7. Capacities
  BY <1>1 DEF Capacities, InitialCapacity
<1> QED BY <1>2, <1>5, <1>6, <1>7 DEF IInv

LEMMA AcceptIInv == ASSUME IInv, Accept PROVE IInv'
<1>1. /\ Place < Faces[method] /\ Rehashed = current /\ ~Clash
      /\ keys' = With(nextKey) /\ nextKey' = nextKey + 1 /\ method' = method
      /\ validated' = validated \cup Sums
      /\ current' = Grown(current, Cardinality(validated')) /\ capacity' = current'
  BY DEF Accept, Turn
<1>2. TypeRight
  BY DEF IInv
<1>3. Place \in Nat /\ Place + 1 \in 0 .. Faces[method]
  BY <1>1, <1>2, PlaceRight
<1>4. With(nextKey) \in [0 .. (Place + 1) - 1 -> Nat] /\ Cardinality(DOMAIN With(nextKey)) = Place + 1
  <2>1. (Place + 1) - 1 = Place BY <1>3
  <2> QED BY <1>2, <2>1, WithRight
<1>5. TypeRight'
  BY <1>1, <1>2, <1>3, <1>4 DEF TypeRight
<1>6. Place' = Place + 1
  BY <1>1, <1>4 DEF Place
<1>7. Distinct(Hands[method][Place], keys)'
  <2>1. Distinct(Hands[method][Place + 1], With(nextKey))
    BY <1>1, Round
  <2> QED BY <1>1, <1>6, <2>1 DEF Distinct
<1>8. ValidatedExact'
  <2>1. SumsOf(With(nextKey)) = validated \cup Sums
    BY <1>1, Round
  <2>2. SumsOf(keys)' = SumsOf(With(nextKey))
    BY <1>1 DEF SumsOf
  <2> QED BY <1>1, <2>1, <2>2 DEF ValidatedExact
<1>9. Capacities'
  <2>1. IsFiniteSet(validated \cup Sums)
    <3>1. SumsOf(With(nextKey)) = {Sum(c, With(nextKey)) : c \in Hands[method][Place + 1]}
      BY <1>4 DEF SumsOf
    <3>2. IsFiniteSet(Hands[method][Place + 1])
      BY <1>2, <1>3, HandsOf DEF TypeRight
    <3> QED BY <1>1, <3>1, <3>2, CountSums, Round
  <2>2. Cardinality(validated \cup Sums) \in Nat
    BY <2>1, FS_CardinalityType
  <2>3. Cardinality(validated \cup Sums) <= Threshold(InitialCapacity * 2^MaxDoublings)
    <3>1. Cardinality(validated \cup Sums) <= Cardinality(validated \cup Sums)
      BY <2>2
    <3> QED BY <1>1, <2>2, <3>1, Room
  <2>4. current \in Nat /\ current >= InitialCapacity
    BY DEF IInv, Capacities, InitialCapacity
  <2>5. current' \in Nat /\ current' >= current
    BY <1>1, <2>2, <2>3, <2>4, GrownFits
  <2> QED BY <1>1, <2>4, <2>5 DEF Capacities, InitialCapacity
<1> QED BY <1>5, <1>7, <1>8, <1>9 DEF IInv

LEMMA RejectIInv == ASSUME IInv, Reject PROVE IInv'
<1>1. /\ Place < Faces[method] /\ Rehashed = current
      /\ keys' = keys /\ nextKey' = nextKey + 1 /\ method' = method
      /\ validated' = validated /\ capacity' = current
  BY DEF Reject, Turn
<1>2. PICK n \in 0 .. Cardinality(Sums \ validated) :
        current' = Grown(current, Cardinality(validated) + n)
  BY DEF Reject
<1>3. TypeRight /\ TypeRight'
  BY <1>1 DEF IInv, TypeRight
<1>4. (Distinct(Hands[method][Place], keys) /\ ValidatedExact)'
  BY <1>1 DEF IInv, Distinct, Place, ValidatedExact, SumsOf
<1>5. current \in Nat /\ current >= InitialCapacity
  BY DEF IInv, Capacities, InitialCapacity
<1>6. current' \in Nat /\ current' >= current
  <2>1. Place \in Nat /\ Place + 1 \in 0 .. Faces[method] /\ method \in Methods
    BY <1>1, <1>3, PlaceRight DEF TypeRight
  <2>2. IsFiniteSet(validated \cup Sums)
    <3>1. SumsOf(With(nextKey)) = {Sum(c, With(nextKey)) : c \in Hands[method][Place + 1]}
      BY <1>3, WithRight DEF SumsOf
    <3>2. IsFiniteSet(Hands[method][Place + 1])
      BY <2>1, HandsOf
    <3> QED BY <1>1, <3>1, <3>2, CountSums, Round
  <2>3. validated \in SUBSET (validated \cup Sums) /\ Sums \ validated \in SUBSET (validated \cup Sums)
        /\ validated \cap (Sums \ validated) = {}
        /\ validated \cup (Sums \ validated) = validated \cup Sums
    OBVIOUS
  <2>4. IsFiniteSet(validated) /\ IsFiniteSet(Sums \ validated)
    BY <2>2, <2>3, FS_Subset
  <2>5. Cardinality(validated \cup Sums)
          = Cardinality(validated) + Cardinality(Sums \ validated)
                                   - Cardinality(validated \cap (Sums \ validated))
    BY <2>3, <2>4, FS_Union
  <2>6. Cardinality(validated \cap (Sums \ validated)) = 0
    BY <2>3, FS_EmptySet
  <2>7. Cardinality(validated) \in Nat /\ Cardinality(Sums \ validated) \in Nat
    BY <2>4, FS_CardinalityType
  <2>8. /\ Cardinality(validated) + n \in Nat
        /\ Cardinality(validated) + n <= Cardinality(validated \cup Sums)
    BY <2>5, <2>6, <2>7
  <2>9. Cardinality(validated) + n <= Threshold(InitialCapacity * 2^MaxDoublings)
    BY <1>1, <2>8, Room
  <2> QED BY <1>2, <1>5, <2>8, <2>9, GrownFits
<1>7. Capacities'
  BY <1>1, <1>5, <1>6 DEF Capacities, InitialCapacity
<1> QED BY <1>3, <1>4, <1>7 DEF IInv

LEMMA NextIInv == IInv /\ [Next]_vars => IInv'
<1> SUFFICES ASSUME IInv, [Next]_vars PROVE IInv'
  OBVIOUS
<1>1. CASE Accept BY <1>1, AcceptIInv
<1>2. CASE Reject BY <1>2, RejectIInv
<1>3. CASE UNCHANGED vars
  <2>1. UNCHANGED <<method, keys, nextKey, validated, capacity, current>>
    BY <1>3 DEF vars
  <2> QED BY <2>1 DEF IInv, TypeRight, Distinct, Place, ValidatedExact, SumsOf, Capacities
<1> QED BY <1>1, <1>2, <1>3 DEF Next

THEOREM Invariance == Spec => []IInv
BY InitIInv, NextIInv, PTL DEF Spec

(***************************************************************************)
(* IntHashSet.copy never throws: whatever the rejected rounds made of the  *)
(* hash set, both have one capacity when one is copied to the other.       *)
(***************************************************************************)
THEOREM CopyAlwaysPossible == Spec => []CopyNeverRefused
<1>1. IInv => CopyNeverRefused
  BY DEF IInv, Capacities, CopyNeverRefused, Rehashed
<1> QED BY <1>1, Invariance, PTL

(***************************************************************************)
(* The keys identify the hands: no two hands that can be dealt from the    *)
(* faces have one sum, for any number of faces, though a round compares    *)
(* only the sums of the new hands.                                         *)
(***************************************************************************)
THEOREM KeysIdentifyHands == Spec => []HandsIdentified
<1>1. IInv => HandsIdentified
  <2>1. SUFFICES ASSUME IInv PROVE HandsIdentified
    OBVIOUS
  <2>2. method \in Methods /\ Place \in 0 .. Faces[method]
    BY <2>1, PlaceRight DEF IInv, TypeRight
  <2>3. IsFiniteSet(Hands[method][Place])
    BY <2>2, HandsOf
  <2>4. SumsOf(keys) = {Sum(c, keys) : c \in Hands[method][Place]}
    BY DEF SumsOf, Place
  <2> DEFINE H == Hands[method][Place]
  <2>5. \A c, d \in H : Sum(c, keys) = Sum(d, keys) => c = d
    BY <2>1 DEF IInv, Distinct
  <2>6. HandsIdentified <=> Cardinality(SumsOf(keys)) = Cardinality(H)
    BY DEF HandsIdentified, Identifies, Place
  <2> HIDE DEF H
  <2>7. IsFiniteSet(H) /\ SumsOf(keys) = {Sum(c, keys) : c \in H}
    BY <2>3, <2>4 DEF H
  <2> QED BY <2>5, <2>6, <2>7, CountSums
<1> QED BY <1>1, Invariance, PTL

(***************************************************************************)
(* validatedHashes holds the sums of the hands that can be dealt, and no   *)
(* others: what clashes with it clashes with a hand.                       *)
(***************************************************************************)
THEOREM ValidatedAlwaysExact == Spec => []ValidatedExact
<1>1. IInv => ValidatedExact
  BY DEF IInv
<1> QED BY <1>1, Invariance, PTL

(***************************************************************************)
(* The keys are the least: a candidate is passed over only when it would   *)
(* have given two hands one sum.                                           *)
(***************************************************************************)
THEOREM KeysAlwaysLeast == Spec => KeysLeast
<1>1. IInv /\ [Next]_vars => [PassesOverClashes]_vars
  <2>1. SUFFICES ASSUME IInv, [Next]_vars PROVE [PassesOverClashes]_vars
    OBVIOUS
  <2>2. CASE Accept
    <3>1. keys' = With(nextKey) BY <2>2 DEF Accept
    <3>2. Cardinality(DOMAIN With(nextKey)) = Place + 1 /\ Place \in Nat
      BY <2>1, WithRight, PlaceRight DEF IInv
    <3>3. keys' # keys
      BY <3>1, <3>2 DEF Place
    <3> QED BY <3>3 DEF PassesOverClashes
  <2>3. CASE Reject
    <3>1. Place < Faces[method] /\ Clash BY <2>3 DEF Reject, Turn
    <3>2. ~Identifies(With(nextKey)) BY <2>1, <3>1, Round
    <3> QED BY <3>2 DEF PassesOverClashes
  <2> QED BY <2>1, <2>2, <2>3 DEF Next
<1> QED BY <1>1, Invariance, PTL DEF Spec, KeysLeast

-------------------------------------------------------------------------------
(***************************************************************************)
(* The keys ascend, as the search never goes back.                         *)
(***************************************************************************)
Rising ==
  \A n \in DOMAIN keys : keys[n] < nextKey /\ \A m \in DOMAIN keys : m < n => keys[m] < keys[n]

LEMMA RisingNext == IInv /\ Rising /\ [Next]_vars => Rising'
<1> SUFFICES ASSUME IInv, Rising, [Next]_vars PROVE Rising'
  OBVIOUS
<1>1. /\ Place \in Nat /\ DOMAIN keys = 0 .. Place - 1 /\ keys \in [0 .. Place - 1 -> Nat]
      /\ nextKey \in Nat
  BY PlaceRight DEF IInv, TypeRight
<1>2. CASE Accept
  <2>1. keys' = With(nextKey) /\ nextKey' = nextKey + 1
    BY <1>2 DEF Accept
  <2>2. /\ DOMAIN keys' = 0 .. Place /\ keys'[Place] = nextKey
        /\ \A n \in 0 .. Place - 1 : keys'[n] = keys[n]
    BY <1>1, <2>1 DEF With
  <2> HIDE DEF Place
  <2>3. \A n \in 0 .. Place : n = Place \/ n \in 0 .. Place - 1
    BY <1>1
  <2> QED BY <1>1, <2>1, <2>2, <2>3 DEF Rising
<1>3. CASE Reject
  BY <1>1, <1>3 DEF Reject, Rising
<1>4. CASE UNCHANGED vars
  BY <1>4 DEF vars, Rising
<1> QED BY <1>2, <1>3, <1>4 DEF Next

LEMMA RisingAlways == Spec => []Rising
<1>1. Init => Rising
  BY DEF Init, Rising
<1> QED BY <1>1, Invariance, RisingNext, PTL DEF Spec

(***************************************************************************)
(* The keys in the hands of their users: the tables, when a search has     *)
(* ended with the keys Key.                                                *)
(***************************************************************************)
CONSTANT Key

ForFive == INSTANCE SevenTables
  WITH FACES <- Faces["five"], KeyFive <- Key, KeySeven <- Key, SuitKeys <- Key,
       section <- 0, todo <- {}, currentRank <- 0, ranks <- <<>>, lastHash <- 0, FLUSH_RANKS <- <<>>,
       toFill <- {}, toRank <- {}, ranksSeven <- <<>>, lastSeven <- 0
ForSeven == INSTANCE SevenTables
  WITH FACES <- Faces["seven"], KeyFive <- Key, KeySeven <- Key, SuitKeys <- Key,
       section <- 0, todo <- {}, currentRank <- 0, ranks <- <<>>, lastHash <- 0, FLUSH_RANKS <- <<>>,
       toFill <- {}, toRank <- {}, ranksSeven <- <<>>, lastSeven <- 0

LEMMA OneCardinality ==
  /\ \A S : ForFive!Five!Cardinality(S) = Cardinality(S)
  /\ \A S : ForSeven!Cardinality(S) = Cardinality(S)
BY Zenon DEF ForFive!Five!Cardinality, ForSeven!Cardinality, Cardinality

LEMMA FiveFit ==
  ASSUME Distinct(Hands["five"][Faces["five"]], Key), Faces["five"] \in Nat,
         Key \in [0 .. Faces["five"] - 1 -> Nat]
  PROVE  \A g, h \in ForFive!Five!Dealt : ForFive!Five!Key(g) = ForFive!Five!Key(h) => g = h
<1>1. ASSUME NEW h \in ForFive!Five!Dealt
      PROVE  h \in Hands["five"][Faces["five"]] /\ Sum(h, Key) = ForFive!Five!Key(h)
  <2>1. h \in [1 .. 5 -> 0 .. Faces["five"] - 1] /\ \A i \in 1 .. 4 : h[i] <= h[i + 1]
    BY DEF ForFive!Five!Dealt, ForFive!Five!Faces, ForFive!Five!Ace
  <2>2. \A f \in 0 .. Faces["five"] - 1 : Cardinality({n \in 1 .. 5 : h[n] = f}) # 5
    BY OneCardinality
    DEF ForFive!Five!Dealt, ForFive!Five!Times, ForFive!Five!Copies, ForFive!Five!Faces, ForFive!Five!Ace
  <2>3. IsFiniteSet(1 .. 5) /\ Cardinality(1 .. 5) = 5
    <3>1. 1 \in Int /\ 5 \in Int /\ ~(1 > 5) /\ 5 - 1 + 1 = 5
      OBVIOUS
    <3> QED BY <3>1, FS_Interval, Zenon
  <2>4. ASSUME NEW f PROVE Cardinality({n \in 1 .. 5 : h[n] = f}) <= 5
                           /\ Cardinality({n \in 1 .. 5 : h[n] = f}) \in Nat
    BY <2>3, FS_Subset, FS_CardinalityType
  <2>5. Cards["five"] = 5 /\ Limit["five"] = 4
    BY DEF Cards, Limit
  <2>6. h \in Tuples("five", Faces["five"])
    <3>1. Ascends(h)
      BY <2>1 DEF Ascends
    <3> QED BY <2>1, <2>5, <3>1 DEF Tuples
  <2>7. Fits("five", Faces["five"], h)
    <3>1. \A f \in 0 .. Faces["five"] - 1 : Cardinality({n \in 1 .. 5 : h[n] = f}) <= 4
      <4> DEFINE copies(f) == Cardinality({n \in 1 .. 5 : h[n] = f})
      <4>1. \A f \in 0 .. Faces["five"] - 1 : copies(f) # 5 /\ copies(f) <= 5 /\ copies(f) \in Nat
        BY <2>2, <2>4
      <4> HIDE DEF copies
      <4>2. \A f \in 0 .. Faces["five"] - 1 : copies(f) <= 4
        BY <4>1
      <4> QED BY <4>2 DEF copies
    <3> QED BY <2>5, <3>1 DEF Fits
  <2>8. h \in Hands["five"][Faces["five"]]
    <3>1. "five" \in Methods /\ Faces["five"] \in 0 .. Faces["five"]
      BY DEF Methods
    <3> QED BY <2>6, <2>7, <3>1, HandsOf
  <2>9. Sum(h, Key) = ForFive!Five!Key(h)
    <3>1. /\ KeyOf(h, 1, Key) = Key[h[1]] /\ KeyOf(h, 2, Key) = Key[h[2]] /\ KeyOf(h, 3, Key) = Key[h[3]]
          /\ KeyOf(h, 4, Key) = Key[h[4]] /\ KeyOf(h, 5, Key) = Key[h[5]]
          /\ KeyOf(h, 6, Key) = 0 /\ KeyOf(h, 7, Key) = 0
      BY <2>1 DEF KeyOf
    <3>2. /\ Key[h[1]] \in Int /\ Key[h[2]] \in Int /\ Key[h[3]] \in Int
          /\ Key[h[4]] \in Int /\ Key[h[5]] \in Int
      BY <2>1
    <3>3. Sum(h, Key) = Key[h[1]] + Key[h[2]] + Key[h[3]] + Key[h[4]] + Key[h[5]] + 0 + 0
      BY <3>1, Zenon DEF Sum
    <3> DEFINE a == Key[h[1]]
               b == Key[h[2]]
               c == Key[h[3]]
               d == Key[h[4]]
               e == Key[h[5]]
    <3>4. /\ Sum(h, Key) = a + b + c + d + e + 0 + 0
          /\ a \in Int /\ b \in Int /\ c \in Int /\ d \in Int /\ e \in Int
      BY <3>2, <3>3, Zenon
    <3> HIDE DEF a, b, c, d, e
    <3>5. Sum(h, Key) = a + b + c + d + e
      BY <3>4
    <3> USE DEF a, b, c, d, e
    <3> QED BY <3>5 DEF ForFive!Five!Key
  <2> QED BY <2>8, <2>9
<1> QED BY <1>1 DEF Distinct

LEMMA SevenFit ==
  ASSUME Distinct(Hands["seven"][Faces["seven"]], Key), Faces["seven"] \in Nat
  PROVE  \A c, d \in ForSeven!Dealt7 : ForSeven!KeyOf(c, Key) = ForSeven!KeyOf(d, Key) => c = d
<1>1. ASSUME NEW c \in ForSeven!Dealt7
      PROVE  c \in Hands["seven"][Faces["seven"]] /\ Sum(c, Key) = ForSeven!KeyOf(c, Key)
  <2>1. /\ c \in [1 .. 7 -> 0 .. Faces["seven"] - 1] /\ \A n \in 1 .. 6 : c[n] <= c[n + 1]
        /\ \A f \in 0 .. Faces["seven"] - 1 : Cardinality({n \in 1 .. 7 : c[n] = f}) <= 4
    BY OneCardinality DEF ForSeven!Dealt7, ForSeven!Faces
  <2>2. Cards["seven"] = 7 /\ Limit["seven"] = 4
    BY DEF Cards, Limit
  <2>3. c \in Tuples("seven", Faces["seven"])
    <3>1. Ascends(c)
      BY <2>1 DEF Ascends
    <3> QED BY <2>1, <2>2, <3>1 DEF Tuples
  <2>4. Fits("seven", Faces["seven"], c)
    BY <2>1, <2>2 DEF Fits
  <2>5. c \in Hands["seven"][Faces["seven"]]
    <3>1. "seven" \in Methods /\ Faces["seven"] \in 0 .. Faces["seven"]
      BY DEF Methods
    <3> QED BY <2>3, <2>4, <3>1, HandsOf
  <2>6. /\ KeyOf(c, 1, Key) = Key[c[1]] /\ KeyOf(c, 2, Key) = Key[c[2]] /\ KeyOf(c, 3, Key) = Key[c[3]]
        /\ KeyOf(c, 4, Key) = Key[c[4]] /\ KeyOf(c, 5, Key) = Key[c[5]] /\ KeyOf(c, 6, Key) = Key[c[6]]
        /\ KeyOf(c, 7, Key) = Key[c[7]]
    BY <2>1 DEF KeyOf
  <2>7. Sum(c, Key) = ForSeven!KeyOf(c, Key)
    BY <2>6, Zenon DEF Sum, ForSeven!KeyOf
  <2> QED BY <2>5, <2>7
<1> QED BY <1>1 DEF Distinct

(***************************************************************************)
(* The suits are searched for as tuples and used as counts: so many cards  *)
(* of each suit are so many equal places.                                  *)
(***************************************************************************)
Upto(a, n, x) == IF n <= a THEN x ELSE 0

LEMMA TimesIs ==
  ASSUME NEW a \in 0 .. 7, NEW x \in Int
  PROVE  a * x = Upto(a, 1, x) + Upto(a, 2, x) + Upto(a, 3, x) + Upto(a, 4, x) + Upto(a, 5, x)
                 + Upto(a, 6, x) + Upto(a, 7, x)
<1>1. a = 0 \/ a = 1 \/ a = 2 \/ a = 3 \/ a = 4 \/ a = 5 \/ a = 6 \/ a = 7
  OBVIOUS
<1>2. /\ 0 * x = 0 /\ 1 * x = x /\ 2 * x = x + x /\ 3 * x = x + x + x /\ 4 * x = x + x + x + x
      /\ 5 * x = x + x + x + x + x /\ 6 * x = x + x + x + x + x + x
      /\ 7 * x = x + x + x + x + x + x + x
  OBVIOUS
<1> QED BY <1>1, <1>2 DEF Upto

SuitAt(n, i) ==
  IF i <= n[0] THEN 0 ELSE IF i <= n[0] + n[1] THEN 1 ELSE IF i <= n[0] + n[1] + n[2] THEN 2 ELSE 3
SuitTuple(n) == [i \in 1 .. 7 |-> SuitAt(n, i)]

LEMMA SuitSum ==
  ASSUME NEW a \in 0 .. 7, NEW b \in 0 .. 7, NEW c \in 0 .. 7, NEW d \in 0 .. 7, a + b + c + d = 7,
         NEW w \in Int, NEW x \in Int, NEW y \in Int, NEW z \in Int
  PROVE  LET at(i) == IF i <= a THEN w ELSE IF i <= a + b THEN x ELSE IF i <= a + b + c THEN y ELSE z
         IN  at(1) + at(2) + at(3) + at(4) + at(5) + at(6) + at(7) = a * w + b * x + c * y + d * z
<1>1. a * w = Upto(a, 1, w) + Upto(a, 2, w) + Upto(a, 3, w) + Upto(a, 4, w) + Upto(a, 5, w)
              + Upto(a, 6, w) + Upto(a, 7, w)
  BY TimesIs
<1>2. b * x = Upto(b, 1, x) + Upto(b, 2, x) + Upto(b, 3, x) + Upto(b, 4, x) + Upto(b, 5, x)
              + Upto(b, 6, x) + Upto(b, 7, x)
  BY TimesIs
<1>3. c * y = Upto(c, 1, y) + Upto(c, 2, y) + Upto(c, 3, y) + Upto(c, 4, y) + Upto(c, 5, y)
              + Upto(c, 6, y) + Upto(c, 7, y)
  BY TimesIs
<1>4. d * z = Upto(d, 1, z) + Upto(d, 2, z) + Upto(d, 3, z) + Upto(d, 4, z) + Upto(d, 5, z)
              + Upto(d, 6, z) + Upto(d, 7, z)
  BY TimesIs
<1> QED BY <1>1, <1>2, <1>3, <1>4, SMTT(60) DEF Upto

LEMMA SuitsFound ==
  ASSUME Distinct(Hands["suits"][4], Key), Faces["suits"] = 4, Key \in [0 .. 3 -> Nat]
  PROVE  \A n, m \in ForSeven!SuitCounts : ForSeven!SumOfSuits(n) = ForSeven!SumOfSuits(m) => n = m
<1>1. \A n : n \in ForSeven!SuitCounts <=>
               n \in [0 .. 3 -> 0 .. 7] /\ n[0] + n[1] + n[2] + n[3] = 7
  BY DEF ForSeven!SuitCounts, ForSeven!Suits
<1>2. \A n \in ForSeven!SuitCounts :
        n[0] \in 0 .. 7 /\ n[1] \in 0 .. 7 /\ n[2] \in 0 .. 7 /\ n[3] \in 0 .. 7
  BY <1>1
<1>3. ASSUME NEW n \in ForSeven!SuitCounts
      PROVE  SuitTuple(n) \in Hands["suits"][4] /\ Sum(SuitTuple(n), Key) = ForSeven!SumOfSuits(n)
  <2> DEFINE c == SuitTuple(n)
  <2>1. \A i \in 1 .. 7 : c[i] = SuitAt(n, i)
    BY DEF SuitTuple
  <2>2. c \in [1 .. 7 -> 0 .. 3]
    <3>1. \A i \in 1 .. 7 : SuitAt(n, i) \in 0 .. 3
      BY DEF SuitAt
    <3> QED BY <3>1 DEF SuitTuple
  <2>3. \A i \in 1 .. 6 : SuitAt(n, i) <= SuitAt(n, i + 1)
    BY <1>2 DEF SuitAt
  <2>4. Cards["suits"] = 7
    BY DEF Cards
  <2> HIDE DEF c
  <2>5. Ascends(c)
    <3>1. \A i \in 1 .. 6 : i \in 1 .. 7 /\ i + 1 \in 1 .. 7
      OBVIOUS
    <3>2. \A i \in 1 .. 6 : c[i] <= c[i + 1]
      BY <2>1, <2>3, <3>1
    <3>3. DOMAIN c = 1 .. 7 /\ \A i \in DOMAIN c : i + 1 \in DOMAIN c => i \in 1 .. 6
      BY <2>2
    <3> QED BY <3>2, <3>3 DEF Ascends
  <2>6. c \in Tuples("suits", 4)
    <3>1. 0 .. 4 - 1 = 0 .. 3
      OBVIOUS
    <3> QED BY <2>2, <2>4, <2>5, <3>1 DEF Tuples
  <2>7. c \in Hands["suits"][4]
    <3>1. "suits" \in Methods /\ 4 \in 0 .. Faces["suits"]
      BY DEF Methods
    <3> QED BY <2>6, <3>1, HandsOf, SuitsFit
  <2>8. \A i \in 1 .. 7 : KeyOf(c, i, Key) = Key[SuitAt(n, i)]
    BY <2>1, <2>2 DEF KeyOf
  <2>9. \A i \in 1 .. 7 : Key[SuitAt(n, i)] =
                            IF i <= n[0] THEN Key[0] ELSE IF i <= n[0] + n[1] THEN Key[1]
                            ELSE IF i <= n[0] + n[1] + n[2] THEN Key[2] ELSE Key[3]
    BY DEF SuitAt
  <2>10. Key[0] \in Int /\ Key[1] \in Int /\ Key[2] \in Int /\ Key[3] \in Int
    OBVIOUS
  <2> DEFINE at(i) == IF i <= n[0] THEN Key[0] ELSE IF i <= n[0] + n[1] THEN Key[1]
                      ELSE IF i <= n[0] + n[1] + n[2] THEN Key[2] ELSE Key[3]
  <2>11. at(1) + at(2) + at(3) + at(4) + at(5) + at(6) + at(7)
           = n[0] * Key[0] + n[1] * Key[1] + n[2] * Key[2] + n[3] * Key[3]
    BY <1>1, <1>2, <2>10, SuitSum
  <2>12. \A i \in 1 .. 7 : KeyOf(c, i, Key) = at(i)
    BY <2>8, <2>9
  <2> HIDE DEF at
  <2>13. /\ KeyOf(c, 1, Key) = at(1) /\ KeyOf(c, 2, Key) = at(2) /\ KeyOf(c, 3, Key) = at(3)
         /\ KeyOf(c, 4, Key) = at(4) /\ KeyOf(c, 5, Key) = at(5) /\ KeyOf(c, 6, Key) = at(6)
         /\ KeyOf(c, 7, Key) = at(7)
    BY <2>12
  <2>14. Sum(c, Key) = ForSeven!SumOfSuits(n)
    BY <2>11, <2>13, Zenon DEF Sum, ForSeven!SumOfSuits
  <2> QED BY <2>7, <2>14 DEF c
<1>4. ASSUME NEW n \in ForSeven!SuitCounts, NEW m \in ForSeven!SuitCounts, SuitTuple(n) = SuitTuple(m)
      PROVE  n = m
  <2>1. \A i \in 1 .. 7 : SuitAt(n, i) = SuitAt(m, i)
    BY <1>4 DEF SuitTuple
  <2>2. ASSUME NEW k \in ForSeven!SuitCounts, NEW i \in 1 .. 7
        PROVE  /\ SuitAt(k, i) = 0 <=> i <= k[0]
               /\ SuitAt(k, i) <= 1 <=> i <= k[0] + k[1]
               /\ SuitAt(k, i) <= 2 <=> i <= k[0] + k[1] + k[2]
    BY <1>2 DEF SuitAt
  <2>3. ASSUME NEW a \in 0 .. 7, NEW b \in 0 .. 7, \A i \in 1 .. 7 : i <= a <=> i <= b
        PROVE  a = b
    <3>1. a = 0 \/ a \in 1 .. 7
      OBVIOUS
    <3>2. b = 0 \/ b \in 1 .. 7
      OBVIOUS
    <3>3. a <= b
      BY <2>3, <3>1
    <3>4. b <= a
      BY <2>3, <3>2
    <3> QED BY <3>3, <3>4
  <2>4. n[0] = m[0]
    BY <1>2, <2>1, <2>2, <2>3
  <2>5. n[0] + n[1] = m[0] + m[1]
    <3>1. n[0] + n[1] \in 0 .. 7 /\ m[0] + m[1] \in 0 .. 7
      BY <1>1, <1>2
    <3> QED BY <2>1, <2>2, <2>3, <3>1
  <2>6. n[0] + n[1] + n[2] = m[0] + m[1] + m[2]
    <3>1. n[0] + n[1] + n[2] \in 0 .. 7 /\ m[0] + m[1] + m[2] \in 0 .. 7
      BY <1>1, <1>2
    <3> QED BY <2>1, <2>2, <2>3, <3>1
  <2>7. n[1] = m[1] /\ n[2] = m[2] /\ n[3] = m[3]
    BY <1>1, <1>2, <2>4, <2>5, <2>6
  <2>8. \A s \in 0 .. 3 : s = 0 \/ s = 1 \/ s = 2 \/ s = 3
    OBVIOUS
  <2>9. \A s \in 0 .. 3 : n[s] = m[s]
    BY <2>4, <2>7, <2>8
  <2> QED BY <1>1, <2>9
<1> QED BY <1>3, <1>4 DEF Distinct

LEMMA CountImage ==
  ASSUME NEW H, IsFiniteSet(H), NEW f, DOMAIN f = H, f \in [H -> {f[x] : x \in H}],
         \A x, y \in H : f[x] = f[y] => x = y
  PROVE  Cardinality({f[x] : x \in H}) = Cardinality(H)
<1> DEFINE S == {f[x] : x \in H}
<1>1. \A s \in S : \E x \in H : f[x] = s
  OBVIOUS
<1> HIDE DEF S
<1>2. f \in Surjection(H, S)
  BY <1>1 DEF Surjection, S
<1>3. f \in Injection(H, S)
  BY DEF Injection, IsInjective, S
<1> QED BY <1>2, <1>3, FS_Surjection DEF S

(***************************************************************************)
(* What the evaluators take for granted of their keys (Evaluators,         *)
(* KeysAssumption) is what the search finds: when it has a key for each    *)
(* face, and each suit, the keys ascend and tell the hands of five, the    *)
(* hands of seven and the suits of seven cards from one another, as the    *)
(* tables count them (Bootstrap.java).                                     *)
(***************************************************************************)
KeysFit ==
  Place = Faces[method] /\ keys = Key =>
    /\ \A n \in 1 .. Faces[method] - 1 : Key[n - 1] < Key[n]
    /\ method = "five" =>
         Cardinality({ForFive!Five!Key(h) : h \in ForFive!Five!Dealt}) = Cardinality(ForFive!Five!Dealt)
    /\ method = "seven" =>
         Cardinality({ForSeven!KeyOf(c, Key) : c \in ForSeven!Dealt7}) = Cardinality(ForSeven!Dealt7)
    /\ method = "suits" /\ Faces["suits"] = 4 =>
         Cardinality({ForSeven!SumOfSuits(n) : n \in ForSeven!SuitCounts}) = Cardinality(ForSeven!SuitCounts)

THEOREM KeysAlwaysFit == Spec => []KeysFit
<1>1. ASSUME IInv, Rising, Place = Faces[method], keys = Key
      PROVE  KeysFit
  <2>1. /\ Faces[method] \in Nat /\ Key \in [0 .. Faces[method] - 1 -> Nat]
        /\ DOMAIN Key = 0 .. Faces[method] - 1
    BY <1>1, PlaceRight DEF IInv
  <2>2. Distinct(Hands[method][Faces[method]], Key)
    BY <1>1 DEF IInv
  <2>3. \A n \in 1 .. Faces[method] - 1 : Key[n - 1] < Key[n]
    <3>1. \A n \in 1 .. Faces[method] - 1 : n \in DOMAIN Key /\ n - 1 \in DOMAIN Key /\ n - 1 < n
      BY <2>1
    <3> QED BY <1>1, <3>1 DEF Rising
  <2>4. IsFiniteSet(1 .. 5) /\ IsFiniteSet(1 .. 7) /\ IsFiniteSet(0 .. 3) /\ IsFiniteSet(0 .. 7)
        /\ IsFiniteSet(0 .. Faces[method] - 1)
    <3>1. /\ 1 \in Int /\ 5 \in Int /\ 7 \in Int /\ 0 \in Int /\ 3 \in Int /\ Faces[method] - 1 \in Int
      BY <2>1
    <3> QED BY <3>1, FS_Interval, Zenon
  <2>5. ASSUME method = "five"
        PROVE  Cardinality({ForFive!Five!Key(h) : h \in ForFive!Five!Dealt}) = Cardinality(ForFive!Five!Dealt)
    <3> DEFINE D == ForFive!Five!Dealt
               f == [h \in D |-> ForFive!Five!Key(h)]
    <3>1. D \in SUBSET [1 .. 5 -> 0 .. Faces["five"] - 1]
      BY DEF ForFive!Five!Dealt, ForFive!Five!Faces, ForFive!Five!Ace
    <3>2. IsFiniteSet(D)
      <4>1. IsFiniteSet([1 .. 5 -> 0 .. Faces["five"] - 1])
        BY <2>4, <2>5, FiniteFunctions
      <4> HIDE DEF D
      <4> QED BY <3>1, <4>1, FS_Subset
    <3>3. \A g, h \in D : f[g] = f[h] => g = h
      BY <2>1, <2>2, <2>5, FiveFit
    <3>4. DOMAIN f = D /\ f \in [D -> {f[h] : h \in D}]
      OBVIOUS
    <3>5. {f[h] : h \in D} = {ForFive!Five!Key(h) : h \in D}
      OBVIOUS
    <3> HIDE DEF D, f
    <3>6. Cardinality({f[h] : h \in D}) = Cardinality(D)
      BY <3>2, <3>3, <3>4, CountImage
    <3> QED BY <3>5, <3>6 DEF D
  <2>6. ASSUME method = "seven"
        PROVE  Cardinality({ForSeven!KeyOf(c, Key) : c \in ForSeven!Dealt7}) = Cardinality(ForSeven!Dealt7)
    <3> DEFINE D == ForSeven!Dealt7
               f == [c \in D |-> ForSeven!KeyOf(c, Key)]
    <3>1. D \in SUBSET [1 .. 7 -> 0 .. Faces["seven"] - 1]
      BY DEF ForSeven!Dealt7, ForSeven!Faces
    <3>2. IsFiniteSet(D)
      <4>1. IsFiniteSet([1 .. 7 -> 0 .. Faces["seven"] - 1])
        BY <2>4, <2>6, FiniteFunctions
      <4> HIDE DEF D
      <4> QED BY <3>1, <4>1, FS_Subset
    <3>3. \A g, h \in D : f[g] = f[h] => g = h
      BY <2>1, <2>2, <2>6, SevenFit
    <3>4. DOMAIN f = D /\ f \in [D -> {f[h] : h \in D}]
      OBVIOUS
    <3>5. {f[h] : h \in D} = {ForSeven!KeyOf(h, Key) : h \in D}
      OBVIOUS
    <3> HIDE DEF D, f
    <3>6. Cardinality({f[h] : h \in D}) = Cardinality(D)
      BY <3>2, <3>3, <3>4, CountImage
    <3> QED BY <3>5, <3>6 DEF D
  <2>7. ASSUME method = "suits", Faces["suits"] = 4
        PROVE  Cardinality({ForSeven!SumOfSuits(n) : n \in ForSeven!SuitCounts})
                 = Cardinality(ForSeven!SuitCounts)
    <3> DEFINE D == ForSeven!SuitCounts
               f == [n \in D |-> ForSeven!SumOfSuits(n)]
    <3>1. D \in SUBSET [0 .. 3 -> 0 .. 7]
      BY DEF ForSeven!SuitCounts, ForSeven!Suits
    <3>2. IsFiniteSet(D)
      <4>1. IsFiniteSet([0 .. 3 -> 0 .. 7])
        BY <2>4, FiniteFunctions
      <4> HIDE DEF D
      <4> QED BY <3>1, <4>1, FS_Subset
    <3>3. \A n, m \in D : f[n] = f[m] => n = m
      <4>1. Distinct(Hands["suits"][4], Key) /\ Key \in [0 .. 3 -> Nat]
        BY <2>1, <2>2, <2>7
      <4> QED BY <2>7, <4>1, SuitsFound
    <3>4. DOMAIN f = D /\ f \in [D -> {f[h] : h \in D}]
      OBVIOUS
    <3>5. {f[h] : h \in D} = {ForSeven!SumOfSuits(h) : h \in D}
      OBVIOUS
    <3> HIDE DEF D, f
    <3>6. Cardinality({f[h] : h \in D}) = Cardinality(D)
      BY <3>2, <3>3, <3>4, CountImage
    <3> QED BY <3>5, <3>6 DEF D
  <2> QED BY <2>3, <2>5, <2>6, <2>7 DEF KeysFit
<1>2. IInv /\ Rising => KeysFit
  BY <1>1 DEF KeysFit
<1> QED BY <1>2, Invariance, RisingAlways, PTL
=============================================================================
