----------------------------- MODULE TableSearch -----------------------------
(***************************************************************************)
(* shorterHashTable of FindPrime.java: for one factor, every bucket size   *)
(* in turn, with the first heuristic and then, unless --fast is given,     *)
(* with the second one.  It composes the two heuristics: a call of one is  *)
(* a run of its module, on a reference that the search passes.             *)
(***************************************************************************)
EXTENDS HashTable, Sequences

CONSTANTS Primes,     \* the factors for which the function is called
          Fast,       \* --fast
          StartShift, StopShift,   \* startOffsetShift and stopOffsetShift
          NoTable     \* null

ASSUME SearchAssumption ==
  /\ Primes \subseteq Nat /\ Fast \in BOOLEAN
  /\ StartShift \in Nat /\ StopShift \in Nat /\ StartShift .. StopShift - 1 \subseteq Shifts

VARIABLES
  flat,        \* the rank of every hand
  prime,       \* the factor
  reference,   \* the argument reference
  best,        \* best
  newTable,    \* newTable
  i,           \* the bucket size of this iteration
  at,          \* "first", "second": in a call; "keep": l.183; "done": returned
  arg          \* the reference of the current call, replaced by what it builds

search == <<flat, prime, reference, best, i>>

(***************************************************************************)
(* The locals of the two heuristics.                                       *)
(***************************************************************************)
VARIABLES pc1, p1, s1, room1, buckets1, todo, offsets1, ranks1, length1
VARIABLES pc2, p2, s2, room2, buckets2, ungrouped, offsetMap, list, min, max,
          offsets2, ranks2, length2

locals1 == <<pc1, p1, s1, room1, buckets1, todo, offsets1, ranks1, length1>>
locals2 == <<pc2, p2, s2, room2, buckets2, ungrouped, offsetMap, list, min, max,
             offsets2, ranks2, length2>>
vars == <<search, newTable, at, arg, locals1, locals2>>

First == INSTANCE ShorterHashTable
  WITH best <- arg, pc <- pc1, prime <- p1, shift <- s1, room <- room1, buckets <- buckets1,
       offsets <- offsets1, ranks <- ranks1, rankLength <- length1
Second == INSTANCE ShorterHashTable2
  WITH best <- arg, pc <- pc2, prime <- p2, shift <- s2, room <- room2, buckets <- buckets2,
       offsets <- offsets2, ranks <- ranks2, rankLength <- length2

Init ==
  /\ flat \in [Hashes -> 1 .. MaxRank]
  /\ prime \in Primes
  /\ reference = FlatTable(flat)
  /\ best = reference /\ newTable = NoTable /\ arg = reference
  /\ i = StartShift
  /\ at = IF StartShift < StopShift THEN "first" ELSE "done"
  /\ pc1 = "idle" /\ First!NoLocals
  /\ pc2 = "idle" /\ Second!NoLocals

(***************************************************************************)
(* A call begins, or refuses at once and returns null.                     *)
(***************************************************************************)
CallFirst ==
  /\ at = "first" /\ pc1 = "idle"
  /\ \/ /\ First!Start(prime, i)
        /\ UNCHANGED <<at, newTable>>
     \/ /\ First!Refuse(prime, i)
        /\ newTable' = NoTable
        /\ at' = IF Fast THEN "keep" ELSE "second"
  /\ UNCHANGED <<search, arg, locals2>>

(***************************************************************************)
(* The call goes on; when it ends, newTable is the table it returned or    *)
(* null.  The second call gets the new table as its reference if there is  *)
(* one, and best otherwise (l.181): that is what arg holds then.           *)
(***************************************************************************)
RunFirst ==
  /\ at = "first" /\ pc1 = "placing"
  /\ First!Return \/ \E b \in todo : First!Iterate(b)
  /\ newTable' = IF pc1' = "idle" /\ arg' # arg THEN arg' ELSE NoTable
  /\ at' = IF pc1' = "idle" THEN (IF Fast THEN "keep" ELSE "second") ELSE "first"
  /\ UNCHANGED <<search, locals2>>

CallSecond ==
  /\ at = "second" /\ pc2 = "idle"
  /\ \/ /\ Second!Start(prime, i)
        /\ UNCHANGED <<at, newTable>>
     \/ /\ Second!Refuse(prime, i)
        /\ newTable' = NoTable
        /\ at' = "keep"
  /\ UNCHANGED <<search, arg, locals1>>

RunSecond ==
  /\ at = "second" /\ pc2 = "placing"
  /\ Second!Step
  /\ IF pc2' = "idle"
       THEN at' = "keep" /\ newTable' = IF arg' # arg THEN arg' ELSE NoTable
       ELSE UNCHANGED <<at, newTable>>
  /\ UNCHANGED <<search, locals1>>

\* seeded fault: the loop variable is not advanced
KeepWithoutCounting ==
  /\ at = "keep"
  /\ best' = IF newTable # NoTable THEN newTable ELSE best
  /\ arg' = best'
  /\ newTable' = NoTable
  /\ i' = i
  /\ at' = IF i' < StopShift THEN "first" ELSE "done"
  /\ UNCHANGED <<flat, prime, reference, locals1, locals2>>

(***************************************************************************)
(* l.183 and the head of the loop.                                         *)
(***************************************************************************)
Keep ==
  /\ at = "keep"
  /\ best' = IF newTable # NoTable THEN newTable ELSE best
  /\ arg' = best'
  /\ newTable' = NoTable
  /\ i' = i + 1
  /\ at' = IF i' < StopShift THEN "first" ELSE "done"
  /\ UNCHANGED <<flat, prime, reference, locals1, locals2>>

Next == CallFirst \/ RunFirst \/ CallSecond \/ RunSecond \/ Keep

Spec == Init /\ [][Next]_vars

(***************************************************************************)
(* One thread runs the function from beginning to end.                     *)
(***************************************************************************)
FairSpec == Spec /\ WF_vars(Next)

-------------------------------------------------------------------------------
Raised == pc1 = "raised" \/ pc2 = "raised"

(***************************************************************************)
(* The function returns best unless it is the reference.  Whatever the     *)
(* heuristics did on the way, what it returns serves every hand and is     *)
(* strictly shorter than the reference (so validate in the worker holds).  *)
(***************************************************************************)
ReturnsShorter ==
  at = "done" => /\ Serves(best, flat)
                 /\ best = reference \/ Size(best) < Size(reference)

(***************************************************************************)
(* The loop runs through every bucket size, unless a heuristic raises.     *)
(***************************************************************************)
ReturnsOrRaises == <>[](at = "done" \/ Raised)

(***************************************************************************)
(* "use only one heuristic and one bucket size" (FindPrime.java:44) says   *)
(* of --fast that the search without it uses more: so a table that the     *)
(* first heuristic has built should not be dropped for a longer one.       *)
(***************************************************************************)
KeepsWhatItBuilt == at = "keep" => (at' # "keep" => Size(best') <= Size(arg))
NoTableDropped == [][KeepsWhatItBuilt]_vars
=============================================================================
