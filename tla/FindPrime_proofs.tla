--------------------------- MODULE FindPrime_proofs ---------------------------
(***************************************************************************)
(* Proofs about FindPrime: for any number of workers and primes no         *)
(* improvement is lost, each prime is processed at most once, and the      *)
(* threads together implement ShortestTable.  Then the sieve of its main   *)
(* thread (PrimeSieve): whatever wraps, it finds the primes of the range.  *)
(***************************************************************************)
EXTENDS FindPrime, PrimeSieve, FiniteSetTheorems, FunctionTheorems, SequenceTheorems, TLAPS

(***************************************************************************)
(* The inductive invariant.  Taken is the first prime still in the queue,  *)
(* or the next one to be put there.                                        *)
(***************************************************************************)
Taken == next - Len(queue)

QueueSegment == /\ Len(queue) < next
                /\ \A n \in 1 .. Len(queue) : queue[n] = Taken + n - 1

HeldOnce == /\ \A w \in Workers : held[w] # None => held[w] < Taken /\ held[w] \notin processed
            /\ \A v, w \in Workers : held[v] = held[w] /\ held[v] # None => v = w
            /\ \A f \in processed : f < Taken

TakenKept == \A f \in 1 .. Taken - 1 :
               f \in Raising \/ f \in processed \/ \E w \in Workers : held[w] = f

(***************************************************************************)
(* What a worker has read bounds the best table from above, as that only   *)
(* gets shorter.                                                           *)
(***************************************************************************)
WorkerSound == \A w \in Workers :
  /\ worker[w] \in {"read", "search", "cas", "reread"} => held[w] \in Primes
  /\ worker[w] \in {"search", "cas", "reread"} => current[w] \in Nat /\ best <= current[w]
  /\ worker[w] = "cas" => Size[held[w]] < current[w]
  /\ worker[w] \in {"loop", "take", "ended", "dead"} => held[w] = None

MainSound == main = "put" => next \in Primes

Core == MainSound /\ QueueSegment /\ HeldOnce /\ TakenKept /\ WorkerSound /\ NoLostImprovement
IInv == TypeOK /\ Core

-------------------------------------------------------------------------------
LEMMA CapacityNat == Capacity \in Nat \ {0}
<1>1. Cardinality(Workers) \in Nat /\ Cardinality(Workers) # 0
  BY ConfigAssumption, FS_CardinalityType, FS_EmptySet
<1> HIDE DEF Capacity
<1>2. QED
  <2> DEFINE c == Cardinality(Workers)
  <2> HIDE DEF c
  <2>1. c \in Nat \ {0} => QueueFactor * c \in Nat \ {0}
    BY ConfigAssumption
  <2> QED
    BY <1>1, <2>1 DEF Capacity, c

LEMMA InitialTableNat ==
  ASSUME NEW t \in KnownSizes \cup {None}, NEW u \in KnownSizes \cup {None}, NEW fast \in BOOLEAN
  PROVE  InitialTable(t, u, fast) \in Nat
BY ConfigAssumption DEF InitialTable, OrShort

LEMMA InitIInv == Init => IInv
<1> SUFFICES ASSUME Init PROVE IInv
  OBVIOUS
<1> USE DEF Init
<1>1. best \in Nat /\ known \in KnownSizes \cup {None}
  BY InitialTableNat
<1>2. TypeOK
  <2>1. queue \in Seq(Primes) /\ Len(queue) <= Capacity
    BY CapacityNat
  <2>2. next \in 1 .. N + 1
    BY ConfigAssumption
  <2> QED
    BY <1>1, <2>1, <2>2 DEF TypeOK, MainStates, HookStates, WorkerStates
<1>3. Core
  BY DEF Core, MainSound, QueueSegment, HeldOnce, TakenKept, WorkerSound, NoLostImprovement, Taken
<1>4. QED
  BY <1>2, <1>3 DEF IInv

(***************************************************************************)
(* Types.                                                                  *)
(***************************************************************************)
LEMMA TypeNext == IInv /\ [Next]_vars => TypeOK'
<1> SUFFICES ASSUME TypeOK, MainSound, WorkerSound, [Next]_vars PROVE TypeOK'
  BY DEF IInv, Core
<1> USE ConfigAssumption DEF TypeOK, MainStates, HookStates, WorkerStates, mainVars, workerVars
<1>1. CASE UNCHANGED vars
  BY <1>1 DEF vars
<1>2. CASE Find
  BY <1>2 DEF Find
<1>3. CASE OutOfMemory
  BY <1>3 DEF OutOfMemory
<1>4. CASE Put
  <2>1. next \in Primes
    BY <1>4 DEF Put, MainSound
  <2>2. queue' \in Seq(Primes) /\ Len(queue') = Len(queue) + 1
    BY <1>4, <2>1 DEF Put
  <2>3. Len(queue') <= Capacity
    BY <1>4, <2>2, CapacityNat DEF Put
  <2> QED
    BY <1>4, <2>1, <2>2, <2>3 DEF Put, Primes
<1>5. CASE PutInterrupted
  BY <1>5 DEF PutInterrupted
<1>6. CASE RemoveHook
  BY <1>6 DEF RemoveHook
<1>7. CASE Await
  BY <1>7 DEF Await, ShutdownNow
<1>8. CASE Report
  BY <1>8 DEF Report
<1>9. CASE Exit
  BY <1>9 DEF Exit
<1>10. CASE Signal
  BY <1>10 DEF Signal
<1>11. CASE Hook
  BY <1>11 DEF Hook, HookInterrupt, HookJoin, HookAwait, ShutdownNow
<1>12. ASSUME NEW w \in Workers, Worker(w) PROVE TypeOK'
  <2>1. CASE Loop(w)
    BY <2>1 DEF Loop
  <2>2. CASE Take(w)
    <3>1. Head(queue) \in Primes /\ Tail(queue) \in Seq(Primes) /\ Len(Tail(queue)) <= Capacity
      BY <2>2, CapacityNat DEF Take
    <3> QED
      BY <2>2, <3>1 DEF Take
  <2>3. CASE TakeInterrupted(w)
    BY <2>3 DEF TakeInterrupted
  <2>4. CASE Read(w)
    BY <2>4 DEF Read
  <2>5. CASE Search(w)
    <3>1. held[w] \in Primes /\ UNCHANGED <<best, known, queue, mainVars, hook, jvm, flagged>>
      BY <2>5 DEF Search, WorkerSound
    <3>2. CASE Finish(w)
      BY <3>1, <3>2 DEF Finish
    <3>3. CASE worker' = [worker EXCEPT ![w] = "cas"] /\ UNCHANGED <<held, current, processed>>
      BY <3>1, <3>3
    <3> QED
      BY <2>5, <3>2, <3>3 DEF Search
  <2>6. CASE SearchRaises(w)
    BY <2>6 DEF SearchRaises
  <2>7. CASE Cas(w)
    <3>1. /\ held[w] \in Primes /\ Size[held[w]] \in Nat
          /\ UNCHANGED <<known, queue, mainVars, hook, jvm, flagged>>
      BY <2>7 DEF Cas, WorkerSound
    <3>2. CASE best' = Size[held[w]] /\ Finish(w)
      BY <3>1, <3>2 DEF Finish
    <3>3. CASE /\ worker' = [worker EXCEPT ![w] = "reread"]
               /\ UNCHANGED <<best, held, current, processed>>
      BY <3>1, <3>3
    <3> QED
      BY <2>7, <3>2, <3>3 DEF Cas
  <2>8. CASE Reread(w)
    <3>1. held[w] \in Primes /\ UNCHANGED <<best, known, queue, mainVars, hook, jvm, flagged>>
      BY <2>8 DEF Reread, WorkerSound
    <3>2. CASE Finish(w)
      BY <3>1, <3>2 DEF Finish
    <3>3. CASE /\ current' = [current EXCEPT ![w] = best] /\ worker' = [worker EXCEPT ![w] = "cas"]
               /\ UNCHANGED <<held, processed>>
      BY <3>1, <3>3
    <3> QED
      BY <2>8, <3>2, <3>3 DEF Reread
  <2> QED
    BY <1>12, <2>1, <2>2, <2>3, <2>4, <2>5, <2>6, <2>7, <2>8 DEF Worker
<1>13. QED
  BY <1>1, <1>2, <1>3, <1>4, <1>5, <1>6, <1>7, <1>8, <1>9, <1>10, <1>11, <1>12 DEF Next, Main

-------------------------------------------------------------------------------
(***************************************************************************)
(* A step that leaves the table, the queue and the primes alone, and takes *)
(* no worker into its processing.                                          *)
(***************************************************************************)
shared == <<best, queue, next, held, current, processed>>

LEMMA QuietCore ==
  ASSUME Core, UNCHANGED shared, MainSound',
         \A w \in Workers : \/ worker'[w] = worker[w]
                             \/ /\ worker[w] \in {"loop", "take", "ended", "dead"}
                                /\ worker'[w] \in {"loop", "take", "ended", "dead"}
  PROVE  Core'
<1> USE DEF shared, Core
<1>1. QueueSegment' /\ HeldOnce' /\ TakenKept' /\ NoLostImprovement'
  BY DEF QueueSegment, HeldOnce, TakenKept, NoLostImprovement, Taken
<1>2. WorkerSound'
  BY DEF WorkerSound
<1>3. QED
  BY <1>1, <1>2

LEMMA PutCore == ASSUME IInv, Put PROVE Core'
<1> USE DEF Put, mainVars, workerVars
<1>1. /\ queue \in Seq(Primes) /\ next \in Nat /\ Len(queue) \in Nat
      /\ MainSound /\ QueueSegment /\ HeldOnce /\ TakenKept /\ WorkerSound /\ NoLostImprovement
  BY ConfigAssumption DEF IInv, TypeOK, Core
<1>2. /\ Len(queue') = Len(queue) + 1 /\ Taken' = Taken /\ Taken \in Int
      /\ \A n \in 1 .. Len(queue) : queue'[n] = queue[n]
      /\ queue'[Len(queue) + 1] = next
  BY <1>1 DEF Taken
<1>3. QueueSegment'
  <2> SUFFICES ASSUME NEW n \in 1 .. Len(queue) + 1 PROVE queue'[n] = Taken + n - 1
    BY <1>1, <1>2 DEF QueueSegment
  <2>1. CASE n <= Len(queue)
    BY <1>1, <1>2, <2>1 DEF QueueSegment
  <2>2. CASE n = Len(queue) + 1
    BY <1>1, <1>2, <2>2 DEF Taken
  <2> QED
    BY <1>1, <2>1, <2>2
<1>4. HeldOnce' /\ TakenKept' /\ NoLostImprovement' /\ MainSound'
  BY <1>1, <1>2 DEF HeldOnce, TakenKept, NoLostImprovement, MainSound
<1>5. WorkerSound'
  BY <1>1 DEF WorkerSound
<1>6. QED
  BY <1>3, <1>4, <1>5 DEF Core

(***************************************************************************)
(* Take: the head of the queue is a prime that nobody holds, as it is not  *)
(* below Taken.                                                            *)
(***************************************************************************)
LEMMA TakeCore == ASSUME IInv, NEW w \in Workers, Take(w) PROVE Core'
<1> USE DEF Take, mainVars
<1>1. /\ queue \in Seq(Primes) /\ next \in Nat /\ Len(queue) \in Nat \ {0}
      /\ held \in [Workers -> Primes \cup {None}] /\ worker \in [Workers -> WorkerStates]
      /\ processed \subseteq Primes /\ None \notin Nat /\ Primes \subseteq Nat
      /\ MainSound /\ QueueSegment /\ HeldOnce /\ TakenKept /\ WorkerSound /\ NoLostImprovement
  BY ConfigAssumption DEF IInv, TypeOK, Core, Primes
<1>2. /\ Len(queue') = Len(queue) - 1 /\ Taken' = Taken + 1 /\ Taken \in Nat
      /\ \A n \in 1 .. Len(queue') : queue'[n] = queue[n + 1]
      /\ Head(queue) = Taken /\ Taken \in Primes
  BY <1>1 DEF Taken, QueueSegment
<1>3. held'[w] = Taken /\ \A v \in Workers \ {w} : held'[v] = held[v]
  BY <1>1, <1>2
<1>4. held[w] = None
  BY <1>1 DEF WorkerSound
<1>5. QueueSegment'
  BY <1>1, <1>2 DEF QueueSegment
<1>6. HeldOnce'
  <2>1. \A f \in processed : f < Taken
    BY <1>1 DEF HeldOnce
  <2>2. \A v \in Workers \ {w} : held'[v] # None => held'[v] \in Nat /\ held'[v] < Taken /\ held'[v] \notin processed
    BY <1>1, <1>3 DEF HeldOnce
  <2>3. \A v \in Workers : held'[v] # None => held'[v] < Taken' /\ held'[v] \notin processed'
    BY <1>1, <1>2, <1>3, <2>1, <2>2
  <2>4. \A v, u \in Workers : held'[v] = held'[u] /\ held'[v] # None => v = u
    BY <1>1, <1>2, <1>3, <2>2 DEF HeldOnce
  <2>5. \A f \in processed' : f < Taken'
    BY <1>1, <1>2, <2>1
  <2> QED
    BY <2>3, <2>4, <2>5 DEF HeldOnce
<1>7. TakenKept'
  <2> SUFFICES ASSUME NEW f \in 1 .. Taken
               PROVE  f \in Raising \/ f \in processed \/ \E v \in Workers : held'[v] = f
    BY <1>2 DEF TakenKept
  <2>1. CASE f = Taken
    BY <1>3, <2>1
  <2>2. CASE f # Taken
    <3>1. f \in 1 .. Taken - 1
      BY <1>2, <2>2
    <3>2. f \in Raising \/ f \in processed \/ \E v \in Workers : held[v] = f
      BY <1>1, <3>1 DEF TakenKept
    <3> QED
      BY <1>1, <1>3, <1>4, <3>1, <3>2
  <2> QED
    BY <2>1, <2>2
<1>8. WorkerSound'
  BY <1>1, <1>2, <1>3 DEF WorkerSound
<1>9. NoLostImprovement' /\ MainSound'
  BY <1>1 DEF NoLostImprovement, MainSound
<1>10. QED
  BY <1>5, <1>6, <1>7, <1>8, <1>9 DEF Core

(***************************************************************************)
(* The end of an iteration, with a best table no longer than before and no *)
(* longer than the one of the prime.                                       *)
(***************************************************************************)
LEMMA FinishCore ==
  ASSUME IInv, NEW w \in Workers, worker[w] \in {"search", "cas", "reread"}, Finish(w),
         UNCHANGED <<queue, mainVars>>,
         best' \in Nat, best' <= best, best' <= Size[held[w]]
  PROVE  Core'
<1> USE DEF Finish, mainVars
<1>1. /\ best \in Nat /\ queue' = queue /\ next' = next /\ main' = main
      /\ held \in [Workers -> Primes \cup {None}] /\ worker \in [Workers -> WorkerStates]
      /\ current \in [Workers -> Nat \cup {None}] /\ Size \in [Primes -> Nat]
      /\ processed \subseteq Primes /\ None \notin Nat /\ Primes \subseteq Nat
      /\ MainSound /\ QueueSegment /\ HeldOnce /\ TakenKept /\ WorkerSound /\ NoLostImprovement
  BY ConfigAssumption DEF IInv, TypeOK, Core, Primes
<1>2. held[w] \in Primes /\ held[w] # None
  BY <1>1 DEF WorkerSound
<1>3. held'[w] = None /\ \A v \in Workers \ {w} : held'[v] = held[v]
  BY <1>1
<1>4. Taken' = Taken /\ QueueSegment' /\ MainSound'
  BY <1>1 DEF QueueSegment, MainSound, Taken
<1>5. HeldOnce'
  <2>1. \A v \in Workers : held'[v] # None => held'[v] < Taken' /\ held'[v] \notin processed'
    BY <1>1, <1>2, <1>3, <1>4 DEF HeldOnce
  <2>2. \A v, u \in Workers : held'[v] = held'[u] /\ held'[v] # None => v = u
    BY <1>1, <1>3 DEF HeldOnce
  <2>3. \A f \in processed' : f < Taken'
    BY <1>1, <1>2, <1>4 DEF HeldOnce
  <2> QED
    BY <2>1, <2>2, <2>3 DEF HeldOnce
<1>6. TakenKept'
  <2> SUFFICES ASSUME NEW f \in 1 .. Taken - 1, f \notin Raising, f \notin processed'
               PROVE  \E v \in Workers : held'[v] = f
    BY <1>4 DEF TakenKept
  <2>1. PICK v \in Workers : held[v] = f
    BY <1>1 DEF TakenKept
  <2> QED
    BY <1>3, <2>1
<1>7. NoLostImprovement'
  <2> SUFFICES ASSUME NEW f \in processed' PROVE best' <= Size[f]
    BY DEF NoLostImprovement
  <2>1. f \in Primes /\ Size[f] \in Nat
    BY <1>1, <1>2
  <2> QED
    BY <1>1, <2>1 DEF NoLostImprovement
<1>8. WorkerSound'
  <2> SUFFICES ASSUME NEW v \in Workers
      PROVE  /\ worker'[v] \in {"read", "search", "cas", "reread"} => held'[v] \in Primes
             /\ worker'[v] \in {"search", "cas", "reread"} => current'[v] \in Nat /\ best' <= current'[v]
             /\ worker'[v] = "cas" => Size[held'[v]] < current'[v]
             /\ worker'[v] \in {"loop", "take", "ended", "dead"} => held'[v] = None
    BY DEF WorkerSound
  <2>1. CASE v = w
    BY <1>1, <1>3, <2>1
  <2>2. CASE v # w
    <3>1. worker'[v] = worker[v] /\ held'[v] = held[v] /\ current'[v] = current[v]
      BY <1>1, <2>2
    <3> QED
      BY <1>1, <3>1 DEF WorkerSound
  <2> QED
    BY <2>1, <2>2
<1>9. QED
  BY <1>4, <1>5, <1>6, <1>7, <1>8 DEF Core

(***************************************************************************)
(* Every other step of a worker in its processing.                         *)
(***************************************************************************)
LEMMA ReadCore == ASSUME IInv, NEW w \in Workers, Read(w) PROVE Core'
<1> USE DEF Read, mainVars
<1>1. QueueSegment' /\ HeldOnce' /\ TakenKept' /\ NoLostImprovement' /\ MainSound'
  BY DEF IInv, Core, QueueSegment, HeldOnce, TakenKept, NoLostImprovement, MainSound, Taken
<1>2. WorkerSound'
  BY DEF IInv, Core, TypeOK, WorkerSound
<1>3. QED
  BY <1>1, <1>2 DEF Core

LEMMA SearchCore == ASSUME IInv, NEW w \in Workers, Search(w) PROVE Core'
<1> USE DEF Search
<1>1. /\ best \in Nat /\ held[w] \in Primes /\ current[w] \in Nat /\ best <= current[w]
      /\ Size[held[w]] \in Nat
  BY ConfigAssumption DEF IInv, TypeOK, Core, WorkerSound
<1>2. CASE Size[held[w]] < current[w]
  <2>1. UNCHANGED shared /\ MainSound' /\ worker' = [worker EXCEPT ![w] = "cas"]
    BY <1>2 DEF shared, mainVars, IInv, Core, MainSound
  <2>2. QueueSegment' /\ HeldOnce' /\ TakenKept' /\ NoLostImprovement'
    BY <2>1 DEF shared, IInv, Core, QueueSegment, HeldOnce, TakenKept, NoLostImprovement, Taken
  <2>3. WorkerSound'
    BY <1>1, <1>2, <2>1 DEF shared, IInv, Core, TypeOK, WorkerSound
  <2> QED
    BY <2>1, <2>2, <2>3 DEF Core
<1>3. CASE ~(Size[held[w]] < current[w])
  <2>1. Finish(w) /\ best' = best /\ UNCHANGED <<queue, mainVars>>
    BY <1>3
  <2>2. best' <= Size[held[w]]
    BY <1>1, <1>3, <2>1
  <2> QED
    BY <1>1, <2>1, <2>2, FinishCore
<1>4. QED
  BY <1>2, <1>3

LEMMA SearchRaisesCore == ASSUME IInv, NEW w \in Workers, SearchRaises(w) PROVE Core'
<1> USE DEF SearchRaises, mainVars
<1>1. /\ held \in [Workers -> Primes \cup {None}] /\ worker \in [Workers -> WorkerStates]
      /\ current \in [Workers -> Nat \cup {None}] /\ None \notin Nat
      /\ MainSound /\ QueueSegment /\ HeldOnce /\ TakenKept /\ WorkerSound /\ NoLostImprovement
  BY ConfigAssumption DEF IInv, TypeOK, Core
<1>2. held'[w] = None /\ \A v \in Workers \ {w} : held'[v] = held[v]
  BY <1>1
<1>3. Taken' = Taken /\ QueueSegment' /\ MainSound' /\ NoLostImprovement'
  BY <1>1 DEF QueueSegment, MainSound, NoLostImprovement, Taken
<1>4. HeldOnce'
  BY <1>1, <1>2, <1>3 DEF HeldOnce
<1>5. TakenKept'
  <2> SUFFICES ASSUME NEW f \in 1 .. Taken - 1, f \notin Raising, f \notin processed
               PROVE  \E v \in Workers : held'[v] = f
    BY <1>3 DEF TakenKept
  <2>1. PICK v \in Workers : held[v] = f
    BY <1>1 DEF TakenKept
  <2>2. v # w
    BY <2>1
  <2> QED
    BY <1>2, <2>1, <2>2
<1>6. WorkerSound'
  BY <1>1, <1>2 DEF WorkerSound
<1>7. QED
  BY <1>3, <1>4, <1>5, <1>6 DEF Core

LEMMA CasCore == ASSUME IInv, NEW w \in Workers, Cas(w) PROVE Core'
<1> USE DEF Cas
<1>1. /\ best \in Nat /\ held[w] \in Primes /\ current[w] \in Nat
      /\ Size[held[w]] \in Nat /\ Size[held[w]] < current[w]
  BY ConfigAssumption DEF IInv, TypeOK, Core, WorkerSound
<1>2. CASE best = current[w]
  <2>1. Finish(w) /\ best' = Size[held[w]] /\ UNCHANGED <<queue, mainVars>>
    BY <1>2
  <2> QED
    BY <1>1, <1>2, <2>1, FinishCore
<1>3. CASE best # current[w]
  <2>1. UNCHANGED shared /\ MainSound' /\ worker' = [worker EXCEPT ![w] = "reread"]
    BY <1>3 DEF shared, mainVars, IInv, Core, MainSound
  <2>2. QueueSegment' /\ HeldOnce' /\ TakenKept' /\ NoLostImprovement'
    BY <2>1 DEF shared, IInv, Core, QueueSegment, HeldOnce, TakenKept, NoLostImprovement, Taken
  <2>3. WorkerSound'
    BY <1>1, <2>1 DEF shared, IInv, Core, TypeOK, WorkerSound
  <2> QED
    BY <2>1, <2>2, <2>3 DEF Core
<1>4. QED
  BY <1>2, <1>3

LEMMA RereadCore == ASSUME IInv, NEW w \in Workers, Reread(w) PROVE Core'
<1> USE DEF Reread
<1>1. best \in Nat /\ held[w] \in Primes /\ Size[held[w]] \in Nat
  BY ConfigAssumption DEF IInv, TypeOK, Core, WorkerSound
<1>2. CASE Size[held[w]] < best
  <2>1. /\ QueueSegment' /\ HeldOnce' /\ TakenKept' /\ NoLostImprovement' /\ MainSound'
    BY <1>2 DEF mainVars, IInv, Core, QueueSegment, HeldOnce, TakenKept, NoLostImprovement,
                MainSound, Taken
  <2>2. WorkerSound'
    BY <1>1, <1>2 DEF IInv, Core, TypeOK, WorkerSound
  <2> QED
    BY <2>1, <2>2 DEF Core
<1>3. CASE ~(Size[held[w]] < best)
  <2>1. Finish(w) /\ best' = best /\ UNCHANGED <<queue, mainVars>>
    BY <1>3
  <2>2. best' <= Size[held[w]]
    BY <1>1, <1>3, <2>1
  <2> QED
    BY <1>1, <2>1, <2>2, FinishCore
<1>4. QED
  BY <1>2, <1>3

-------------------------------------------------------------------------------
LEMMA NextIInv == IInv /\ [Next]_vars => IInv'
<1> SUFFICES ASSUME IInv, [Next]_vars PROVE Core'
  BY TypeNext DEF IInv
<1>1. Core /\ MainSound /\ TypeOK
  BY DEF IInv, Core
<1> USE DEF shared, mainVars, workerVars, MainSound
<1>2. CASE UNCHANGED vars
  BY <1>1, <1>2, QuietCore DEF vars
<1>3. CASE Put
  BY <1>3, PutCore
<1>4. CASE OutOfMemory \/ (Main /\ ~Put) \/ Signal \/ Hook
  <2>1. UNCHANGED shared /\ worker' = worker
    BY <1>4 DEF OutOfMemory, Main, Find, PutInterrupted, RemoveHook, Await, Report, Exit,
                Signal, Hook, HookInterrupt, HookJoin, HookAwait
  <2>2. MainSound'
    BY <1>1, <1>4 DEF OutOfMemory, Main, Find, PutInterrupted, RemoveHook, Await, Report, Exit,
                Signal, Hook, HookInterrupt, HookJoin, HookAwait
  <2> QED
    BY <1>1, <2>1, <2>2, QuietCore
<1>5. ASSUME NEW w \in Workers, Worker(w) PROVE Core'
  <2>1. CASE Loop(w) \/ TakeInterrupted(w)
    <3>1. UNCHANGED shared /\ MainSound'
      BY <1>1, <2>1 DEF Loop, TakeInterrupted
    <3>2. \A v \in Workers : \/ worker'[v] = worker[v]
                             \/ /\ worker[v] \in {"loop", "take", "ended", "dead"}
                                /\ worker'[v] \in {"loop", "take", "ended", "dead"}
      BY <1>1, <2>1 DEF Loop, TakeInterrupted, TypeOK
    <3> QED
      BY <1>1, <3>1, <3>2, QuietCore
  <2>2. CASE Take(w)
    BY <2>2, TakeCore
  <2>3. CASE Read(w)
    BY <2>3, ReadCore
  <2>4. CASE Search(w)
    BY <2>4, SearchCore
  <2>5. CASE SearchRaises(w)
    BY <2>5, SearchRaisesCore
  <2>6. CASE Cas(w)
    BY <2>6, CasCore
  <2>7. CASE Reread(w)
    BY <2>7, RereadCore
  <2> QED
    BY <1>5, <2>1, <2>2, <2>3, <2>4, <2>5, <2>6, <2>7 DEF Worker
<1>6. QED
  BY <1>2, <1>3, <1>4, <1>5 DEF Next, Main

(***************************************************************************)
(* The inductive invariant holds in every reachable state.                 *)
(***************************************************************************)
THEOREM Invariance == Spec => []IInv
<1>1. QED
  BY InitIInv, NextIInv, PTL DEF Spec

(***************************************************************************)
(* Types; the queue stays within its capacity.                             *)
(***************************************************************************)
THEOREM TypeCorrect == Spec => []TypeOK
<1>1. IInv => TypeOK
  BY DEF IInv
<1>2. QED
  BY Invariance, <1>1, PTL

(***************************************************************************)
(* The compare-and-set loop loses no improvement, whatever the number of   *)
(* workers and the order in which they publish.                            *)
(***************************************************************************)
THEOREM ImprovementsKept == Spec => []NoLostImprovement
<1>1. IInv => NoLostImprovement
  BY DEF IInv, Core
<1>2. QED
  BY Invariance, <1>1, PTL

(***************************************************************************)
(* Every prime found is in one place until it is processed, unless a       *)
(* worker died of it.                                                      *)
(***************************************************************************)
THEOREM PrimesAlwaysAccounted == Spec => []PrimesAccounted
<1>1. IInv => PrimesAccounted
  <2> SUFFICES ASSUME IInv PROVE PrimesAccounted
    OBVIOUS
  <2>1. /\ queue \in Seq(Primes) /\ Len(queue) \in Nat /\ next \in Nat /\ Taken \in Nat
        /\ Len(queue) < next /\ \A n \in 1 .. Len(queue) : queue[n] = Taken + n - 1
        /\ held \in [Workers -> Primes \cup {None}] /\ processed \subseteq Primes
        /\ Primes \subseteq Nat \ {0} /\ None \notin Nat
        /\ HeldOnce /\ TakenKept
    BY ConfigAssumption DEF IInv, TypeOK, Core, QueueSegment, Taken, Primes
  <2>2. DOMAIN queue = 1 .. Len(queue) /\ Taken + Len(queue) = next
    BY <2>1 DEF Taken
  <2>3. \A n, j \in DOMAIN queue : n < j => queue[n] < queue[j]
    BY <2>1, <2>2
  <2>4. \A q \in Queued : q \in Nat /\ Taken <= q /\ q < next
    BY <2>1, <2>2 DEF Queued
  <2>5. \A f \in Held \cup processed : f \in Nat \ {0} /\ f < Taken
    BY <2>1 DEF Held, HeldOnce
  <2>6. Held \cap processed = {}
        /\ \A v, w \in Workers : held[v] = held[w] /\ held[v] # None => v = w
    BY <2>1 DEF Held, HeldOnce
  <2>7. \A f \in Held \cup processed : \A q \in Queued : f < q
    BY <2>1, <2>4, <2>5
  <2>8. Queued \cup Held \cup processed \subseteq 1 .. next - 1
    BY <2>1, <2>2, <2>4, <2>5
  <2>9. ASSUME NEW f \in 1 .. next - 1, f \notin Raising
        PROVE  f \in Queued \cup Held \cup processed
    <3>1. CASE f < Taken
      <4>1. f \in processed \/ \E w \in Workers : held[w] = f
        BY <2>1, <2>9, <3>1 DEF TakenKept
      <4>2. f # None
        BY <2>1
      <4> QED
        BY <4>1, <4>2 DEF Held
    <3>2. CASE ~(f < Taken)
      <4>1. f - Taken + 1 \in 1 .. Len(queue)
        BY <2>1, <2>2, <3>2
      <4>2. queue[f - Taken + 1] = f
        BY <2>1, <4>1
      <4> QED
        BY <2>2, <4>1, <4>2 DEF Queued
    <3> QED
      BY <3>1, <3>2
  <2>10. QED
    BY <2>3, <2>6, <2>7, <2>8, <2>9 DEF PrimesAccounted
<1>2. QED
  BY Invariance, <1>1, PTL

(***************************************************************************)
(* The threads implement the sequential search: the step by which a worker *)
(* ends its iteration processes the prime, atomically and once; every      *)
(* other step stutters.                                                    *)
(***************************************************************************)
THEOREM Implements == Spec => AbstractSpec
<1>1. Init => Abstract!Init
  <2> SUFFICES ASSUME Init PROVE best \in Nat /\ processed = {}
    BY DEF Abstract!Init
  <2> QED
    BY InitialTableNat DEF Init
<1>2. ASSUME IInv, [Next]_vars
      PROVE  [Abstract!Next]_<<best, processed>>
  <2> USE DEF mainVars, workerVars
  <2>1. ASSUME NEW w \in Workers, worker[w] \in {"search", "cas", "reread"}, Finish(w),
               best' = IF Size[held[w]] < best THEN Size[held[w]] ELSE best
        PROVE  Abstract!Next
    <3>1. held[w] \in Primes /\ held[w] # None /\ held[w] \notin processed
      BY <1>2, <2>1, ConfigAssumption DEF IInv, Core, WorkerSound, HeldOnce, Primes
    <3>2. Abstract!Process(held[w])
      BY <2>1, <3>1 DEF Finish, Abstract!Process
    <3> QED
      BY <3>1, <3>2 DEF Abstract!Next
  <2>2. ASSUME NEW w \in Workers, Search(w) \/ Cas(w) \/ Reread(w)
        PROVE  [Abstract!Next]_<<best, processed>>
    <3>1. /\ best \in Nat /\ Size[held[w]] \in Nat /\ current[w] \in Nat /\ best <= current[w]
          /\ worker[w] = "cas" => Size[held[w]] < current[w]
          /\ worker[w] \in {"search", "cas", "reread"}
      BY <1>2, <2>2, ConfigAssumption
         DEF IInv, TypeOK, Core, WorkerSound, Search, Cas, Reread
    <3>2. \/ UNCHANGED <<best, processed>>
          \/ /\ Finish(w)
             /\ best' = IF Size[held[w]] < best THEN Size[held[w]] ELSE best
      BY <2>2, <3>1 DEF Search, Cas, Reread
    <3> QED
      BY <2>1, <3>1, <3>2
  <2>3. ASSUME NEW w \in Workers, Worker(w), ~(Search(w) \/ Cas(w) \/ Reread(w))
        PROVE  UNCHANGED <<best, processed>>
    BY <2>3 DEF Worker, Loop, Take, TakeInterrupted, Read, SearchRaises
  <2>4. CASE OutOfMemory \/ Main \/ Signal \/ Hook \/ UNCHANGED vars
    BY <2>4 DEF vars, OutOfMemory, Main, Find, Put, PutInterrupted, RemoveHook, Await, Report,
                Exit, Signal, Hook, HookInterrupt, HookJoin, HookAwait
  <2>5. QED
    BY <1>2, <2>2, <2>3, <2>4 DEF Next
<1>3. QED
  BY Invariance, <1>1, <1>2, PTL DEF Spec, AbstractSpec, Abstract!Spec

-------------------------------------------------------------------------------
(***************************************************************************)
(* The sieve of the same program, which finds the primes (PrimeSieve).     *)
(* For every width of an int, --start and --stop: it queues primes of the  *)
(* range only, misses none up to the square of the largest prime whose     *)
(* square is an int, never queues the largest int although that is a prime *)
(* of 32 bits, and reports a number that counts 2 in most cases.           *)
(***************************************************************************)
Ascending(s) == \A m, n \in DOMAIN s : m < n => s[m] < s[n]

(***************************************************************************)
(* The candidate is odd until it overflows, and then it is negative.       *)
(***************************************************************************)
SieveTypes ==
  /\ startPrime \in Nat /\ stopPrime \in 0 .. MaxInt
  /\ p \in Int /\ (p > 0 => p \in 3 .. MaxInt /\ p % 2 = 1)
  /\ primes \in Seq(Nat) /\ queued \in Seq(Nat) /\ ignoredPrimes \in Nat
  /\ i \in 1 .. Len(primes) + 1
  /\ at \in {"sieve", "interrupted", "over"}

(***************************************************************************)
(* The numbers kept as divisors are primes in ascending order, 2 first,    *)
(* and while the sieve runs they are below the candidate.                  *)
(***************************************************************************)
Kept ==
  /\ Ascending(primes)
  /\ 2 \in Elements(primes)
  /\ \A n \in Elements(primes) : IsPrime(n)
  /\ at = "sieve" /\ p > 0 => \A n \in Elements(primes) : n < p

\* no prime up to Complete has been passed over
NoneMissed ==
  \A n \in 3 .. Complete : IsPrime(n) /\ n <= Passed => n \in Elements(primes)

\* the divisors tried so far neither divide the candidate nor end the search
Tested ==
  at = "sieve" /\ p > 0 =>
    \A k \in 1 .. i - 1 : p % primes[k] # 0 /\ ~(Wrap(primes[k] * primes[k]) > p)

Below == {n \in Elements(primes) : 2 < n /\ n < startPrime}

QueueRight ==
  /\ Ascending(queued)
  /\ \A n \in Elements(queued) : n \in Elements(primes) /\ startPrime <= n /\ n <= stopPrime
  /\ \A n \in Elements(primes) : 2 < n /\ startPrime <= n /\ n <= Passed
       => n \in Elements(queued)

CountRight ==
  /\ at # "interrupted" =>
       Len(primes) - ignoredPrimes = Len(queued) + (IF Below = {} THEN 1 ELSE 0)
  /\ at = "over" => reported = Len(primes) - ignoredPrimes

SieveInv == SieveTypes /\ Kept /\ NoneMissed /\ Tested /\ QueueRight /\ CountRight

-------------------------------------------------------------------------------
(***************************************************************************)
(* The provers have no theory of exponentiation; 2^n is counted, as the    *)
(* number of subsets of 1 .. n, which one element more doubles.            *)
(***************************************************************************)
LEMMA CountedPower ==
  ASSUME NEW n \in Nat
  PROVE  LET S == SUBSET (1 .. n)
         IN  IsFiniteSet(S) /\ Cardinality(S) = 2^n /\ 2^n \in Nat \ {0}
<1>1. IsFiniteSet(1 .. n) /\ Cardinality(1 .. n) = n
  <2>1. 1 \in Int /\ n \in Int /\ (1 > n => n = 0) /\ n - 1 + 1 = n OBVIOUS
  <2> QED BY <2>1, FS_Interval
<1>2. IsFiniteSet(SUBSET (1 .. n)) /\ Cardinality(SUBSET (1 .. n)) = 2^n
  BY <1>1, FS_SUBSET, Zenon
<1>3. SUBSET (1 .. n) # {}
  OBVIOUS
<1>4. Cardinality(SUBSET (1 .. n)) \in Nat /\ Cardinality(SUBSET (1 .. n)) # 0
  BY <1>2, <1>3, FS_CardinalityType, FS_EmptySet
<1> QED BY <1>2, <1>4

LEMMA DoubledPower ==
  ASSUME NEW n \in Nat
  PROVE  2^(n + 1) = 2 * 2^n
<1> DEFINE S == SUBSET (1 .. n)
           T == (SUBSET (1 .. n + 1)) \ S
           f == [A \in S |-> A \cup {n + 1}]
<1>1. IsFiniteSet(S) /\ Cardinality(S) = 2^n /\ 2^n \in Nat
  BY CountedPower
<1>2. IsFiniteSet(SUBSET (1 .. n + 1)) /\ Cardinality(SUBSET (1 .. n + 1)) = 2^(n + 1)
  <2>1. n + 1 \in Nat OBVIOUS
  <2> QED BY <2>1, CountedPower
<1>3. 1 .. n + 1 = (1 .. n) \cup {n + 1} /\ n + 1 \notin 1 .. n
  OBVIOUS
<1>4. f \in [S -> T]
  BY <1>3
<1>5. ASSUME NEW A \in S, NEW B \in S, f[A] = f[B]
      PROVE  A = B
  <2>1. A \cup {n + 1} = B \cup {n + 1}
    BY <1>5
  <2> QED BY <1>3, <2>1
<1>6. ASSUME NEW B \in T
      PROVE  \E A \in S : f[A] = B
  <2>1. B \ {n + 1} \in S /\ n + 1 \in B
    BY <1>3
  <2>2. (B \ {n + 1}) \cup {n + 1} = B
    BY <2>1
  <2> QED BY <2>1, <2>2
<1>7. SUBSET (1 .. n + 1) = S \cup T /\ S \cap T = {}
  BY <1>3, Zenon
<1> HIDE DEF S, T, f
<1>8. ExistsBijection(S, T)
  <2>1. f \in Bijection(S, T)
    BY <1>4, <1>5, <1>6, Fun_IsBij
  <2> QED BY <2>1 DEF ExistsBijection
<1>9. IsFiniteSet(T) /\ Cardinality(T) = 2^n
  BY <1>1, <1>8, FS_Bijection
<1>10. Cardinality(S \cup T) = Cardinality(S) + Cardinality(T) - Cardinality(S \cap T)
  BY <1>1, <1>9, FS_Union
<1>11. Cardinality(S \cup T) = 2^(n + 1) /\ Cardinality(S \cap T) = 0
  BY <1>2, <1>7, FS_EmptySet, Zenon
<1> QED BY <1>1, <1>9, <1>10, <1>11

(***************************************************************************)
(* Ints: the largest one is odd, and results within the range are exact.   *)
(***************************************************************************)
LEMMA Ints ==
  /\ MaxInt \in Nat /\ MaxInt >= 7 /\ MaxInt % 2 = 1
  /\ \A x \in 0 .. MaxInt : Wrap(x) = x
  /\ \A x \in 0 .. MaxInt : x + 2 > MaxInt => Wrap(x + 2) \in Int /\ Wrap(x + 2) < 0
  /\ \A x \in Int : Wrap(x) \in Int /\ Wrap(x) <= MaxInt
<1> DEFINE M == 2^(IntBits - 1)
<1>1. /\ IntBits - 4 \in Nat /\ IntBits - 3 \in Nat /\ IntBits - 2 \in Nat /\ IntBits - 1 \in Nat
      /\ IntBits - 4 + 1 = IntBits - 3 /\ IntBits - 3 + 1 = IntBits - 2
      /\ IntBits - 2 + 1 = IntBits - 1 /\ IntBits - 1 + 1 = IntBits
  BY RangeAssumption
<1>2. /\ 2^(IntBits - 3) = 2 * 2^(IntBits - 4) /\ 2^(IntBits - 2) = 2 * 2^(IntBits - 3)
      /\ M = 2 * 2^(IntBits - 2) /\ 2^IntBits = 2 * M
  <2>1. \A n \in Nat : 2^(n + 1) = 2 * 2^n BY DoubledPower
  <2> QED BY <1>1, <2>1
<1>3. 2^(IntBits - 4) \in Nat \ {0}
  BY <1>1, CountedPower
<1>4. PICK x \in Nat \ {0} : M = 8 * x
  BY <1>2, <1>3
<1>5. MaxInt = M - 1
  BY DEF MaxInt
<1> HIDE DEF M
<1>6. M \in Nat /\ M >= 8 /\ M % 2 = 0
  BY <1>4
<1>7. \A y : Wrap(y) = ((y + M) % (2 * M)) - M
  BY <1>2 DEF Wrap, M
<1>8. ASSUME NEW y \in 0 .. MaxInt PROVE Wrap(y) = y
  <2>1. (y + M) % (2 * M) = y + M
    BY <1>5, <1>6
  <2>2. Wrap(y) = (y + M) - M
    BY <1>7, <2>1
  <2> QED BY <1>6, <2>2
<1>9. ASSUME NEW y \in 0 .. MaxInt, y + 2 > MaxInt
      PROVE  Wrap(y + 2) \in Int /\ Wrap(y + 2) < 0
  <2> DEFINE r == y + 2 - M
  <2>1. r \in 0 .. 1
    BY <1>5, <1>6, <1>9
  <2>2. \A m \in Nat \ {0}, k \in Nat : k < m => (k + m) % m = k
    OBVIOUS
  <2>3. y + 2 + M = r + 2 * M
    BY <1>6
  <2>4. (y + 2 + M) % (2 * M) = r
    <3> HIDE DEF r
    <3>1. r \in Nat /\ r < 2 * M /\ 2 * M \in Nat \ {0}
      BY <1>6, <2>1
    <3> QED BY <2>2, <2>3, <3>1
  <2>5. Wrap(y + 2) = r - M
    BY <1>7, <2>4
  <2> QED BY <1>6, <2>1, <2>5
<1>10. ASSUME NEW y \in Int PROVE Wrap(y) \in Int /\ Wrap(y) <= MaxInt
  <2>1. \A m \in Nat \ {0}, k \in Int : k % m \in 0 .. m - 1
    OBVIOUS
  <2>2. (y + M) % (2 * M) \in 0 .. 2 * M - 1
    BY <1>6, <2>1
  <2> QED BY <1>5, <1>6, <1>7, <2>2
<1> QED BY <1>5, <1>6, <1>8, <1>9, <1>10

(***************************************************************************)
(* A nonempty set of naturals has a least one.                             *)
(***************************************************************************)
LEMMA LeastNat ==
  ASSUME NEW S \in SUBSET Nat, S # {}
  PROVE  \E q \in S : \A r \in S : q <= r
<1> DEFINE T == {0 .. n : n \in S}
           R == StrictSubsetOrdering(Nat)
<1>1. T \subseteq FiniteSubsetsOf(Nat)
  <2>1. \A n \in S : IsFiniteSet(0 .. n) BY FS_Interval
  <2>2. \A n \in S : 0 .. n \subseteq Nat BY SMT
  <2> QED BY <2>1, <2>2, Zenon DEF FiniteSubsetsOf
<1>2. T # {}
  OBVIOUS
<1>3. IsWellFoundedOn(R, FiniteSubsetsOf(Nat))
  BY FS_StrictSubsetOrderingWellFounded
<1>4. \E I \in T : \A J \in T : <<J, I>> \notin R
  <2> HIDE DEF T, R
  <2> QED BY <1>1, <1>2, <1>3, WFMin
<1>5. PICK q \in S : \A r \in S : <<0 .. r, 0 .. q>> \notin R
  <2> HIDE DEF R
  <2> QED BY <1>4
<1>6. ASSUME NEW r \in S, r < q
      PROVE  FALSE
  <2> DEFINE pair == <<0 .. r, 0 .. q>>
  <2>1. 0 .. r \subseteq 0 .. q /\ q \in 0 .. q /\ q \notin 0 .. r
    BY <1>6
  <2>2. 0 .. r \in SUBSET Nat /\ 0 .. q \in SUBSET Nat
    BY SMT
  <2>3. 0 .. r # 0 .. q
    BY <2>1, Zenon
  <2>4. pair \in R
    BY <2>1, <2>2, <2>3 DEF StrictSubsetOrdering
  <2> QED BY <1>5, <2>4
<1> QED BY <1>6

-------------------------------------------------------------------------------
LEMMA Division ==
  ASSUME NEW d \in Nat \ {0}
  PROVE  /\ \A n \in Nat : n % d = 0 => \E k \in Nat : n = k * d
         /\ \A k \in Nat : (k * d) % d = 0
<1>1. ASSUME NEW n \in Nat, n % d = 0 PROVE \E k \in Nat : n = k * d
  <2>1. n = (n \div d) * d + (n % d) /\ n \div d \in Nat
    OBVIOUS
  <2> QED BY <1>1, <2>1
<1>2. ASSUME NEW k \in Nat PROVE (k * d) % d = 0
  <2>1. k * d = k * d + 0 /\ (k * d + 0) % d = 0
    OBVIOUS
  <2> QED BY <2>1
<1> QED BY <1>1, <1>2

(***************************************************************************)
(* What trial division rests on: a number that is not prime has a prime    *)
(* divisor not above its root.                                             *)
(***************************************************************************)
LEMMA LeastDivisor ==
  ASSUME NEW n \in Nat, n > 1, ~IsPrime(n)
  PROVE  \E r \in 2 .. n - 1 : IsPrime(r) /\ n % r = 0 /\ r * r <= n
<1> DEFINE S == {d \in 2 .. n - 1 : n % d = 0}
<1>1. S # {} /\ S \in SUBSET Nat
  <2>1. \E d \in 2 .. n - 1 : n % d = 0
    BY Zenon DEF IsPrime
  <2>2. S \subseteq 2 .. n - 1 /\ 2 .. n - 1 \subseteq Nat
    OBVIOUS
  <2> QED BY <2>1, <2>2
<1> HIDE DEF S
<1>2. PICK r \in S : \A d \in S : r <= d
  BY <1>1, LeastNat
<1>3. r \in 2 .. n - 1 /\ n % r = 0 /\ r \in Nat \ {0}
  BY <1>2 DEF S
<1>4. PICK k \in Nat : n = k * r
  BY <1>3, Division
<1>5. ASSUME NEW d \in 2 .. r - 1, r % d = 0
      PROVE  FALSE
  <2>1. d \in Nat \ {0}
    OBVIOUS
  <2>2. PICK j \in Nat : r = j * d
    BY <1>3, <1>5, <2>1, Division
  <2>3. n = (k * j) * d /\ k * j \in Nat
    BY <1>4, <2>1, <2>2
  <2>4. n % d = 0
    BY <2>1, <2>3, Division
  <2>5. d \in S
    BY <1>3, <2>4 DEF S
  <2> QED BY <1>2, <1>3, <2>5
<1>6. IsPrime(r)
  <2>1. r > 1
    BY <1>3
  <2> QED BY <1>5, <2>1, Zenon DEF IsPrime
<1>7. k \in 2 .. n - 1
  <2>1. k # 0 /\ k # 1
    BY <1>3, <1>4
  <2>2. k * 2 <= k * r
    BY <1>3, <1>4
  <2> QED BY <1>4, <2>1, <2>2
<1>8. k \in S
  <2>1. r * k = n /\ n % k = 0
    BY <1>3, <1>4, <1>7, Division
  <2> QED BY <1>7, <2>1 DEF S
<1>9. r * r <= k * r
  BY <1>2, <1>3, <1>8
<1> QED BY <1>3, <1>4, <1>6, <1>9

(***************************************************************************)
(* Complete is the square of the greatest prime whose square is an int.    *)
(***************************************************************************)
LEMMA CompleteIs ==
  \E q \in SquareRoots : Complete = q * q /\ \A r \in SquareRoots : r <= q
<1> DEFINE T == {MaxInt - r : r \in SquareRoots}
<1>1. SquareRoots \subseteq 2 .. MaxInt /\ MaxInt \in Nat
  BY Ints DEF SquareRoots
<1>2. 2 \in SquareRoots
  BY Ints DEF SquareRoots, IsPrime
<1>3. T \in SUBSET Nat /\ T # {}
  BY <1>1, <1>2
<1>4. PICK m \in T : \A t \in T : m <= t
  <2> HIDE DEF T
  <2> QED BY <1>3, LeastNat
<1>5. PICK q \in SquareRoots : m = MaxInt - q
  BY <1>4
<1>6. \A r \in SquareRoots : r <= q
  BY <1>1, <1>4, <1>5
<1>7. \A g \in SquareRoots : (\A r \in SquareRoots : r <= g) => g = q
  BY <1>1, <1>5, <1>6
<1>8. Complete = q * q
  <2> DEFINE g == CHOOSE g \in SquareRoots : \A r \in SquareRoots : r <= g
  <2>1. g \in SquareRoots /\ \A r \in SquareRoots : r <= g
    BY <1>5, <1>6
  <2>2. g = q
    BY <1>7, <2>1
  <2> QED BY <2>2 DEF Complete
<1> QED BY <1>5, <1>6, <1>8

-------------------------------------------------------------------------------
LEMMA Appended ==
  ASSUME NEW s \in Seq(Nat), NEW n \in Nat, NEW t, t = Append(s, n)
  PROVE  /\ t \in Seq(Nat) /\ Len(t) = Len(s) + 1 /\ Len(s) \in Nat
         /\ Elements(t) = Elements(s) \cup {n}
         /\ Ascending(s) /\ (\A m \in Elements(s) : m < n) => Ascending(t)
<1>1. /\ t \in Seq(Nat) /\ Len(t) = Len(s) + 1 /\ Len(s) \in Nat
      /\ DOMAIN s = 1 .. Len(s) /\ DOMAIN t = 1 .. Len(s) + 1
      /\ \A k \in 1 .. Len(s) : t[k] = s[k]
      /\ t[Len(s) + 1] = n
  OBVIOUS
<1>2. 1 .. Len(s) + 1 = (1 .. Len(s)) \cup {Len(s) + 1}
  BY <1>1
<1>3. Elements(t) = Elements(s) \cup {n}
  BY <1>1, <1>2 DEF Elements
<1>4. ASSUME Ascending(s), \A m \in Elements(s) : m < n
      PROVE  Ascending(t)
  <2>1. SUFFICES ASSUME NEW j \in 1 .. Len(s) + 1, NEW k \in 1 .. Len(s) + 1, j < k
                 PROVE  t[j] < t[k]
    BY <1>1 DEF Ascending
  <2>2. j \in 1 .. Len(s)
    BY <1>1, <2>1
  <2>3. CASE k \in 1 .. Len(s)
    BY <1>1, <1>4, <2>1, <2>2, <2>3 DEF Ascending
  <2>4. CASE k = Len(s) + 1
    BY <1>1, <1>4, <2>2, <2>4 DEF Elements
  <2> QED BY <1>2, <2>3, <2>4
<1> QED BY <1>1, <1>3, <1>4

(***************************************************************************)
(* What a round of the loop knows of the candidate and the divisors.       *)
(***************************************************************************)
LEMMA Round ==
  ASSUME SieveInv, InLoop
  PROVE  /\ p \in 3 .. MaxInt /\ p % 2 = 1 /\ MaxInt \in Nat /\ Passed = p - 1
         /\ i \in 1 .. Len(primes) + 1 /\ Len(primes) \in Nat
         /\ DOMAIN primes = 1 .. Len(primes)
         /\ \A k \in 1 .. Len(primes) :
              primes[k] \in Elements(primes) /\ primes[k] \in Nat
         /\ \A n \in Elements(primes) : n \in 2 .. p - 1 /\ IsPrime(n)
<1>1. /\ at = "sieve" /\ p > 0 /\ p \in 3 .. MaxInt /\ p % 2 = 1
      /\ primes \in Seq(Nat) /\ i \in 1 .. Len(primes) + 1
  BY DEF SieveInv, SieveTypes, InLoop
<1>2. MaxInt \in Nat /\ Passed = p - 1
  BY <1>1, Ints DEF SieveInv, Passed
<1>3. /\ Len(primes) \in Nat /\ DOMAIN primes = 1 .. Len(primes)
      /\ \A k \in 1 .. Len(primes) : primes[k] \in Elements(primes) /\ primes[k] \in Nat
  BY <1>1 DEF Elements
<1>4. ASSUME NEW n \in Elements(primes)
      PROVE  n \in 2 .. p - 1 /\ IsPrime(n)
  <2>1. n \in Nat
    BY <1>1 DEF Elements
  <2>2. IsPrime(n) /\ n < p
    BY <1>1 DEF SieveInv, Kept
  <2>3. n > 1
    BY <2>2 DEF IsPrime
  <2> QED BY <1>1, <2>1, <2>2, <2>3
<1> QED BY <1>1, <1>2, <1>3, <1>4

LEMMA DividedIsNoPrime ==
  ASSUME SieveInv, InLoop, IsDivided
  PROVE  ~IsPrime(p)
<1>1. i \in 1 .. Len(primes) /\ primes[i] \in 2 .. p - 1 /\ p % primes[i] = 0
  BY Round DEF IsDivided, Divisor
<1> QED BY <1>1, Zenon DEF IsPrime

(***************************************************************************)
(* When a divisor ends the search, the candidate is prime: if it were not, *)
(* its least prime divisor would be in the list, being below the greatest  *)
(* root.  Were it before the i it would have divided; at the i it  *)
(* does not; after it, the square of Divisor were less than the candidate, *)
(* so that it could not have wrapped.                                      *)
(***************************************************************************)
LEMMA FoundIsPrime ==
  ASSUME SieveInv, InLoop, IsFound
  PROVE  IsPrime(p)
<1>1. SUFFICES ASSUME ~IsPrime(p) PROVE FALSE
  OBVIOUS
<1>2. /\ p \in 3 .. MaxInt /\ p \in Nat /\ p > 1 /\ MaxInt \in Nat
      /\ i \in 1 .. Len(primes) /\ Len(primes) \in Nat /\ Passed = p - 1
  BY Round DEF IsFound
<1>3. PICK r \in 2 .. p - 1 : IsPrime(r) /\ p % r = 0 /\ r * r <= p
  BY <1>1, <1>2, LeastDivisor
<1>4. r \in Elements(primes)
  <2>1. PICK q \in SquareRoots : Complete = q * q /\ \A m \in SquareRoots : m <= q
    BY CompleteIs DEF SieveInv
  <2>2. r \in 2 .. MaxInt /\ r * r <= MaxInt
    BY <1>2, <1>3
  <2>3. r \in SquareRoots
    BY <1>3, <2>2 DEF SquareRoots
  <2>4. q \in 2 .. MaxInt /\ r <= q
    BY <2>1, <2>3 DEF SquareRoots
  <2>5. q <= q * q
    BY <1>2, <2>4
  <2>6. r <= Complete
    BY <1>2, <1>3, <2>1, <2>4, <2>5
  <2>7. CASE r = 2
    BY <2>7 DEF SieveInv, Kept
  <2>8. CASE r # 2
    <3>1. r \in 3 .. Complete /\ r <= Passed
      BY <1>2, <1>3, <2>1, <2>4, <2>6, <2>8
    <3> QED BY <1>3, <3>1 DEF SieveInv, NoneMissed
  <2> QED BY <2>7, <2>8
<1>5. PICK k \in 1 .. Len(primes) : primes[k] = r
  BY <1>4, Round DEF Elements
<1>6. /\ at = "sieve" /\ p > 0 /\ p % primes[i] # 0
      /\ Wrap(primes[i] * primes[i]) > p
  BY DEF InLoop, IsFound, Divisor
<1>7. CASE k < i
  <2>1. k \in 1 .. i - 1
    BY <1>2, <1>7
  <2> QED BY <1>3, <1>5, <1>6, <2>1 DEF SieveInv, Tested
<1>8. CASE k = i
  BY <1>3, <1>5, <1>6, <1>8
<1>9. CASE k > i
  <2>1. primes[i] < r
    BY <1>2, <1>5, <1>9, Round DEF SieveInv, Kept, Ascending
  <2>2. primes[i] \in Nat /\ primes[i] * primes[i] <= r * r
    <3>1. \A x, y \in Nat : x < y => x * x <= y * y
      OBVIOUS
    <3>2. primes[i] \in Nat /\ r \in Nat
      BY <1>2, <1>3, Round
    <3> QED BY <2>1, <3>1, <3>2
  <2>3. primes[i] * primes[i] \in 0 .. MaxInt /\ primes[i] * primes[i] <= p
    <3>1. primes[i] * primes[i] \in Nat /\ r * r \in Nat
      BY <1>3, <2>2
    <3>2. \A x, y \in Nat : x <= y /\ y <= p => x \in 0 .. MaxInt /\ x <= p
      BY <1>2
    <3> QED BY <1>3, <2>2, <3>1, <3>2
  <2>4. Wrap(primes[i] * primes[i]) = primes[i] * primes[i]
    BY <2>3, Ints DEF SieveInv
  <2> QED BY <1>2, <1>6, <2>3, <2>4
<1> QED BY <1>2, <1>5, <1>7, <1>8, <1>9

(***************************************************************************)
(* A candidate that exhausts the divisors is not a prime that is owed.  If *)
(* it were a prime up to Complete, a prime below it would have a square    *)
(* above it that is an int: the greatest root, or the prime of             *)
(* BertrandAssumption.  It would be in the list and have ended the search. *)
(***************************************************************************)
LEMMA ExhaustedIsNotOwed ==
  ASSUME SieveInv, InLoop, i > Len(primes)
  PROVE  ~(IsPrime(p) /\ p <= Complete)
<1>1. SUFFICES ASSUME IsPrime(p), p <= Complete PROVE FALSE
  OBVIOUS
<1>2. /\ p \in 3 .. MaxInt /\ MaxInt \in Nat /\ Passed = p - 1
      /\ Len(primes) \in Nat /\ i - 1 = Len(primes) /\ at = "sieve" /\ p > 0
  BY Round DEF InLoop
<1>3. PICK q \in SquareRoots : Complete = q * q /\ \A m \in SquareRoots : m <= q
  BY CompleteIs DEF SieveInv
<1>4. SquareRoots \subseteq {n \in 2 .. MaxInt : n * n <= MaxInt /\ IsPrime(n)}
  BY DEF SquareRoots
<1>5. PICK r \in SquareRoots : r < p /\ p < r * r
  <2>1. CASE p <= q
    <3>1. \A x, y \in Nat : x <= y => x * x <= y * y
      OBVIOUS
    <3>2. p \in Nat /\ q \in Nat /\ q * q <= MaxInt
      BY <1>2, <1>3, <1>4
    <3>3. p * p <= q * q
      BY <2>1, <3>1, <3>2
    <3>4. p * p <= MaxInt
      <4>1. p * p \in Nat /\ q * q \in Nat
        BY <3>2
      <4> QED BY <1>2, <3>2, <3>3, <4>1
    <3>5. p \in 2 .. MaxInt
      BY <1>2
    <3>6. p \in SquareRoots /\ p # 2
      BY <1>1, <1>2, <3>4, <3>5 DEF SquareRoots
    <3> QED BY <3>6, BertrandAssumption
  <2>2. CASE q < p
    <3>1. p # q * q
      <4>1. ASSUME p = q * q PROVE FALSE
        <5>1. q \in Nat \ {0} /\ q \in 2 .. p - 1
          BY <1>2, <1>4, <2>2
        <5>2. p % q = 0
          BY <4>1, <5>1, Division
        <5> QED BY <1>1, <5>1, <5>2, Zenon DEF IsPrime
      <4> QED BY <4>1
    <3>2. q * q \in Nat /\ p \in Nat
      BY <1>2, <1>4
    <3>3. p < q * q
      BY <1>1, <1>3, <3>1, <3>2
    <3> QED BY <2>2, <3>3
  <2>3. q \in Int /\ p \in Int
    BY <1>2, <1>4
  <2> QED BY <2>1, <2>2, <2>3
<1>6. r \in 2 .. MaxInt /\ r * r <= MaxInt /\ IsPrime(r) /\ r * r \in Nat
  BY <1>4
<1>7. r \in Elements(primes)
  <2>1. CASE r = 2
    BY <2>1 DEF SieveInv, Kept
  <2>2. CASE r # 2
    <3>1. q * q \in Nat
      BY <1>2, <1>4
    <3>2. r \in 3 .. Complete /\ r <= Passed
      BY <1>1, <1>2, <1>3, <1>5, <1>6, <2>2, <3>1
    <3> QED BY <1>6, <3>2 DEF SieveInv, NoneMissed
  <2> QED BY <2>1, <2>2
<1>8. PICK k \in 1 .. Len(primes) : primes[k] = r
  BY <1>7, Round DEF Elements
<1>9. ~(Wrap(r * r) > p)
  BY <1>2, <1>8 DEF SieveInv, Tested
<1>10. Wrap(r * r) = r * r
  <2>1. r * r \in 0 .. MaxInt
    BY <1>2, <1>6
  <2> QED BY <2>1, Ints DEF SieveInv
<1> QED BY <1>2, <1>5, <1>6, <1>9, <1>10

(***************************************************************************)
(* The next candidate leaves out even numbers only, also when it overflows.*)
(***************************************************************************)
LEMMA Candidate ==
  ASSUME SieveInv, InLoop, NextCandidate
  PROVE  /\ i' = 1 /\ p' \in Int
         /\ p' > 0 => p' \in 3 .. MaxInt /\ p' % 2 = 1 /\ p' = p + 2
         /\ p <= Passed'
         /\ \A n \in Nat : IsPrime(n) /\ 2 < n /\ n <= Passed' => n <= Passed \/ n = p
<1>1. p \in 3 .. MaxInt /\ p % 2 = 1 /\ MaxInt \in Nat /\ Passed = p - 1
  BY Round
<1>2. /\ i' = 1 /\ p' = Wrap(p + 2)
      /\ Passed' = IF p' > 0 THEN p' - 1 ELSE MaxInt
  BY DEF NextCandidate, Passed, MaxInt
<1>3. ASSUME NEW n \in Nat, IsPrime(n), 2 < n, n <= p + 1
      PROVE  n <= Passed \/ n = p
  <2>1. n # p + 1
    <3>1. SUFFICES ASSUME n = p + 1 PROVE FALSE
      OBVIOUS
    <3>2. n % 2 = 0 /\ 2 \in 2 .. n - 1
      BY <1>1, <1>3, <3>1
    <3> QED BY <1>3, <3>2, Zenon DEF IsPrime
  <2> QED BY <1>1, <1>3, <2>1
<1>4. CASE p + 2 <= MaxInt
  <2>1. p + 2 \in 0 .. MaxInt /\ p + 2 \in 3 .. MaxInt /\ (p + 2) % 2 = 1
    BY <1>1, <1>4
  <2>2. p' = p + 2
    BY <1>2, <2>1, Ints DEF SieveInv
  <2>3. Passed' = p + 1
    BY <1>1, <1>2, <2>2
  <2> QED BY <1>1, <1>2, <1>3, <2>1, <2>2, <2>3
<1>5. CASE p + 2 > MaxInt
  <2>1. p' \in Int /\ p' < 0
    <3>1. p \in 0 .. MaxInt
      BY <1>1
    <3> QED BY <1>2, <1>5, <3>1, Ints DEF SieveInv
  <2>2. Passed' = MaxInt
    BY <1>2, <2>1
  <2> QED BY <1>1, <1>2, <1>3, <1>5, <2>1, <2>2
<1> QED BY <1>1, <1>4, <1>5

-------------------------------------------------------------------------------
LEMMA InitSieve == SieveInit => SieveInv
<1> SUFFICES ASSUME SieveInit PROVE SieveInv
  OBVIOUS
<1>1. /\ startPrime \in Starts /\ stopPrime \in Stops /\ p = 3 /\ i = 1 /\ primes = <<2>>
      /\ ignoredPrimes = 0 /\ queued = <<>> /\ at = "sieve" /\ reported = 0
  BY DEF SieveInit
<1>2. /\ primes \in Seq(Nat) /\ Len(primes) = 1 /\ DOMAIN primes = 1 .. 1 /\ primes[1] = 2
      /\ queued \in Seq(Nat) /\ Len(queued) = 0 /\ DOMAIN queued = 1 .. 0
  BY <1>1
<1>3. Elements(primes) = {2} /\ Elements(queued) = {}
  BY <1>2 DEF Elements
<1>4. SieveTypes
  BY <1>1, <1>2, Ints, RangeAssumption DEF SieveTypes
<1>5. Kept
  <2>1. IsPrime(2)
    BY DEF IsPrime
  <2> QED BY <1>1, <1>2, <1>3, <2>1 DEF Kept, Ascending
<1>6. Passed = 2
  BY <1>1 DEF Passed
<1>7. NoneMissed
  BY <1>6 DEF NoneMissed
<1>8. Tested
  BY <1>1 DEF Tested
<1>9. QueueRight
  BY <1>2, <1>3 DEF QueueRight, Ascending
<1>10. CountRight
  <2>1. Below = {}
    BY <1>3 DEF Below
  <2> QED BY <1>1, <1>2, <2>1 DEF CountRight
<1> QED BY <1>4, <1>5, <1>7, <1>8, <1>9, <1>10 DEF SieveInv

(***************************************************************************)
(* A candidate that is passed over, and is not a prime that is owed.       *)
(***************************************************************************)
LEMMA PassOverSieve ==
  ASSUME SieveInv, InLoop, NextCandidate, ~(IsPrime(p) /\ p <= Complete),
         p \notin Elements(primes),
         UNCHANGED <<options, primes, ignoredPrimes, queued, at, reported>>
  PROVE  SieveInv'
<1>1. /\ startPrime' = startPrime /\ stopPrime' = stopPrime /\ primes' = primes
      /\ ignoredPrimes' = ignoredPrimes /\ queued' = queued /\ at' = at /\ reported' = reported
      /\ Elements(primes)' = Elements(primes) /\ Elements(queued)' = Elements(queued)
      /\ Complete' = Complete /\ MaxInt' = MaxInt
  BY DEF options, Elements, Complete, SquareRoots, MaxInt
<1>2. /\ p \in 3 .. MaxInt /\ Passed = p - 1 /\ Len(primes) \in Nat
      /\ \A n \in Elements(primes) : n \in 2 .. p - 1 /\ IsPrime(n)
  BY Round
<1>3. /\ i' = 1 /\ p' \in Int
      /\ (p' > 0 => p' \in 3 .. MaxInt /\ p' % 2 = 1 /\ p' = p + 2)
      /\ p <= Passed'
      /\ \A n \in Nat : IsPrime(n) /\ 2 < n /\ n <= Passed' => n <= Passed \/ n = p
  BY Candidate
<1>4. SieveTypes'
  <2>1. i' \in 1 .. Len(primes') + 1
    BY <1>1, <1>2, <1>3
  <2> QED BY <1>1, <1>3, <2>1 DEF SieveInv, SieveTypes
<1>5. Kept'
  <2>1. Ascending(primes)' /\ 2 \in Elements(primes)'
    BY <1>1 DEF SieveInv, Kept, Ascending
  <2>2. \A n \in Elements(primes)' : IsPrime(n)
    BY <1>1, <1>2
  <2>3. p' > 0 => \A n \in Elements(primes)' : n < p'
    BY <1>1, <1>2, <1>3
  <2> QED BY <2>1, <2>2, <2>3 DEF Kept, IsPrime
<1>6. NoneMissed'
  <2>1. ASSUME NEW n \in 3 .. Complete, IsPrime(n), n <= Passed'
        PROVE  n \in Elements(primes)
    <3>1. n \in Nat /\ 2 < n /\ n # p
      BY <2>1
    <3>2. n <= Passed
      BY <1>3, <2>1, <3>1
    <3> QED BY <2>1, <3>2 DEF SieveInv, NoneMissed
  <2> QED BY <1>1, <2>1 DEF NoneMissed, IsPrime
<1>7. Tested'
  BY <1>3 DEF Tested
<1>8. QueueRight'
  <2>1. ASSUME NEW n \in Elements(primes), 2 < n, startPrime <= n
        PROVE  n \in Elements(queued)
    <3>1. n <= Passed
      BY <1>2
    <3> QED BY <2>1, <3>1 DEF SieveInv, QueueRight
  <2> QED BY <1>1, <2>1 DEF SieveInv, QueueRight, Ascending
<1>9. CountRight'
  BY <1>1 DEF SieveInv, CountRight, Below
<1> QED BY <1>4, <1>5, <1>6, <1>7, <1>8, <1>9 DEF SieveInv

(***************************************************************************)
(* A prime found becomes a divisor.                                        *)
(***************************************************************************)
LEMMA KeepSieve ==
  ASSUME SieveInv, InLoop, IsFound, NextCandidate, primes' = Append(primes, p),
         UNCHANGED <<options, at>>
  PROVE  /\ p \in 3 .. MaxInt /\ Passed = p - 1 /\ p \notin Elements(primes)
         /\ Elements(primes)' = Elements(primes) \cup {p}
         /\ Len(primes') = Len(primes) + 1 /\ Len(primes) \in Nat
         /\ primes' \in Seq(Nat) /\ p' \in Int
         /\ p' > 0 => p' \in 3 .. MaxInt /\ p' % 2 = 1
         /\ i' \in 1 .. Len(primes') + 1
         /\ \A n \in Elements(primes) : n \in 2 .. p - 1
         /\ Kept' /\ NoneMissed' /\ Tested'
<1>1. /\ at' = at /\ Complete' = Complete /\ primes \in Seq(Nat)
  BY DEF SieveInv, SieveTypes, Complete, SquareRoots, MaxInt
<1>2. /\ p \in 3 .. MaxInt /\ Passed = p - 1 /\ Len(primes) \in Nat /\ MaxInt \in Nat
      /\ \A n \in Elements(primes) : n \in 2 .. p - 1 /\ IsPrime(n)
  BY Round
<1>3. /\ i' = 1 /\ p' \in Int
      /\ (p' > 0 => p' \in 3 .. MaxInt /\ p' % 2 = 1 /\ p' = p + 2)
      /\ \A n \in Nat : IsPrime(n) /\ 2 < n /\ n <= Passed' => n <= Passed \/ n = p
  BY Candidate
<1>4. p \in Nat /\ \A n \in Elements(primes) : n < p
  BY <1>2
<1>5. /\ primes' \in Seq(Nat) /\ Len(primes') = Len(primes) + 1
      /\ Elements(primes)' = Elements(primes) \cup {p}
      /\ Ascending(primes)'
  <2>1. Ascending(primes)
    BY DEF SieveInv, Kept
  <2>2. /\ primes' \in Seq(Nat) /\ Len(primes') = Len(primes) + 1
        /\ Elements(primes') = Elements(primes) \cup {p} /\ Ascending(primes')
    BY <1>1, <1>4, <2>1, Appended
  <2> QED BY <2>2 DEF Ascending, Elements
<1>6. IsPrime(p)
  BY FoundIsPrime
<1>7. Kept'
  <2>1. 2 \in Elements(primes)'
    BY <1>5 DEF SieveInv, Kept
  <2>2. \A n \in Elements(primes)' : IsPrime(n)
    BY <1>2, <1>5, <1>6
  <2>3. p' > 0 => \A n \in Elements(primes)' : n < p'
    BY <1>2, <1>3, <1>5
  <2> QED BY <1>5, <2>1, <2>2, <2>3 DEF Kept, IsPrime
<1>8. NoneMissed'
  <2>1. ASSUME NEW n \in 3 .. Complete, IsPrime(n), n <= Passed'
        PROVE  n \in Elements(primes)'
    <3>1. n \in Nat /\ 2 < n
      BY <2>1
    <3>2. n <= Passed \/ n = p
      BY <1>3, <2>1, <3>1
    <3> QED BY <1>5, <2>1, <3>2 DEF SieveInv, NoneMissed
  <2> QED BY <1>1, <2>1 DEF NoneMissed, IsPrime
<1>9. Tested'
  BY <1>3 DEF Tested
<1>10. p \notin Elements(primes)
  BY <1>2
<1>11. i' \in 1 .. Len(primes') + 1
  BY <1>2, <1>3, <1>5
<1> QED BY <1>2, <1>3, <1>5, <1>7, <1>8, <1>9, <1>10, <1>11

LEMMA IgnoreSieve == ASSUME SieveInv, Ignore PROVE SieveInv'
<1>1. /\ InLoop /\ IsFound /\ p < startPrime /\ NextCandidate
      /\ primes' = Append(primes, p) /\ ignoredPrimes' = Len(primes')
      /\ UNCHANGED <<options, at>> /\ startPrime' = startPrime /\ stopPrime' = stopPrime
      /\ queued' = queued /\ at' = at /\ at = "sieve"
  BY DEF Ignore, InLoop, options
<1>2. /\ p \in 3 .. MaxInt /\ Passed = p - 1
      /\ Elements(primes)' = Elements(primes) \cup {p}
      /\ Len(primes') = Len(primes) + 1 /\ Len(primes) \in Nat
      /\ primes' \in Seq(Nat) /\ p' \in Int
      /\ p' > 0 => p' \in 3 .. MaxInt /\ p' % 2 = 1
      /\ i' \in 1 .. Len(primes') + 1
      /\ \A n \in Elements(primes) : n \in 2 .. p - 1
      /\ Kept' /\ NoneMissed' /\ Tested'
  BY <1>1, KeepSieve
<1>3. startPrime \in Nat /\ Elements(queued)' = Elements(queued) /\ QueueRight
  BY <1>1 DEF SieveInv, SieveTypes, Elements
<1>4. SieveTypes'
  <2>1. MaxInt' = MaxInt /\ ignoredPrimes' \in Nat
    BY <1>1, <1>2 DEF MaxInt
  <2> QED BY <1>1, <1>2, <2>1 DEF SieveInv, SieveTypes
<1>5. Elements(queued) = {}
  BY <1>1, <1>2, <1>3 DEF QueueRight
<1>6. QueueRight'
  BY <1>1, <1>2, <1>3, <1>5 DEF QueueRight, Ascending
<1>7. CountRight'
  <2>1. queued \in Seq(Nat) /\ Len(queued) = 0
    <3>1. queued \in Seq(Nat) /\ DOMAIN queued = 1 .. Len(queued) /\ Len(queued) \in Nat
      BY DEF SieveInv, SieveTypes
    <3>2. DOMAIN queued = {}
      BY <1>5 DEF Elements
    <3> QED BY <3>1, <3>2
  <2>2. p \in Below'
    BY <1>1, <1>2 DEF Below
  <2> QED BY <1>1, <1>2, <2>1, <2>2 DEF CountRight
<1> QED BY <1>2, <1>4, <1>6, <1>7 DEF SieveInv

LEMMA PutSieve == ASSUME SieveInv, PutPrime PROVE SieveInv'
<1>1. /\ InLoop /\ IsFound /\ p >= startPrime /\ NextCandidate /\ p <= stopPrime
      /\ primes' = Append(primes, p) /\ queued' = Append(queued, p)
      /\ UNCHANGED <<options, at>> /\ startPrime' = startPrime /\ stopPrime' = stopPrime
      /\ ignoredPrimes' = ignoredPrimes /\ at' = at /\ at = "sieve"
  BY DEF PutPrime, InLoop, options
<1>2. /\ p \in 3 .. MaxInt /\ Passed = p - 1
      /\ Elements(primes)' = Elements(primes) \cup {p}
      /\ Len(primes') = Len(primes) + 1 /\ Len(primes) \in Nat
      /\ primes' \in Seq(Nat) /\ p' \in Int
      /\ p' > 0 => p' \in 3 .. MaxInt /\ p' % 2 = 1
      /\ i' \in 1 .. Len(primes') + 1
      /\ \A n \in Elements(primes) : n \in 2 .. p - 1
      /\ Kept' /\ NoneMissed' /\ Tested'
  BY <1>1, KeepSieve
<1>3. /\ startPrime \in Nat /\ stopPrime \in 0 .. MaxInt /\ QueueRight /\ queued \in Seq(Nat)
      /\ ignoredPrimes \in Nat
  BY DEF SieveInv, SieveTypes
<1>4. /\ queued' \in Seq(Nat) /\ Len(queued') = Len(queued) + 1 /\ Len(queued) \in Nat
      /\ Elements(queued)' = Elements(queued) \cup {p} /\ Ascending(queued)'
  <2>1. p \in Nat /\ \A n \in Elements(queued) : n < p
    BY <1>2, <1>3 DEF QueueRight
  <2>2. Ascending(queued)
    BY <1>3 DEF QueueRight
  <2>3. /\ queued' \in Seq(Nat) /\ Len(queued') = Len(queued) + 1 /\ Len(queued) \in Nat
        /\ Elements(queued') = Elements(queued) \cup {p} /\ Ascending(queued')
    BY <1>1, <1>3, <2>1, <2>2, Appended
  <2> QED BY <2>3 DEF Ascending, Elements
<1>5. SieveTypes'
  <2>1. MaxInt' = MaxInt
    BY DEF MaxInt
  <2> QED BY <1>1, <1>2, <1>3, <1>4, <2>1 DEF SieveInv, SieveTypes
<1>6. QueueRight'
  <2>1. ASSUME NEW n \in Elements(primes), 2 < n, startPrime <= n
        PROVE  n \in Elements(queued)
    <3>1. n <= Passed
      BY <1>2
    <3> QED BY <1>3, <2>1, <3>1 DEF QueueRight
  <2> QED BY <1>1, <1>2, <1>3, <1>4, <2>1 DEF QueueRight
<1>7. CountRight'
  <2>1. Below' = Below
    BY <1>1, <1>2, <1>3 DEF Below
  <2>2. Len(primes) - ignoredPrimes = Len(queued) + (IF Below = {} THEN 1 ELSE 0)
    BY <1>1 DEF SieveInv, CountRight
  <2>3. Len(primes') - ignoredPrimes' = Len(queued') + (IF Below = {} THEN 1 ELSE 0)
    <3>1. \A l, m, g, c \in Int : l - g = m + c => (l + 1) - g = (m + 1) + c
      OBVIOUS
    <3>2. Len(primes) \in Int /\ Len(queued) \in Int /\ ignoredPrimes \in Int
          /\ (IF Below = {} THEN 1 ELSE 0) \in Int
      BY <1>2, <1>3, <1>4
    <3>3. /\ Len(primes') = Len(primes) + 1 /\ Len(queued') = Len(queued) + 1
          /\ ignoredPrimes' = ignoredPrimes
      BY <1>1, <1>2, <1>4
    <3> QED BY <2>2, <3>1, <3>2, <3>3
  <2> QED BY <1>1, <2>1, <2>3 DEF CountRight
<1> QED BY <1>2, <1>5, <1>6, <1>7 DEF SieveInv

LEMMA PutInterruptedSieve == ASSUME SieveInv, PutPrimeInterrupted PROVE SieveInv'
<1>1. /\ InLoop /\ IsFound /\ p >= startPrime /\ primes' = Append(primes, p)
      /\ at' = "interrupted" /\ startPrime' = startPrime /\ stopPrime' = stopPrime
      /\ p' = p /\ i' = i /\ ignoredPrimes' = ignoredPrimes /\ queued' = queued
      /\ Complete' = Complete
  BY DEF PutPrimeInterrupted, options, Complete, SquareRoots, MaxInt
<1>2. /\ p \in 3 .. MaxInt /\ Passed = p - 1 /\ Len(primes) \in Nat
      /\ i \in 1 .. Len(primes) + 1
      /\ \A n \in Elements(primes) : n \in 2 .. p - 1 /\ IsPrime(n)
      /\ primes \in Seq(Nat) /\ Passed' = Passed
  BY <1>1, Round DEF SieveInv, SieveTypes, Passed, MaxInt
<1>3. /\ primes' \in Seq(Nat) /\ Len(primes') = Len(primes) + 1
      /\ Elements(primes)' = Elements(primes) \cup {p} /\ Ascending(primes)'
  <2>1. p \in Nat /\ Ascending(primes) /\ \A n \in Elements(primes) : n < p
    BY <1>2 DEF SieveInv, Kept
  <2>2. /\ primes' \in Seq(Nat) /\ Len(primes') = Len(primes) + 1
        /\ Elements(primes') = Elements(primes) \cup {p} /\ Ascending(primes')
    BY <1>1, <1>2, <2>1, Appended
  <2> QED BY <2>2 DEF Ascending, Elements
<1>4. SieveTypes'
  BY <1>1, <1>2, <1>3 DEF SieveInv, SieveTypes, MaxInt
<1>5. IsPrime(p)
  BY <1>1, FoundIsPrime
<1>6. Kept'
  BY <1>1, <1>2, <1>3, <1>5 DEF SieveInv, Kept, IsPrime
<1>7. NoneMissed'
  BY <1>1, <1>2, <1>3 DEF SieveInv, NoneMissed, IsPrime
<1>8. Tested' /\ CountRight'
  BY <1>1 DEF Tested, CountRight
<1>9. QueueRight'
  <2>1. Elements(queued)' = Elements(queued)
    BY <1>1 DEF Elements
  <2> QED BY <1>1, <1>2, <1>3, <2>1 DEF SieveInv, QueueRight, Ascending
<1> QED BY <1>4, <1>6, <1>7, <1>8, <1>9 DEF SieveInv

LEMMA NextDivisorSieve == ASSUME SieveInv, NextDivisor PROVE SieveInv'
<1>1. /\ InLoop /\ i <= Len(primes) /\ ~IsDivided /\ ~IsFound /\ i' = i + 1
      /\ UNCHANGED <<startPrime, stopPrime, p, primes, ignoredPrimes, queued, at, reported>>
  BY DEF NextDivisor, options
<1>2. i \in 1 .. Len(primes) /\ Len(primes) \in Nat /\ p % primes[i] # 0
      /\ ~(Wrap(primes[i] * primes[i]) > p)
  BY <1>1, Round DEF IsDivided, IsFound, Divisor
<1>3. SieveTypes'
  BY <1>1, <1>2 DEF SieveInv, SieveTypes, MaxInt
<1>4. Tested'
  <2>1. ASSUME NEW k \in 1 .. i
        PROVE  p % primes[k] # 0 /\ ~(Wrap(primes[k] * primes[k]) > p)
    BY <1>1, <1>2 DEF SieveInv, Tested, InLoop
  <2> QED BY <1>1, <1>2, <2>1 DEF Tested, Wrap
<1>5. Kept' /\ NoneMissed'
  BY <1>1 DEF SieveInv, Kept, NoneMissed, Ascending, Elements, IsPrime, Complete,
              SquareRoots, MaxInt, Passed
<1>6. QueueRight'
  BY <1>1 DEF SieveInv, QueueRight, Ascending, Elements, MaxInt, Passed
<1>7. CountRight'
  <2>1. Below' = Below
    BY <1>1 DEF Below, Elements
  <2> QED BY <1>1, <2>1 DEF SieveInv, CountRight
<1> QED BY <1>3, <1>4, <1>5, <1>6, <1>7 DEF SieveInv

LEMMA ReportSieve == ASSUME SieveInv, ReportCount PROVE SieveInv'
<1>1. /\ at = "sieve" /\ at' = "over" /\ reported' = Len(primes) - ignoredPrimes
      /\ UNCHANGED <<startPrime, stopPrime, p, i, primes, ignoredPrimes, queued>>
  BY DEF ReportCount, options
<1>2. SieveTypes' /\ Tested'
  BY <1>1 DEF SieveInv, SieveTypes, Tested, MaxInt
<1>3. Kept' /\ NoneMissed'
  BY <1>1 DEF SieveInv, Kept, NoneMissed, Ascending, Elements, IsPrime, Complete,
              SquareRoots, MaxInt, Passed
<1>4. QueueRight'
  BY <1>1 DEF SieveInv, QueueRight, Ascending, Elements, MaxInt, Passed
<1>5. CountRight'
  BY <1>1 DEF SieveInv, CountRight, Below, Elements
<1> QED BY <1>2, <1>3, <1>4, <1>5 DEF SieveInv

LEMMA NextSieve == SieveInv /\ [SieveNext]_(sieveVars) => SieveInv'
<1> SUFFICES ASSUME SieveInv, [SieveNext]_(sieveVars) PROVE SieveInv'
  OBVIOUS
<1>1. CASE Divided \/ Exhausted
  <2>1. /\ InLoop /\ NextCandidate
        /\ UNCHANGED <<options, primes, ignoredPrimes, queued, at, reported>>
    BY <1>1 DEF Divided, Exhausted
  <2>2. ~(IsPrime(p) /\ p <= Complete)
    BY <1>1, DividedIsNoPrime, ExhaustedIsNotOwed DEF Divided, Exhausted
  <2>3. p \notin Elements(primes)
    BY <2>1, Round
  <2> QED BY <2>1, <2>2, <2>3, PassOverSieve
<1>2. CASE NextDivisor
  BY <1>2, NextDivisorSieve
<1>3. CASE Ignore
  BY <1>3, IgnoreSieve
<1>4. CASE PutPrime
  BY <1>4, PutSieve
<1>5. CASE PutPrimeInterrupted
  BY <1>5, PutInterruptedSieve
<1>6. CASE ReportCount
  BY <1>6, ReportSieve
<1>7. CASE UNCHANGED sieveVars
  <2>1. UNCHANGED
            <<startPrime, stopPrime, p, i, primes, ignoredPrimes, queued, at, reported>>
    BY <1>7 DEF sieveVars, options
  <2>2. SieveTypes' /\ CountRight'
    BY <2>1 DEF SieveInv, SieveTypes, CountRight, Below, Elements, MaxInt
  <2>3. Kept' /\ QueueRight'
    BY <2>1 DEF SieveInv, Kept, QueueRight, Ascending, Elements, IsPrime, Passed, MaxInt
  <2>4. NoneMissed'
    BY <2>1 DEF SieveInv, NoneMissed, Complete, SquareRoots, IsPrime, Elements,
                  Passed, MaxInt
  <2>5. Tested'
    BY <2>1 DEF SieveInv, Tested, Wrap
  <2> QED BY <2>2, <2>3, <2>4, <2>5 DEF SieveInv
<1> QED BY <1>1, <1>2, <1>3, <1>4, <1>5, <1>6, <1>7 DEF SieveNext

(***************************************************************************)
(* The inductive invariant.                                                *)
(***************************************************************************)
THEOREM SieveInvariance == SieveSpec => []SieveInv
BY InitSieve, NextSieve, PTL DEF SieveSpec

LEMMA SieveInvExact == SieveInv => SieveExact
<1> SUFFICES ASSUME SieveInv PROVE SieveExact
  OBVIOUS
<1>1. \A n \in Elements(queued) : IsPrime(n) /\ startPrime <= n /\ n <= stopPrime
  BY DEF SieveInv, Kept, QueueRight
<1>2. \A n \in 1 .. Len(queued) - 1 : queued[n] < queued[n + 1]
  <2>1. queued \in Seq(Nat) /\ Len(queued) \in Nat /\ DOMAIN queued = 1 .. Len(queued)
    BY DEF SieveInv, SieveTypes
  <2>2. \A n \in 1 .. Len(queued) - 1 : n \in DOMAIN queued /\ n + 1 \in DOMAIN queued /\ n < n + 1
    BY <2>1
  <2> QED BY <2>2 DEF SieveInv, QueueRight, Ascending
<1>3. Due \subseteq Elements(queued)
  BY DEF SieveInv, Due, NoneMissed, QueueRight
<1> QED BY <1>1, <1>2, <1>3 DEF SieveExact

(***************************************************************************)
(* Whatever wraps, only primes of the range are queued, each once and in   *)
(* order, and none is missed up to the square of the largest root.         *)
(***************************************************************************)
THEOREM SieveAlwaysExact == SieveSpec => []SieveExact
BY SieveInvariance, SieveInvExact, PTL

-------------------------------------------------------------------------------
(***************************************************************************)
(* "processed %d primes" (l.121) counts 2, which is never queued: the      *)
(* number printed is one too high, and right only when an odd prime below  *)
(* --start was found, which resets the count.                              *)
(***************************************************************************)
NumberPrinted ==
  at = "over" => reported = IF Below = {} THEN Len(queued) + 1 ELSE Len(queued)

THEOREM CountsTwo == SieveSpec => []NumberPrinted
<1>1. SieveInv => NumberPrinted
  <2> SUFFICES ASSUME SieveInv, at = "over"
               PROVE  reported = IF Below = {} THEN Len(queued) + 1 ELSE Len(queued)
    BY DEF NumberPrinted
  <2>1. Len(queued) \in Nat
    BY DEF SieveInv, SieveTypes
  <2>2. reported = Len(queued) + (IF Below = {} THEN 1 ELSE 0)
    BY DEF SieveInv, CountRight
  <2> QED BY <2>1, <2>2
<1> QED BY <1>1, SieveInvariance, PTL

(***************************************************************************)
(* The largest int is never queued, as no int exceeds it and so no divisor *)
(* ever decides (l.97).  2^31 - 1 is a prime and the default of --stop, the*)
(* "upper bound of primes factor to test" (l.31-34): it is not tested.     *)
(***************************************************************************)
LargestNotQueued == \A n \in Elements(queued) : n < MaxInt

LEMMA FoundIsBelow ==
  ASSUME SieveInv, InLoop, IsFound
  PROVE  p < MaxInt
<1>1. i \in 1 .. Len(primes) /\ primes[i] \in Nat /\ Wrap(primes[i] * primes[i]) > p
  BY Round DEF IsFound, Divisor
<1>2. primes[i] * primes[i] \in Int
  BY <1>1
<1>3. Wrap(primes[i] * primes[i]) <= MaxInt /\ Wrap(primes[i] * primes[i]) \in Int
  BY <1>2, Ints
<1> QED BY <1>1, <1>3, Round

THEOREM LargestNeverQueued == SieveSpec => []LargestNotQueued
<1>1. SieveInit => LargestNotQueued
  BY DEF SieveInit, LargestNotQueued, Elements
<1>2. SieveInv /\ LargestNotQueued /\ [SieveNext]_sieveVars => LargestNotQueued'
  <2> SUFFICES ASSUME SieveInv, LargestNotQueued, [SieveNext]_sieveVars
               PROVE  LargestNotQueued'
    OBVIOUS
  <2>1. MaxInt' = MaxInt
    BY DEF MaxInt
  <2>2. CASE PutPrime
    <3>1. queued \in Seq(Nat) /\ p \in Nat /\ queued' = Append(queued, p) /\ p < MaxInt
      BY <2>2, FoundIsBelow, Round DEF SieveInv, SieveTypes, PutPrime
    <3>2. Elements(queued') = Elements(queued) \cup {p}
      BY <3>1, Appended
    <3> QED BY <2>1, <3>1, <3>2 DEF LargestNotQueued, Elements
  <2>3. CASE queued' = queued
    BY <2>1, <2>3 DEF LargestNotQueued, Elements
  <2> QED
    BY <2>2, <2>3 DEF SieveNext, Divided, NextDivisor, Exhausted, Ignore, PutPrimeInterrupted,
                      ReportCount, sieveVars
<1> QED BY <1>1, <1>2, SieveInvariance, PTL DEF SieveSpec
=============================================================================
