------------------------------- MODULE FindPrime -------------------------------
(***************************************************************************)
(* FindPrime.java: the main thread puts prime factors into a bounded       *)
(* queue, workers take them, search a shorter table with each and publish  *)
(* it by compare-and-set; a shutdown hook runs when the JVM is told to     *)
(* stop.                                                                   *)
(*                                                                         *)
(* The primes from --start to --stop are the numbers 1 .. N, in the order  *)
(* in which the main thread finds them.  A table is its size.  The search  *)
(* for a factor returns a table of the size Size[p] if that is less than   *)
(* the size of the reference, and null otherwise: the sizes that the       *)
(* heuristics reach at the bucket sizes do not depend on the reference,    *)
(* which only cuts off what is not shorter (TableSearch).                  *)
(***************************************************************************)
EXTENDS Integers, Sequences, FiniteSets

CONSTANTS Workers,      \* the worker threads
          N,            \* the number of primes to test
          Size,         \* the size of the shortest table of each of them
          Raising,      \* the primes whose search raises an exception
          QueueFactor,  \* 4: queue places per thread
          ShortSize,    \* the size of SHORT_TABLE
          KnownSizes,   \* the sizes a table of --prime may have
          None          \* null, and no prime

Primes == 1 .. N

ASSUME ConfigAssumption ==
  /\ N \in Nat /\ Size \in [Primes -> Nat] /\ Raising \subseteq Primes
  /\ Workers # {} /\ IsFiniteSet(Workers) /\ QueueFactor \in Nat \ {0}
  /\ ShortSize \in Nat /\ KnownSizes \subseteq Nat
  /\ None \notin Nat

Capacity == QueueFactor * Cardinality(Workers)

VARIABLES
  best,         \* bestTable
  known,        \* the size of the table first computed for --prime, or None
  queue,        \* primeQueue
  main,         \* where the main thread is
  next,         \* the next prime it finds
  interrupted,  \* its interrupt flag
  hook,         \* the shutdown hook: "added", "removed", or where it is
  jvm,          \* "up", "stopping": the shutdown has begun, "halted"
  worker,       \* where each worker is
  held,         \* the prime it has taken (p)
  current,      \* currrentBestTable
  flagged,      \* its interrupt flag
  processed     \* the primes whose processing is over (an observation)

mainVars == <<main, next, interrupted>>
workerVars == <<worker, held, current, flagged, processed>>
vars == <<best, known, queue, mainVars, hook, jvm, workerVars>>

MainStates == {"find", "put", "removeHook", "await", "report", "exit", "stuck", "ended"}
HookStates == {"added", "removed", "interrupt", "join", "await", "done"}
WorkerStates == {"loop", "take", "read", "search", "cas", "reread", "ended", "dead"}

(***************************************************************************)
(* l.62-70.  Without --prime the search starts from SHORT_TABLE.  With it, *)
(* a table of that factor is computed (t, or null), and searched on for a  *)
(* shorter one (u, or null) unless --fast is given; SHORT_TABLE stands in  *)
(* when the result is null.                                                *)
(***************************************************************************)
OrShort(t) == IF t = None THEN ShortSize ELSE t
InitialTable(t, u, fast) == OrShort(IF t # None /\ ~fast THEN u ELSE t)

(***************************************************************************)
(* l.90: the workers are started and the hook is added.                    *)
(***************************************************************************)
Init ==
  /\ \E t, u \in KnownSizes \cup {None}, fast \in BOOLEAN :
       /\ u # None => t # None /\ u < t
       /\ known = t
       /\ best = InitialTable(t, u, fast)
  /\ queue = <<>>
  /\ main = "find" /\ next = 1 /\ interrupted = FALSE
  /\ hook = "added" /\ jvm = "up"
  /\ worker = [w \in Workers |-> "loop"]
  /\ held = [w \in Workers |-> None]
  /\ current = [w \in Workers |-> None]
  /\ flagged = [w \in Workers |-> FALSE]
  /\ processed = {}

-------------------------------------------------------------------------------
(***************************************************************************)
(* The main thread: call.                                                  *)
(***************************************************************************)

(***************************************************************************)
(* The loop of l.92, up to the next prime or to its end.                   *)
(***************************************************************************)
Find ==
  /\ main = "find"
  /\ main' = IF next \in Primes THEN "put" ELSE "removeHook"
  /\ UNCHANGED <<best, known, queue, next, interrupted, hook, jvm, workerVars>>

(***************************************************************************)
(* The list of all primes (l.98) outgrows the heap: an Error, which ends   *)
(* the main thread, as nothing up to main catches it.                      *)
(***************************************************************************)
OutOfMemory ==
  /\ main = "find"
  /\ main' = "ended"
  /\ UNCHANGED <<best, known, queue, next, interrupted, hook, jvm, workerVars>>

\* seeded fault: a queue without a capacity
PutUnbounded ==
  /\ main = "put" /\ ~interrupted
  /\ queue' = Append(queue, next)
  /\ next' = next + 1
  /\ main' = "find"
  /\ UNCHANGED <<best, known, interrupted, hook, jvm, workerVars>>

Put ==
  /\ main = "put" /\ ~interrupted
  /\ Len(queue) < Capacity
  /\ queue' = Append(queue, next)
  /\ next' = next + 1
  /\ main' = "find"
  /\ UNCHANGED <<best, known, interrupted, hook, jvm, workerVars>>

(***************************************************************************)
(* put raises InterruptedException, whether or not there is room: call     *)
(* returns the prime (l.104).                                              *)
(***************************************************************************)
PutInterrupted ==
  /\ main = "put" /\ interrupted
  /\ interrupted' = FALSE
  /\ main' = "exit"
  /\ UNCHANGED <<best, known, queue, next, hook, jvm, workerVars>>

(***************************************************************************)
(* l.118.  Once the shutdown has begun it raises IllegalStateException,    *)
(* and call ends with that.                                                *)
(***************************************************************************)
RemoveHook ==
  /\ main = "removeHook"
  /\ IF jvm = "up" THEN hook' = "removed" /\ main' = "await"
                   ELSE main' = "exit" /\ UNCHANGED hook
  /\ UNCHANGED <<best, known, queue, next, interrupted, jvm, workerVars>>

(***************************************************************************)
(* awaitTermination: wait until the queue is empty, then shutdownNow,      *)
(* which interrupts the workers.                                           *)
(***************************************************************************)
ShutdownNow == /\ queue = <<>>
               /\ flagged' = [w \in Workers |-> worker[w] \notin {"ended", "dead"}]

Await ==
  /\ main = "await"
  /\ ShutdownNow
  /\ main' = "report"
  /\ UNCHANGED <<best, known, queue, next, interrupted, hook, jvm, worker, held, current, processed>>

(***************************************************************************)
(* "processed %d primes", and call returns 0.                              *)
(***************************************************************************)
Report ==
  /\ main = "report"
  /\ main' = "exit"
  /\ UNCHANGED <<best, known, queue, next, interrupted, hook, jvm, workerVars>>

(***************************************************************************)
(* System.exit of l.189.  While the JVM is up, it halts it: the hook has   *)
(* been removed.  While a shutdown is under way it blocks for ever, as the *)
(* shutdown holds the lock that exit needs.                                *)
(***************************************************************************)
Exit ==
  /\ main = "exit"
  /\ IF jvm = "up" THEN jvm' = "halted" /\ UNCHANGED main
                   ELSE main' = "stuck" /\ UNCHANGED jvm
  /\ UNCHANGED <<best, known, queue, next, interrupted, hook, workerVars>>

Main == Find \/ Put \/ PutInterrupted \/ RemoveHook \/ Await \/ Report \/ Exit

-------------------------------------------------------------------------------
(***************************************************************************)
(* The signal that stops the program, at any time, and the hook: stop.     *)
(***************************************************************************)
Signal ==
  /\ jvm = "up"
  /\ IF hook = "added" THEN hook' = "interrupt" /\ jvm' = "stopping"
                       ELSE jvm' = "halted" /\ UNCHANGED hook
  /\ UNCHANGED <<best, known, queue, mainVars, workerVars>>

HookInterrupt ==
  /\ hook = "interrupt"
  /\ interrupted' = TRUE
  /\ hook' = "join"
  /\ UNCHANGED <<best, known, queue, main, next, jvm, workerVars>>

(***************************************************************************)
(* mainThread.join() returns when the main thread has ended; one that is   *)
(* stuck in System.exit has not.                                           *)
(***************************************************************************)
HookJoin ==
  /\ hook = "join" /\ main = "ended"
  /\ hook' = "await"
  /\ UNCHANGED <<best, known, queue, mainVars, jvm, workerVars>>

(***************************************************************************)
(* awaitTermination again.  The hook was the last one: the JVM halts.      *)
(***************************************************************************)
HookAwait ==
  /\ hook = "await"
  /\ ShutdownNow
  /\ hook' = "done" /\ jvm' = "halted"
  /\ UNCHANGED <<best, known, queue, mainVars, worker, held, current, processed>>

Hook == HookInterrupt \/ HookJoin \/ HookAwait

-------------------------------------------------------------------------------
(***************************************************************************)
(* A worker.  The head of its loop ends it when it is interrupted.         *)
(***************************************************************************)
Loop(w) ==
  /\ worker[w] = "loop"
  /\ worker' = [worker EXCEPT ![w] = IF flagged[w] THEN "ended" ELSE "take"]
  /\ flagged' = [flagged EXCEPT ![w] = FALSE]
  /\ UNCHANGED <<best, known, queue, mainVars, hook, jvm, held, current, processed>>

\* seeded fault: the last prime is left in the queue
TakeLeavingLast(w) ==
  /\ worker[w] = "take" /\ ~flagged[w]
  /\ Len(queue) > 1
  /\ held' = [held EXCEPT ![w] = Head(queue)]
  /\ queue' = Tail(queue)
  /\ worker' = [worker EXCEPT ![w] = "read"]
  /\ UNCHANGED <<best, known, mainVars, hook, jvm, current, flagged, processed>>

\* seeded fault: peek instead of take
Peek(w) ==
  /\ worker[w] = "take" /\ ~flagged[w]
  /\ queue # <<>>
  /\ held' = [held EXCEPT ![w] = Head(queue)]
  /\ queue' = queue
  /\ worker' = [worker EXCEPT ![w] = "read"]
  /\ UNCHANGED <<best, known, mainVars, hook, jvm, current, flagged, processed>>

(***************************************************************************)
(* take: it raises InterruptedException when the worker is interrupted,    *)
(* before it looks at the queue.                                           *)
(***************************************************************************)
Take(w) ==
  /\ worker[w] = "take" /\ ~flagged[w]
  /\ queue # <<>>
  /\ held' = [held EXCEPT ![w] = Head(queue)]
  /\ queue' = Tail(queue)
  /\ worker' = [worker EXCEPT ![w] = "read"]
  /\ UNCHANGED <<best, known, mainVars, hook, jvm, current, flagged, processed>>

TakeInterrupted(w) ==
  /\ worker[w] = "take" /\ flagged[w]
  /\ worker' = [worker EXCEPT ![w] = "ended"]
  /\ flagged' = [flagged EXCEPT ![w] = FALSE]
  /\ UNCHANGED <<best, known, queue, mainVars, hook, jvm, held, current, processed>>

Read(w) ==
  /\ worker[w] = "read"
  /\ current' = [current EXCEPT ![w] = best]
  /\ worker' = [worker EXCEPT ![w] = "search"]
  /\ UNCHANGED <<best, known, queue, mainVars, hook, jvm, held, flagged, processed>>

\* seeded fault: the loop of the worker is left
FinishForGood(w) ==
  /\ worker' = [worker EXCEPT ![w] = "ended"]
  /\ held' = [held EXCEPT ![w] = None]
  /\ current' = [current EXCEPT ![w] = None]
  /\ processed' = processed \cup {held[w]}

(***************************************************************************)
(* The iteration ends: back to the head of the loop.                       *)
(***************************************************************************)
Finish(w) ==
  /\ worker' = [worker EXCEPT ![w] = "loop"]
  /\ held' = [held EXCEPT ![w] = None]
  /\ current' = [current EXCEPT ![w] = None]
  /\ processed' = processed \cup {held[w]}

(***************************************************************************)
(* shorterHashTable: a new table, null, or an exception that ends the      *)
(* worker (the executor does not replace it).                              *)
(***************************************************************************)
Search(w) ==
  /\ worker[w] = "search" /\ held[w] \notin Raising
  /\ IF Size[held[w]] < current[w]
       THEN worker' = [worker EXCEPT ![w] = "cas"] /\ UNCHANGED <<held, current, processed>>
       ELSE Finish(w)
  /\ UNCHANGED <<best, known, queue, mainVars, hook, jvm, flagged>>

SearchRaises(w) ==
  /\ worker[w] = "search" /\ held[w] \in Raising
  /\ worker' = [worker EXCEPT ![w] = "dead"]
  /\ held' = [held EXCEPT ![w] = None]
  /\ current' = [current EXCEPT ![w] = None]
  /\ UNCHANGED <<best, known, queue, mainVars, hook, jvm, flagged, processed>>

\* seeded fault: set instead of compareAndSet
SetBest(w) ==
  /\ worker[w] = "cas"
  /\ IF TRUE
       THEN best' = Size[held[w]] /\ Finish(w)
       ELSE /\ worker' = [worker EXCEPT ![w] = "reread"]
            /\ UNCHANGED <<best, held, current, processed>>
  /\ UNCHANGED <<known, queue, mainVars, hook, jvm, flagged>>

(***************************************************************************)
(* compareAndSet.  The sizes stand for the tables: bestTable only gets     *)
(* shorter (AbstractSpec), so no two tables it ever holds have one size.   *)
(***************************************************************************)
Cas(w) ==
  /\ worker[w] = "cas"
  /\ IF best = current[w]
       THEN best' = Size[held[w]] /\ Finish(w)
       ELSE /\ worker' = [worker EXCEPT ![w] = "reread"]
            /\ UNCHANGED <<best, held, current, processed>>
  /\ UNCHANGED <<known, queue, mainVars, hook, jvm, flagged>>

\* seeded fault: no retry after a failed compareAndSet
GiveUpReread(w) ==
  /\ worker[w] = "reread"
  /\ IF FALSE
       THEN /\ current' = [current EXCEPT ![w] = best]
            /\ worker' = [worker EXCEPT ![w] = "cas"]
            /\ UNCHANGED <<held, processed>>
       ELSE Finish(w)
  /\ UNCHANGED <<best, known, queue, mainVars, hook, jvm, flagged>>

(***************************************************************************)
(* l.165, and the condition of the loop on what was read.                  *)
(***************************************************************************)
Reread(w) ==
  /\ worker[w] = "reread"
  /\ IF Size[held[w]] < best
       THEN /\ current' = [current EXCEPT ![w] = best]
            /\ worker' = [worker EXCEPT ![w] = "cas"]
            /\ UNCHANGED <<held, processed>>
       ELSE Finish(w)
  /\ UNCHANGED <<best, known, queue, mainVars, hook, jvm, flagged>>

Worker(w) == \/ Loop(w) \/ Take(w) \/ TakeInterrupted(w) \/ Read(w)
             \/ Search(w) \/ SearchRaises(w) \/ Cas(w) \/ Reread(w)

-------------------------------------------------------------------------------
(***************************************************************************)
(* Nothing happens in a JVM that has halted.                               *)
(***************************************************************************)
Next ==
  /\ jvm # "halted"
  /\ \/ Main \/ OutOfMemory
     \/ Signal \/ Hook
     \/ \E w \in Workers : Worker(w)

Spec == Init /\ [][Next]_vars

(***************************************************************************)
(* Every thread is scheduled.  Signals and a full heap are not owed.       *)
(***************************************************************************)
Up == jvm # "halted"
Fairness ==
  /\ WF_vars(Up /\ Main)
  /\ WF_vars(Up /\ Hook)
  /\ \A w \in Workers : WF_vars(Up /\ Worker(w))
FairSpec == Spec /\ Fairness

-------------------------------------------------------------------------------
(***************************************************************************)
(* The search as its caller would have it: see ShortestTable.              *)
(***************************************************************************)
Abstract == INSTANCE ShortestTable WITH done <- processed
AbstractSpec == Abstract!Spec

TypeOK ==
  /\ best \in Nat /\ known \in KnownSizes \cup {None}
  /\ queue \in Seq(Primes) /\ Len(queue) <= Capacity
  /\ main \in MainStates /\ next \in 1 .. N + 1 /\ interrupted \in BOOLEAN
  /\ hook \in HookStates /\ jvm \in {"up", "stopping", "halted"}
  /\ worker \in [Workers -> WorkerStates]
  /\ held \in [Workers -> Primes \cup {None}]
  /\ current \in [Workers -> Nat \cup {None}]
  /\ flagged \in [Workers -> BOOLEAN]
  /\ processed \subseteq Primes

(***************************************************************************)
(* No improvement is lost: once the processing of a prime is over, the     *)
(* best table is no longer than the one found for it, whichever other      *)
(* workers have published theirs in between.                               *)
(***************************************************************************)
NoLostImprovement == \A p \in processed : best <= Size[p]

(***************************************************************************)
(* No prime is lost or taken twice: those found so far are in the queue,   *)
(* in ascending order, or held by one worker each, or processed, or were   *)
(* given up by a worker that died of them.                                 *)
(***************************************************************************)
Queued == {queue[i] : i \in DOMAIN queue}
Held == {held[w] : w \in Workers} \ {None}
PrimesAccounted ==
  /\ \A i, j \in DOMAIN queue : i < j => queue[i] < queue[j]
  /\ \A p \in Held \cup processed : \A q \in Queued : p < q
  /\ Held \cap processed = {}
  /\ \A v, w \in Workers : held[v] = held[w] /\ held[v] # None => v = w
  /\ (1 .. next - 1) \ Raising \subseteq Queued \cup Held \cup processed
  /\ Queued \cup Held \cup processed \subseteq 1 .. next - 1

(***************************************************************************)
(* Without a signal and with a heap large enough the program comes to its  *)
(* end, as long as one worker survives.                                    *)
(***************************************************************************)
Ends == [](jvm # "stopping" /\ main # "ended") => <>(jvm = "halted")

(***************************************************************************)
(* A prime that is in the queue is taken, unless every worker has died or  *)
(* the JVM halts.  Also once a stop is requested.                          *)
(***************************************************************************)
Drains == \A p \in Primes :
  p \in Queued ~> p \notin Queued \/ jvm = "halted" \/ \A w \in Workers : worker[w] = "dead"

(***************************************************************************)
(* "processed %d primes" (FindPrime.java:121) is said of all the primes    *)
(* that were queued.                                                       *)
(***************************************************************************)
ReportsProcessed == main = "report" => (1 .. next - 1) \ Raising \subseteq processed

(***************************************************************************)
(* "wait for primes that are currently processed" (FindPrime.java:134):    *)
(* the hook gets to that wait, so that a stop that is requested is carried *)
(* out.                                                                    *)
(***************************************************************************)
StopCarriedOut == hook = "join" ~> hook = "await"

(***************************************************************************)
(* "the best prime factor currently known" (FindPrime.java:22): the search *)
(* starts from a table no longer than the one of the factor that is given. *)
(***************************************************************************)
StartsFromKnown == known # None => best <= known
=============================================================================
