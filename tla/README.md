# A verification project for SKPokerEval

SKPokerEval ranks poker hands of five and seven cards with a few additions and three array accesses. All the
difficulty is in how the arrays are made: keys whose sums identify a hand, a numbering of all hands, and a perfect
hash table, compressed by row displacement, that a parallel search tries to shorten. This directory holds TLA+
modules of that machinery, of the evaluators that use it and of the oracles and tests that judge it, TLC
configurations that check them on small instances, and proofs checked by TLAPS.

In comments `l.111` is a line of the source file that the module models.
Definitions that begin with the comment "seeded fault" are variants of the definition
below them, not part of the model. PROJECT.json lists which run notices which of them.

## 1. Inventory

Paths are relative to the repository. `J/` is `java/SKPokerEval/`.

| Part | State it keeps | Operations | Correct when |
| --- | --- | --- | --- |
| Key scheme, `J/generator/.../Bootstrap.java` | keys so far, candidate, sums validated | three greedy searches | sums identify hands; each key is the least possible |
| Tables generator, `TablesGenerator.java` | static arrays: flush ranks, flush checks, flat tables | static initialisers, in textual order | every hand has one number, weakest first; seven cards rank as the best five of them |
| Perfect hash table, `HashTable.java` | offsets, ranks, factor, bucket size | `getRank`, `computeShorterHashTable`, `computeShorterHashTable2`, `validate` | every key finds its rank inside both arrays; a result is strictly shorter than its reference |
| Search, `FindPrime.java` | best table, queue of primes, threads, shutdown hook | `call`, `worker`, `shorterHashTable`, `stop`, `awaitTermination` | no prime and no improvement is lost; the program ends; a stop is carried out |
| Java evaluators, `J/evaluator/.../{Seven,Five}CardsEvaluator.java` | static arrays, read once | `getRank`, `getKey` | rank of seven = best rank of five; no suit outranks another; no index out of bounds |
| C++ evaluator, `src/*.h` | constant arrays | `SevenEval::GetRank` with and without flush check | as the Java one |
| Properties files, `ConstantPropertiesGenerator`, `PropertiesArrayReader` | - | write and read arrays | what is read is what was written |
| Oracles, `tests/FiveEval.cpp`, `SlowEvaluator.java` | rank arrays; class tables | rank by enumeration, or by rules | agree with the evaluators |
| `tests/Parallel.h` | a shared counter, futures | `ParallelFor` | body called once for every index; no task outlives the call; ends |
| Exhaustive tests, `tests/{seven,five}_eval_tests.cpp` | an atomic count, googletest's result | loops over all hands | a pass means that no hand differs; a failure that one does |
| Scripts, `scripts/*.py` | - | key search, first-fit table, table of ranks | produced the C++ tables |
| Profiler, benchmarks, build, vendored googletest | - | - | not the program's own logic |

How they interact: Bootstrap writes `Deckcards.properties`; the static block of TablesGenerator reads it, numbers the
hands of five, derives those of seven, and compresses both tables with fixed factors, to `tables5` and
`tables7.properties`; the evaluators read these once and are immutable. FindPrime is a tool for the developer: its
workers call the two heuristics of HashTable on an immutable reference each, and share only a queue of primes and an
atomic reference to the best table. The C++ library holds such tables as literals in headers; its exhaustive tests
compare it with FiveEval hand by hand, spread over the processors by ParallelFor. The Java tests compare the evaluators
with SlowEvaluator, and seven cards with the best five of them.

What is hard:

* *Chains.* Each shorter table is computed from, and validated against, the one before, not the flat table.
* *Arithmetic at its limits.* The key of a hand fills 32 bits exactly; bucket sizes beyond the width of a key shift by
  negative distances; offsets are stored as unsigned shorts; the width of keys is taken from the last hash.
* *Order.* Static fields are initialised in textual order and depend on one another; hands of six and seven cards of
  a suit are filled into the array that they are computed from.
* *Deferral.* The second heuristic puts off buckets under offsets computed against an array that keeps changing.
* *Bit sets.* findOffset compares a window of two words of one bit set with the words of another.
* *Oracles.* FiveEval and SlowEvaluator are two more programs for the same ranks, with loops and tricks of their own.
* *Threads.* Searches take long and publish by compare-and-set; interrupts, a bounded queue, `System.exit` and a
  shutdown hook that joins the main thread. In ParallelFor, tasks hold references to the caller's locals while bodies
  raise and threads cannot be started.

PROJECT.json lists the hazards line by line with the properties that would notice them; the number printed by FindPrime
is among them without one, as it is wrong (*Observed while modelling*). Two more hazards, not in the list,
are under *Observed while modelling* (a queue without places) and *Not modelled* (hands with a card twice).

## 2. Modules

| Module | Models | Composes |
| --- | --- | --- |
| `HashTable` | a table as data; lookup, buckets, writeBucket, int arithmetic, as operators | |
| `ShorterHashTable` | the first heuristic, called over and over on the best table so far | `HashTable`; mapped to `RowDisplacement` |
| `ShorterHashTable2` | the second heuristic, with its map of deferred buckets | `HashTable`; mapped to `RowDisplacement` |
| `RowDisplacement` | what either heuristic promises | `HashTable` |
| `FindOffset` | findOffset with its bit sets, word by word | extends `ShorterHashTable` |
| `TableSearch` | `shorterHashTable` of FindPrime: all bucket sizes, both heuristics | instances of both |
| `FindPrime` | main thread, workers, queue, best table, hook, signals, exit | mapped to `ShortestTable` |
| `ShortestTable` | what FindPrime promises, sequentially | |
| `PrimeSieve` | the sieve of FindPrime in wrapping ints | |
| `KeyScheme` | Bootstrap, with its hash sets | |
| `FiveRanking` | `generateFlatTableFive` | |
| `SevenTables` | `fillSevenFlushRanks`, `generateFlatTable`, flush checks, after FiveRanking | instance of `FiveRanking` |
| `SevenEval` | the C++ lookup | |
| `FiveEval` | constructor and lookups of the C++ oracle | |
| `SlowEvaluator` | the Java oracle | |
| `Evaluators` | the Java static blocks and lookups on the generated tables, beside the C++ pair and SlowEvaluator | instances of `SevenTables`, `SevenEval`, `FiveEval`, `SlowEvaluator` |
| `ForEach` | what ParallelFor promises | |
| `ParallelFor` | caller, tasks, counter, futures | mapped to `ForEach` |
| `EvalTests` | the exhaustive tests of seven cards | instance of `ParallelFor` |
| `..._proofs` | theorems and proofs, of the module named and of what it is mapped to | |
| `MC...` | constants for TLC | |

### HashTable, ShorterHashTable, ShorterHashTable2

A Java array of length n is a function on 0..n-1. A table is a record of factor, shift, offsets and ranks.
`Init` picks *any* ranking `flat` of the keys and its flat table; `Start(p, s)` and `Refuse(p, s)` are calls with any
factor and bucket size, so that a behaviour is an arbitrary chain of improvements. One action is one iteration of
the loop over buckets: `Place`, `GiveUpOffset` (l.111), `GiveUpLength` (l.114), `Raise` (an index past the array
in `writeBucket`). In the second heuristic `StartGroup` is the loop over counts, `Poll` takes the first entry of the
map with the bound of the next key, and `Defer` puts a bucket under its first fit. Here findOffset is its
meaning, the least offset without a collision in a range; `FindOffset` is about how it computes that. `FirstFit` is the
table that the first heuristic means to build, bucket by bucket without its loop, arrays and early returns, and
`AnswersFirstFit` compares what a call answers with it.

The offsets are compared with `2^ShortBits` before they are stored, as in the code; `ShortBits` is small in the
runs so that this return happens.

### RowDisplacement

The abstract specification of both: a factor without colliding keys, buckets laid in any order at any place where no
two hands of different ranks meet, and a new best table only when every bucket is laid and the table is strictly
shorter. It has no arrays, bit sets, deferrals or references to earlier tables: `Finish` says what the new table is from
the offsets and the flat table. The property `Displaces` of the two heuristics maps them to it; `laid` is the
offsets of the buckets already placed.

### FindOffset

A word of a bit set is the set of its bits' positions, so that a shift adds to them and drops what leaves the word, with
the distance taken modulo the width, as Java does for a long. `WindowExact` compares the words with the slots in every
state of the search, for every bucket yet to be placed and every offset the loop of findOffset would try.

### TableSearch

The two heuristics are instances whose `best` is `arg`, the reference passed. `RunFirst` and `RunSecond` are steps of
a call, `Keep` is l.183 with the head of the loop.

### FindPrime, PrimeSieve

In FindPrime, primes are the numbers 1..N in the order in which the main thread finds them, and a table is its size;
`Size[p]` is the size the search reaches for p. `Find`, `Put`, `RemoveHook`, `Await`, `Report`, `Exit` follow the main
thread through `call` and `main`; `Signal` may arrive at any time, and then `HookInterrupt`, `HookJoin`, `HookAwait` are
`stop`. Two facts of the platform are part of the model: `LinkedBlockingQueue.take` and `put` raise when interrupted
even if they could go on, and `System.exit` blocks while a shutdown is under way. A worker that an exception ends is
not replaced. `OutOfMemory` is the only way the main thread can end while the JVM is up; it makes the wait of the
hook reachable.

PrimeSieve is the loop that yields those primes, one division an action, in ints of `IntBits` bits whose squares and
sums wrap: a candidate may find no divisor that decides (`Exhausted`), p itself may overflow. Its names differ from those of
FindPrime (`SieveInit`, `PutPrime` and so on), so that the proofs about both are in one module.

### KeyScheme

One search with three sets of loops. `Reject` is a round that meets a sum twice, `Accept` one that does not. A hash
set of ints is a set and its capacity. How Agrona's `IntHashSet` grows (65 % of the capacity, doubling from 8) and
that `copy` refuses a set of another capacity is not in this repository and is marked external; a
rejected round may have added any number of its sums before the clash.

### FiveRanking, SevenTables

The loops are sets of hands visited in lexicographic order. FLUSH_RANKS, indexed by a bit for each face, is a
function on sets of faces. `RankByKey`, `RankFlush`, `FillFlush`, `RankSeven` are one assignment each, in the order
of the code. Numbers such as 12 in the code are `FACES - 1`.

### Evaluators, SevenEval, FiveEval, SlowEvaluator

`Load` makes the static fields of both Java evaluators and of SlowEvaluator from the generated arrays; `LoadCpp`
makes arrays like those of the C++ headers and constructs FiveEval. A loaded table is laid by first fit from the fullest
bucket (`Compressed`). The second heuristic, which makes the Java table for seven cards, may choose other places:
`RowDisplacement`, which both are proved to implement, is what makes the difference irrelevant to a lookup.
Ints have `IntBits` bits, `ShiftSeven + 9` as in the code, where 23 bits of face sum and 9 of suit sum fill 32: the
keys of hands with five cards of the last suit are negative in the run as they are in Java.

In FiveEval an element that no loop writes is the value `Indeterminate`, which equals no rank: reading one breaks
`OraclesAgree`. In SlowEvaluator masks are sets of faces; the cases of `get7CardsHandClass` are those of the code, with
the literals for thirteen faces written for `FACES`.

### ForEach, ParallelFor, EvalTests

ParallelFor has one action per step of the caller (`Launch`, `LaunchFails`, `Get`, `GetRaises`, `Leave`, which the
destructors of the futures hold back until every task is over) and of a task (`Fetch` is `idx++` with the test,
`Break`). The body is the user's: `Returns` and `Raises` are its two ends. `Promised` maps it to ForEach, in which there
are no threads. EvalTests instantiates ParallelFor with the body of the two exhaustive tests: hands whose ranks
differ are chosen in `Init`, a failing `ASSERT_EQ` reports and leaves the body (or raises, under googletest's
`throw_on_failure`), `Add` adds to the count, and `AssertCount` is the assertion after the loop. What googletest does
with an assertion is modelled as far as the verdict depends on it.

## 3. Runs

| Run | Shows | Bounds |
| --- | --- | --- |
| `first_fit` | the first heuristic: `TypeOK`, `BestServes`, `WindowExact`, `RaisesOnlyWithoutRoom`, `Displaces`, `OnlyShrinks`, `NoSlotOverwritten`, `AnswersFirstFit` | six keys of three bits, two ranks, factors 2, 3, 5, 7, 17, shifts 0..5, words of two bits |
| `lowest_fit` | the second one: `BestServes`, `DeferralSound`, `Displaces`, `CallEnds` | six keys of three bits, two ranks, factors 2, 3, 5, 7, shifts 0..5 |
| `table_search` | `ReturnsShorter`, `ReturnsOrRaises` for the whole search of one factor | nine keys of four bits, two ranks, factors 2 and 7, shifts 0..5 |
| `table_dropped` | finding, below | as `table_search` |
| `find_prime` | `TypeOK`, `NoLostImprovement`, `PrimesAccounted`, `AbstractSpec`, `Ends`, `Drains` | two workers, five primes, queue of two; the search of the fourth prime raises |
| `report_too_early`, `stop_hangs`, `known_dropped` | findings, below | as `find_prime` |
| `prime_sieve` | `SieveExact`, `SieveEnds` | ints of ten bits, 42 pairs of `--start` and `--stop` |
| `key_scheme` | `CopyNeverRefused`, `HandsIdentified`, `ValidatedExact`, `KeysLeast`, `AsPublished` | six faces, keys up to 453; capacities from 8 |
| `evaluators` | generator: `RanksAscend`, `EveryHandRanked`, `FlushIsBestOfFive`, `EveryHandOfSevenRanked`, `FlushFound`; lookups: `BestOfFive`, `SlowAgrees`, `OraclesAgree`; `TypeOK` | seven faces; every hand of seven of a deck of sixteen cards; two factors, two bucket sizes |
| `eval_tests` | `VerdictRight`, `NoDangling`, `Promised`, `Finishes` | hands of three of five cards, up to two that differ, 0 to 3 processors |

Why the bounds are enough. *Tables:* six keys in eight places leave gaps for buckets to interleave; two ranks make
both equal overlaps and collisions; factor 2 makes keys collide; factor 17, which is 1 modulo 8, leaves the keys as
they are; shifts 4 and 5 are beyond the width of a key. Every one of the 64 rankings is a start. Each early return,
the exception and the deferral happen. Words of two bits make arrays of up to eight slots span several words, so
that windows begin at, within and across a boundary. The search of one factor runs on a larger key set: with the six
keys above it never ends an iteration with a table to keep (l.183), since the second heuristic finds none, and
`ReturnsShorter` would say nothing.

*Threads:* two workers suffice for compare-and-set to fail and to be retried (sizes 6, 4, 5, 4, 2 have longer and
shorter ones), the fourth ends a worker and the other one processes the rest, and five primes exceed the queue plus the
workers. The queue holds one place per worker instead of four. With ten bits 23 is the first prime whose square
overflows, as 46349 is with 32: candidates above 361 are decided by a wrapped square or by none. The stops include
the two largest ints, where `p += 2` overflows; the starts 0, 3, 4 tell apart whether an odd prime lies below.
*Keys:* six faces of each scheme make the hash sets grow several times, also in rounds that are rejected.
*Hands:* seven faces have every category, hands below, among and above those of a straight, and both kinds of
straight; six and seven cards of one suit; the keys are the first seven of the real ones.
*Tests:* with hands of three of five cards the loops have three first cards, as many as tasks, and two wrong hands may
share one or not.

Runs stop where the program does (a search that has returned, a JVM that has halted, all loops done, a verdict), so
deadlock is not checked; that nothing stops early is said by `CallEnds`, `ReturnsOrRaises`, `Ends`, `Drains`,
`SieveEnds` and `Finishes`. For the first heuristic, whose loop is over a finite array and needs no such property,
`AnswersFirstFit` says that its early returns lose no table; and for the generator by the `Done =>` and `Generated =>` properties, of which
every mutant shows that the premise is reached.

**Fairness.** A call of the second heuristic, whose loop is bounded by a map that it changes itself, runs in one thread:
weak fairness of its steps, none of the calls themselves. The sieve is one thread as well. In FindPrime every thread, main, hook and each worker, is weakly fair while
the JVM is up; signals, the exhaustion of the heap and the halting by a signal are not owed. Weak fairness is what the
scheduler of the JVM gives in practice; no strong fairness is needed, as `take` and `put` are the only waits and a
waiting thread is served by whoever is at the other end. `Ends` promises nothing once a signal stops the JVM:
a stop that hangs, also one that comes at `removeShutdownHook`, is what `stop_hangs` is about. In EvalTests the caller and every task are weakly fair: bodies
are loops that end, and `get` waits for tasks only. That a thread cannot be started may happen but is not owed: the fairness
of the caller is that of the choice between starting and failing.

### Findings

Runs that TLC finds violated show where the program does not do what it says:

* `table_dropped`: in `shorterHashTable` (FindPrime.java:179-183) a table that the first heuristic has found is dropped
  when the second one does not improve on it.
* `report_too_early`: "processed %d primes" (FindPrime.java:121) is printed, and the JVM exits, while workers are
  still searching: `awaitTermination` waits for an empty queue only.
* `stop_hangs`: after a signal the hook joins the main thread, which blocks in `System.exit` until the hook is done
  (FindPrime.java:130, 189).
* `known_dropped`: with `--prime` and without `--fast`, the table of the known factor is replaced by SHORT_TABLE when the
  search finds none shorter than it (FindPrime.java:66-70).

Observed while modelling, and part of the models, without a run of their own:

* "processed %d primes" (FindPrime.java:121-122) counts 2, which is never queued, so that it is one too high unless an
  odd prime below `--start` was found. No run accepts that number: `SieveExact` leaves it out, and the theorem
  `CountsTwo` says when it is off.
* `--stop` is the "upper bound of primes factor to test" (FindPrime.java:31-34), 2^31 - 1 by default, but squares of
  divisors overflow. Up to the square of 46337 no prime is missed (`SieveExact`); above it some are found and others
  are not, and 2^31 - 1, which is prime, never is (theorem `LargestNeverQueued`).
* When `hardware_concurrency()` returns 0, as the standard allows, ParallelFor calls nothing; the exhaustive test
  fails then by its count (`VerdictRight`).
* On one processor `threads` is 0 and the queue of FindPrime.java:81 cannot be made.
* README.md:30 gives 7999 as the largest flush key, whereas the array ends at 0x1FC0 = 8128.

## 4. Proofs

All theorems are for every value of the constants, under the assumptions named in the modules and listed at the end.

**`HashTable_proofs`** holds the lemmas about the table that both heuristics use: buckets, `KeyPlace` (a key's bucket
and index determine its spread), `WrittenReads` (laying a bucket where it does not collide keeps all ranks), and the
arithmetic. The provers have no exponentiation, so the laws of powers of two are counted: 2^n is the number of subsets
of n elements (`CountedPower`), and subsets of a sum are pairs of subsets (`PowerOfSum`). From these `WidthLaws`
derives that the int arithmetic of HashTable.java:72-74 is exact for every bucket size up to keyBits, and that its
wrap-around turns every larger one into a refusal.

**`ShorterHashTable_proofs`**, in four parts.

* `TypeOK`, `BestServes`, `PlacedReadBack`, `RaisesOnlyWithoutRoom`, `OnlyShrinks`, `NoSlotOverwritten`. `BestServes`
  is not inductive: it speaks of finished tables only. `IInv` adds what the arrays hold at the head of the loop: each
  key's place in the buckets holds its rank (`CallSound`), placed buckets can be read back (`ReadBack`), nothing lies
  at or above rankLength and rankLength is below the room (`EmptyAbove`), and the size of the best table is bounded
  (`BestSize`). `ReturnServes` is the last step: reading back through the offsets gives each key its rank, within the
  cut array.
* `ImplementsRowDisplacement`: the first heuristic implements RowDisplacement (`Displaces`). For the mapping more is
  needed than for `BestServes`: *every* occupied slot belongs to a hand that has been laid, so that the array returned
  is exactly the one the offsets say, and its last slot is one of them.
* `PromiseServes` and `PromiseShrinks`: what the abstract specification is good for. Whatever implements it serves
  every hand and only ever shrinks.
* `WindowsExact`: the bit sets of findOffset. A slot is one bit of one word (`SlotPlace`); the two shifts of
  HashTable.java:130 bring the bits of two neighbouring words to the places of a window (`WindowShifts`), for every
  distance including none; the highest word the loop reads exists (`TriedWithin`). It needs words of two bits or more:
  with words of one, the second shift, by 1, would not shift.

**`ShorterHashTable2_proofs`**: the same for the second heuristic, which has no fixed order: `TypeOK`, `BestServes`,
`RaisesOnlyWithoutRoom`, `DeferralSound`, `Displaces`. The invariant speaks of what is unplaced, which is spread over
the group to come, the queue that was polled and the map: `Queues` says that these hold each such bucket once, in
ascending order where the code relies on it; `DeferralSound` bounds each deferred bucket's first fit from below and is
itself needed for the range that a poll searches. The lemmas about sequences come first.

**`TableSearch_proofs`**: `ReturnsShorter`. The proofs of the two heuristics are instantiated for the calls that
`shorterHashTable` makes, so that their step lemmas apply to its steps. `SearchInv` adds what holds between the calls:
only one of them is under way, what a call returned is shorter than the best table, and the reference passed is never
longer than that.

**`KeyScheme_proofs`**: `HandsIdentified`, `ValidatedExact`, `KeysLeast`, `CopyNeverRefused`, for any number of faces
and any of the three generators. The argument that makes the short search right: the hands of k + 1 faces are those of
k faces and those that the loops for the new key visit (`NewHands`: the bounds `c1 < c5`, `c2 < c6`, `c3 < k` say
exactly that no face comes five times), and the sums of the former do not depend on the new key (`OldSum`). So no
clash in a round means that all sums are distinct, and a clash means that some two hands have one. Nothing of addition
is used but that a sum depends on the keys of the cards alone. `Capacities` relates the sizes of the hash sets; that
the capacity found by doubling exists at all needs `DoublingsAssumption`. `KeysAlwaysFit` closes the chain to the
tables: keys with which the search has ended satisfy what `Evaluators` assumes of its keys. KeyScheme counts a hand as
cards of each face, the tables list the faces; both have one sum (`Rising` adds that the keys ascend).

**`FindPrime_proofs`**: `TypeOK`, `NoLostImprovement`, `PrimesAccounted`, and that FindPrime implements `ShortestTable`.
`IInv` says that the queue is the segment of primes up to the next one (`QueueSegment`), that
held primes are distinct and not processed (`HeldOnce`), that no prime taken has vanished (`TakenKept`), and that what a
worker read bounds the best table from above (`WorkerSound`), which is why a failed compare-and-set may be retried
against the table re-read. A `Search` without a result, a successful `Cas` and a `Reread` that gives up are the steps
`Process(p)` of the abstract specification; all others stutter.

The second part of the module is about the sieve: `SieveExact` of `PrimeSieve`, for ints of any width. `SieveInv`: the
divisors kept are primes, ascending, below the candidate (`Kept`), none up to `Complete` is missing among those passed
(`NoneMissed`), and those tried so far neither divide nor decide (`Tested`). Two things are to be shown although
squares wrap. What is found is prime (`FoundIsPrime`): the least divisor of a composite p has a square up to p, so
that it is kept, and it divides before any larger square, wrapped or not, is looked at. What is owed is found
(`ExhaustedIsNotOwed`): below a prime up to `Complete` there is a kept prime whose square is above it and still an
int. Below the largest root that is what `BertrandAssumption` says, beyond it is the root itself. Two theorems are
about what the code gets wrong: the number printed is that of the primes queued and 2 (`CountsTwo`), and the largest
int is never queued (`LargestNeverQueued`).

**`Evaluators_proofs`**: the generator, and the static fields made from its arrays, for any number of faces and any keys
that `KeysAssumption` and `WidthAssumption` allow.

* *Hands of five.* `RanksAscend` and `EveryHandRanked`. `Ranked` is the invariant: what is left to visit belongs to
  the section under way (`Visiting`); the domains of the arrays are the keys and the sets of faces visited, and the
  next number is one more than there are of both (`Counted`), so no number is given twice and none is left out; the
  numbers given are below the next (`Numbered`); and the last hash is that of four aces, on which the width of a key
  rests (`AcesLast`). That the places are as many as the hands is where the keys must tell hands apart. For
  `RanksAscend`, every hand of a section beats those visited before it (`LaterBeats`) and those of the section before
  (`NextSectionBeats`).
* *What the ranks mean.* `RanksTellStrength` is about finished tables and any two hands. `Ordered` is inductive: a
  hand visited later has the greater number, across sections. Of two hands the later is the better one
  (`LaterIsBetter`), and every hand dealt has the key, or the faces, of one in the loops (`PlaceInLoops`).
* *Six and seven of a suit.* `FlushIsBestOfFive`. `Filled` holds for the sets already visited: their rank is that of
  one of their fives and none of these is higher. Seven are computed from sixes, of which each is filled by then, as
  the loop goes up by size, and each five of the seven lies in one of them.
* *Hands of seven.* `SevenVisited` relates the keys of the table to the hands that are left, and `SevenRanked` says
  that each hand visited has the rank `best5CardsRank` found, which no other hand has overwritten. With
  `RanksTellStrength` that is the rank of a hand of five among the seven that none beats (`SevenIsBestOfFive`).
* *Flushes.* `FlushFound`: the sums of five of a suit and two of any are told apart by the suits' keys.
  `FlushOutranks` says why an evaluator may answer from the flushes alone. If five of seven cards are of one suit, any
  five of the seven have three faces at least, so that they are neither a full house nor four of a kind
  (`FlushAbove`), and every flush is numbered after the hands of all other kinds.
* *Widths.* `TypeOK`: `Fields` relates what the static blocks compute to how the tables were made. A table of a bucket
  size s has 2^(width - s) offsets, whose count less one has width - s bits, and the width of the last key is that of
  the four aces and the face below.

**`EvalTests_proofs`**, about ParallelFor and the tests.

* ParallelFor: `TypeOK`, `NoDangling`, that two tasks never have one index (`OneTaskEach`), and that it implements
  ForEach, for any range, any number of processors and any body. The invariant adds that a task ends only when all
  indices are taken (`EndedLast`), and that those whose future has been got have ended (`GotEnded`).
* `NoDangling` and `Promised` carry over to the tests, of which every step is a step of ParallelFor or a stutter.
* `PassMeansNoHandDiffers`: every hand belongs to the loop of one first card (`EveryHandVisited`), every first card
  below the counter has been looked at or is in a task, and one that differs fails the test.
* `VerdictAlwaysRight` adds the other half, that a test in which nothing is wrong passes. The number expected is that
  of all hands; the number counted is a sum over first cards in whichever order tasks add to it. The proof needs no
  sum: the count is the number of hands in the union of the loops that have been added (`FailInv`), and two loops
  share no hand.

Assumptions, all evaluated by TLC in the runs:

* `GameAssumption`, `KeysAssumption` and `WidthAssumption` of `Evaluators`: more than five faces; keys that ascend and
  tell hands apart, which `KeysAlwaysFit` proves of what Bootstrap finds; and sums that fit an int, with bucket sizes
  up to the width of a key, as the code's 32 bits and the factors published have.
* `KeyAssumption`: keys fit KeyBits, which is the width of the largest. `WidthAssumption` of `HashTable`: an int has two bits more
  than a key, and the bucket sizes tried do not exceed 30 for 32 bits. `WordAssumption`: words of two bits or more.
  `PrimesAssumption`, `SearchAssumption`, `SchemeAssumption`, `ConfigAssumption`, `DeckAssumption`, `RangeAssumption`:
  the constants are of their types, and not empty where the code needs one.
* `DoublingsAssumption`: the model's bound on doublings leaves room for the sums of all hands, so that it bounds nothing.
* `BertrandAssumption`: between the root of a prime and the prime lies another prime, for primes whose square is an int;
  a weak consequence of Bertrand's postulate, a theorem of number theory that is out of the provers' reach.

Only model-checked: liveness (`CallEnds`, `ReturnsOrRaises`, `Ends`, `Drains`, `SieveEnds`, `Finishes`), which TLAPS
does not reach; `AsPublished`, which is a computation with the published keys; `AnswersFirstFit`, which compares
a call with a table defined by recursion over sets of buckets; and the three properties about whole lookups, `BestOfFive`, `SlowAgrees` and `OraclesAgree`. A lookup reads a compressed table, which `Compressed` makes by
a fold over buckets, and adds up 32-bit sums of seven cards; the other oracles are case distinctions over masks of
bits and arrays filled by nested loops. What folds compute for every input is an induction over data. The pieces on
both sides are proved: that the tables hold the best five (above), that keys identify hands, and that a compressed
table built by either heuristic gives each key the rank it had in the flat one (`BestServes`).

## 5. Not modelled

* Writing and reading of the properties files (`ConstantPropertiesGenerator`, `PropertiesArrayReader`): decimal text
  through the JDK. Option parsing by picocli, printing.
* `Profiler.cpp` and the JMH and hand-written benchmarks, which measure time. (The rejection loop of
  BenchmarkSevenCard.java:84 ends once the hand has as many bits as it had before the card was drawn, so that some hands
  hold a card twice.)
* The literals of `RankHash.h`, `RankOffsets.h`, `FlushRanks.h` and `FlushCheck.h`: 5000 lines of data. A script
  outside this directory found them equal to the table of the first heuristic for the factor 31 and buckets of 2^9, and to
  the arrays of the generator. `KeyScheme` checks the keys of `Constants.h` as far as the run goes.
* `scripts/`: `seven_key_gen.py` finds the keys by comparing the sums of all hands anew for each candidate, which is
  what `HandsIdentified` and `KeysLeast` say that Bootstrap's shorter way amounts to; `rank.py` is data;
  `perfect_hash.py` makes an array of 44969 ranks, not that of `RankHash.h`, so it is not the program that made it.
  It lays its buckets in no order but that of their indexes, each at its first fit, which `Lay` of RowDisplacement allows.
* The test cases of single categories in `five_eval_tests.cpp`, examples of what `OraclesAgree` says of all hands.
* The build, and googletest under `lib/`, which is more than nine tenths of the C and C++ lines of the repository: of
  the program's own C++ code, the evaluators, the oracle, ParallelFor and the exhaustive tests are modelled.
