------------------------------ MODULE PrimeSieve ------------------------------
(***************************************************************************)
(* The loop of FindPrime.call that finds the factors to test: odd numbers  *)
(* are divided by the primes found so far until one divides them or its    *)
(* square exceeds them.  All of it in ints, whose squares and sums wrap.   *)
(* In FindPrime, the primes it queues are the numbers 1 .. N.              *)
(* It shares no name with FindPrime, so that one module can extend both.   *)
(***************************************************************************)
EXTENDS Integers, Sequences

CONSTANTS IntBits,         \* Integer.SIZE
          Starts, Stops    \* the values of --start and --stop

MaxInt == 2^(IntBits - 1) - 1

ASSUME RangeAssumption == /\ IntBits \in Nat /\ IntBits > 3
                          /\ Starts \subseteq 0 .. MaxInt /\ Stops \subseteq 0 .. MaxInt

VARIABLES
  startPrime, stopPrime,   \* the options
  p, i,           \* the candidate, and the place in primes of the next divisor
  primes,         \* primes
  ignoredPrimes,  \* ignoredPrimes
  queued,         \* the primes that have been put into the queue
  at,             \* "sieve", "interrupted" or "over"
  reported        \* the number of primes that is printed

options == <<startPrime, stopPrime>>
sieveVars == <<options, p, i, primes, ignoredPrimes, queued, at, reported>>

Wrap(x) == ((x + 2^(IntBits - 1)) % 2^IntBits) - 2^(IntBits - 1)

SieveInit ==
  /\ startPrime \in Starts /\ stopPrime \in Stops
  /\ p = 3 /\ i = 1
  /\ primes = <<2>> /\ ignoredPrimes = 0
  /\ queued = <<>> /\ at = "sieve" /\ reported = 0

InLoop == at = "sieve" /\ p <= stopPrime /\ p > 0
Divisor == primes[i]
IsDivided == i <= Len(primes) /\ p % Divisor = 0
IsFound == i <= Len(primes) /\ p % Divisor # 0 /\ Wrap(Divisor * Divisor) > p

NextCandidate == p' = Wrap(p + 2) /\ i' = 1

Divided ==
  /\ InLoop /\ IsDivided
  /\ NextCandidate
  /\ UNCHANGED <<options, primes, ignoredPrimes, queued, at, reported>>

NextDivisor ==
  /\ InLoop /\ i <= Len(primes) /\ ~IsDivided /\ ~IsFound
  /\ i' = i + 1
  /\ UNCHANGED <<options, p, primes, ignoredPrimes, queued, at, reported>>

\* seeded fault: some divisor is taken to decide always
ExhaustedNever == FALSE

(***************************************************************************)
(* No prime so far decides, which only happens when squares overflow: the  *)
(* candidate is passed over.                                               *)
(***************************************************************************)
Exhausted ==
  /\ InLoop /\ i > Len(primes)
  /\ NextCandidate
  /\ UNCHANGED <<options, primes, ignoredPrimes, queued, at, reported>>

\* seeded fault: the primes below --start are not kept as divisors
IgnoreDropping ==
  /\ InLoop /\ IsFound /\ p < startPrime
  /\ primes' = primes
  /\ ignoredPrimes' = Len(primes')
  /\ NextCandidate
  /\ UNCHANGED <<options, queued, at, reported>>

Ignore ==
  /\ InLoop /\ IsFound /\ p < startPrime
  /\ primes' = Append(primes, p)
  /\ ignoredPrimes' = Len(primes')
  /\ NextCandidate
  /\ UNCHANGED <<options, queued, at, reported>>

PutPrime ==
  /\ InLoop /\ IsFound /\ p >= startPrime
  /\ primes' = Append(primes, p)
  /\ queued' = Append(queued, p)
  /\ NextCandidate
  /\ UNCHANGED <<options, ignoredPrimes, at, reported>>

(***************************************************************************)
(* The thread is interrupted in put: call prints p as the next prime to    *)
(* test, and returns.                                                      *)
(***************************************************************************)
PutPrimeInterrupted ==
  /\ InLoop /\ IsFound /\ p >= startPrime
  /\ primes' = Append(primes, p)
  /\ at' = "interrupted"
  /\ UNCHANGED <<options, p, i, ignoredPrimes, queued, reported>>

ReportCount ==
  /\ at = "sieve" /\ ~(p <= stopPrime /\ p > 0)
  /\ at' = "over" /\ reported' = Len(primes) - ignoredPrimes
  /\ UNCHANGED <<options, p, i, primes, ignoredPrimes, queued>>

SieveNext == Divided \/ NextDivisor \/ Exhausted \/ Ignore \/ PutPrime \/ PutPrimeInterrupted \/ ReportCount

SieveSpec == SieveInit /\ [][SieveNext]_sieveVars
FairSieveSpec == SieveSpec /\ WF_sieveVars(SieveNext)

-------------------------------------------------------------------------------
IsPrime(n) == n > 1 /\ \A d \in 2 .. n - 1 : n % d # 0
Elements(q) == {q[n] : n \in DOMAIN q}

(***************************************************************************)
(* A divisor decides only when its square is an int.  46337 is the largest *)
(* prime for which it is, of 32 bits, and its square 2147117569 is just    *)
(* below the default of --stop.                                            *)
(***************************************************************************)
SquareRoots == {q \in 2 .. MaxInt : q * q <= MaxInt /\ IsPrime(q)}

(***************************************************************************)
(* Between the root of a prime and the prime lies another one, except for  *)
(* 2: less than Bertrand's postulate says.                                 *)
(***************************************************************************)
ASSUME BertrandAssumption ==
  \A n \in SquareRoots : n # 2 => \E r \in SquareRoots : r < n /\ n < r * r

Complete == LET q == CHOOSE q \in SquareRoots : \A r \in SquareRoots : r <= q IN q * q
Passed == IF p > 0 THEN p - 1 ELSE MaxInt
Due == {n \in 3 .. Complete : startPrime <= n /\ n <= stopPrime /\ n <= Passed /\ IsPrime(n)}

(***************************************************************************)
(* Whatever wraps, only primes of the range are queued, each once and in   *)
(* ascending order, and of those up to Complete none is missed: so the     *)
(* prime printed on an interrupt is where --start resumes without a loss.  *)
(* --stop (l.31-34) asks for the primes above Complete too.  Those are     *)
(* found only as far as the wrapped square of some divisor happens to      *)
(* exceed them, and this property demands nothing of them.                 *)
(***************************************************************************)
SieveExact ==
  /\ \A n \in Elements(queued) : IsPrime(n) /\ startPrime <= n /\ n <= stopPrime
  /\ \A n \in 1 .. Len(queued) - 1 : queued[n] < queued[n + 1]
  /\ Due \subseteq Elements(queued)

(***************************************************************************)
(* The loop ends, also when --stop is the largest int and p overflows, and *)
(* when no divisor decides about a candidate.                              *)
(***************************************************************************)
SieveEnds == <>(at # "sieve")
=============================================================================
