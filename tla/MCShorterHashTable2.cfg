SPECIFICATION FairSpec
CONSTANTS
  Hashes <- MCHashes
  Primes <- MCPrimes
  Shifts <- MCShifts
  KeyBits = 3
  MaxRank = 2
  IntBits = 8
  ShortBits = 2
INVARIANTS
  BestServes
  DeferralSound
PROPERTIES
  Displaces
  CallEnds
CHECK_DEADLOCK FALSE
