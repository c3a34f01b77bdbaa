SPECIFICATION Spec
CONSTANTS
  Hashes <- MCHashes
  Primes <- MCPrimes
  Shifts <- MCShifts
  KeyBits = 4
  MaxRank = 2
  IntBits = 8
  ShortBits = 3
  Fast = FALSE
  StartShift = 0
  StopShift = 6
  NoTable = NoTable
PROPERTIES
  NoTableDropped
CHECK_DEADLOCK FALSE
