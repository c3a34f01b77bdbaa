SPECIFICATION Spec
CONSTANTS
  Hashes <- MCHashes
  Primes <- MCPrimes
  Shifts <- MCShifts
  KeyBits = 3
  MaxRank = 2
  IntBits = 8
  ShortBits = 2
  WordBits = 2
INVARIANTS
  TypeOK
  BestServes
  WindowExact
  RaisesOnlyWithoutRoom
PROPERTIES
  Displaces
  OnlyShrinks
  NoSlotOverwritten
  AnswersFirstFit
CHECK_DEADLOCK FALSE
