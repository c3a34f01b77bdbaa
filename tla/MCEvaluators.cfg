SPECIFICATION Spec
CONSTANTS
  FACES = 7
  KeyFive <- MCKeyFive
  KeySeven <- MCKeySeven
  SuitKeys <- MCSuitKeys
  Factors = {1, 13}
  Shifts = {9, 11}
  IntBits = 23
  Multiplier = 31
  FLUSH_BIT_SHIFT = 14
  RANK_OFFSET_SHIFT = 10
  Deck <- MCDeck
INVARIANTS
  TypeOK
  EveryHandRanked
  FlushIsBestOfFive
  EveryHandOfSevenRanked
  FlushFound
  BestOfFive
  SlowAgrees
  OraclesAgree
PROPERTIES
  RanksAscend
CHECK_DEADLOCK FALSE
