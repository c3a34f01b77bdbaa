SPECIFICATION FairSpec
CONSTANTS
  Workers = {w1, w2}
  N = 5
  Size <- MCSize
  Raising = {4}
  QueueFactor = 1
  ShortSize = 8
  KnownSizes <- MCKnownSizes
  None = None
INVARIANTS
  TypeOK
  NoLostImprovement
  PrimesAccounted
PROPERTIES
  AbstractSpec
  Ends
  Drains
CHECK_DEADLOCK FALSE
