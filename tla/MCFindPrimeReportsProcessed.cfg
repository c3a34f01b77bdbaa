SPECIFICATION Spec
CONSTANTS
  Workers = {w1, w2}
  N = 5
  Size <- MCSize
  Raising = {}
  QueueFactor = 1
  ShortSize = 8
  KnownSizes <- MCKnownSizes
  None = None
INVARIANTS
  ReportsProcessed
CHECK_DEADLOCK FALSE
