SPECIFICATION FairSieveSpec
CONSTANTS
  IntBits = 10
  Starts <- MCStarts
  Stops <- MCStops
INVARIANTS
  SieveExact
PROPERTIES
  SieveEnds
CHECK_DEADLOCK FALSE
