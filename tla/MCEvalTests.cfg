SPECIFICATION FairSpec
CONSTANTS
  DECK = 5
  CARDS = 3
  MaxWrong = 2
  MaxCpus = 3
INVARIANTS
  VerdictRight
  NoDangling
PROPERTIES
  Promised
  Finishes
CHECK_DEADLOCK FALSE
