SPECIFICATION Spec
CONSTANTS
  Faces <- MCFaces
  MaxDoublings = 8
INVARIANTS
  CopyNeverRefused
  HandsIdentified
  ValidatedExact
  AsPublished
PROPERTIES
  KeysLeast
CHECK_DEADLOCK FALSE
