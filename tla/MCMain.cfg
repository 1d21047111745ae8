SPECIFICATION Spec
CONSTANTS
  CycleLimit = 3
  MaxVersion = 2
  MaxArgs = 2
  None = None
INVARIANTS
  BuiltFromCurrent FailureIsFatal
PROPERTY GivesUp
