SPECIFICATION Spec
CONSTANTS
  DepFile <- Climbing
  None = None
INVARIANT CanonicalFormIsSameFile
CHECK_DEADLOCK FALSE
