SPECIFICATION Spec
CONSTANTS
  File <- Files
  Main <- Mains
  Canonical <- Spelled
  WarnPhony = TRUE
INVARIANTS
  GraphConsistent KindsKept NothingLeaks
CHECK_DEADLOCK FALSE
