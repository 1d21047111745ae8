SPECIFICATION Spec
CONSTANTS
  DepFile <- Files
  None = None
INVARIANTS
  ParsedAsMeant OneNodePerFile
CHECK_DEADLOCK FALSE
