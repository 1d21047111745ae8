SPECIFICATION Spec
CONSTANTS
  Files <- Texts
  None = None
INVARIANT ReadAsMeant
PROPERTY Advances
CHECK_DEADLOCK FALSE
