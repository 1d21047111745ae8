SPECIFICATION Spec
CONSTANTS
  Edge <- Edges
  Hash = {h1}
  NoHash = NoHash
  MaxMtime = 1
  MinEntries = 2
  Ratio = 1
  MaxLines = 4
  Missing = Missing
  None = None
  User <- Users
  NilUser = NilUser
INVARIANTS
  Durable Genuine
