SPECIFICATION Spec
CONSTANTS
  Output = {"o", "x"}
  Live = {"o"}
  DepLists <- MCDepLists
  PathOf <- MCPathOf
  Mtimes = {1}
  MinCompactionEntryCount = 1
  CompactionRatio = 1
  NoDeps = NoDeps
  MaxWords = 16
INVARIANTS
  Remembered IdsAgree IntactKept
