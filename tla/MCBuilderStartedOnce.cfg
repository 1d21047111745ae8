SPECIFICATION Spec
CONSTANTS
  Edge <- WideEdges
  Node <- WideNodes
  Pool <- WidePools
  NoEdge = NoEdge
  RegularInputs <- WideRegular
  OrderOnlyInputs <- WideOrderOnly
  Outputs <- WideOutputs
  Dependents <- WideDependents
  Validations <- WideValidations
  PoolOf <- WidePoolOf
  Depth <- WideDepth
  GeneratedByDepLoader = {}
  Phony = {"p", "q"}
  Restat = {}
  Slot = {s1, s2, s3}
  Parallelism = 3
  MaxFast = 0
  FailuresAllowed = 3
  Targets = {"prog"}
  HasDeps = {"a"}
PROPERTY StartedOnce
