SPECIFICATION FairSpec
CONSTANTS
  Edge <- CheckEdges
  Node <- CheckNodes
  Pool <- CheckPools
  NoEdge = NoEdge
  RegularInputs <- CheckRegular
  OrderOnlyInputs <- CheckOrderOnly
  Outputs <- CheckOutputs
  Dependents <- CheckDependents
  Validations <- CheckValidations
  PoolOf <- CheckPoolOf
  Depth <- CheckDepth
  GeneratedByDepLoader = {"sys.h"}
  Phony = {"force", "all"}
  Restat = {"cfg"}
  Slot = {s1, s2, s3, s4}
  Parallelism = 2
  MaxFast = 2
  FailuresAllowed = 2
  Targets = {"obj.o", "top"}
  HasDeps = {"obj"}
INVARIANTS
  TypeOK WantedCount NoForgottenWork PoolsBusy SlotsAccounted
  RecordedBeforeUse BuiltIsBuilt KeepGoing FailureOverrun
PROPERTIES
  OnceUnlessLost Termination
