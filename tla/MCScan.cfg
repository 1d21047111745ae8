SPECIFICATION Spec
CONSTANTS
  Edge <- MCEdges
  Node <- MCNodes
  Pool = {"default"}
  NoEdge = NoEdge
  RegularInputs <- MCRegular
  OrderOnlyInputs <- MCOrderOnly
  Outputs <- MCOutputs
  Dependents <- MCDependents
  Validations <- MCValidations
  PoolOf <- MCPoolOf
  Depth <- MCDepth
  GeneratedByDepLoader = {"sys"}
  Phony = {"force", "alias"}
  Restat = {"gen"}
  HasDeps = {"cc", "c1"}
  HasDepfile = {"c2"}
  Generator = {"doc"}
  Discovered <- MCDiscovered
  MainOutput <- MCMainOutput
  TargetLists <- MCTargetLists
  MtimesOf <- MCMtimes
  RecordsOf <- MCRecords
  EntriesOf <- MCEntries
  MaxRescans = 1
INVARIANTS
  ContractKept CleanMeansDepsKnown CyclesFound NothingForgotten
PROPERTIES
  Termination
