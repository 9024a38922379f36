\* Every call may fail, or every call whose failure the code reports.
SPECIFICATION FairSpec
CONSTANTS
  Vcpus <- TwoVcpus
  MaxVcpus = 2
  Allowed = 2
  MemCount = 2
  ShmemCount = 1
  DenseVcpus = TRUE
  MaxLoads = 2
  FaultSets <- AnyOrReported
CHECK_DEADLOCK FALSE
INVARIANTS LoadSuccessMeansReady NothingLeftBehind PoweroffMeansStopped
PROPERTIES ExitNotOverwritten RunReturnsOnExit DestroyFinishes SetFwNameReturns
