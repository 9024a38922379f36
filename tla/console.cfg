SPECIFICATION HvcFairSpec
CONSTANTS
  v1 = v1
  v2 = v2
  Vms = {v1, v2}
  NumNames = 2
  NumVmids = 2
  MaxStarts = 3
  MaxRmFails = 1
  PutCap = 2
  GetCap = 1
  Chunk = 1
  MaxPut = 2
  MaxGet = 1
  MaxFlush = 1
  MaxOps = 4
INVARIANTS OutputIntact TableRoutes
PROPERTIES OutputLeaves
CHECK_DEADLOCK FALSE
