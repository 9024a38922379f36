\* Two loads of a VM that has a resource of every type, proxied or not; one failing
\* request of the doorbell driver, one other failure, one interrupt of somebody else.
SPECIFICATION ResFairSpec
CONSTANTS
  MaxDescs = 1
  MaxLoads = 2
  MaxFails = 1
  Lists <- SomeLists
  Setups <- SomeSetups
  NumIrqs = 6
  MaxFaults = 1
  MaxOthers = 1
CHECK_DEADLOCK FALSE
INVARIANTS DescOwned NoHandlerAfterReset PopulateWires UnpopulateExact
PROPERTIES CallerGetsCap LoadEnds
