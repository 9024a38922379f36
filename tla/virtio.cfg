\* Two devices, the guest drives one; two loads, one failing step.
SPECIFICATION FairSpec
CONSTANTS
  NumDevs = 2
  Driven <- FirstDev
  Queues = {q1}
  NumBufs = 2
  Vcpus = {v1}
  EagerReset = FALSE
  MaxLoads = 2
  MaxFails = 1
CHECK_DEADLOCK FALSE
INVARIANTS EventNotMissed DriverOkPassed KickNotLost SharesBalanced
PROPERTIES ExitFinishes
