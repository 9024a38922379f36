\* Three lends of one interrupt, one failing lend RPC.
SPECIFICATION FairSpec
CONSTANTS
  MaxLends = 3
  MaxFails = 1
CHECK_DEADLOCK FALSE
INVARIANTS ExclusiveUse AcceptedIsMine
PROPERTIES ReleaseIsHeard
