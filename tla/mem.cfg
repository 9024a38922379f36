\* Regions of up to five entries, two per request and two per reply; three faults.
SPECIFICATION FairSpec
CONSTANTS
  MaxSgl = 2
  MaxEntries = 5
  MaxFrag = 2
  MaxTransfers = 3
  MaxFaults = 3
  MaxUnregs = 1
CHECK_DEADLOCK FALSE
INVARIANTS AcceptedIsWhole
PROPERTIES RefinesTransfer MemoryComesBack
