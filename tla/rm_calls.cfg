\* Two callers over two sequence numbers: three calls, or two with a notification,
\* a failing send, a cut series and a failing allocation.
SPECIFICATION FairSpec
CONSTANTS
  Callers = {t1, t2}
  Msgs = {m1}
  MaxCalls = 3
  FaultyCalls = 2
  NumSeqs = 2
  MaxFrags = 1
  Depth = 2
  MaxNotifs = 1
  MaxCuts = 1
  MaxSendFails = 1
  MaxAllocFails = 1
CHECK_DEADLOCK FALSE
INVARIANTS NoUseAfterFree IdrSound
PROPERTIES CallReturns RefinesRpc
