\* A sender across a reset and re-population of the queue.
SPECIFICATION Spec
CONSTANTS
  Dirs <- TxOnly
  Senders = {s1}
  Receivers = {}
  Depth = 1
  MaxResets = 1
  MaxIrqFails = 0
INVARIANTS NoStrandedSender
