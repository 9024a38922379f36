\* Receivers against peer, interrupts, resets and late set-up failures.
SPECIFICATION FairSpec
CONSTANTS
  Dirs <- RxOnly
  Senders = {}
  Receivers = {r1, r2}
  Depth = 2
  MaxResets = 2
  MaxIrqFails = 1
INVARIANTS NoStrandedReceiver
PROPERTIES SleeperWakes
