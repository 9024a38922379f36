\* Two senders against a draining peer, and a single receiver; the label is never reset.
SPECIFICATION Spec
CONSTANTS
  Dirs <- Duplex
  Senders = {s1, s2}
  Receivers = {r1}
  Depth = 2
  MaxResets = 0
  MaxIrqFails = 1
SYMMETRY ThreadSymmetry
INVARIANTS NoStrandedSender NonblockNeverSleeps
