\* Two VMs: the first one's slot becomes a hole.
SPECIFICATION Spec
CONSTANTS
  Vmids = {vm1, vm2}
  PerVm = 1
  NumSlots = 3
  SlotVcpus = 2
  MaxStarts = 1
  MaxFails = 0
  ExitAnswers <- OnlyError
CHECK_DEADLOCK FALSE
INVARIANTS ExitReachesSleepers
