\* One VM with two vcpus and room for a third, loaded and destroyed twice; two allocations or request_irqs may fail.
SPECIFICATION FairSpec
CONSTANTS
  Vmids = {vm1}
  PerVm = 2
  NumSlots = 2
  SlotVcpus = 3
  MaxStarts = 2
  MaxFails = 2
  ExitAnswers <- OnlyError
CHECK_DEADLOCK FALSE
INVARIANTS NoLostVirq ExitReachesSleepers SlotsBalanced WdogBalanced
PROPERTIES RunReturnsAfterExit
