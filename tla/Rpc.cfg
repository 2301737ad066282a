SPECIFICATION Spec
CONSTANTS
  c1 = c1
  w1 = w1
  w2 = w2
  r1 = r1
  Callers = {c1}
  Servers = {w1,w2}
  Routes = {r1}
  Slots = {1}
  Concurrencies = {1}
  QueueLimits = {1,2}
  Costs = {1,2}
  MaxCalls = 2
  MaxBytes = 3
  LastId = 3
  None = None
CHECK_DEADLOCK FALSE
SYMMETRY ServerSymmetry
INVARIANTS TypeInv QueueIntegrity NoLostWakeup RetiredLeavesNothing BudgetsHold
PROPERTIES HandedOutOnce DispatchOldestInTime KeepsContract
