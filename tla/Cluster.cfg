SPECIFICATION Spec
CONSTANTS
  Nodes = {n1, n2}
  Requests = {r1, r2}
  Cap = 1
  MaxPending = 2
  MaxClients = 3
INVARIANTS
  DispatchedOnce
  LoadIsExact
  ClosedLeavesNothing
PROPERTIES
  NewClientSpared
  EverySettles
CHECK_DEADLOCK FALSE
