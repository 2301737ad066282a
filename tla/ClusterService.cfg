SPECIFICATION Spec
CONSTANTS
  Nodes = {n1, n2}
  MaxFaults = 3
INVARIANTS
  Registered
PROPERTIES
  EveryBrokerServes
CHECK_DEADLOCK FALSE
