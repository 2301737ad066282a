SPECIFICATION GateSpec
CONSTANTS
  Brokers = {n1, n2}
  Limits = {1, 2}
  MaxJobs = 5
INVARIANTS
  PermitsHeld
PROPERTIES
  WaitEnds
CHECK_DEADLOCK FALSE
