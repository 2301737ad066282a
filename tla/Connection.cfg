SPECIFICATION Spec
CONSTANTS
  RequestIds = {1, 2}
  MaxTags = 4
  MaxInFlight = 2
  Buffer = 1
INVARIANTS
  Conserved
  PoliteNeverRefused
PROPERTIES
  EndIsReached
  AnsweredOrEnded
CHECK_DEADLOCK FALSE
