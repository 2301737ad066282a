SPECIFICATION Spec
CONSTANTS
  Slots = {s1, s2, s3}
INVARIANTS
  FailuresReachService
PROPERTIES
  StopIsFinal
CHECK_DEADLOCK FALSE
