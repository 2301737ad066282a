SPECIFICATION SessionSpec
CONSTANTS
  RequestIds = {1, 2, 3}
  MaxTags = 5
  MaxId = 3
  PendingLimits = {2, 3}
  MaxInFlight = 2
  Buffer = 2
INVARIANTS
  AnswersOwnRequest
  NeverRefused
PROPERTIES
  EverySettles
CHECK_DEADLOCK FALSE
