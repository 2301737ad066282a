SPECIFICATION Spec
CONSTANTS
  Records <- MCRecords
  Requests <- MCRequests
  NoKey = ""
  AnyTopic = "*"
  MaxScan = 3
  MaxEvents = 4
CHECK_DEADLOCK FALSE
INVARIANTS ScanIsCoalescedPrefix NeverRejected NothingSkipped
PROPERTY CatchesUp
