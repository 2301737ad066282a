SPECIFICATION WorkSpec
CONSTANTS
  c1 = c1
  w1 = w1
  w2 = w2
  r1 = r1
  Callers = {c1}
  Servers = {w1}
  Routes = {r1}
  Slots = {1,2}
  Concurrencies = {2}
  QueueLimits = {2}
  Costs = {1}
  MaxCalls = 2
  MaxBytes = 3
  LastId = 3
  None = None
CHECK_DEADLOCK FALSE
INVARIANTS SlotAccounting ReplyNotLost
PROPERTIES WorkConserving FuturesEnd
