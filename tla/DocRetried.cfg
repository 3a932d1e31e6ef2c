SPECIFICATION Spec
CONSTANTS
  s1 = s1
  r1 = r1
  r2 = r2
  r3 = r3
  w1 = w1
  w2 = w2
  None = None
  Sessions = {s1}
  Requests = {r1, r2}
  Slots = {w1}
  MaxRequests = 3
  MinInterval = 1
  MaxCost = 2
  RejectedCost = 3
  Limit = 3
  MaxTime = 2
PROPERTIES
  StartsWithinLimit
CHECK_DEADLOCK FALSE
