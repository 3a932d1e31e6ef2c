SPECIFICATION FairSpec
CONSTANTS
  s1 = s1
  r1 = r1
  r2 = r2
  r3 = r3
  w1 = w1
  w2 = w2
  None = None
  Sessions = {s1}
  Requests = {r1, r2, r3}
  Slots = {w1, w2}
  MaxRequests = 2
  MinInterval = 2
  MaxCost = 2
  RejectedCost = 3
  Limit = 3
  MaxTime = 4
INVARIANTS
  TypeOK
  Serialized
  BudgetHolds
  ShortfallBlocks
PROPERTIES
  FailsClosed
  Debounced
  FlightEnds
  AdmissionSpec
CHECK_DEADLOCK FALSE
