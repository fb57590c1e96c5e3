SPECIFICATION FairSpec
CONSTANTS
  Requests = {r1, r2, r3}
  Clients = {c1, c2}
  NoBucket = NoBucket
  Limit = 1
  Window = 2
  MaxLag = 0
  LastArrival = 3
  MaxTime = 7
INVARIANTS
  SlidingWindow
  RefusedOnlyOverLimit
PROPERTIES
  QuietMapEmpties
CHECK_DEADLOCK FALSE
