SPECIFICATION Spec
CONSTANTS
  Requests = {r1, r2, r3, r4}
  Clients = {c1, c2}
  NoBucket = NoBucket
  Limit = 2
  Window = 3
  MaxLag = 1
  LastArrival = 6
  MaxTime = 9
SYMMETRY Symmetry
INVARIANTS
  Inv
  BucketLimit
  SlidingWindowUpToLag
  MapStaysFresh
PROPERTIES
  ForgetsOnlyExpired
  ImplementsSlidingLog
CHECK_DEADLOCK FALSE
