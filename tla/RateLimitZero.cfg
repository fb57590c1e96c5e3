SPECIFICATION FairSpec
CONSTANTS
  Requests = {r1, r2, r3}
  Clients = {c1, c2}
  NoBucket = NoBucket
  Limit = 0
  Window = 2
  MaxLag = 1
  LastArrival = 3
  MaxTime = 8
PROPERTIES
  QuietMapEmpties
CHECK_DEADLOCK FALSE
