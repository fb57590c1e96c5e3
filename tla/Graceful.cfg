SPECIFICATION FairSpec
CONSTANTS
  Conns = {c1, c2}
  MaxSignals = 2
INVARIANTS
  Inv
PROPERTIES
  SignalEndsService
  FailureEndsService
  GoroutineEnds
  ImplementsService
