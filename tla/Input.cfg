SPECIFICATION Spec
CONSTANTS
  Fields <- SomeFields
  Readable <- SomeReadable
  Sent <- SomeSent
  MaxBytes = 2
  MaxCalls = 3
  MaxInt = 3
  Files <- SomeFiles
  Limits <- SomeLimits
INVARIANTS
  BoundAsSent
  FaultReportedOnce
  DecodedWhole
  VerdictDeserved
  LeftAtStart
CHECK_DEADLOCK FALSE
