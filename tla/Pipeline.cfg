SPECIFICATION Spec
CONSTANTS
  Layers <- AllLayers
  MaxDepth = 3
  MaxWrites = 1
INVARIANTS
  TypeOK
  WrittenIsSent
  FailureReported
  DeadlineAnswered
  AnswerUntouched
  RecovererShields
  SingleCodingHonest
  LogTrueIfAnswered
  SessionSealed
PROPERTIES
  ImplementsExchange
