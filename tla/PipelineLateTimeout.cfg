SPECIFICATION Spec
CONSTANTS
  Layers <- AllLayers
  MaxDepth = 2
  MaxWrites = 1
INVARIANTS
  TimeoutOnlyUnanswered
