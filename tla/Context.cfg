SPECIFICATION Spec
CONSTANTS
  Layers <- AllLayers
  Incoming <- AllIncoming
  Addresses = {"proxy", "stranger", "client"}
  Trusted = {"proxy"}
  Accepted = {"right"}
  Origins = {"app"}
  MaxDepth = 3
INVARIANTS
  AddressSeen
  IdAgrees
  ContextReaches
  HeadersOnAnswer
  TempFilesRemoved
