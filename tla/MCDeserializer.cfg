SPECIFICATION FairSpec
CONSTANTS
  Header1Len = 2
  HeaderLen = 3
  MaxFrames = 3
  MaxLen = 5
  Streams <- StreamsMC
CHECK_DEADLOCK FALSE
INVARIANTS
  InSync
  DeliveredInOrder
  CuttingInvisible
PROPERTIES
  EverythingParsed
