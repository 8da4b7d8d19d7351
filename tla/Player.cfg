SPECIFICATION FairSpec
CONSTANTS
  Capacity = 2
  MaxResponses = 2
  MaxBlocks = 4
  MaxInterrupts = 2
CHECK_DEADLOCK FALSE
INVARIANTS
  OneLateBlock
PROPERTIES
  StopEndsPlayer
