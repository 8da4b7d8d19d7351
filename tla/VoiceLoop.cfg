SPECIFICATION LoopFairSpec
CONSTANTS
  Session = {s1, s2}
  NoSession = NoSession
  Reconnects = 0
  Droppable = {"peer"}
  MaxGeneration = 1
INVARIANTS
  NoOrphan
  NeverRefused
  MicrophoneNeedsWake
PROPERTIES
  LoopReturns
  StaleWarmRotated
