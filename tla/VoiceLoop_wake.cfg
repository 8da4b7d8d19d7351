SPECIFICATION LoopFairSpec
CONSTANTS
  Session = {s1, s2}
  NoSession = NoSession
  Reconnects = 0
  Droppable = {"peer"}
  MaxGeneration = 0
PROPERTY WakeOpensMicrophone
