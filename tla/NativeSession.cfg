SPECIFICATION FairSpec
CONSTANTS
  Session = {s1, s2}
  NoSession = NoSession
  Reconnects = 1
  Droppable = {"peer"}
INVARIANTS
  ExclusiveDevices
PROPERTIES
  CancelledStartsNoPlayer
  NoReconnectAfterEffects
  ImplementsExclusiveSpeaker
  CancelEndsTask
