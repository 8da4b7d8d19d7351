SPECIFICATION Spec
CONSTANTS
  MaxTurns = 2
  Settings <- TheSettings
  Caller = {0, 1, 2}
INVARIANTS MicrophoneReleased SoundRestored NothingLeaks
PROPERTY WakeServed
CHECK_DEADLOCK FALSE
