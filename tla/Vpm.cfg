SPECIFICATION VpmSpec
CONSTANTS
  MaxRuns = 2
  MaxCaptures = 2
  EventCapacity = 1
  AudioCapacity = 2
INVARIANT StreamingIsHeard
PROPERTIES MicrophoneOff
CHECK_DEADLOCK FALSE
