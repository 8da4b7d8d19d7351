SPECIFICATION Spec
CONSTANTS
  MaxChunks = 3
  QueueCapacity = 2
  MaxBuffered = 4
  Frame = 2
  MaxPackets = 11
  SeqRange = 10
  MaxEvents = 2
INVARIANT BufferIsNewest
PROPERTIES PlayedInOrder SetupEnds CancelEndsAttempt NothingOutlives
CHECK_DEADLOCK FALSE
