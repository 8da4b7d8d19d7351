SPECIFICATION FairSpec
CONSTANTS
  MaxIterations = 1
  MaxCalls = 2
  Grace = 1
  MaxResponses = 3
  MaxBatch = 2
  MaxTurns = 2
  MaxWakes = 1
  Prompt = TRUE
CHECK_DEADLOCK FALSE
INVARIANTS
  CancelledNeverRuns
PROPERTIES
  FollowUpLast
  SessionEnds
