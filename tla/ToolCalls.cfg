SPECIFICATION Spec
CONSTANTS
  McpCall = {c1, c2}
  GenericCall = {g1}
  Conversations = 2
INVARIANT AmbiguousCloses
PROPERTIES NothingSentOnceAmbiguous CallsEnd
CHECK_DEADLOCK FALSE
