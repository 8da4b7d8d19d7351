SPECIFICATION Spec
CONSTANTS
  Tool = {a, b}
  MaxConnections = 2
  Note = {n1, n2}
  MaxChanges = 2
INVARIANTS RoutedBeforeVisible FailedIsClosed SnapshotNotBehind
SYMMETRY Alike
CHECK_DEADLOCK FALSE
