SPECIFICATION ConfigFairSpec
CONSTANTS
  Client = {p, q}
  Restarter = {q}
  Secret = {k}
  MaxSaves = 2
  MaxBoots = 2
INVARIANTS FormalLoads SavesSerialise ExecNeverTears
PROPERTIES RecoveryPoint GateReopens
CHECK_DEADLOCK FALSE
