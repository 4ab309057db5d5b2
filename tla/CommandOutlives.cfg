SPECIFICATION Spec

CONSTANTS
  Tools = {"command"}
  Timeout = 2
  KillGrace = 2
  Extra = 3
  CommandTimeout = 9
  CommandGrace = 2
  StartWithin = 1
  Lag = 1
  MaxTime = 12

INVARIANTS
  NoOrphan

CHECK_DEADLOCK FALSE
