SPECIFICATION FairSpec

CONSTANTS
  Tools = {"pure", "cli", "command"}
  Timeout = 2
  KillGrace = 2
  Extra = 3
  CommandTimeout = 1
  CommandGrace = 1
  StartWithin = 1
  Lag = 1
  MaxTime = 12

INVARIANTS
  NoOrphan

PROPERTIES
  Ends

CHECK_DEADLOCK FALSE
