SPECIFICATION FairSpec
CONSTANTS
  Calls = {c1, c2}
  Ttl = 1
  Timeout = 1
  CodexTimeout = 2
  KillGrace = 1
  Lag = 1
  c1 = c1
  c2 = c2
PROPERTIES
  FreshlyValidated
  CallsSettle
