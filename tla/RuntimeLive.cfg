SPECIFICATION FairSpec

CONSTANTS
  a = a
  Tenants = {a}
  NoTenant = NoTenant
  HeartbeatTenants = {a}
  Budgeted = {}
  Breakers = {a}
  HasKillSwitch = TRUE
  MaxRuns = 4
  MaxTime = 0
  MsPerHour = 1
  MsPerDay = 2
  MaxRunsPerHour = 1
  MaxTokensPerDay = 1
  FailureThreshold = 2
  Cooldown = 1
  IdleTtl = 0
  MaxEventQueueSize = 1
  TokenCounts = {0}
  ChargeTokens = 1

PROPERTIES
  QueueFairSpec
  HeartbeatsResume
  BreakerDecides
