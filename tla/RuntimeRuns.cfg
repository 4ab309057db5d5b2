SPECIFICATION Spec

CONSTANTS
  a = a
  b = b
  Tenants = {a, b}
  NoTenant = NoTenant
  HeartbeatTenants = {a}
  Budgeted = {a}
  Breakers = {a}
  HasKillSwitch = FALSE
  MaxRuns = 3
  MaxTime = 2
  MsPerHour = 1
  MsPerDay = 2
  MaxRunsPerHour = 2
  MaxTokensPerDay = 2
  FailureThreshold = 2
  Cooldown = 2
  IdleTtl = 1
  MaxEventQueueSize = 1
  TokenCounts = {1}
  ChargeTokens = 2

INVARIANTS
  SerialPerTenant
  NoUnauditedOverlap
  BoundedInFlight
  EventLoopAlive
  HourlyBudget
  DailyTokens

PROPERTIES
  QueueSpec
  BreakerDecides
