SPECIFICATION ServerSpec

CONSTANTS
  p = p
  h1 = h1
  h2 = h2
  Requests = {p, h1, h2}
  Heartbeats = {h1, h2}
  MaxRuns = 2
  MaxEvents = 1
  WritesFail = FALSE
  MaxAdded = 12

SYMMETRY Symmetry

INVARIANTS
  HeartbeatExclusive
  RecordedOnce

