SPECIFICATION PageFairSpec
CONSTANTS
  Requests = {run1, run2}
  run1 = run1
  run2 = run2
  MaxRuns = 2
  MaxEvents = 1
  WritesFail = FALSE
  MaxAdded = 2
  PageRuns = 2
  MaxUpsets = 1
  MaxInFlight = 1
INVARIANTS
  RunsShown
PROPERTIES
  GhostsGo
