SPECIFICATION FilesFairSpec

CONSTANTS
  Requests = {p, q}
  p = p
  q = q
  MaxRuns = 2
  MaxEvents = 2
  WritesFail = TRUE
  MaxAdded = 4
  Workers = {w1, w2}
  w1 = w1
  w2 = w2
  MaxTasks = 3
  MaxCalls = 4
  Limits = {1, 2}

INVARIANTS
  SavedOrScheduled
  ClearIsFinal
  ScheduledStays
  AnswersLatest

PROPERTIES
  GetsSaved
