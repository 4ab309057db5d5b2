SPECIFICATION GoalsFairSpec

CONSTANTS
  Actions = {"read_file", "other_tool"}
  Allowed = {"read_file"}
  MaxSteps = 3
  MaxRetries = 2
  Goals = {"x", "y", "z"}
  NoGoal = "none"
  Priority <- McPriority
  Horizon <- McHorizon
  CreatedAt <- McCreatedAt
  Refused = {"y"}
  AddedAs = {"pending", "active"}
  MaxChanges = 1

INVARIANTS
  OnlyPermitted
  DryRunInert
  CompletedIsRecorded
  TraceTells
  SettledOnce

PROPERTIES
  GoalsGetTurns
