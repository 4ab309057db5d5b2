----------------------------- MODULE MCGoalRuns -----------------------------
(* Model-checking instance of GoalRuns and the agent under it. *)
EXTENDS GoalRuns

\* x goes before the others by priority; y, of which the planner refuses a candidate
\* action, goes before z by horizon.
McPriority  == [g \in Goals |-> IF g = "x" THEN 1 ELSE 0]
McHorizon   == [g \in Goals |-> IF g = "y" THEN "short" ELSE "long"]
McCreatedAt == [g \in Goals |-> 0]
=============================================================================
