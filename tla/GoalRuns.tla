------------------------------ MODULE GoalRuns ------------------------------
(***************************************************************************)
(* goals/goal-stack.ts under core/agent/cognitive-agent.ts: one agent      *)
(* whose runOnce is called again and again over a stack of goals.  A run   *)
(* picks the goal of the moment it has read its memories and settles it at *)
(* the end; the user adds goals and sets their status at any time, also    *)
(* while a run awaits something.  Every step of a run is a step of         *)
(* CognitiveAgent.  Titles, descriptions and candidate actions are left    *)
(* out, but for whether the planner refuses the latter.                    *)
(***************************************************************************)
EXTENDS CognitiveAgent

CONSTANTS
  Goals,
  NoGoal,
  Priority, Horizon, CreatedAt,   \* of each goal: they never change
  Refused,       \* goals with a candidate action that planner.plan throws at
  AddedAs,       \* bound: statuses that goals are added with
  MaxChanges     \* bound: statuses the user sets

Statuses == {"pending", "active", "completed", "failed", "blocked"}

ASSUME GoalsAssumption ==
  /\ NoGoal \notin Goals
  /\ Priority \in [Goals -> Nat]
  /\ Horizon \in [Goals -> {"short", "long"}]
  /\ CreatedAt \in [Goals -> Nat]
  /\ Refused \subseteq Goals
  /\ AddedAs \subseteq Statuses
  /\ MaxChanges \in Nat

VARIABLES
  goals,      \* the map of goals, in order of insertion
  chosen,     \* the goal the run works on
  changes,    \* statuses set by the user so far
  settled     \* history: runs that settled a goal since its status was last set otherwise

stackVars == <<goals, chosen, changes, settled>>
goalVars  == <<vars, stackVars>>

GoalsTypeOK ==
  /\ TypeOK
  /\ goals \in Seq([id : Goals, status : Statuses])
  /\ chosen \in Goals \cup {NoGoal}
  /\ changes \in 0..MaxChanges
  /\ settled \in [Goals -> Nat]

GoalsInit ==
  /\ Init
  /\ goals = <<>>
  /\ chosen = NoGoal
  /\ changes = 0
  /\ settled = [g \in Goals |-> 0]
-----------------------------------------------------------------------------
(* The stack *)

Known == {goals[i].id : i \in DOMAIN goals}

\* The goals with g's status set: Map.set leaves a known key where it is, and an unknown
\* goal is left alone.
WithStatus(g, s) ==
  [i \in DOMAIN goals |-> IF goals[i].id = g THEN [goals[i] EXCEPT !.status = s] ELSE goals[i]]

\* The places of the goals that a run may pick.
Candidates == {i \in DOMAIN goals : goals[i].status \in {"active", "pending"}}

\* The comparator: active before pending, then by priority, horizon and age.
Before(i, j) ==
  LET a == goals[i]
      b == goals[j]
  IN \/ a.status = "active" /\ b.status # "active"
     \/ /\ a.status = "active" <=> b.status = "active"
        /\ \/ Priority[a.id] > Priority[b.id]
           \/ /\ Priority[a.id] = Priority[b.id]
              /\ \/ Horizon[a.id] = "short" /\ Horizon[b.id] = "long"
                 \/ Horizon[a.id] = Horizon[b.id] /\ CreatedAt[a.id] < CreatedAt[b.id]

\* The first of the sorted candidates: of equal goals, the one that was added first (and a
\* mutant that takes them from the other end).
ResolveLast ==
  CHOOSE i \in Candidates : \A j \in Candidates \ {i} : Before(j, i) \/ (~Before(i, j) /\ j < i)
ResolveNextGoal ==
  CHOOSE i \in Candidates : \A j \in Candidates \ {i} : Before(i, j) \/ (~Before(j, i) /\ i < j)

\* A second goal of the same id is refused.
AddGoal(g, s) ==
  /\ g \notin Known
  /\ goals' = Append(goals, [id |-> g, status |-> s])
  /\ UNCHANGED <<vars, chosen, changes, settled>>

UpdateStatus(g, s) ==
  /\ g \in Known
  /\ changes < MaxChanges
  /\ changes' = changes + 1
  /\ goals' = WithStatus(g, s)
  /\ settled' = [settled EXCEPT ![g] = 0]
  /\ UNCHANGED <<vars, chosen>>
-----------------------------------------------------------------------------
(* Runs *)

\* The run picks its goal, and keeps a copy.
GoalPicked ==
  /\ MemoryRead
  /\ IF Candidates = {}
       THEN goal' = "absent" /\ UNCHANGED chosen
       ELSE /\ goal' = "active"
            /\ chosen' = goals[ResolveNextGoal].id
            /\ status' = "error" <=> chosen' \in Refused
  /\ UNCHANGED <<goals, changes, settled>>

\* learn tells the stack, whatever has become of the goal meanwhile (and a mutant that
\* tells it of successes only).
ToldOfSuccess == IF goal' = "completed" THEN WithStatus(chosen, goal') ELSE goals
Told          == WithStatus(chosen, goal')

GoalSettled ==
  IF goal' # goal
    THEN goals' = Told /\ settled' = [settled EXCEPT ![chosen] = @ + 1]
    ELSE UNCHANGED <<goals, settled>>

WorksOn ==
  /\ RunOnce \/ Observed \/ PlanStored \/ Llm \/ FirstTurn \/ ActReturns \/ ActStored \/ Rejects
  /\ GoalSettled
  /\ UNCHANGED <<chosen, changes>>

\* The next call of runOnce begins with nothing of the last one.
RunAgain ==
  /\ pc = "done"
  /\ pc' = "idle" /\ status' = "none"
  /\ trace' = <<>> /\ attempt' = 0
  /\ decision' = "none" /\ step' = 0 /\ history' = <<>>
  /\ goal' = "absent" /\ stored' = <<>> /\ plans' = 0 /\ outcomes' = <<>>
  /\ chosen' = NoGoal
  /\ UNCHANGED <<dryRun, goals, changes, settled>>

User ==
  \E g \in Goals : \/ \E s \in AddedAs : AddGoal(g, s)
                  \/ \E s \in Statuses : UpdateStatus(g, s)

GoalsNext == User \/ GoalPicked \/ WorksOn \/ RunAgain

GoalsSpec == GoalsInit /\ [][GoalsNext]_goalVars

\* Whatever is awaited answers, and somebody calls runOnce again, as a heartbeat does.
GoalsFairSpec ==
  GoalsSpec /\ WF_goalVars(GoalPicked \/ WorksOn) /\ WF_goalVars(RunAgain)
-----------------------------------------------------------------------------
(* Properties *)

\* A goal that a run has settled is not settled again by another, whatever else is added
\* and whenever its own status was set while the run was at work, unless it is set anew.
SettledOnce ==
  \A g \in Goals :
    /\ settled[g] <= 1
    /\ settled[g] = 1 =>
         \E i \in DOMAIN goals : goals[i].id = g /\ goals[i].status \in {"completed", "failed"}

Waiting(g) == \E i \in Candidates : goals[i].id = g

\* The planner refuses g's candidate actions, or those of a goal that goes before it: such a
\* goal is chosen again each time, since nothing tells the stack that its runs fail.
Obstructed(g) ==
  \E i, j \in Candidates :
    /\ goals[i].id \in Refused /\ goals[j].id = g
    /\ i = j \/ Before(i, j) \/ (~Before(j, i) /\ i < j)

\* If from some time on the runs complete, but for those of refused goals, every goal gets
\* its turn, except behind a refused one.
GoalsGetTurns ==
  <>[](pc = "done" => status \in {"completed", "idle"} \/ chosen \in Refused)
    => \A g \in Goals : Waiting(g) ~> (~Waiting(g) \/ Obstructed(g))
=============================================================================
