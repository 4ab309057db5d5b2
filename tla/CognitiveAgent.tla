--------------------------- MODULE CognitiveAgent ---------------------------
(***************************************************************************)
(* core/agent/cognitive-agent.ts: one call of runOnce with the goal stack, *)
(* self model, permission gate and memory it works on.  A step is the code *)
(* from one await to the next; what is awaited (LLM, memory, tools) may    *)
(* answer well, badly, or, but for the environment's act, reject.          *)
(* The audit logger is best effort and left out.                           *)
(***************************************************************************)
EXTENDS Integers, Sequences, FiniteSets

CONSTANTS
  Actions,      \* action types a decision may name, besides complete_run
  Allowed,      \* those the ToolPermissionGate lets pass
  MaxSteps,     \* multiActMaxSteps
  MaxRetries    \* MAX_LLM_RETRIES

ASSUME AgentAssumption ==
  /\ Allowed \subseteq Actions
  /\ "complete_run" \notin Actions
  /\ MaxSteps \in Nat \ {0}
  /\ MaxRetries \in Nat \ {0}

VARIABLES
  pc,          \* what runOnce awaits
  dryRun,
  trace,       \* stateTrace
  attempt,     \* queries the model has answered with an invalid decision
  decision,    \* lastDecision's action type
  step,
  history,     \* actionHistory
  goal,        \* what the run knows of its goal, or has told the stack
  stored,      \* episodic memories of this run
  plans,       \* procedural memories of this run
  outcomes,    \* what recordOutcome was told
  status       \* of the result

vars == <<pc, dryRun, trace, attempt, decision, step, history, goal, stored, plans,
          outcomes, status>>

Decisions == Actions \cup {"complete_run"}
Acts      == [type : Actions, success : BOOLEAN]
Waits     == {"observe", "memory", "plan", "llm", "log", "act", "next", "store"}
States    == {"observe", "retrieve_memory", "update_world", "update_self", "plan_goals",
              "simulate", "query_llm", "validate_output", "act", "store_results",
              "learn", "complete", "error"}

TypeOK ==
  /\ pc \in Waits \cup {"idle", "done"}
  /\ dryRun \in {"no", "with-llm", "without-llm"}
  /\ trace \in Seq(States)
  /\ attempt \in 0..MaxRetries
  /\ decision \in Decisions \cup {"none"}
  /\ step \in 0..(MaxSteps - 1)
  /\ history \in Seq(Acts)
  /\ goal \in {"absent", "active", "completed", "failed"}
  /\ stored \in Seq(Acts)
  /\ plans \in 0..1
  /\ outcomes \in Seq(BOOLEAN)
  /\ status \in {"none", "idle", "dry_run", "completed", "error"}

Init ==
  /\ pc = "idle"
  /\ dryRun \in {"no", "with-llm", "without-llm"}
  /\ trace = <<>>
  /\ attempt = 0
  /\ decision = "none"
  /\ step = 0
  /\ history = <<>>
  /\ goal = "absent"
  /\ stored = <<>>
  /\ plans = 0
  /\ outcomes = <<>>
  /\ status = "none"
-----------------------------------------------------------------------------
(* Pieces of the steps *)

Enter(states) == trace' = trace \o states

Return(s) == pc' = "done" /\ status' = s

Await(w) == pc' = w /\ status' = status

loopVars  == <<decision, step, history>>
stateVars == <<goal, stored, plans, outcomes>>

\* permissionGate.isAllowed: complete_run is on the list (and a mutant that asks
\* for the first action only).
PermittedFirst(d, n) == d \in Allowed \cup {"complete_run"} \/ n > 0
Permitted(d, n)      == d \in Allowed \cup {"complete_run"}

\* A dry run stops before the act (and the mutant that forgets one of the modes).
SkipsWithLlm == dryRun = "with-llm"
SkipsAct     == dryRun # "no"

\* No further act after step n (and the mutant that counts from one).
LastStepLate(n) == n >= MaxSteps
LastStep(n)     == n + 1 >= MaxSteps

FinalSuccess(h) == IF h = <<>> THEN TRUE ELSE h[Len(h)].success

\* learn: the outcome of the last act decides.
Learn(h, before) ==
  /\ Enter(before \o <<"learn", "complete">>)
  /\ outcomes' = Append(outcomes, FinalSuccess(h))
  /\ goal' = IF FinalSuccess(h) THEN "completed" ELSE "failed"
  /\ Return("completed")

\* The loop is over: the acts are stored one by one, if there are any.
LeaveLoop(h) ==
  IF h = <<>> THEN Learn(h, <<"store_results">>)
  ELSE /\ Enter(<<"store_results">>)
       /\ Await("store")
       /\ UNCHANGED <<goal, outcomes>>

\* One turn of the loop, up to the act: permission, complete_run, dry run, in this
\* order.
Turn(d, n) ==
  \/ /\ ~Permitted(d, n)
     /\ Enter(<<"error">>)
     /\ Return("error")
     /\ UNCHANGED <<goal, outcomes>>
  \/ /\ Permitted(d, n)
     /\ d = "complete_run"
     /\ LeaveLoop(history)
  \/ /\ Permitted(d, n)
     /\ d # "complete_run" /\ SkipsAct
     /\ Enter(<<"complete">>)
     /\ Return("dry_run")
     /\ UNCHANGED <<goal, outcomes>>
  \/ /\ Permitted(d, n)
     /\ d # "complete_run" /\ ~SkipsAct
     /\ Enter(<<"act">>)
     /\ Await("act")
     /\ UNCHANGED <<goal, outcomes>>

\* With a plan: the model is asked, or a dry run without it takes a candidate action,
\* which a goal may bring along whatever its type.
Decide(before) ==
  \/ /\ dryRun = "without-llm"
     /\ Enter(before \o <<"validate_output">>)
     /\ decision' \in Decisions
     /\ Await("log")
  \/ /\ dryRun # "without-llm"
     /\ Enter(before \o <<"query_llm">>)
     /\ UNCHANGED decision
     /\ Await("llm")
-----------------------------------------------------------------------------
(* Steps *)

RunOnce ==
  /\ pc = "idle"
  /\ Enter(<<"observe">>)
  /\ Await("observe")
  /\ UNCHANGED <<dryRun, attempt, loopVars, stateVars>>

\* The observation is there; the prompt filter may flag it.
Observed ==
  /\ pc = "observe"
  /\ \/ Enter(<<"retrieve_memory">>) /\ Await("memory")
     \/ Enter(<<"retrieve_memory", "error">>) /\ Return("error")
  /\ UNCHANGED <<dryRun, attempt, loopVars, stateVars>>

\* The stack may have a goal to pursue.  Without one the run is idle; its trace then ends
\* with plan_goals.  The planner may refuse a candidate action of the goal.
MemoryRead ==
  /\ pc = "memory"
  /\ goal' \in {"absent", "active"}
  /\ LET planned == <<"update_world", "update_self", "plan_goals">>
     IN \/ /\ goal' = "absent"
           /\ Enter(planned)
           /\ Return("idle")
           /\ UNCHANGED decision
        \/ /\ goal' = "active"
           /\ Enter(planned \o <<"simulate", "error">>)
           /\ Return("error")
           /\ UNCHANGED decision
        \/ /\ goal' = "active" /\ dryRun = "no"
           /\ Enter(planned \o <<"simulate">>)
           /\ Await("plan")
           /\ UNCHANGED decision
        \/ /\ goal' = "active" /\ dryRun # "no"
           /\ Decide(planned \o <<"simulate">>)
  /\ UNCHANGED <<dryRun, attempt, step, history, stored, plans, outcomes>>

PlanStored ==
  /\ pc = "plan"
  /\ plans' = plans + 1
  /\ Decide(<<>>)
  /\ UNCHANGED <<dryRun, attempt, step, history, goal, stored, outcomes>>

LlmDecides ==
  /\ pc = "llm"
  /\ Enter(<<"validate_output">>)
  /\ decision' \in Decisions
  /\ Await("log")
  /\ UNCHANGED <<dryRun, attempt, step, history, stateVars>>

\* The output is invalid: asked again, MaxRetries times at most.
LlmFailsValidation ==
  /\ pc = "llm"
  /\ attempt' = attempt + 1
  /\ IF attempt = MaxRetries - 1
       THEN Enter(<<"validate_output", "error">>) /\ Return("error")
       ELSE Enter(<<"validate_output">>) /\ Await("llm")
  /\ UNCHANGED <<dryRun, loopVars, stateVars>>

\* A decision passes without an action type, as a validator other than the default
\* one may let it; it is not asked for again.
LlmDecidesNothing ==
  /\ pc = "llm"
  /\ Enter(<<"validate_output", "error">>)
  /\ Return("error")
  /\ UNCHANGED <<dryRun, attempt, loopVars, stateVars>>

\* The decision is logged: the first turn of the loop.
FirstTurn ==
  /\ pc = "log"
  /\ Turn(decision, step)
  /\ UNCHANGED <<dryRun, attempt, loopVars, stored, plans>>

\* The tool has run, or failed, or timed out: act answers in each case.
ActReturns ==
  /\ pc = "act"
  /\ \E success \in BOOLEAN :
       LET h == Append(history, [type |-> decision, success |-> success])
       IN /\ history' = h
          /\ IF LastStep(step) THEN LeaveLoop(h)
             ELSE trace' = trace /\ Await("next") /\ UNCHANGED <<goal, outcomes>>
  /\ UNCHANGED <<dryRun, attempt, decision, step, stored, plans>>

\* The model was asked how to go on; an invalid answer ends the loop.
NextDecision ==
  /\ pc = "next"
  /\ \/ /\ decision' \in Decisions
        /\ step' = step + 1
        /\ Turn(decision', step + 1)
     \/ /\ UNCHANGED <<decision, step>>
        /\ LeaveLoop(history)
  /\ UNCHANGED <<dryRun, attempt, history, stored, plans>>

\* addEpisodic has stored the next act (and the mutant that stores the last one only).
LastActStored ==
  /\ pc = "store"
  /\ stored' = <<history[Len(history)]>>
  /\ Learn(history, <<>>)
  /\ UNCHANGED <<dryRun, attempt, loopVars, plans>>

ActStored ==
  /\ pc = "store"
  /\ LET n == Len(stored) + 1
     IN /\ stored' = Append(stored, history[n])
        /\ IF n = Len(history) THEN Learn(history, <<>>)
           ELSE trace' = trace /\ Await("store") /\ UNCHANGED <<goal, outcomes>>
  /\ UNCHANGED <<dryRun, attempt, loopVars, plans>>

\* What is awaited rejects: the catch block (and a mutant without its transition).
RejectsQuietly ==
  /\ pc \in {"observe", "memory", "plan", "llm", "next", "store"}
  /\ Return("error")
  /\ UNCHANGED <<dryRun, trace, attempt, loopVars, stateVars>>

Rejects ==
  /\ pc \in {"observe", "memory", "plan", "llm", "next", "store"}
  /\ Enter(<<"error">>)
  /\ Return("error")
  /\ UNCHANGED <<dryRun, attempt, loopVars, stateVars>>

Llm    == LlmDecides \/ LlmFailsValidation \/ LlmDecidesNothing \/ NextDecision
Memory == MemoryRead \/ PlanStored \/ ActStored

Next == RunOnce \/ Observed \/ Memory \/ Llm \/ FirstTurn \/ ActReturns \/ Rejects

Spec == Init /\ [][Next]_vars
-----------------------------------------------------------------------------
(* Properties *)

\* Only what the gate lets pass is acted, on every turn of the loop.
OnlyPermitted == \A i \in DOMAIN history : history[i].type \in Allowed

\* No more than multiActMaxSteps acts, the one under way included.
ActsBounded == Len(history) + (IF pc = "act" THEN 1 ELSE 0) <= MaxSteps

\* A dry run acts and stores nothing, in either mode.
DryRunInert ==
  dryRun # "no" => history = <<>> /\ stored = <<>> /\ plans = 0 /\ pc # "act"

\* A completed run has stored each act once and in order, told the self model one
\* outcome and settled its goal by it; before that it has told them nothing.
CompletedIsRecorded ==
  IF status = "completed"
  THEN /\ stored = history
       /\ outcomes = <<FinalSuccess(history)>>
       /\ goal = IF FinalSuccess(history) THEN "completed" ELSE "failed"
  ELSE outcomes = <<>> /\ goal \in {"absent", "active"}

\* How often s was entered.
Entered(s) == Cardinality({i \in DOMAIN trace : trace[i] = s})

\* The trace in the result tells what happened: every act begun, which are no more
\* than multiActMaxSteps, a result reported once, nothing after it, learning only in a
\* run that completed.
TraceTells ==
  /\ Entered("act") = Len(history) + (IF pc = "act" THEN 1 ELSE 0)
  /\ Entered("act") <= MaxSteps
  /\ Entered("complete") = IF status \in {"completed", "dry_run"} THEN 1 ELSE 0
  /\ Entered("error") = IF status = "error" THEN 1 ELSE 0
  /\ Entered("learn") = Len(outcomes)
  /\ status \in {"completed", "dry_run"} => trace[Len(trace)] = "complete"
=============================================================================
