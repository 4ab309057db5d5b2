------------------------ MODULE CognitiveAgentProofs ------------------------
(***************************************************************************)
(* What a run of CognitiveAgent does and records, for every set of actions *)
(* and permissions and every bound on acts and retries.                    *)
(***************************************************************************)
EXTENDS GoalRuns, SequenceTheorems, FiniteSetTheorems, WellFoundedInduction, TLAPS

\* The awaits before the first act, and before the plan is stored.
BeforePlan == {"idle", "observe", "memory", "plan"}
BeforeLoop == BeforePlan \cup {"llm", "log"}

\* What is about to be acted has passed the gate.
GateInv == OnlyPermitted /\ (pc = "act" => decision \in Allowed)

\* step counts the acts that have returned.
CountInv ==
  /\ Len(history) <= MaxSteps
  /\ pc \in BeforeLoop => history = <<>> /\ step = 0
  /\ pc = "act" => Len(history) = step
  /\ pc = "next" => Len(history) = step + 1 /\ step + 1 < MaxSteps
  /\ pc \in BeforePlan \cup {"llm"} => attempt < MaxRetries

\* Only a run that is not dry stores its plan.
DryInv == /\ DryRunInert
          /\ pc = "plan" => dryRun = "no"
          /\ pc \in BeforePlan => plans = 0

\* The acts are stored in order, once the loop is over and before the run learns.
RecordInv ==
  /\ CompletedIsRecorded
  /\ pc # "done" => status = "none"
  /\ pc \in BeforeLoop \cup {"act", "next"} => stored = <<>>
  /\ pc = "store" => /\ Len(stored) < Len(history)
                     /\ \A i \in 1..Len(stored) : stored[i] = history[i]

Inv == TypeOK /\ GateInv /\ CountInv /\ DryInv /\ RecordInv
-----------------------------------------------------------------------------
(* Lemmas *)

LEMMA Bounds == MaxSteps \in Nat \ {0} /\ MaxRetries \in Nat \ {0} /\ Allowed \subseteq Actions
                /\ "complete_run" \notin Actions
  BY AgentAssumption

LEMMA EnterType ==
  ASSUME trace \in Seq(States), NEW s \in Seq(States), Enter(s)
  PROVE  trace' \in Seq(States)
  BY DEF Enter

LEMMA SameSequence ==
  ASSUME NEW S, NEW s \in Seq(S), NEW t \in Seq(S), Len(s) = Len(t),
         \A i \in 1..Len(s) : s[i] = t[i]
  PROVE  s = t
  BY SeqEqual

LEMMA InitInv == Init => Inv
<1> SUFFICES ASSUME Init PROVE Inv
  OBVIOUS
<1>1. /\ trace \in Seq(States) /\ history \in Seq(Acts) /\ stored \in Seq(Acts)
      /\ outcomes \in Seq(BOOLEAN) /\ Len(history) = 0 /\ DOMAIN history = {}
  BY DEF Init
<1>2. TypeOK
  BY <1>1, Bounds DEF Init, TypeOK, Decisions, Waits
<1>3. GateInv /\ CountInv
  BY <1>1, Bounds DEF Init, GateInv, OnlyPermitted, CountInv, BeforeLoop, BeforePlan
<1>4. DryInv /\ RecordInv
  BY DEF Init, DryInv, DryRunInert, RecordInv, CompletedIsRecorded, BeforePlan, BeforeLoop
<1> QED  BY <1>2, <1>3, <1>4 DEF Inv
-----------------------------------------------------------------------------
(* The pieces of the steps *)

LEMMA LearnStep ==
  ASSUME TypeOK, NEW h \in Seq(Acts), NEW before \in Seq(States), Learn(h, before)
  PROVE  /\ trace' \in Seq(States) /\ pc' = "done" /\ status' = "completed"
         /\ FinalSuccess(h) \in BOOLEAN
         /\ outcomes' = Append(outcomes, FinalSuccess(h))
         /\ goal' = IF FinalSuccess(h) THEN "completed" ELSE "failed"
<1>1. <<"learn", "complete">> \in Seq(States)
  BY DEF States
<1>2. before \o <<"learn", "complete">> \in Seq(States)
  BY <1>1
<1>3. trace' \in Seq(States)
  BY <1>2, EnterType DEF Learn, TypeOK
<1>4. FinalSuccess(h) \in BOOLEAN
  <2>1. CASE h = <<>>
    BY <2>1 DEF FinalSuccess
  <2>2. CASE h # <<>>
    <3>1. Len(h) \in 1..Len(h)
      BY <2>2
    <3>2. h[Len(h)] \in Acts
      BY <3>1
    <3> QED  BY <2>2, <3>2 DEF FinalSuccess, Acts
  <2> QED  BY <2>1, <2>2
<1> QED  BY <1>3, <1>4 DEF Learn, Return

LEMMA LeaveLoopStep ==
  ASSUME TypeOK, NEW h \in Seq(Acts), LeaveLoop(h)
  PROVE  /\ trace' \in Seq(States)
         /\ \/ /\ h = <<>> /\ pc' = "done" /\ status' = "completed"
               /\ outcomes' = Append(outcomes, TRUE) /\ goal' = "completed"
            \/ /\ h # <<>> /\ pc' = "store"
               /\ UNCHANGED <<status, outcomes, goal>>
<1>1. <<"store_results">> \in Seq(States)
  BY DEF States
<1>2. CASE h = <<>>
  BY <1>1, <1>2, LearnStep DEF LeaveLoop, FinalSuccess
<1>3. CASE h # <<>>
  BY <1>1, <1>3, EnterType DEF LeaveLoop, Await, TypeOK
<1> QED  BY <1>2, <1>3

LEMMA TurnStep ==
  ASSUME TypeOK, NEW d, NEW n, Turn(d, n)
  PROVE  /\ trace' \in Seq(States)
         /\ \/ /\ pc' = "done" /\ status' \in {"error", "dry_run"}
               /\ UNCHANGED <<goal, outcomes>>
            \/ LeaveLoop(history)
            \/ /\ pc' = "act" /\ dryRun = "no" /\ d \in Allowed
               /\ UNCHANGED <<status, goal, outcomes>>
<1>1. <<"error">> \in Seq(States) /\ <<"complete">> \in Seq(States) /\ <<"act">> \in Seq(States)
  BY DEF States
<1>2. CASE ~Permitted(d, n)
  BY <1>1, <1>2, EnterType DEF Turn, Return, TypeOK
<1>3. CASE Permitted(d, n) /\ d = "complete_run"
  BY <1>3, LeaveLoopStep DEF Turn, TypeOK
<1>4. CASE Permitted(d, n) /\ d # "complete_run" /\ SkipsAct
  BY <1>1, <1>4, EnterType DEF Turn, Return, TypeOK
<1>5. CASE Permitted(d, n) /\ d # "complete_run" /\ ~SkipsAct
  BY <1>1, <1>5, EnterType DEF Turn, Await, TypeOK, Permitted, SkipsAct
<1> QED  BY <1>2, <1>3, <1>4, <1>5

LEMMA DecideStep ==
  ASSUME TypeOK, NEW before \in Seq(States), Decide(before)
  PROVE  /\ trace' \in Seq(States) /\ status' = status
         /\ decision' \in Decisions \cup {"none"}
         /\ pc' \in {"log", "llm"}
<1>1. before \o <<"validate_output">> \in Seq(States) /\ before \o <<"query_llm">> \in Seq(States)
  <2>1. <<"validate_output">> \in Seq(States) /\ <<"query_llm">> \in Seq(States)
    BY DEF States
  <2> QED  BY <2>1
<1> QED  BY <1>1, EnterType DEF Decide, Await, TypeOK
-----------------------------------------------------------------------------
(* The steps up to the loop *)

\* A step before the loop that keeps to the order of the awaits, or ends the run.
LEMMA EarlyStep ==
  ASSUME Inv, pc \in BeforeLoop \ {"log"}, UNCHANGED <<dryRun, step, history, stored, outcomes>>,
         goal' = goal \/ goal' \in {"absent", "active"},
         trace' \in Seq(States), decision' \in Decisions \cup {"none"},
         attempt' \in 0..MaxRetries,
         \/ /\ pc' \in BeforeLoop /\ status' = status
            /\ pc' # "log" => attempt' < MaxRetries
            /\ pc' = "plan" => dryRun = "no"
            /\ pc' \in BeforePlan => plans' = plans /\ pc \in BeforePlan
         \/ pc' = "done" /\ status' \in {"error", "idle"},
         \/ plans' = plans
         \/ pc = "plan" /\ plans' = plans + 1
  PROVE  Inv'
<1> USE DEF Inv, BeforeLoop, BeforePlan
<1>1. history = <<>> /\ step = 0 /\ stored = <<>> /\ status = "none"
  BY DEF CountInv, RecordInv
<1>2. plans' \in 0..1 /\ (dryRun # "no" => plans' = 0)
  BY DEF TypeOK, DryInv, DryRunInert
<1>3. TypeOK'
  BY <1>1, <1>2 DEF TypeOK, Decisions, Waits
<1>4. GateInv' /\ CountInv'
  BY <1>1 DEF GateInv, OnlyPermitted, CountInv
<1>5. DryInv'
  BY <1>1, <1>2 DEF DryInv, DryRunInert
<1>6. RecordInv'
  BY <1>1 DEF RecordInv, CompletedIsRecorded
<1> QED  BY <1>3, <1>4, <1>5, <1>6

LEMMA RunOnceInv ==
  ASSUME Inv, RunOnce
  PROVE  Inv'
<1>1. <<"observe">> \in Seq(States)
  BY DEF States
<1>2. trace' \in Seq(States)
  BY <1>1, EnterType DEF RunOnce, Inv, TypeOK
<1> QED  BY <1>2, EarlyStep DEF RunOnce, Await, loopVars, stateVars, Inv, TypeOK, CountInv,
                                BeforeLoop, BeforePlan

LEMMA ObservedInv ==
  ASSUME Inv, Observed
  PROVE  Inv'
<1>1. <<"retrieve_memory">> \in Seq(States) /\ <<"retrieve_memory", "error">> \in Seq(States)
  BY DEF States
<1>2. trace' \in Seq(States)
  BY <1>1, EnterType DEF Observed, Inv, TypeOK
<1> QED  BY <1>2, EarlyStep DEF Observed, Await, Return, loopVars, stateVars, Inv, TypeOK,
                                CountInv, BeforeLoop, BeforePlan

LEMMA MemoryReadInv ==
  ASSUME Inv, MemoryRead
  PROVE  Inv'
<1> DEFINE planned == <<"update_world", "update_self", "plan_goals">>
<1>1. /\ planned \in Seq(States) /\ planned \o <<"simulate">> \in Seq(States)
      /\ planned \o <<"simulate", "error">> \in Seq(States)
  <2>1. /\ planned \in Seq(States) /\ <<"simulate">> \in Seq(States)
        /\ <<"simulate", "error">> \in Seq(States)
    BY DEF States
  <2> QED  BY <2>1
<1> HIDE DEF planned
<1>2. /\ pc = "memory" /\ UNCHANGED <<dryRun, attempt, step, history, stored, plans, outcomes>>
      /\ goal' \in {"absent", "active"}
      /\ \/ Enter(planned) /\ Return("idle") /\ UNCHANGED decision
         \/ Enter(planned \o <<"simulate", "error">>) /\ Return("error") /\ UNCHANGED decision
         \/ dryRun = "no" /\ Enter(planned \o <<"simulate">>) /\ Await("plan") /\ UNCHANGED decision
         \/ Decide(planned \o <<"simulate">>)
  BY DEF MemoryRead, planned
<1>3. TypeOK /\ attempt \in 0..MaxRetries /\ attempt < MaxRetries
      /\ decision \in Decisions \cup {"none"}
  BY <1>2 DEF Inv, TypeOK, CountInv, BeforePlan
<1>4. CASE Decide(planned \o <<"simulate">>)
  BY <1>1, <1>2, <1>3, <1>4, DecideStep, EarlyStep DEF BeforeLoop, BeforePlan
<1>5. CASE ~Decide(planned \o <<"simulate">>)
  <2>1. trace' \in Seq(States)
    BY <1>1, <1>2, <1>3, <1>5, EnterType DEF TypeOK
  <2> QED  BY <1>2, <1>3, <1>5, <2>1, EarlyStep DEF Await, Return, BeforeLoop, BeforePlan
<1> QED  BY <1>4, <1>5

LEMMA PlanStoredInv ==
  ASSUME Inv, PlanStored
  PROVE  Inv'
<1>1. <<>> \in Seq(States)
  OBVIOUS
<1>2. /\ trace' \in Seq(States) /\ status' = status /\ pc' \in {"log", "llm"}
      /\ decision' \in Decisions \cup {"none"}
  BY <1>1, DecideStep DEF PlanStored, Inv
<1> QED  BY <1>2, EarlyStep DEF PlanStored, Inv, TypeOK, CountInv, BeforeLoop, BeforePlan

LEMMA LlmInv ==
  ASSUME Inv, LlmDecides \/ LlmFailsValidation \/ LlmDecidesNothing
  PROVE  Inv'
<1>1. /\ <<"validate_output">> \in Seq(States) /\ <<"validate_output", "error">> \in Seq(States)
  BY DEF States
<1>2. trace' \in Seq(States)
  BY <1>1, EnterType DEF LlmDecides, LlmFailsValidation, LlmDecidesNothing, Inv, TypeOK
<1>3. attempt \in 0..MaxRetries /\ attempt < MaxRetries
  BY DEF LlmDecides, LlmFailsValidation, LlmDecidesNothing, Inv, TypeOK, CountInv
<1>4. CASE LlmDecides
  BY <1>2, <1>3, <1>4, EarlyStep DEF LlmDecides, Await, stateVars, BeforeLoop, BeforePlan
<1>5. CASE LlmFailsValidation
  <2>1. attempt' \in 0..MaxRetries /\ (attempt # MaxRetries - 1 => attempt' < MaxRetries)
    BY <1>3, <1>5, Bounds DEF LlmFailsValidation
  <2> QED  BY <1>2, <1>5, <2>1, EarlyStep DEF LlmFailsValidation, Await, Return, loopVars, stateVars,
                                             Inv, TypeOK, BeforeLoop, BeforePlan
<1>6. CASE LlmDecidesNothing
  BY <1>2, <1>3, <1>6, EarlyStep DEF LlmDecidesNothing, Return, loopVars, stateVars, Inv, TypeOK,
                                     BeforeLoop, BeforePlan
<1> QED  BY <1>4, <1>5, <1>6
-----------------------------------------------------------------------------
(* The loop *)

LEMMA HistoryPermitted ==
  ASSUME Inv
  PROVE  /\ history \in Seq(Acts) /\ Len(history) <= MaxSteps
         /\ \A i \in 1..Len(history) : history[i].type \in Allowed
         /\ history # <<>> => dryRun = "no"
<1>1. history \in Seq(Acts)
  BY DEF Inv, TypeOK
<1>2. DOMAIN history = 1..Len(history)
  BY <1>1
<1>3. \A i \in 1..Len(history) : history[i].type \in Allowed
  BY <1>2 DEF Inv, GateInv, OnlyPermitted
<1> QED  BY <1>1, <1>3 DEF Inv, CountInv, DryInv, DryRunInert

\* The loop ends with the acts of h behind it: none of them is stored yet.
LEMMA LoopEnds ==
  ASSUME Inv, pc \in {"log", "act", "next"}, NEW h \in Seq(Acts), LeaveLoop(h), history' = h,
         Len(h) <= MaxSteps, \A i \in 1..Len(h) : h[i].type \in Allowed,
         h # <<>> => dryRun = "no",
         UNCHANGED <<dryRun, attempt, stored, plans>>,
         decision' \in Decisions \cup {"none"}, step' \in 0..(MaxSteps - 1)
  PROVE  Inv'
<1> USE DEF Inv
<1>1. /\ trace' \in Seq(States)
      /\ \/ /\ h = <<>> /\ pc' = "done" /\ status' = "completed"
            /\ outcomes' = Append(outcomes, TRUE) /\ goal' = "completed"
         \/ /\ h # <<>> /\ pc' = "store"
            /\ UNCHANGED <<status, outcomes, goal>>
  BY LeaveLoopStep
<1>2. /\ stored = <<>> /\ status = "none" /\ outcomes = <<>> /\ goal \in {"absent", "active"}
      /\ Append(outcomes, TRUE) = <<TRUE>> /\ Len(stored) = 0
  <2>1. stored = <<>> /\ status = "none"
    BY DEF RecordInv, BeforeLoop
  <2>2. outcomes = <<>> /\ goal \in {"absent", "active"}
    BY <2>1 DEF RecordInv, CompletedIsRecorded
  <2>3. Append(<<>>, TRUE) = <<TRUE>> /\ Len(<<>>) = 0
    OBVIOUS
  <2> QED  BY <2>1, <2>2, <2>3
<1>3. TypeOK'
  <2>1. outcomes' \in Seq(BOOLEAN)
    <3>1. <<TRUE>> \in Seq(BOOLEAN)
      OBVIOUS
    <3> QED  BY <1>1, <1>2, <3>1 DEF TypeOK
  <2> QED  BY <1>1, <2>1 DEF TypeOK, Waits
<1>4. DOMAIN h = 1..Len(h) /\ Len(h) \in Nat
  OBVIOUS
<1>5. GateInv' /\ CountInv'
  BY <1>1, <1>4 DEF GateInv, OnlyPermitted, CountInv, BeforeLoop, BeforePlan
<1>6. DryInv'
  BY <1>1, <1>2 DEF DryInv, DryRunInert, BeforePlan
<1>7. RecordInv'
  <2>1. CASE h = <<>>
    <3>1. outcomes' = <<FinalSuccess(h)>> /\ FinalSuccess(h) = TRUE
      BY <1>1, <1>2, <2>1 DEF FinalSuccess
    <3> QED  BY <1>1, <1>2, <2>1, <3>1 DEF RecordInv, CompletedIsRecorded, BeforeLoop, BeforePlan, FinalSuccess
  <2>2. CASE h # <<>>
    <3>1. Len(stored') = 0 /\ Len(h) > 0
      BY <1>2, <1>4, <2>2
    <3>2. /\ pc' = "store" /\ status' = "none" /\ outcomes' = <<>> /\ goal' \in {"absent", "active"}
      BY <1>1, <1>2, <2>2
    <3>3. CompletedIsRecorded'
      BY <3>2 DEF CompletedIsRecorded
    <3>4. \A i \in 1..Len(stored') : stored'[i] = history'[i]
      BY <3>1
    <3> QED  BY <3>1, <3>2, <3>3, <3>4 DEF RecordInv, BeforeLoop, BeforePlan
  <2> QED  BY <2>1, <2>2
<1> QED  BY <1>3, <1>5, <1>6, <1>7

\* A turn of the loop, the first or a later one.
LEMMA LoopTurns ==
  ASSUME Inv, NEW d \in Decisions \cup {"none"}, NEW n \in 0..(MaxSteps - 1), Turn(d, n),
         pc \in {"log", "next"}, Len(history) = n, decision' = d, step' = n,
         UNCHANGED <<dryRun, attempt, history, stored, plans>>
  PROVE  Inv'
<1> USE DEF Inv
<1>1. /\ trace' \in Seq(States)
      /\ \/ /\ pc' = "done" /\ status' \in {"error", "dry_run"}
            /\ UNCHANGED <<goal, outcomes>>
         \/ LeaveLoop(history)
         \/ /\ pc' = "act" /\ dryRun = "no" /\ d \in Allowed
            /\ UNCHANGED <<status, goal, outcomes>>
  BY TurnStep
<1>2. /\ history \in Seq(Acts) /\ Len(history) <= MaxSteps
      /\ \A i \in 1..Len(history) : history[i].type \in Allowed
      /\ history # <<>> => dryRun = "no"
  BY HistoryPermitted
<1>3. CASE LeaveLoop(history)
  BY <1>2, <1>3, LoopEnds
<1>4. CASE ~LeaveLoop(history)
  <2>1. TypeOK'
    BY <1>1, <1>4 DEF TypeOK, Waits
  <2>2. GateInv' /\ CountInv'
    BY <1>1, <1>2, <1>4 DEF GateInv, OnlyPermitted, CountInv, BeforeLoop, BeforePlan
  <2>3. DryInv'
    BY <1>1, <1>4 DEF DryInv, DryRunInert, BeforePlan
  <2>4. RecordInv'
    BY <1>1, <1>4 DEF RecordInv, CompletedIsRecorded, BeforeLoop, BeforePlan
  <2> QED  BY <2>1, <2>2, <2>3, <2>4
<1> QED  BY <1>3, <1>4

LEMMA FirstTurnInv ==
  ASSUME Inv, FirstTurn
  PROVE  Inv'
<1>1. Len(history) = 0 /\ step = 0 /\ pc = "log"
  BY DEF FirstTurn, Inv, CountInv, BeforeLoop
<1>2. decision \in Decisions \cup {"none"} /\ step \in 0..(MaxSteps - 1)
  BY DEF Inv, TypeOK
<1> QED  BY <1>1, <1>2, LoopTurns DEF FirstTurn, loopVars

LEMMA ActReturnsInv ==
  ASSUME Inv, ActReturns
  PROVE  Inv'
<1> USE DEF Inv
<1>1. PICK success \in BOOLEAN :
        LET h == Append(history, [type |-> decision, success |-> success])
        IN /\ history' = h
           /\ IF LastStep(step) THEN LeaveLoop(h)
              ELSE trace' = trace /\ Await("next") /\ UNCHANGED <<goal, outcomes>>
  BY DEF ActReturns
<1> DEFINE act == [type |-> decision, success |-> success]
           h   == Append(history, act)
<1>2. /\ pc = "act" /\ decision \in Allowed /\ dryRun = "no" /\ Len(history) = step
      /\ step \in 0..(MaxSteps - 1) /\ MaxSteps \in Nat
      /\ UNCHANGED <<dryRun, attempt, decision, step, stored, plans>>
      /\ history \in Seq(Acts) /\ decision \in Decisions \cup {"none"}
      /\ stored = <<>> /\ status = "none"
  BY Bounds DEF ActReturns, GateInv, CountInv, DryInv, DryRunInert, TypeOK, RecordInv, BeforeLoop
<1>3. act \in Acts /\ act.type \in Allowed
  BY <1>2, Bounds DEF Acts
<1> HIDE DEF act
<1>4. /\ h \in Seq(Acts) /\ Len(h) = step + 1 /\ h # <<>>
      /\ \A i \in 1..Len(h) : h[i] = IF i = step + 1 THEN act ELSE history[i]
  <2>1. h = Append(history, act) /\ h \in Seq(Acts) /\ Len(h) = Len(history) + 1
    BY <1>2, <1>3, AppendProperties
  <2>2. \A i \in 1..Len(history) : h[i] = history[i]
    BY <1>2, <1>3, AppendProperties
  <2>3. h[Len(history) + 1] = act
    BY <1>2, <1>3, AppendProperties
  <2>4. h # <<>>
    BY <1>2, <1>3, AppendProperties
  <2> HIDE DEF h
  <2> QED  BY <1>2, <2>1, <2>2, <2>3, <2>4
<1>5. \A i \in 1..Len(h) : h[i].type \in Allowed
  <2>1. \A i \in 1..step : history[i].type \in Allowed
    BY <1>2 DEF GateInv, OnlyPermitted
  <2> QED  BY <1>2, <1>3, <1>4, <2>1
<1>6. history' = h
  BY <1>1 DEF act
<1> HIDE DEF h
<1>7. CASE LastStep(step)
  <2>1. LeaveLoop(h)
    BY <1>1, <1>7 DEF h, act
  <2> QED  BY <1>2, <1>4, <1>5, <1>6, <2>1, LoopEnds
<1>8. CASE ~LastStep(step)
  <2>1. trace' = trace /\ pc' = "next" /\ UNCHANGED <<status, goal, outcomes>>
    BY <1>1, <1>8 DEF Await
  <2>2. step + 1 < MaxSteps
    BY <1>2, <1>8 DEF LastStep
  <2>3. TypeOK'
    BY <1>2, <1>4, <1>6, <2>1 DEF TypeOK, Waits
  <2>4. DOMAIN h = 1..Len(h)
    BY <1>4
  <2>5. GateInv' /\ CountInv'
    BY <1>2, <1>4, <1>5, <1>6, <2>1, <2>2, <2>4 DEF GateInv, OnlyPermitted, CountInv, BeforeLoop, BeforePlan
  <2>6. DryInv'
    BY <1>2, <2>1 DEF DryInv, DryRunInert, BeforePlan
  <2>7. RecordInv'
    BY <1>2, <2>1 DEF RecordInv, CompletedIsRecorded, BeforeLoop, BeforePlan
  <2> QED  BY <2>3, <2>5, <2>6, <2>7
<1> QED  BY <1>7, <1>8

LEMMA NextDecisionInv ==
  ASSUME Inv, NextDecision
  PROVE  Inv'
<1> USE DEF Inv
<1>1. /\ pc = "next" /\ step \in 0..(MaxSteps - 1) /\ Len(history) = step + 1
      /\ step + 1 \in 0..(MaxSteps - 1) /\ decision \in Decisions \cup {"none"}
      /\ UNCHANGED <<dryRun, attempt, history, stored, plans>>
  BY Bounds DEF NextDecision, TypeOK, CountInv
<1>2. CASE decision' \in Decisions /\ step' = step + 1 /\ Turn(decision', step + 1)
  BY <1>1, <1>2, LoopTurns
<1>3. CASE UNCHANGED <<decision, step>> /\ LeaveLoop(history)
  <2>1. /\ history \in Seq(Acts) /\ Len(history) <= MaxSteps
        /\ \A i \in 1..Len(history) : history[i].type \in Allowed
        /\ history # <<>> => dryRun = "no"
    BY HistoryPermitted
  <2> QED  BY <1>1, <1>3, <2>1, LoopEnds
<1> QED  BY <1>2, <1>3 DEF NextDecision
-----------------------------------------------------------------------------
(* After the loop *)

LEMMA ActStoredInv ==
  ASSUME Inv, ActStored
  PROVE  Inv'
<1> USE DEF Inv
<1>1. /\ pc = "store" /\ UNCHANGED <<dryRun, attempt, decision, step, history, plans>>
      /\ history \in Seq(Acts) /\ stored \in Seq(Acts) /\ Len(stored) < Len(history)
      /\ \A i \in 1..Len(stored) : stored[i] = history[i]
      /\ status = "none"
  BY DEF ActStored, loopVars, TypeOK, RecordInv
<1>2. outcomes = <<>> /\ goal \in {"absent", "active"}
  BY <1>1 DEF RecordInv, CompletedIsRecorded
<1> DEFINE n == Len(stored) + 1
<1>3. n \in 1..Len(history) /\ history[n] \in Acts
  BY <1>1
<1>4. stored' = Append(stored, history[n])
  BY DEF ActStored
<1>5. /\ stored' \in Seq(Acts) /\ Len(stored') = n
      /\ \A i \in 1..Len(stored) : stored'[i] = stored[i]
      /\ stored'[n] = history[n]
  BY <1>1, <1>3, <1>4, AppendProperties
<1>6. \A i \in 1..Len(stored') : stored'[i] = history[i]
  BY <1>1, <1>3, <1>5
<1>7. dryRun = "no"
  <2>1. history # <<>>
    BY <1>3
  <2> QED  BY <2>1 DEF DryInv, DryRunInert
<1>8. DryInv'
  BY <1>1, <1>7 DEF ActStored, DryInv, DryRunInert, BeforePlan, Learn, Return, Await
<1>9. CASE n = Len(history)
  <2>1. Learn(history, <<>>)
    BY <1>9 DEF ActStored
  <2>2. <<>> \in Seq(States)
    OBVIOUS
  <2>3. /\ trace' \in Seq(States) /\ pc' = "done" /\ status' = "completed"
        /\ FinalSuccess(history) \in BOOLEAN
        /\ outcomes' = Append(outcomes, FinalSuccess(history))
        /\ goal' = IF FinalSuccess(history) THEN "completed" ELSE "failed"
    BY <1>1, <2>1, <2>2, LearnStep
  <2>4. outcomes' = <<FinalSuccess(history)>> /\ outcomes' \in Seq(BOOLEAN)
    <3>1. Append(<<>>, FinalSuccess(history)) = <<FinalSuccess(history)>>
      OBVIOUS
    <3>2. <<FinalSuccess(history)>> \in Seq(BOOLEAN)
      BY <2>3
    <3> QED  BY <1>2, <2>3, <3>1, <3>2
  <2>5. stored' = history
    BY <1>1, <1>5, <1>6, <1>9, SameSequence
  <2>6. TypeOK'
    BY <1>1, <1>5, <2>3, <2>4 DEF TypeOK
  <2>7. GateInv' /\ CountInv'
    BY <1>1, <2>3 DEF GateInv, OnlyPermitted, CountInv, BeforeLoop, BeforePlan
  <2>8. FinalSuccess(history)' = FinalSuccess(history)
    BY <1>1 DEF FinalSuccess
  <2>9. RecordInv'
    BY <1>1, <2>3, <2>4, <2>5, <2>8 DEF RecordInv, CompletedIsRecorded, BeforeLoop, BeforePlan
  <2> QED  BY <1>8, <2>6, <2>7, <2>9
<1>10. CASE n # Len(history)
  <2>1. trace' = trace /\ pc' = "store" /\ UNCHANGED <<status, goal, outcomes>>
    BY <1>10 DEF ActStored, Await
  <2>2. n < Len(history)
    BY <1>3, <1>10
  <2>3. TypeOK'
    BY <1>1, <1>5, <2>1 DEF TypeOK
  <2>4. GateInv' /\ CountInv'
    BY <1>1, <2>1 DEF GateInv, OnlyPermitted, CountInv, BeforeLoop, BeforePlan
  <2>5. CompletedIsRecorded'
    BY <1>1, <1>2, <2>1 DEF CompletedIsRecorded
  <2>6. RecordInv'
    BY <1>1, <1>5, <1>6, <2>1, <2>2, <2>5 DEF RecordInv, BeforeLoop, BeforePlan
  <2> QED  BY <1>8, <2>3, <2>4, <2>6
<1> QED  BY <1>9, <1>10

LEMMA RejectsInv ==
  ASSUME Inv, Rejects
  PROVE  Inv'
<1> USE DEF Inv
<1>1. <<"error">> \in Seq(States)
  BY DEF States
<1>2. /\ trace' \in Seq(States) /\ pc' = "done" /\ status' = "error"
      /\ UNCHANGED <<dryRun, attempt, decision, step, history, goal, stored, plans, outcomes>>
      /\ pc # "done"
  BY <1>1, EnterType DEF Rejects, Return, loopVars, stateVars, TypeOK
<1>3. TypeOK'
  BY <1>2 DEF TypeOK
<1>4. GateInv' /\ CountInv' /\ DryInv'
  BY <1>2 DEF GateInv, OnlyPermitted, CountInv, DryInv, DryRunInert, BeforeLoop, BeforePlan
<1>5. RecordInv'
  BY <1>2 DEF RecordInv, CompletedIsRecorded, BeforeLoop, BeforePlan
<1> QED  BY <1>3, <1>4, <1>5

LEMMA StepInv == Inv /\ [Next]_vars => Inv'
<1> SUFFICES ASSUME Inv, [Next]_vars
             PROVE  Inv'
  OBVIOUS
<1>1. CASE Next
  BY <1>1, RunOnceInv, ObservedInv, MemoryReadInv, PlanStoredInv, LlmInv, FirstTurnInv,
     ActReturnsInv, NextDecisionInv, ActStoredInv, RejectsInv DEF Next, Memory, Llm
<1>2. CASE UNCHANGED vars
  <2>1. TypeOK' /\ GateInv' /\ CountInv'
    BY <1>2 DEF vars, Inv, TypeOK, GateInv, OnlyPermitted, CountInv
  <2>2. DryInv' /\ RecordInv'
    BY <1>2 DEF vars, Inv, DryInv, DryRunInert, RecordInv, CompletedIsRecorded, FinalSuccess
  <2> QED  BY <2>1, <2>2 DEF Inv
<1> QED  BY <1>1, <1>2
-----------------------------------------------------------------------------
(* Theorems *)

\* The inductive invariant holds of every run.
THEOREM AgentInvariance == Spec => []Inv
<1> QED  BY InitInv, StepInv, PTL DEF Spec

\* Every variable keeps its type: retries and steps stay within their bounds.
THEOREM AgentTypeCorrect == Spec => []TypeOK
<1>1. Inv => TypeOK
  BY DEF Inv
<1> QED  BY <1>1, AgentInvariance, PTL

\* Every act of a run, the first and all later ones, was let pass by the permission gate.
THEOREM ActsPermitted == Spec => []OnlyPermitted
<1>1. Inv => OnlyPermitted
  BY DEF Inv, GateInv
<1> QED  BY <1>1, AgentInvariance, PTL

\* A run acts no more than multiActMaxSteps times, whatever the model decides.
THEOREM MultiActBounded == Spec => []ActsBounded
<1>1. Inv => ActsBounded
  <2> SUFFICES ASSUME Inv PROVE ActsBounded
    OBVIOUS
  <2>1. Len(history) \in Nat /\ step \in 0..(MaxSteps - 1) /\ MaxSteps \in Nat
    BY Bounds DEF Inv, TypeOK
  <2> QED  BY <2>1 DEF Inv, CountInv, ActsBounded
<1> QED  BY <1>1, AgentInvariance, PTL

\* A dry run, with or without the model, never acts and stores no memory.
THEOREM DryRunsInert == Spec => []DryRunInert
<1>1. Inv => DryRunInert
  BY DEF Inv, DryInv
<1> QED  BY <1>1, AgentInvariance, PTL

\* A run that reports completed has stored every act once and in order, and the self
\* model and the goal know the outcome of the last; any other run has told them nothing.
THEOREM CompletionRecorded == Spec => []CompletedIsRecorded
<1>1. Inv => CompletedIsRecorded
  BY DEF Inv, RecordInv
<1> QED  BY <1>1, AgentInvariance, PTL
-----------------------------------------------------------------------------
(* What the trace tells *)

\* How often x is in q, and the states that are counted.
Count(q, x) == Cardinality({i \in DOMAIN q : q[i] = x})
Marks == {"act", "complete", "error", "learn"}

TraceInv ==
  /\ Count(trace, "act") = Len(history) + (IF pc = "act" THEN 1 ELSE 0)
  /\ Count(trace, "complete") = IF status \in {"completed", "dry_run"} THEN 1 ELSE 0
  /\ Count(trace, "error") = IF status = "error" THEN 1 ELSE 0
  /\ Count(trace, "learn") = Len(outcomes)
  /\ status \in {"completed", "dry_run"} => trace[Len(trace)] = "complete"

LEMMA CountConcat ==
  ASSUME NEW s \in Seq(States), NEW t \in Seq(States), NEW x
  PROVE  /\ Count(s, x) \in Nat /\ Count(t, x) \in Nat
         /\ Count(s \o t, x) = Count(s, x) + Count(t, x)
<1> DEFINE A == {i \in DOMAIN s : s[i] = x}
           B == {i \in DOMAIN t : t[i] = x}
           C == {i \in DOMAIN (s \o t) : (s \o t)[i] = x}
           n == Len(s)
           moved == [i \in B |-> i + n]
           D == {moved[i] : i \in B}
<1>1. /\ DOMAIN s = 1..n /\ DOMAIN t = 1..Len(t) /\ n \in Nat /\ Len(t) \in Nat
      /\ DOMAIN (s \o t) = 1..(n + Len(t))
      /\ \A i \in 1..(n + Len(t)) : (s \o t)[i] = IF i <= n THEN s[i] ELSE t[i - n]
  BY ConcatProperties
<1>2. IsFiniteSet(A) /\ IsFiniteSet(B)
  <2>1. A \subseteq 1..n /\ B \subseteq 1..Len(t)
    BY <1>1
  <2>2. IsFiniteSet(1..n) /\ IsFiniteSet(1..Len(t))
    BY <1>1, FS_Interval
  <2> HIDE DEF A, B
  <2> QED  BY <2>1, <2>2, FS_Subset
<1>3. B \subseteq 1..Len(t)
  BY <1>1
<1>4. IsFiniteSet(D) /\ Cardinality(D) = Cardinality(B)
  <2>1. moved \in Bijection(B, D)
    BY <1>1, <1>3 DEF Bijection, Injection, Surjection, IsInjective
  <2>2. ExistsBijection(B, D)
    BY <2>1 DEF ExistsBijection
  <2> HIDE DEF B, D, moved
  <2> QED  BY <1>2, <2>2, FS_Bijection
<1>5. \A j : j \in D <=> j \in (n + 1)..(n + Len(t)) /\ t[j - n] = x
  <2>1. \A i \in B : moved[i] \in (n + 1)..(n + Len(t)) /\ t[moved[i] - n] = x
    BY <1>1, <1>3
  <2>2. ASSUME NEW j \in (n + 1)..(n + Len(t)), t[j - n] = x
        PROVE  j \in D
    <3>1. j - n \in B /\ moved[j - n] = j
      BY <1>1, <2>2
    <3> QED  BY <3>1
  <2> QED  BY <2>1, <2>2
<1>6. C = A \cup D /\ A \cap D = {}
  <2> HIDE DEF D
  <2>1. \A i \in 1..n : i \in C <=> i \in A
    BY <1>1
  <2>2. ASSUME NEW i \in (n + 1)..(n + Len(t))
        PROVE  i \in C <=> i \in D
    <3>1. i \in 1..(n + Len(t)) /\ (s \o t)[i] = t[i - n]
      BY <1>1
    <3> QED  BY <1>1, <1>5, <3>1
  <2>3. C \subseteq 1..(n + Len(t)) /\ A \subseteq 1..n /\ D \subseteq (n + 1)..(n + Len(t))
    BY <1>1, <1>5
  <2>4. \A i \in 1..(n + Len(t)) : i \in 1..n \/ i \in (n + 1)..(n + Len(t))
    BY <1>1
  <2>5. \A i \in 1..n : i \notin (n + 1)..(n + Len(t))
    BY <1>1
  <2>6. C \subseteq A \cup D
    <3> HIDE DEF A, C
    <3> QED  BY <2>1, <2>2, <2>3, <2>4
  <2>7. A \cup D \subseteq C
    <3> HIDE DEF A, C
    <3> QED  BY <2>1, <2>2, <2>3
  <2> HIDE DEF A, C
  <2> QED  BY <2>3, <2>5, <2>6, <2>7
<1>7. Cardinality(A \cup D) = Cardinality(A) + Cardinality(B)
  <2> HIDE DEF A, B, D
  <2>1. Cardinality(A \cup D) = Cardinality(A) + Cardinality(D) - Cardinality({})
    BY <1>2, <1>4, <1>6, FS_Union
  <2> QED  BY <1>2, <1>4, <2>1, FS_EmptySet, FS_CardinalityType
<1>8. Cardinality(A) \in Nat /\ Cardinality(B) \in Nat
  BY <1>2, FS_CardinalityType
<1> HIDE DEF A, B, C
<1> QED  BY <1>6, <1>7, <1>8 DEF Count, A, B, C

LEMMA CountNone ==
  ASSUME NEW q, NEW x, \A i \in DOMAIN q : q[i] # x
  PROVE  Count(q, x) = 0
<1>1. {i \in DOMAIN q : q[i] = x} = {}
  OBVIOUS
<1> QED  BY <1>1, FS_EmptySet DEF Count

LEMMA CountOne ==
  ASSUME NEW q, NEW k \in DOMAIN q, \A i \in DOMAIN q : q[i] = q[k] => i = k
  PROVE  Count(q, q[k]) = 1
<1>1. {i \in DOMAIN q : q[i] = q[k]} = {k}
  OBVIOUS
<1> QED  BY <1>1, FS_Singleton DEF Count

\* What enters the trace: states that are not counted; and those with one at the end that is.
Plain(q) == q \in Seq(States) /\ \A x \in Marks : Count(q, x) = 0
EndsIn(q, m) ==
  /\ q \in Seq(States) /\ q # <<>> /\ q[Len(q)] = m
  /\ \A x \in Marks : Count(q, x) = IF x = m THEN 1 ELSE 0

LEMMA UncountedIsPlain ==
  ASSUME NEW q \in Seq(States), \A i \in DOMAIN q : q[i] \notin Marks
  PROVE  Plain(q)
BY CountNone DEF Plain

LEMMA OneMark ==
  ASSUME NEW m \in Marks
  PROVE  EndsIn(<<m>>, m)
<1>1. <<m>> \in Seq(States) /\ <<m>> # <<>> /\ <<m>>[1] = m /\ Len(<<m>>) = 1 /\ DOMAIN <<m>> = {1}
  BY DEF Marks, States
<1>2. Count(<<m>>, m) = 1
  BY <1>1, CountOne
<1>3. \A x \in Marks \ {m} : Count(<<m>>, x) = 0
  BY <1>1, CountNone
<1> QED  BY <1>1, <1>2, <1>3 DEF EndsIn

LEMMA PlainJoined ==
  ASSUME NEW s, NEW t, Plain(s), Plain(t)
  PROVE  Plain(s \o t)
BY CountConcat DEF Plain

LEMMA MarkJoined ==
  ASSUME NEW s, NEW t, NEW m \in Marks, Plain(s), EndsIn(t, m)
  PROVE  EndsIn(s \o t, m)
<1>1. s \o t \in Seq(States) /\ s \o t # <<>> /\ (s \o t)[Len(s \o t)] = m
  BY ConcatProperties DEF Plain, EndsIn
<1>2. ASSUME NEW x \in Marks
      PROVE  Count(s \o t, x) = IF x = m THEN 1 ELSE 0
  <2>1. Count(s, x) = 0 /\ Count(t, x) = (IF x = m THEN 1 ELSE 0)
    BY DEF Plain, EndsIn
  <2>2. Count(s \o t, x) = Count(s, x) + Count(t, x)
    BY CountConcat DEF Plain, EndsIn
  <2> QED  BY <2>1, <2>2
<1> QED  BY <1>1, <1>2 DEF EndsIn

LEMMA PlainStates ==
  /\ Plain(<<>>) /\ Plain(<<"observe">>) /\ Plain(<<"retrieve_memory">>)
  /\ Plain(<<"update_world", "update_self", "plan_goals">>) /\ Plain(<<"simulate">>)
  /\ Plain(<<"query_llm">>) /\ Plain(<<"validate_output">>) /\ Plain(<<"store_results">>)
<1>1. Plain(<<>>)
  BY CountNone DEF Plain
<1>2. ASSUME NEW e \in States \ Marks
      PROVE  Plain(<<e>>)
  <2>1. <<e>> \in Seq(States) /\ \A i \in DOMAIN <<e>> : <<e>>[i] = e
    OBVIOUS
  <2> QED  BY <2>1, UncountedIsPlain
<1>3. Plain(<<"update_world", "update_self", "plan_goals">>)
  <2> DEFINE q == <<"update_world", "update_self", "plan_goals">>
  <2>1. q \in Seq(States) /\ \A i \in DOMAIN q : q[i] \notin Marks
    BY DEF States, Marks
  <2> HIDE DEF q
  <2>2. Plain(q)
    BY <2>1, UncountedIsPlain
  <2> QED  BY <2>2 DEF q
<1> QED  BY <1>1, <1>2, <1>3 DEF States, Marks

LEMMA EnterPlain ==
  ASSUME trace \in Seq(States), NEW q, Plain(q), Enter(q)
  PROVE  \A x \in Marks : Count(trace', x) = Count(trace, x)
BY CountConcat DEF Plain, Enter

LEMMA EnterMark ==
  ASSUME trace \in Seq(States), NEW m \in Marks, NEW q, EndsIn(q, m), Enter(q)
  PROVE  /\ \A x \in Marks : Count(trace', x) = Count(trace, x) + IF x = m THEN 1 ELSE 0
         /\ trace'[Len(trace')] = m
<1>1. trace'[Len(trace')] = m
  BY ConcatProperties DEF EndsIn, Enter
<1> QED  BY <1>1, CountConcat DEF EndsIn, Enter

LEMMA JoinThree ==
  ASSUME NEW s \in Seq(States), NEW t \in Seq(States), NEW u \in Seq(States)
  PROVE  (s \o t) \o u = s \o (t \o u)
BY ConcatAssociative

LEMMA EnterLearn ==
  ASSUME trace \in Seq(States), NEW q, Plain(q), Enter(q \o <<"learn", "complete">>)
  PROVE  /\ \A x \in Marks :
              Count(trace', x) = Count(trace, x) + IF x \in {"learn", "complete"} THEN 1 ELSE 0
         /\ trace'[Len(trace')] = "complete"
<1> DEFINE l == <<"learn">>
           c == <<"complete">>
<1>1. EndsIn(l, "learn") /\ EndsIn(c, "complete")
  BY OneMark DEF Marks
<1>2. <<"learn", "complete">> = l \o c
  OBVIOUS
<1> HIDE DEF l, c
<1>3. EndsIn(q \o l, "learn")
  BY <1>1, MarkJoined DEF Marks
<1>4. trace' = (trace \o (q \o l)) \o c
  <2>1. q \in Seq(States) /\ l \in Seq(States) /\ c \in Seq(States) /\ q \o l \in Seq(States)
    BY <1>1, <1>3 DEF Plain, EndsIn
  <2>2. (q \o l) \o c = q \o (l \o c)
    BY ONLY <2>1, JoinThree, Zenon
  <2>3. trace \o ((q \o l) \o c) = (trace \o (q \o l)) \o c
    BY ONLY trace \in Seq(States), <2>1, JoinThree, Zenon
  <2> QED  BY <1>2, <2>2, <2>3 DEF Enter
<1> DEFINE learned == trace \o (q \o l)
<1>5. learned \in Seq(States)
  BY <1>3 DEF EndsIn
<1>6. ASSUME NEW x \in Marks
      PROVE  Count(learned, x) = Count(trace, x) + IF x = "learn" THEN 1 ELSE 0
  <2>1. q \o l \in Seq(States) /\ Count(q \o l, x) = (IF x = "learn" THEN 1 ELSE 0)
    BY <1>3 DEF EndsIn
  <2>2. Count(learned, x) = Count(trace, x) + Count(q \o l, x)
    BY <2>1, CountConcat
  <2> QED  BY <2>1, <2>2
<1>7. ASSUME NEW x \in Marks
      PROVE  Count(trace', x) = Count(learned, x) + IF x = "complete" THEN 1 ELSE 0
  <2>1. c \in Seq(States) /\ Count(c, x) = (IF x = "complete" THEN 1 ELSE 0)
    BY <1>1 DEF EndsIn
  <2> HIDE DEF learned
  <2>2. Count(learned \o c, x) = Count(learned, x) + Count(c, x)
    BY <1>5, <2>1, CountConcat
  <2>3. trace' = learned \o c
    BY <1>4 DEF learned
  <2> QED  BY <2>1, <2>2, <2>3
<1>8. trace'[Len(trace')] = "complete"
  <2> HIDE DEF learned
  <2> QED  BY <1>1, <1>4, <1>5, ConcatProperties DEF EndsIn
<1>9. \A x \in Marks : Count(trace, x) \in Nat
  BY CountConcat
<1> HIDE DEF learned
<1> QED  BY <1>6, <1>7, <1>8, <1>9

\* Leaving the loop: the run learns and completes, or begins to store its acts.
LEMMA TraceLeavesLoop ==
  ASSUME Inv, TraceInv, status = "none", NEW h \in Seq(Acts), LeaveLoop(h), history' = h,
         Count(trace, "act") = Len(h)
  PROVE  TraceInv'
<1>1. trace \in Seq(States) /\ outcomes \in Seq(BOOLEAN)
  BY DEF Inv, TypeOK
<1>2. CASE h = <<>>
  <2>1. Plain(<<"store_results">>)
    BY PlainStates
  <2>2. Enter(<<"store_results">> \o <<"learn", "complete">>) /\ pc' = "done"
        /\ status' = "completed" /\ outcomes' = Append(outcomes, FinalSuccess(h))
    BY <1>2 DEF LeaveLoop, Learn, Return
  <2>3. FinalSuccess(h) \in BOOLEAN
    BY <1>2 DEF FinalSuccess
  <2>4. Len(outcomes') = Len(outcomes) + 1
    BY <1>1, <2>2, <2>3
  <2>5. /\ \A x \in Marks :
             Count(trace', x) = Count(trace, x) + IF x \in {"learn", "complete"} THEN 1 ELSE 0
        /\ trace'[Len(trace')] = "complete"
    BY <1>1, <2>1, <2>2, EnterLearn
  <2> QED  BY <1>1, <2>2, <2>4, <2>5 DEF TraceInv, Marks
<1>3. CASE h # <<>>
  <2>1. Plain(<<"store_results">>) /\ Enter(<<"store_results">>)
        /\ pc' = "store" /\ status' = status /\ outcomes' = outcomes
    BY <1>3, PlainStates DEF LeaveLoop, Await
  <2>2. \A x \in Marks : Count(trace', x) = Count(trace, x)
    BY <1>1, <2>1, EnterPlain
  <2> QED  BY <2>1, <2>2 DEF TraceInv, Marks
<1> QED  BY <1>2, <1>3

LEMMA TraceTurns ==
  ASSUME Inv, TraceInv, status = "none", NEW d, NEW n, Turn(d, n), UNCHANGED history,
         Count(trace, "act") = Len(history)
  PROVE  TraceInv'
<1>1. trace \in Seq(States) /\ history \in Seq(Acts) /\ Len(history) \in Nat
  BY DEF Inv, TypeOK
<1>2. CASE LeaveLoop(history)
  BY <1>1, <1>2, TraceLeavesLoop
<1>3. CASE Enter(<<"error">>) /\ Return("error") /\ UNCHANGED outcomes
  <2>1. \A x \in Marks : Count(trace', x) = Count(trace, x) + IF x = "error" THEN 1 ELSE 0
    BY <1>1, <1>3, OneMark, EnterMark DEF Marks
  <2> QED  BY <1>1, <1>3, <2>1 DEF TraceInv, Marks, Return
<1>4. CASE Enter(<<"complete">>) /\ Return("dry_run") /\ UNCHANGED outcomes
  <2>1. /\ \A x \in Marks : Count(trace', x) = Count(trace, x) + IF x = "complete" THEN 1 ELSE 0
        /\ trace'[Len(trace')] = "complete"
    BY <1>1, <1>4, OneMark, EnterMark DEF Marks
  <2> QED  BY <1>1, <1>4, <2>1 DEF TraceInv, Marks, Return
<1>5. CASE Enter(<<"act">>) /\ Await("act") /\ UNCHANGED outcomes
  <2>1. \A x \in Marks : Count(trace', x) = Count(trace, x) + IF x = "act" THEN 1 ELSE 0
    BY <1>1, <1>5, OneMark, EnterMark DEF Marks
  <2> QED  BY <1>1, <1>5, <2>1 DEF TraceInv, Marks, Await
<1> QED  BY <1>2, <1>3, <1>4, <1>5 DEF Turn

\* A step that enters uncounted states, or ends the run with an error.
LEMMA TraceGoesOn ==
  ASSUME Inv, TraceInv, status = "none", pc # "act",
         UNCHANGED <<history, outcomes>>, NEW q,
         \/ Plain(q) /\ pc' # "act" /\ status' \in {"none", "idle"}
         \/ EndsIn(q, "error") /\ pc' = "done" /\ status' = "error",
         Enter(q)
  PROVE  TraceInv'
<1>1. trace \in Seq(States) /\ Len(history) \in Nat
  BY DEF Inv, TypeOK
<1>2. CASE Plain(q) /\ pc' # "act" /\ status' \in {"none", "idle"}
  <2>1. \A x \in Marks : Count(trace', x) = Count(trace, x)
    BY <1>1, <1>2, EnterPlain
  <2> QED  BY <1>2, <2>1 DEF TraceInv, Marks
<1>3. CASE EndsIn(q, "error") /\ pc' = "done" /\ status' = "error"
  <2>1. \A x \in Marks : Count(trace', x) = Count(trace, x) + IF x = "error" THEN 1 ELSE 0
    BY <1>1, <1>3, EnterMark DEF Marks
  <2> QED  BY <1>1, <1>3, <2>1 DEF TraceInv, Marks
<1> QED  BY <1>2, <1>3

LEMMA TraceDecides ==
  ASSUME Inv, TraceInv, status = "none", pc # "act",
         UNCHANGED <<history, outcomes>>, NEW before, Plain(before), Decide(before)
  PROVE  TraceInv'
<1>1. /\ Plain(before \o <<"validate_output">>) /\ Plain(before \o <<"query_llm">>)
  BY PlainStates, PlainJoined
<1>2. /\ pc' # "act" /\ status' = "none"
      /\ Enter(before \o <<"validate_output">>) \/ Enter(before \o <<"query_llm">>)
  BY DEF Decide, Await
<1> QED  BY <1>1, <1>2, TraceGoesOn

LEMMA TraceEarly ==
  ASSUME Inv, TraceInv, RunOnce \/ Observed \/ MemoryRead \/ PlanStored
  PROVE  TraceInv'
<1>1. /\ status = "none" /\ pc \notin {"act", "done"} /\ UNCHANGED <<history, outcomes>>
  BY DEF Inv, RecordInv, RunOnce, Observed, MemoryRead, PlanStored, loopVars, stateVars
<1>2. CASE RunOnce
  BY <1>1, <1>2, PlainStates, TraceGoesOn DEF RunOnce, Await
<1>3. CASE Observed
  <2>1. <<"retrieve_memory", "error">> = <<"retrieve_memory">> \o <<"error">>
    OBVIOUS
  <2>2. EndsIn(<<"retrieve_memory">> \o <<"error">>, "error") /\ Plain(<<"retrieve_memory">>)
    BY PlainStates, OneMark, MarkJoined DEF Marks
  <2>3. \/ Enter(<<"retrieve_memory">>) /\ Await("memory")
        \/ Enter(<<"retrieve_memory">> \o <<"error">>) /\ Return("error")
    BY <1>3, <2>1 DEF Observed
  <2> QED  BY <1>1, <2>2, <2>3, TraceGoesOn DEF Await, Return
<1>4. CASE MemoryRead
  <2> DEFINE planned == <<"update_world", "update_self", "plan_goals">>
  <2>1. planned \o <<"simulate", "error">> = (planned \o <<"simulate">>) \o <<"error">>
    OBVIOUS
  <2>2. Plain(planned) /\ Plain(<<"simulate">>)
    BY PlainStates
  <2> HIDE DEF planned
  <2>3. Plain(planned \o <<"simulate">>)
    BY <2>2, PlainJoined
  <2>4. EndsIn((planned \o <<"simulate">>) \o <<"error">>, "error")
    BY <2>3, OneMark, MarkJoined DEF Marks
  <2>5. \/ Enter(planned) /\ Return("idle")
        \/ Enter((planned \o <<"simulate">>) \o <<"error">>) /\ Return("error")
        \/ Enter(planned \o <<"simulate">>) /\ Await("plan")
        \/ Decide(planned \o <<"simulate">>)
    BY <1>4, <2>1 DEF MemoryRead, planned
  <2>6. CASE Decide(planned \o <<"simulate">>)
    BY <1>1, <2>3, <2>6, TraceDecides
  <2>7. CASE ~Decide(planned \o <<"simulate">>)
    BY <1>1, <2>2, <2>3, <2>4, <2>5, <2>7, TraceGoesOn DEF Await, Return
  <2> QED  BY <2>6, <2>7
<1>5. CASE PlanStored
  BY <1>1, <1>5, PlainStates, TraceDecides DEF PlanStored
<1> QED  BY <1>2, <1>3, <1>4, <1>5

LEMMA TraceLlm ==
  ASSUME Inv, TraceInv, LlmDecides \/ LlmFailsValidation \/ LlmDecidesNothing \/ Rejects
  PROVE  TraceInv'
<1>1. /\ status = "none" /\ pc \notin {"act", "done"} /\ UNCHANGED <<history, outcomes>>
  BY DEF Inv, RecordInv, LlmDecides, LlmFailsValidation, LlmDecidesNothing, Rejects, loopVars, stateVars
<1>2. <<"validate_output", "error">> = <<"validate_output">> \o <<"error">>
  OBVIOUS
<1>3. /\ EndsIn(<<"validate_output">> \o <<"error">>, "error") /\ EndsIn(<<"error">>, "error")
      /\ Plain(<<"validate_output">>)
  BY PlainStates, OneMark, MarkJoined DEF Marks
<1>4. \/ Enter(<<"validate_output">>) /\ pc' \in {"log", "llm"} /\ status' = status
      \/ Enter(<<"validate_output">> \o <<"error">>) /\ Return("error")
      \/ Enter(<<"error">>) /\ Return("error")
  BY <1>2 DEF LlmDecides, LlmFailsValidation, LlmDecidesNothing, Rejects, Await
<1> QED  BY <1>1, <1>3, <1>4, TraceGoesOn DEF Return

LEMMA TraceLoop ==
  ASSUME Inv, TraceInv, FirstTurn \/ ActReturns \/ NextDecision
  PROVE  TraceInv'
<1>1. /\ status = "none" /\ history \in Seq(Acts) /\ Len(history) \in Nat
      /\ pc \in {"log", "act", "next"}
  BY DEF Inv, TypeOK, RecordInv, FirstTurn, ActReturns, NextDecision
<1>2. CASE FirstTurn
  <2>1. Count(trace, "act") = Len(history) /\ Turn(decision, step) /\ UNCHANGED history
    BY <1>1, <1>2 DEF FirstTurn, TraceInv, loopVars
  <2> QED  BY <1>1, <2>1, TraceTurns
<1>3. CASE NextDecision
  <2>1. Count(trace, "act") = Len(history) /\ UNCHANGED history
    BY <1>1, <1>3 DEF NextDecision, TraceInv
  <2> QED  BY <1>1, <1>3, <2>1, TraceTurns, TraceLeavesLoop DEF NextDecision
<1>4. CASE ActReturns
  <2>1. PICK success \in BOOLEAN :
          LET h == Append(history, [type |-> decision, success |-> success])
          IN /\ history' = h
             /\ IF LastStep(step) THEN LeaveLoop(h)
                ELSE trace' = trace /\ Await("next") /\ UNCHANGED <<goal, outcomes>>
    BY <1>4 DEF ActReturns
  <2> DEFINE h == Append(history, [type |-> decision, success |-> success])
  <2>2. [type |-> decision, success |-> success] \in Acts /\ pc = "act"
    BY <1>4, Bounds DEF ActReturns, Inv, GateInv, Acts
  <2>3. h \in Seq(Acts) /\ Len(h) = Len(history) + 1
    BY <1>1, <2>2, AppendProperties
  <2>4. Count(trace, "act") = Len(h)
    BY <1>1, <2>2, <2>3 DEF TraceInv
  <2>5. /\ history' = h
        /\ LeaveLoop(h) \/ (trace' = trace /\ Await("next") /\ UNCHANGED <<goal, outcomes>>)
    BY <2>1
  <2> HIDE DEF h
  <2>6. CASE LeaveLoop(h)
    BY <1>1, <2>3, <2>4, <2>5, <2>6, TraceLeavesLoop
  <2>7. CASE trace' = trace /\ Await("next") /\ UNCHANGED <<goal, outcomes>>
    BY <2>3, <2>4, <2>5, <2>7 DEF TraceInv, Await
  <2> QED  BY <2>5, <2>6, <2>7
<1> QED  BY <1>2, <1>3, <1>4

LEMMA TraceStores ==
  ASSUME Inv, TraceInv, ActStored
  PROVE  TraceInv'
<1>1. /\ status = "none" /\ pc = "store" /\ history \in Seq(Acts) /\ Len(history) \in Nat
      /\ trace \in Seq(States) /\ outcomes \in Seq(BOOLEAN) /\ UNCHANGED history
      /\ Len(stored) < Len(history) /\ stored \in Seq(Acts)
  BY DEF ActStored, Inv, TypeOK, RecordInv, loopVars
<1>2. CASE Learn(history, <<>>)
  <2>1. FinalSuccess(history) \in BOOLEAN
    <3>1. Plain(<<>>)
      BY PlainStates
    <3> QED  BY <1>1, <1>2, <3>1, LearnStep DEF Inv, Plain
  <2>2. /\ Enter(<<>> \o <<"learn", "complete">>) /\ Plain(<<>>) /\ pc' = "done"
        /\ status' = "completed" /\ Len(outcomes') = Len(outcomes) + 1
    BY <1>1, <1>2, <2>1, PlainStates DEF Learn, Return
  <2>3. /\ \A x \in Marks :
             Count(trace', x) = Count(trace, x) + IF x \in {"learn", "complete"} THEN 1 ELSE 0
        /\ trace'[Len(trace')] = "complete"
    BY <1>1, <2>2, EnterLearn
  <2> QED  BY <1>1, <2>2, <2>3 DEF TraceInv, Marks
<1>3. CASE ~Learn(history, <<>>)
  BY <1>1, <1>3 DEF ActStored, Await, TraceInv
<1> QED  BY <1>2, <1>3

LEMMA TraceStep == Inv /\ TraceInv /\ [Next]_vars => TraceInv'
<1> SUFFICES ASSUME Inv, TraceInv, [Next]_vars
             PROVE  TraceInv'
  OBVIOUS
<1>1. CASE Next
  BY <1>1, TraceEarly, TraceLlm, TraceLoop, TraceStores DEF Next, Memory, Llm
<1>2. CASE UNCHANGED vars
  BY <1>2 DEF vars, TraceInv
<1> QED  BY <1>1, <1>2

LEMMA TraceInit == Init => TraceInv
BY CountNone, EmptySeq DEF Init, TraceInv

LEMMA TraceRight == Inv /\ TraceInv => TraceTells
<1> SUFFICES ASSUME Inv, TraceInv PROVE TraceTells
  OBVIOUS
<1>1. \A s : Entered(s) = Count(trace, s)
  BY DEF Entered, Count
<1>2. Len(history) \in Nat /\ MaxSteps \in Nat /\ step \in 0..(MaxSteps - 1)
  BY Bounds DEF Inv, TypeOK
<1>3. Len(history) + (IF pc = "act" THEN 1 ELSE 0) <= MaxSteps
  BY <1>2 DEF Inv, CountInv
<1> QED  BY <1>1, <1>3 DEF TraceInv, TraceTells

\* The trace in a run's result tells what happened: every act begun, a result reported once
\* and nothing after it, learning only in a run that completed.
THEOREM TraceTellsAll == Spec => []TraceTells
<1>1. Init => Inv /\ TraceInv
  BY InitInv, TraceInit
<1>2. (Inv /\ TraceInv) /\ [Next]_vars => (Inv /\ TraceInv)'
  BY StepInv, TraceStep
<1> QED  BY <1>1, <1>2, TraceRight, PTL DEF Spec
-----------------------------------------------------------------------------
(* Runs one after the other over a stack of goals *)

LEMMA Least ==
  ASSUME NEW T \in SUBSET Nat, T # {}
  PROVE  \E n \in T : \A m \in T : n <= m
<1>1. PICK n \in T : \A m \in T : ~ (<<m, n>> \in OpToRel(<, Nat))
  BY NatLessThanWellFounded, WFMin
<1>2. \A m \in T : ~ (m < n)
  BY <1>1 DEF OpToRel
<1> QED  BY <1>2

GoalEntries == [id : Goals, status : Statuses]

\* i goes before j in the sorted list, which keeps equal goals in their order of insertion.
Precedes(i, j) == Before(i, j) \/ (~Before(j, i) /\ i < j)

LEMMA PriorityTypes == Priority \in [Goals -> Nat] /\ CreatedAt \in [Goals -> Nat]
                       /\ Horizon \in [Goals -> {"short", "long"}] /\ NoGoal \notin Goals
  BY GoalsAssumption

LEMMA EntryTypes ==
  ASSUME goals \in Seq(GoalEntries), NEW i \in DOMAIN goals
  PROVE  /\ goals[i].id \in Goals /\ goals[i].status \in Statuses /\ i \in Nat
         /\ Priority[goals[i].id] \in Nat /\ CreatedAt[goals[i].id] \in Nat
         /\ Horizon[goals[i].id] \in {"short", "long"}
<1>1. goals[i] \in GoalEntries /\ i \in Nat
  OBVIOUS
<1>2. goals[i].id \in Goals /\ goals[i].status \in Statuses
  BY <1>1 DEF GoalEntries
<1> QED  BY <1>1, <1>2, PriorityTypes

\* The comparator of the stack is a strict weak order.
LEMMA BeforeOrders ==
  ASSUME goals \in Seq(GoalEntries),
         NEW i \in DOMAIN goals, NEW j \in DOMAIN goals, NEW k \in DOMAIN goals
  PROVE  /\ Before(i, j) => ~Before(j, i)
         /\ Before(i, j) => Before(i, k) \/ Before(k, j)
<1> DEFINE active(n) == goals[n].status = "active"
           p(n)      == Priority[goals[n].id]
           short(n)  == Horizon[goals[n].id] = "short"
           c(n)      == CreatedAt[goals[n].id]
<1>1. /\ p(i) \in Nat /\ p(j) \in Nat /\ p(k) \in Nat
      /\ c(i) \in Nat /\ c(j) \in Nat /\ c(k) \in Nat
  BY EntryTypes
<1>2. \A m, n \in DOMAIN goals :
        Before(m, n) <=>
          \/ active(m) /\ ~active(n)
          \/ /\ active(m) <=> active(n)
             /\ \/ p(m) > p(n)
                \/ /\ p(m) = p(n)
                   /\ \/ short(m) /\ ~short(n)
                      \/ (short(m) <=> short(n)) /\ c(m) < c(n)
  <2> SUFFICES ASSUME NEW m \in DOMAIN goals, NEW n \in DOMAIN goals
               PROVE  Before(m, n) <=>
                        \/ active(m) /\ ~active(n)
                        \/ /\ active(m) <=> active(n)
                           /\ \/ p(m) > p(n)
                              \/ /\ p(m) = p(n)
                                 /\ \/ short(m) /\ ~short(n)
                                    \/ (short(m) <=> short(n)) /\ c(m) < c(n)
    OBVIOUS
  <2>1. Horizon[goals[m].id] \in {"short", "long"} /\ Horizon[goals[n].id] \in {"short", "long"}
    BY EntryTypes
  <2> QED  BY <2>1 DEF Before
<1> HIDE DEF active, p, short, c
<1> QED  BY <1>1, <1>2

LEMMA PrecedesOrders ==
  ASSUME goals \in Seq(GoalEntries),
         NEW i \in DOMAIN goals, NEW j \in DOMAIN goals, NEW k \in DOMAIN goals
  PROVE  /\ i # j => Precedes(i, j) \/ Precedes(j, i)
         /\ Precedes(i, j) /\ Precedes(j, k) => Precedes(i, k)
<1>1. i \in Nat /\ j \in Nat /\ k \in Nat
  BY EntryTypes
<1>2. i # j => Precedes(i, j) \/ Precedes(j, i)
  BY <1>1 DEF Precedes
<1>3. ASSUME Precedes(i, j), Precedes(j, k) PROVE Precedes(i, k)
  <2>1. /\ Before(i, j) => ~Before(j, i) /\ (Before(i, k) \/ Before(k, j))
        /\ Before(j, k) => ~Before(k, j) /\ (Before(j, i) \/ Before(i, k))
        /\ Before(k, i) => ~Before(i, k) /\ (Before(k, j) \/ Before(j, i))
    BY BeforeOrders
  <2>2. CASE Before(i, j) \/ Before(j, k)
    BY <2>1, <2>2, <1>3 DEF Precedes
  <2>3. CASE ~Before(i, j) /\ ~Before(j, k)
    BY <1>1, <2>1, <2>3, <1>3 DEF Precedes
  <2> QED  BY <2>2, <2>3
<1> QED  BY <1>2, <1>3

\* Of any goals that may be picked there is one that all others go after.
LEMMA FirstExists ==
  ASSUME goals \in Seq(GoalEntries), Candidates # {}
  PROVE  \E i \in Candidates : \A j \in Candidates \ {i} : Precedes(i, j)
<1> DEFINE Upto(n) == {i \in Candidates : i <= n}
           Has(n)  == Upto(n) # {} => \E i \in Upto(n) : \A j \in Upto(n) \ {i} : Precedes(i, j)
           Bad     == {n \in Nat : ~Has(n)}
<1>1. Candidates \subseteq DOMAIN goals /\ DOMAIN goals = 1..Len(goals) /\ Len(goals) \in Nat
  BY DEF Candidates
<1>2. Has(0)
  BY <1>1
<1>3. ASSUME NEW n \in Nat, Has(n) PROVE Has(n + 1)
  <2>1. CASE n + 1 \notin Candidates
    <3>1. Upto(n + 1) = Upto(n)
      BY <2>1, <1>1
    <3> QED  BY <3>1, <1>3
  <2>2. CASE n + 1 \in Candidates
    <3>1. Upto(n + 1) = Upto(n) \cup {n + 1} /\ n + 1 \notin Upto(n)
      BY <2>2, <1>1
    <3>2. CASE Upto(n) = {}
      BY <3>1, <3>2
    <3>3. CASE Upto(n) # {}
      <4>1. PICK i \in Upto(n) : \A j \in Upto(n) \ {i} : Precedes(i, j)
        BY <3>3, <1>3
      <4>2. i \in DOMAIN goals /\ n + 1 \in DOMAIN goals /\ i # n + 1 /\ Upto(n) \subseteq DOMAIN goals
        BY <1>1, <2>2, <3>1
      <4>3. CASE Precedes(i, n + 1)
        BY <3>1, <4>1, <4>3
      <4>4. CASE Precedes(n + 1, i)
        <5>1. \A j \in Upto(n) : Precedes(n + 1, j)
          <6> SUFFICES ASSUME NEW j \in Upto(n), j # i PROVE Precedes(n + 1, j)
            BY <4>4
          <6>1. Precedes(i, j)
            BY <4>1
          <6> QED  BY <4>2, <4>4, <6>1, PrecedesOrders
        <5> QED  BY <3>1, <5>1
      <4> QED  BY <4>2, <4>3, <4>4, PrecedesOrders
    <3> QED  BY <3>2, <3>3
  <2> QED  BY <2>1, <2>2
<1> HIDE DEF Has
<1>4. Bad = {}
  <2> SUFFICES ASSUME Bad # {} PROVE FALSE
    OBVIOUS
  <2>1. PICK n \in Bad : \A m \in Bad : n <= m
    BY Least
  <2>2. n \in Nat /\ ~Has(n) /\ n # 0
    BY <1>2
  <2>3. n - 1 \in Nat /\ n - 1 \notin Bad
    BY <2>1, <2>2
  <2>4. Has((n - 1) + 1)
    BY <1>3, <2>3
  <2> QED  BY <2>2, <2>4
<1>5. Has(Len(goals))
  BY <1>1, <1>4
<1>6. Upto(Len(goals)) = Candidates
  BY <1>1
<1> QED  BY <1>5, <1>6 DEF Has

LEMMA PickedIsCandidate ==
  ASSUME goals \in Seq(GoalEntries), Candidates # {}
  PROVE  ResolveNextGoal \in Candidates
<1>1. \E i \in Candidates : \A j \in Candidates \ {i} : Precedes(i, j)
  BY FirstExists
<1>2. \E i \in Candidates : \A j \in Candidates \ {i} : Before(i, j) \/ (~Before(j, i) /\ i < j)
  BY <1>1 DEF Precedes
<1> QED  BY <1>2 DEF ResolveNextGoal

\* Setting a status keeps the goals and their order, and the statuses of the others.
LEMMA StatusSet ==
  ASSUME goals \in Seq(GoalEntries), NEW g, NEW s \in Statuses
  PROVE  /\ WithStatus(g, s) \in Seq(GoalEntries)
         /\ DOMAIN WithStatus(g, s) = DOMAIN goals
         /\ \A i \in DOMAIN goals :
              /\ WithStatus(g, s)[i].id = goals[i].id
              /\ WithStatus(g, s)[i].status = IF goals[i].id = g THEN s ELSE goals[i].status
<1> DEFINE t == WithStatus(g, s)
<1>1. \A i \in DOMAIN goals :
        /\ t[i] \in GoalEntries /\ t[i].id = goals[i].id
        /\ t[i].status = IF goals[i].id = g THEN s ELSE goals[i].status
  <2> SUFFICES ASSUME NEW i \in DOMAIN goals
               PROVE  /\ t[i] \in GoalEntries /\ t[i].id = goals[i].id
                      /\ t[i].status = IF goals[i].id = g THEN s ELSE goals[i].status
    OBVIOUS
  <2>1. goals[i] \in GoalEntries
    OBVIOUS
  <2>2. t[i] = IF goals[i].id = g THEN [goals[i] EXCEPT !.status = s] ELSE goals[i]
    BY DEF WithStatus
  <2> QED  BY <2>1, <2>2 DEF GoalEntries
<1>2. DOMAIN t = DOMAIN goals /\ t = [i \in DOMAIN goals |-> t[i]]
  BY DEF WithStatus
<1>3. DOMAIN goals = 1..Len(goals) /\ Len(goals) \in Nat
  OBVIOUS
<1> HIDE DEF t
<1>4. t \in Seq(GoalEntries)
  BY <1>1, <1>2, <1>3
<1> QED  BY <1>1, <1>2, <1>4 DEF t

\* A run that has planned works on a goal.
Working == {"plan", "llm", "log", "act", "next", "store"}

StackTypes ==
  /\ goals \in Seq(GoalEntries)
  /\ chosen \in Goals \cup {NoGoal}
  /\ changes \in 0..MaxChanges
  /\ settled \in [Goals -> Nat]

\* A settled goal is completed or failed, so no run picks it; the goal of a run that works
\* on it has not been settled since it was picked.
Closed(g)  == g \in Known /\ \A i \in DOMAIN goals :
                               goals[i].id = g => goals[i].status \in {"completed", "failed"}
SettledInv == \A g \in Goals : settled[g] <= 1 /\ (settled[g] = 1 => Closed(g))
ChosenInv  == pc \in Working => goal = "active" /\ chosen \in Goals /\ chosen \in Known
                                /\ settled[chosen] = 0

GoalsInv == Inv /\ StackTypes /\ SettledInv /\ ChosenInv

LEMMA GoalsInitInv == GoalsInit => GoalsInv
<1> SUFFICES ASSUME GoalsInit PROVE GoalsInv
  OBVIOUS
<1>1. Inv /\ pc = "idle"
  BY InitInv DEF GoalsInit, Init
<1>2. StackTypes
  <2>1. <<>> \in Seq(GoalEntries) /\ 0 \in 0..MaxChanges
    BY GoalsAssumption
  <2> QED  BY <2>1 DEF GoalsInit, StackTypes
<1>3. SettledInv /\ ChosenInv
  BY <1>1 DEF GoalsInit, SettledInv, ChosenInv, Working
<1> QED  BY <1>1, <1>2, <1>3 DEF GoalsInv

\* Only learn changes what a run knows of its goal, and the run ends with it.
LEMMA WorkStep ==
  ASSUME Inv, RunOnce \/ Observed \/ PlanStored \/ Llm \/ FirstTurn \/ ActReturns \/ ActStored \/ Rejects
  PROVE  /\ pc' \in Working => pc \in Working /\ goal' = goal
         /\ goal' # goal => goal' \in {"completed", "failed"} /\ pc \in Working /\ pc' = "done"
<1> DEFINE Goes == /\ pc' \in Working => pc \in Working /\ goal' = goal
                   /\ goal' # goal => goal' \in {"completed", "failed"} /\ pc \in Working /\ pc' = "done"
<1>1. CASE RunOnce \/ Observed \/ Rejects
  BY <1>1 DEF RunOnce, Observed, Rejects, Await, Return, Working, stateVars
<1>2. CASE PlanStored \/ LlmDecides \/ LlmFailsValidation \/ LlmDecidesNothing
  BY <1>2 DEF PlanStored, LlmDecides, LlmFailsValidation, LlmDecidesNothing, Decide, Await, Return, Working, stateVars
<1>3. \A h, b : Learn(h, b) => goal' \in {"completed", "failed"} /\ pc' = "done"
  BY DEF Learn, Return
<1>4. \A h : LeaveLoop(h) =>
        (pc' = "store" /\ goal' = goal) \/ (goal' \in {"completed", "failed"} /\ pc' = "done")
  BY <1>3 DEF LeaveLoop, Await
<1>5. \A d, n : Turn(d, n) =>
        goal' = goal \/ (goal' \in {"completed", "failed"} /\ pc' = "done")
  BY <1>4 DEF Turn
<1>6. CASE FirstTurn
  BY <1>6, <1>5 DEF FirstTurn, Working
<1>7. CASE ActReturns
  BY <1>7, <1>4 DEF ActReturns, Working, Await
<1>8. CASE NextDecision
  BY <1>8, <1>4, <1>5 DEF NextDecision, Working
<1>9. CASE ActStored
  BY <1>9, <1>3 DEF ActStored, Working, Await
<1> QED  BY <1>1, <1>2, <1>6, <1>7, <1>8, <1>9 DEF Llm

LEMMA AgentUnchanged == Inv /\ UNCHANGED vars => Inv'
  BY StepInv

LEMMA AddGoalInv ==
  ASSUME GoalsInv, NEW g \in Goals, NEW s \in Statuses, AddGoal(g, s)
  PROVE  GoalsInv'
<1> USE DEF GoalsInv
<1> DEFINE e == [id |-> g, status |-> s]
<1>1. /\ goals \in Seq(GoalEntries) /\ e \in GoalEntries /\ goals' = Append(goals, e)
      /\ g \notin Known /\ UNCHANGED <<vars, chosen, changes, settled>>
  BY DEF AddGoal, StackTypes, GoalEntries
<1>2. /\ goals' \in Seq(GoalEntries) /\ DOMAIN goals' = 1..(Len(goals) + 1)
      /\ \A i \in 1..(Len(goals) + 1) : goals'[i] = IF i \in DOMAIN goals THEN goals[i] ELSE e
      /\ DOMAIN goals = 1..Len(goals)
  BY <1>1
<1>3. Inv' /\ StackTypes'
  BY <1>1, <1>2, AgentUnchanged DEF StackTypes
<1>4. Known \subseteq Known'
  BY <1>1, <1>2 DEF Known
<1>5. ASSUME NEW h \in Goals, Closed(h) PROVE Closed(h)'
  <2>1. h # g
    BY <1>1, <1>5 DEF Closed
  <2>2. \A i \in DOMAIN goals' : goals'[i].id = h => i \in DOMAIN goals /\ goals'[i] = goals[i]
    BY <1>2, <2>1
  <2> QED  BY <1>4, <1>5, <2>2 DEF Closed
<1>6. SettledInv'
  BY <1>1, <1>5 DEF SettledInv
<1>7. ChosenInv'
  BY <1>1, <1>4 DEF ChosenInv, vars
<1> QED  BY <1>3, <1>6, <1>7

LEMMA UpdateStatusInv ==
  ASSUME GoalsInv, NEW g \in Goals, NEW s \in Statuses, UpdateStatus(g, s)
  PROVE  GoalsInv'
<1> USE DEF GoalsInv
<1>1. /\ goals \in Seq(GoalEntries) /\ goals' = WithStatus(g, s)
      /\ settled \in [Goals -> Nat] /\ settled' = [settled EXCEPT ![g] = 0]
      /\ UNCHANGED <<vars, chosen>>
  BY DEF UpdateStatus, StackTypes
<1>2. /\ goals' \in Seq(GoalEntries) /\ DOMAIN goals' = DOMAIN goals
      /\ \A i \in DOMAIN goals :
           /\ goals'[i].id = goals[i].id
           /\ goals[i].id # g => goals'[i].status = goals[i].status
  BY <1>1, StatusSet
<1>3. changes' \in 0..MaxChanges
  BY GoalsAssumption DEF UpdateStatus, StackTypes
<1>4. Inv' /\ StackTypes'
  BY <1>1, <1>2, <1>3, AgentUnchanged DEF StackTypes
<1>5. Known' = Known
  BY <1>2 DEF Known
<1>6. SettledInv'
  <2> SUFFICES ASSUME NEW h \in Goals PROVE settled'[h] <= 1 /\ (settled'[h] = 1 => Closed(h)')
    BY DEF SettledInv
  <2>1. CASE h = g
    BY <1>1, <2>1
  <2>2. CASE h # g
    <3>1. settled'[h] = settled[h]
      BY <1>1, <2>2
    <3>2. Closed(h) => Closed(h)'
      BY <1>2, <1>5, <2>2 DEF Closed
    <3> QED  BY <3>1, <3>2 DEF SettledInv
  <2> QED  BY <2>1, <2>2
<1>7. ChosenInv'
  <2> SUFFICES ASSUME pc \in Working
               PROVE  goal = "active" /\ chosen \in Goals /\ chosen \in Known /\ settled'[chosen] = 0
    BY <1>1, <1>5 DEF ChosenInv, vars
  <2> QED  BY <1>1 DEF ChosenInv
<1> QED  BY <1>4, <1>6, <1>7

LEMMA GoalPickedInv ==
  ASSUME GoalsInv, GoalPicked
  PROVE  GoalsInv'
<1> USE DEF GoalsInv
<1>1. MemoryRead /\ UNCHANGED <<goals, changes, settled>>
  BY DEF GoalPicked
<1>2. Inv'
  BY <1>1, MemoryReadInv
<1>3. SettledInv' /\ Known' = Known
  BY <1>1 DEF SettledInv, Closed, Known
<1>4. CASE Candidates = {}
  <2>1. goal' = "absent" /\ chosen' = chosen
    BY <1>4 DEF GoalPicked
  <2>2. pc' = "done"
    BY <1>1, <2>1 DEF MemoryRead, Return
  <2>3. StackTypes'
    BY <1>1, <2>1 DEF StackTypes
  <2>4. ChosenInv'
    BY <2>2 DEF ChosenInv, Working
  <2> QED  BY <1>2, <1>3, <2>3, <2>4
<1>5. CASE Candidates # {}
  <2> DEFINE i == ResolveNextGoal
  <2>1. i \in Candidates
    BY <1>5, PickedIsCandidate DEF StackTypes
  <2>2. goal' = "active" /\ chosen' = goals[i].id
    BY <1>5 DEF GoalPicked
  <2>3. i \in DOMAIN goals /\ goals[i].status \in {"active", "pending"}
    BY <2>1 DEF Candidates
  <2> HIDE DEF i
  <2>4. goals[i].id \in Goals /\ goals[i].id \in Known
    BY <2>3, EntryTypes DEF StackTypes, Known
  <2>5. ~Closed(goals[i].id)
    BY <2>3 DEF Closed
  <2>6. settled[goals[i].id] = 0
    <3>1. settled[goals[i].id] \in Nat /\ settled[goals[i].id] <= 1 /\ settled[goals[i].id] # 1
      BY <2>4, <2>5 DEF StackTypes, SettledInv
    <3> QED  BY <3>1
  <2>7. StackTypes'
    BY <1>1, <2>2, <2>4 DEF StackTypes
  <2>8. ChosenInv'
    BY <1>1, <1>3, <2>2, <2>4, <2>6 DEF ChosenInv
  <2> QED  BY <1>2, <1>3, <2>7, <2>8
<1> QED  BY <1>4, <1>5

LEMMA WorksOnInv ==
  ASSUME GoalsInv, WorksOn
  PROVE  GoalsInv'
<1> USE DEF GoalsInv
<1>1. /\ RunOnce \/ Observed \/ PlanStored \/ Llm \/ FirstTurn \/ ActReturns \/ ActStored \/ Rejects
      /\ GoalSettled /\ chosen' = chosen /\ changes' = changes
  BY DEF WorksOn
<1>2. Inv'
  BY <1>1, StepInv DEF Next, Memory
<1>3. /\ pc' \in Working => pc \in Working /\ goal' = goal
      /\ goal' # goal => goal' \in {"completed", "failed"} /\ pc \in Working /\ pc' = "done"
  BY <1>1, WorkStep
<1>4. CASE goal' = goal
  <2>1. UNCHANGED stackVars
    BY <1>1, <1>4 DEF GoalSettled, stackVars
  <2>2. StackTypes' /\ SettledInv' /\ Known' = Known
    BY <2>1 DEF stackVars, StackTypes, SettledInv, Closed, Known
  <2>3. ChosenInv'
    BY <1>3, <1>4, <2>1, <2>2 DEF ChosenInv, stackVars
  <2> QED  BY <1>2, <2>2, <2>3
<1>5. CASE goal' # goal
  <2>1. /\ goals' = WithStatus(chosen, goal')
        /\ settled' = [settled EXCEPT ![chosen] = @ + 1]
    BY <1>1, <1>5 DEF GoalSettled, Told
  <2>2. /\ goal' \in {"completed", "failed"} /\ pc' = "done" /\ goal' \in Statuses
        /\ chosen \in Goals /\ chosen \in Known /\ settled[chosen] = 0
    BY <1>3, <1>5 DEF ChosenInv, Statuses
  <2>3. /\ goals' \in Seq(GoalEntries) /\ DOMAIN goals' = DOMAIN goals
        /\ \A i \in DOMAIN goals :
             /\ goals'[i].id = goals[i].id
             /\ goals'[i].status = IF goals[i].id = chosen THEN goal' ELSE goals[i].status
    BY <2>1, <2>2, StatusSet DEF StackTypes
  <2>4. settled' \in [Goals -> Nat] /\ settled'[chosen] = 1
        /\ \A h \in Goals : h # chosen => settled'[h] = settled[h]
    BY <2>1, <2>2 DEF StackTypes
  <2>5. StackTypes'
    BY <1>1, <2>3, <2>4 DEF StackTypes
  <2>6. Known' = Known
    BY <2>3 DEF Known
  <2>7. SettledInv'
    <3> SUFFICES ASSUME NEW h \in Goals PROVE settled'[h] <= 1 /\ (settled'[h] = 1 => Closed(h)')
      BY DEF SettledInv
    <3>1. CASE h = chosen
      BY <2>2, <2>3, <2>4, <2>6, <3>1 DEF Closed
    <3>2. CASE h # chosen
      <4>1. Closed(h) => Closed(h)'
        BY <2>3, <2>6, <3>2 DEF Closed
      <4> QED  BY <2>4, <3>2, <4>1 DEF SettledInv
    <3> QED  BY <3>1, <3>2
  <2>8. ChosenInv'
    BY <2>2 DEF ChosenInv, Working
  <2> QED  BY <1>2, <2>5, <2>7, <2>8
<1> QED  BY <1>4, <1>5

LEMMA RunAgainInv ==
  ASSUME GoalsInv, RunAgain
  PROVE  GoalsInv'
<1> USE DEF GoalsInv
<1>1. Init'
  BY DEF RunAgain, Init, Inv, TypeOK
<1>2. Inv'
  BY <1>1, InitInv, PTL
<1> QED  BY <1>2 DEF RunAgain, StackTypes, SettledInv, Closed, Known, ChosenInv, Working

LEMMA GoalsStepInv == GoalsInv /\ [GoalsNext]_goalVars => GoalsInv'
<1> SUFFICES ASSUME GoalsInv, [GoalsNext]_goalVars PROVE GoalsInv'
  OBVIOUS
<1>1. CASE User
  <2>1. CASE \E g \in Goals, s \in AddedAs : AddGoal(g, s)
    BY <2>1, AddGoalInv, GoalsAssumption
  <2>2. CASE \E g \in Goals, s \in Statuses : UpdateStatus(g, s)
    BY <2>2, UpdateStatusInv
  <2> QED  BY <1>1, <2>1, <2>2 DEF User
<1>2. CASE GoalPicked
  BY <1>2, GoalPickedInv
<1>3. CASE WorksOn
  BY <1>3, WorksOnInv
<1>4. CASE RunAgain
  BY <1>4, RunAgainInv
<1>5. CASE UNCHANGED goalVars
  <2>1. Inv'
    BY <1>5, AgentUnchanged DEF goalVars, GoalsInv
  <2> QED  BY <1>5, <2>1 DEF goalVars, stackVars, vars, GoalsInv, StackTypes, SettledInv, Closed, Known,
                            ChosenInv
<1> QED  BY <1>1, <1>2, <1>3, <1>4, <1>5 DEF GoalsNext

THEOREM GoalsInvariance == GoalsSpec => []GoalsInv
<1> QED  BY GoalsInitInv, GoalsStepInv, PTL DEF GoalsSpec

\* Stack and runs keep their types.
THEOREM GoalsTypeCorrect == GoalsSpec => []GoalsTypeOK
<1>1. GoalsInv => GoalsTypeOK
  BY DEF GoalsInv, Inv, StackTypes, GoalsTypeOK, GoalEntries
<1> QED  BY <1>1, GoalsInvariance, PTL

\* However runs, additions and changes of status interleave, no goal is settled by two runs
\* unless its status was set between them: resolveNextGoal gives a run only goals that are open.
THEOREM SettledOnceAlways == GoalsSpec => []SettledOnce
<1>1. GoalsInv => SettledOnce
  <2> SUFFICES ASSUME GoalsInv, NEW g \in Goals
               PROVE  /\ settled[g] <= 1
                      /\ settled[g] = 1 =>
                           \E i \in DOMAIN goals : goals[i].id = g /\ goals[i].status \in {"completed", "failed"}
    BY DEF SettledOnce
  <2>1. settled[g] <= 1 /\ (settled[g] = 1 => Closed(g))
    BY DEF GoalsInv, SettledInv
  <2> QED  BY <2>1 DEF Closed, Known
<1> QED  BY <1>1, GoalsInvariance, PTL

LEMMA TraceEveryRun == GoalsInv /\ TraceInv /\ [GoalsNext]_goalVars => TraceInv'
<1> SUFFICES ASSUME GoalsInv, TraceInv, [GoalsNext]_goalVars PROVE TraceInv'
  OBVIOUS
<1>1. CASE RunAgain
  <2>1. Init'
    BY <1>1 DEF RunAgain, Init, GoalsInv, Inv, TypeOK
  <2> QED  BY <2>1, TraceInit, PTL
<1>2. CASE GoalPicked \/ WorksOn
  BY <1>2, TraceStep DEF GoalPicked, WorksOn, Next, Memory, GoalsInv
<1>3. CASE User \/ UNCHANGED goalVars
  <2>1. UNCHANGED vars
    BY <1>3 DEF User, AddGoal, UpdateStatus, goalVars
  <2> QED  BY <2>1, TraceStep DEF GoalsInv
<1> QED  BY <1>1, <1>2, <1>3 DEF GoalsNext

\* What holds of one call of runOnce holds of each of those that follow one another while
\* the user changes the stack.
THEOREM EveryRunKeeps ==
  GoalsSpec => [](OnlyPermitted /\ ActsBounded /\ DryRunInert /\ CompletedIsRecorded /\ TraceTells)
<1>1. GoalsInv => OnlyPermitted /\ DryRunInert /\ CompletedIsRecorded
  BY DEF GoalsInv, Inv, GateInv, DryInv, RecordInv
<1>2. GoalsInv => ActsBounded
  <2> SUFFICES ASSUME GoalsInv PROVE ActsBounded
    OBVIOUS
  <2>1. Len(history) \in Nat /\ step \in 0..(MaxSteps - 1) /\ MaxSteps \in Nat
    BY Bounds DEF GoalsInv, Inv, TypeOK
  <2> QED  BY <2>1 DEF GoalsInv, Inv, CountInv, ActsBounded
<1>3. GoalsInit => TraceInv
  BY TraceInit DEF GoalsInit
<1>4. GoalsInv /\ TraceInv => TraceTells
  BY TraceRight DEF GoalsInv
<1> QED  BY <1>1, <1>2, <1>3, <1>4, GoalsInvariance, TraceEveryRun, PTL DEF GoalsSpec
=============================================================================
