----------------------------- MODULE AgentServer ----------------------------
(***************************************************************************)
(* server/server.ts and server/execute-agent-run.ts over the observability *)
(* store: HTTP requests and the heartbeat interval start agent runs; a run *)
(* races a timeout, after which its agent goes on by itself.  The agent is *)
(* seen through the audit events it emits and through its settling.        *)
(***************************************************************************)
EXTENDS ObservabilityStore, FiniteSets

CONSTANTS Heartbeats   \* the ids of heartbeat runs; the other requests are HTTP's

ASSUME HeartbeatsAssumption ==
  /\ IsFiniteSet(Requests)
  /\ Heartbeats \subseteq Requests
  /\ MaxAdded >= 4 * Cardinality(Requests)

VARIABLES
  open,              \* the server listens and its heartbeat interval is set
  heartbeatRunning,
  stage,             \* how far executeAgentRun has got with a request
  agent              \* state of the request's call of agent.runOnce

allVars == <<storeVars, open, heartbeatRunning, stage, agent>>

Awaited == {"observing", "running"}       \* somebody awaits executeAgentRun
Stages  == Awaited \cup {"absent", "refused", "answered", "timed_out", "lost"}

ServerTypeOK ==
  /\ TypeOK
  /\ open \in BOOLEAN
  /\ heartbeatRunning \in BOOLEAN
  /\ stage \in [Requests -> Stages]
  /\ agent \in [Requests -> {"none", "working", "settled"}]

ServerInit ==
  /\ Init
  /\ open = TRUE
  /\ heartbeatRunning = FALSE
  /\ stage = [r \in Requests |-> "absent"]
  /\ agent = [r \in Requests |-> "none"]

\* Entries that are still to be added: a call adds two when its agent starts and two at
\* most when it settles.  MaxAdded leaves room for them.
NotStarted == {r \in Requests : agent[r] = "none" /\ stage[r] # "refused"}
AtWork     == {r \in Requests : agent[r] = "working"}
Owed       == 4 * Cardinality(NotStarted) + 2 * Cardinality(AtWork)

RoomForProgress == added + Owed < MaxAdded

\* The caller's continuation: the heartbeat's finally clears its flag.
GoTo(r, s) ==
  /\ stage' = [stage EXCEPT ![r] = s]
  /\ heartbeatRunning' = IF r \in Heartbeats THEN s \in Awaited ELSE heartbeatRunning
-----------------------------------------------------------------------------
(* Requests and the heartbeat *)

\* A request that the rate limiter, the schema, the authentication or
\* GoalStack.addGoal refuses (429, 400, 401, 403, 409).
Refuse(r) ==
  /\ Free /\ open
  /\ r \notin Heartbeats
  /\ stage[r] = "absent"
  /\ GoTo(r, "refused")
  /\ UNCHANGED <<storeVars, open, agent>>

\* A request is accepted: executeAgentRun awaits its observation.
Accept(r) ==
  /\ Free /\ open
  /\ r \notin Heartbeats
  /\ stage[r] = "absent"
  /\ GoTo(r, "observing")
  /\ UNCHANGED <<storeVars, open, agent>>

\* No heartbeat run is awaited (and the mutant that forgets to look).
MayTickAlways == TRUE
MayTick       == ~heartbeatRunning

HeartbeatTick(r) ==
  /\ Free /\ open
  /\ MayTick
  /\ r \in Heartbeats
  /\ stage[r] = "absent"
  /\ GoTo(r, "observing")
  /\ UNCHANGED <<storeVars, open, agent>>

\* ObservationNormalizer throws on an observation that is too long: executeAgentRun
\* rejects before the store has heard of the run.
ObservationRefused(r) ==
  /\ Free
  /\ stage[r] = "observing"
  /\ GoTo(r, "refused")
  /\ UNCHANGED <<storeVars, open, agent>>

\* The observation is there: run_start, the agent's first transition and the timer.
StartAgent(r) ==
  /\ Free
  /\ stage[r] = "observing"
  /\ GoTo(r, "running")
  /\ agent' = [agent EXCEPT ![r] = "working"]
  /\ activeRuns' = activeRuns \cup {r}
  /\ events' = Unshift(Unshift(events, EntryAt(1, r), MaxEvents), EntryAt(2, r), MaxEvents)
  /\ added' = added + 2
  /\ SchedulePersist
  /\ UNCHANGED <<up, runs, persisting, failed, disk, cleared, open>>

\* The agent moves on, also when nobody waits for it any more.
Progress(r) ==
  /\ agent[r] = "working"
  /\ RoomForProgress
  /\ AddEvent(r)
  /\ UNCHANGED <<open, heartbeatRunning, stage, agent>>

\* The agent settles in time: its last event, the run's entry and the response.
Answer(r) ==
  /\ Free
  /\ agent[r] = "working"
  /\ stage[r] = "running"
  /\ GoTo(r, "answered")
  /\ agent' = [agent EXCEPT ![r] = "settled"]
  /\ activeRuns' = ActiveWithout(r)
  /\ events' = Unshift(events, EntryAt(1, r), MaxEvents)
  /\ runs' = Unshift(runs, EntryAt(2, r), MaxRuns)
  /\ added' = added + 2
  /\ SchedulePersist
  /\ UNCHANGED <<up, persisting, failed, disk, cleared, open>>

\* The timeout wins: 504, and the store is not told.
TimesOut(r) ==
  /\ Free
  /\ stage[r] = "running"
  /\ GoTo(r, "timed_out")
  /\ UNCHANGED <<storeVars, open, agent>>

\* Mutant: the agent's own continuation records the run, whoever won the race.
RecordsLate(r) ==
  /\ agent[r] = "working"
  /\ stage[r] = "timed_out"
  /\ agent' = [agent EXCEPT ![r] = "settled"]
  /\ AddRun(r)
  /\ UNCHANGED <<open, heartbeatRunning, stage>>

\* The agent settles after the timeout: its last event, and nothing else.
SettlesLate(r) ==
  /\ agent[r] = "working"
  /\ stage[r] = "timed_out"
  /\ agent' = [agent EXCEPT ![r] = "settled"]
  /\ AddEvent(r)
  /\ UNCHANGED <<open, heartbeatRunning, stage>>

\* fastify.close(): the interval is cleared, what was accepted goes on.
Close ==
  /\ Free /\ open
  /\ open' = FALSE
  /\ UNCHANGED <<storeVars, heartbeatRunning, stage, agent>>

ServerCrash ==
  /\ Crash
  /\ open' = FALSE
  /\ heartbeatRunning' = FALSE
  /\ stage' = [r \in Requests |-> IF stage[r] \in Awaited THEN "lost" ELSE stage[r]]
  /\ agent' = [r \in Requests |-> IF stage[r] \in Awaited \/ agent[r] = "working"
                                   THEN "settled" ELSE agent[r]]

ServerRestart ==
  /\ Restart
  /\ open' = TRUE
  /\ UNCHANGED <<heartbeatRunning, stage, agent>>

SameServer == UNCHANGED <<open, heartbeatRunning, stage, agent>>
ServerClear == Clear /\ SameServer
ServerSave  == Save /\ SameServer

Continue(r) == StartAgent(r) \/ ObservationRefused(r) \/ TimesOut(r)

Agent(r) == Progress(r) \/ Answer(r) \/ SettlesLate(r)

ServerNext ==
  \/ \E r \in Requests : Refuse(r) \/ Accept(r) \/ HeartbeatTick(r) \/ Continue(r) \/ Agent(r)
  \/ ServerClear \/ ServerSave \/ Close \/ ServerCrash \/ ServerRestart

ServerSpec == ServerInit /\ [][ServerNext]_allVars
-----------------------------------------------------------------------------
(* Properties *)

\* heartbeatRunning is set exactly while one heartbeat run is awaited, and two never
\* are, whatever a tick, a timeout, a close or a crash comes between.
HeartbeatExclusive ==
  Cardinality({r \in Heartbeats : stage[r] \in Awaited}) = IF heartbeatRunning THEN 1 ELSE 0

\* A request has at most one entry in the ring of runs and in runs.json, and only if
\* it was answered with that result: an agent that settles after the timeout, or in
\* a process that crashed, adds none.  What is shown in progress has begun and has none.
RecordedOnce ==
  /\ \A r \in activeRuns : stage[r] \in {"running", "timed_out"}
  /\ \A q \in {runs, runsFile.entries} : \A i, j \in DOMAIN q :
       /\ stage[q[i].request] = "answered"
       /\ q[i].request = q[j].request => i = j
=============================================================================
