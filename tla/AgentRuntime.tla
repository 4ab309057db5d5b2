---------------------------- MODULE AgentRuntime ----------------------------
(***************************************************************************)
(* runtime/agent-runtime.ts: heartbeats and events request runs of a       *)
(* tenant; a promise chain per tenant (tenantLocks) serialises them; a     *)
(* run is blocked by the kill switch, the tenant's budget or its circuit   *)
(* breaker, or it calls the run provider under a timeout.  After a timeout *)
(* the lock is held through a grace period and then at most a maximum hold *)
(* time, after which it is released over a provider that is still running. *)
(*                                                                         *)
(* One action is what the event loop runs without yielding: a call from    *)
(* outside, a timer callback or the continuation of an await.  Timers fire *)
(* and the clock advances only when no continuation is due (Quiescent);    *)
(* a timer may fire at any such time after it is armed, for a unit of `now`*)
(* is coarser than the timeouts.  Every call of executeRun has a number,   *)
(* taken in order.                                                         *)
(***************************************************************************)
EXTENDS Integers, Sequences, FiniteSets, Functions

CONSTANTS
  Tenants,            \* tenant ids
  NoTenant,           \* no heartbeat interval is set
  HeartbeatTenants,   \* tenants start() is called for
  Budgeted,           \* keys of tenantBudgets
  Breakers,           \* keys of circuitBreakerConfig
  HasKillSwitch,      \* options.killSwitch is given
  MaxRuns,            \* bound: calls of executeRun
  MaxTime,            \* bound: last instant of the clock
  MsPerHour, MsPerDay,
  MaxRunsPerHour, MaxTokensPerDay,
  FailureThreshold, Cooldown,
  IdleTtl,            \* tenantIdleEvictionMs; 0 when it is unset
  MaxEventQueueSize,
  TokenCounts,        \* token counts a provider may report
  ChargeTokens        \* runTimeoutChargeTokens

ASSUME TenantsAssumption ==
  /\ NoTenant \notin Tenants
  /\ HeartbeatTenants \subseteq Tenants
  /\ Budgeted \subseteq Tenants
  /\ Breakers \subseteq Tenants
  /\ HasKillSwitch \in BOOLEAN
ASSUME NumbersAssumption ==
  /\ {MaxRuns, MaxTime, MsPerHour, MsPerDay, MaxRunsPerHour, MaxTokensPerDay,
      FailureThreshold, Cooldown, IdleTtl, ChargeTokens} \subseteq Nat
  /\ TokenCounts \subseteq Nat
  /\ MaxEventQueueSize \in Nat \ {0}

VARIABLES
  \* the runtime's own fields and its surroundings
  heartbeat,             \* tenant of the heartbeat interval, NoTenant if stopped
  pendingHeartbeatRuns, eventQueue, processingEvents,
  killSwitch,            \* the shared options.killSwitch.enabled
  now,                   \* what getTime returns
  \* per tenant
  tenantLocks,           \* the run whose end resolves the tail promise, or NoRun
  inFlightRunCount, tenantLastActivityAt,
  runTimestamps,         \* the runs whose start time the tenant's list holds
  tokenTimestamps,       \* the runs whose tokens the tenant's list holds
  consecutiveFailures, circuitOpenedAt,
  \* per call of executeRun
  nextRun, tenantOf,
  via,                   \* "event" or "heartbeat"
  phase,                 \* how far the call has got
  previous,              \* the run whose release it awaits
  startedAt,             \* doExecuteRun's `now` of a run that started
  provider,              \* state of its call of runProvider.runOnce
  verdict,               \* why it was blocked, or how it was judged
  charge                 \* tokens recorded for it

runtimeVars == <<heartbeat, pendingHeartbeatRuns, eventQueue, processingEvents>>
lockVars    == <<tenantLocks, inFlightRunCount, tenantLastActivityAt>>
limitVars   == <<runTimestamps, tokenTimestamps, consecutiveFailures, circuitOpenedAt, charge>>
callVars    == <<nextRun, tenantOf, via, previous>>
workVars    == <<startedAt, provider, verdict>>
vars == <<runtimeVars, killSwitch, now, lockVars, limitVars, callVars, phase, workVars>>

Runs  == 1..MaxRuns
NoRun == 0
Never == -1
Time  == 0..MaxTime

Holding    == {"running", "grace", "hold"}       \* inside doExecuteRun
Unreleased == Holding \cup {"waiting"}
InFlight   == Unreleased \cup {"released"}       \* counted by inFlightRunCount
Phases     == InFlight \cup {"absent", "returned", "done"}
Verdicts   == {"none", "killed", "budget", "circuit", "success", "failure"}

Running == heartbeat # NoTenant

\* Types of the runtime's fields, the tenants' locks, their limits and the runs.
RuntimeTypes ==
  /\ heartbeat \in Tenants \cup {NoTenant}
  /\ pendingHeartbeatRuns \subseteq Tenants
  /\ eventQueue \in Seq(Tenants) /\ Len(eventQueue) <= MaxEventQueueSize
  /\ processingEvents \in BOOLEAN
  /\ killSwitch \in BOOLEAN
  /\ now \in Time
LockTypes ==
  /\ tenantLocks \in [Tenants -> Runs \cup {NoRun}]
  /\ inFlightRunCount \in [Tenants -> Nat]
  /\ tenantLastActivityAt \in [Tenants -> Time \cup {Never}]
LimitTypes ==
  /\ runTimestamps \in [Tenants -> SUBSET Runs]
  /\ tokenTimestamps \in [Tenants -> SUBSET Runs]
  /\ consecutiveFailures \in [Tenants -> Nat]
  /\ circuitOpenedAt \in [Tenants -> Time \cup {Never}]
  /\ charge \in [Runs -> Nat]
RunTypes ==
  /\ nextRun \in 1..(MaxRuns + 1)
  /\ tenantOf \in [Runs -> Tenants \cup {NoTenant}]
  /\ via \in [Runs -> {"event", "heartbeat"}]
  /\ phase \in [Runs -> Phases]
  /\ previous \in [Runs -> Runs \cup {NoRun}]
WorkTypes ==
  /\ startedAt \in [Runs -> Time \cup {Never}]
  /\ provider \in [Runs -> {"none", "pending", "abandoned", "settled"}]
  /\ verdict \in [Runs -> Verdicts]
TypeOK == RuntimeTypes /\ LockTypes /\ LimitTypes /\ RunTypes /\ WorkTypes

Init ==
  /\ heartbeat = NoTenant
  /\ pendingHeartbeatRuns = {}
  /\ eventQueue = <<>>
  /\ processingEvents = FALSE
  /\ killSwitch = FALSE
  /\ now = 0
  /\ tenantLocks = [t \in Tenants |-> NoRun]
  /\ inFlightRunCount = [t \in Tenants |-> 0]
  /\ tenantLastActivityAt = [t \in Tenants |-> Never]
  /\ runTimestamps = [t \in Tenants |-> {}]
  /\ tokenTimestamps = [t \in Tenants |-> {}]
  /\ consecutiveFailures = [t \in Tenants |-> 0]
  /\ circuitOpenedAt = [t \in Tenants |-> Never]
  /\ nextRun = 1
  /\ tenantOf = [r \in Runs |-> NoTenant]
  /\ via = [r \in Runs |-> "event"]
  /\ phase = [r \in Runs |-> "absent"]
  /\ previous = [r \in Runs |-> NoRun]
  /\ startedAt = [r \in Runs |-> Never]
  /\ provider = [r \in Runs |-> "none"]
  /\ verdict = [r \in Runs |-> "none"]
  /\ charge = [r \in Runs |-> 0]
-----------------------------------------------------------------------------
(* Requests *)

\* Mutant: the abort at the timeout frees the lock.
HasLockAfterAbort(r) ==
  /\ phase[r] = "waiting"
  /\ previous[r] # NoRun => phase[previous[r]] \notin {"waiting", "running"}

\* The promise r awaits has resolved.
HasLock(r) ==
  /\ phase[r] = "waiting"
  /\ previous[r] # NoRun => phase[previous[r]] \notin Unreleased

\* No continuation of the runtime is due: the event loop may take a timer.
Quiescent == \A r \in Runs : phase[r] \notin {"released", "returned"} /\ ~HasLock(r)

\* The synchronous prefix of executeRun and withTenantLock, up to
\* `await previous`; ph is `phase` as the calling step leaves it.
ExecuteRun(t, kind, ph) ==
  /\ nextRun \in Runs
  /\ nextRun' = nextRun + 1
  /\ tenantOf' = [tenantOf EXCEPT ![nextRun] = t]
  /\ via' = [via EXCEPT ![nextRun] = kind]
  /\ phase' = [ph EXCEPT ![nextRun] = "waiting"]
  /\ previous' = [previous EXCEPT ![nextRun] = tenantLocks[t]]
  /\ tenantLocks' = [tenantLocks EXCEPT ![t] = nextRun]
  /\ inFlightRunCount' = [inFlightRunCount EXCEPT ![t] = @ + 1]

\* A request is made from outside only while MaxRuns leaves numbers for it
\* and for every queued event.
RoomForRequest == nextRun + Len(eventQueue) <= MaxRuns

TouchTenant(t) == tenantLastActivityAt' = [tenantLastActivityAt EXCEPT ![t] = now]

Start(t) ==
  /\ ~Running
  /\ heartbeat' = t
  /\ UNCHANGED <<pendingHeartbeatRuns, eventQueue, processingEvents, killSwitch, now,
                 lockVars, limitVars, callVars, phase, workVars>>

Stop ==
  /\ Running
  /\ heartbeat' = NoTenant
  /\ eventQueue' = <<>>
  /\ UNCHANGED <<pendingHeartbeatRuns, processingEvents, killSwitch, now,
                 lockVars, limitVars, callVars, phase, workVars>>

\* eventQueue without t, which occurs in it at most once.
Others(t) ==
  IF \E i \in DOMAIN eventQueue : eventQueue[i] = t
    THEN LET i == CHOOSE i \in DOMAIN eventQueue : eventQueue[i] = t
         IN  SubSeq(eventQueue, 1, i - 1) \o SubSeq(eventQueue, i + 1, Len(eventQueue))
    ELSE eventQueue

\* The queue emitEvent leaves: t's older event coalesced, the oldest dropped
\* while the queue is full, t last.
Enqueued(t) ==
  LET q       == Others(t)
      surplus == Len(q) - (MaxEventQueueSize - 1)
  IN  Append(SubSeq(q, IF surplus > 0 THEN surplus + 1 ELSE 1, Len(q)), t)

\* emitEvent; an idle processEventQueue takes the head at once.
EmitEvent(t) ==
  /\ Running
  /\ RoomForRequest
  /\ TouchTenant(t)
  /\ IF processingEvents
       THEN /\ eventQueue' = Enqueued(t)
            /\ UNCHANGED <<processingEvents, tenantLocks, inFlightRunCount, callVars, phase>>
       ELSE /\ eventQueue' = Tail(Enqueued(t))
            /\ processingEvents' = TRUE
            /\ ExecuteRun(Head(Enqueued(t)), "event", phase)
  /\ UNCHANGED <<heartbeat, pendingHeartbeatRuns, killSwitch, now, limitVars, workVars>>

\* No heartbeat run of the tenant is pending (and the mutant that forgets to look).
MayHeartbeatAlways(t) == TRUE
MayHeartbeat(t)       == t \notin pendingHeartbeatRuns

\* The heartbeat interval fires: scheduleRun.
ScheduleRun(t) ==
  /\ Quiescent
  /\ heartbeat = t
  /\ MayHeartbeat(t)
  /\ RoomForRequest
  /\ TouchTenant(t)
  /\ pendingHeartbeatRuns' = pendingHeartbeatRuns \cup {t}
  /\ ExecuteRun(t, "heartbeat", phase)
  /\ UNCHANGED <<heartbeat, eventQueue, processingEvents, killSwitch, now, limitVars, workVars>>
-----------------------------------------------------------------------------
(* Tenant state *)

\* Mutant: a tenant with a run in flight is evicted too.
IdleOrBusyTenants(t) ==
  {u \in Tenants \ {t} : /\ IdleTtl > 0
                         /\ tenantLastActivityAt[u] # Never
                         /\ tenantLastActivityAt[u] < now - IdleTtl}

\* The tenants evictIdleTenants removes when t's state is looked up; t has
\* just been touched and is never one of them.
IdleTenants(t) ==
  {u \in Tenants \ {t} : /\ IdleTtl > 0
                         /\ tenantLastActivityAt[u] # Never
                         /\ tenantLastActivityAt[u] < now - IdleTtl
                         /\ inFlightRunCount[u] = 0}

\* A map from which the tenants in gone are deleted (a missing entry reads as d).
Without(map, gone, d) == [u \in Tenants |-> IF u \in gone THEN d ELSE map[u]]

\* getTenantState(t), the maps it shares with the lock; gone = IdleTenants(t).
Visit(t, gone) ==
  /\ tenantLastActivityAt' = [Without(tenantLastActivityAt, gone, Never) EXCEPT ![t] = now]
  /\ tenantLocks' = Without(tenantLocks, gone, NoRun)

\* pruneOldRuns and pruneOldTokens at instant `at` (and two mutants: a timestamp
\* drops out one unit early; tokens are forgotten after an hour).
RecentEarly(runs, at, window)  == {q \in runs : startedAt[q] > at - window + 1}
RecentHourly(runs, at, window) == {q \in runs : startedAt[q] > at - MsPerHour}
Recent(runs, at, window)       == {q \in runs : startedAt[q] > at - window}

\* Only the evictions touch the budgets, or the breakers.
KeepBudgets(gone) == /\ runTimestamps' = Without(runTimestamps, gone, {})
                     /\ tokenTimestamps' = Without(tokenTimestamps, gone, {})
                     /\ UNCHANGED charge

KeepBreakers(gone) == /\ consecutiveFailures' = Without(consecutiveFailures, gone, 0)
                      /\ circuitOpenedAt' = Without(circuitOpenedAt, gone, Never)

\* recordRun of run r with n tokens, at the time r started.
RecordRun(r, n, gone) ==
  LET t    == tenantOf[r]
      rts  == Without(runTimestamps, gone, {})
      toks == Without(tokenTimestamps, gone, {})
  IN IF t \in Budgeted
       THEN /\ runTimestamps' = [rts EXCEPT ![t] = Recent(@, startedAt[r], MsPerHour) \cup {r}]
            /\ tokenTimestamps' =
                 [toks EXCEPT ![t] = Recent(@, startedAt[r], MsPerDay)
                                       \cup (IF n > 0 THEN {r} ELSE {})]
            /\ charge' = [charge EXCEPT ![r] = n]
       ELSE KeepBudgets(gone)

RecordFailure(r, gone) ==
  LET t == tenantOf[r]
      n == consecutiveFailures[t] + 1
  IN /\ consecutiveFailures' = [Without(consecutiveFailures, gone, 0) EXCEPT ![t] = n]
     /\ circuitOpenedAt' =
          [Without(circuitOpenedAt, gone, Never) EXCEPT
             ![t] = IF t \in Breakers /\ n >= FailureThreshold THEN startedAt[r] ELSE @]

\* Mutant: a success does not reset the count of consecutive failures.
RecordSuccessKept(r, gone) == KeepBreakers(gone)

RecordSuccess(r, gone) ==
  /\ consecutiveFailures' = [Without(consecutiveFailures, gone, 0) EXCEPT ![tenantOf[r]] = 0]
  /\ circuitOpenedAt' = Without(circuitOpenedAt, gone, Never)

\* checkBudget's verdict on tenant t.
WithinBudget(t) ==
  t \in Budgeted =>
    /\ Cardinality(Recent(runTimestamps[t], now, MsPerHour)) < MaxRunsPerHour
    /\ SumFunctionOnSet(charge, Recent(tokenTimestamps[t], now, MsPerDay)) < MaxTokensPerDay

\* The breaker of t is open (and a mutant, off by one at the end of the cooldown).
IsCircuitOpenEdge(t) ==
  /\ t \in Breakers
  /\ circuitOpenedAt[t] # Never
  /\ now - circuitOpenedAt[t] <= Cooldown
IsCircuitOpen(t) ==
  /\ t \in Breakers
  /\ circuitOpenedAt[t] # Never
  /\ now - circuitOpenedAt[t] < Cooldown

\* What checkBudget leaves in the lists of tenant t, blocked or not.
PruneBudget(t, gone) ==
  LET kept(lists, window) ==
        [Without(lists, gone, {}) EXCEPT
           ![t] = IF t \in Budgeted THEN Recent(@, now, window) ELSE @]
  IN /\ runTimestamps' = kept(runTimestamps, MsPerHour)
     /\ tokenTimestamps' = kept(tokenTimestamps, MsPerDay)
-----------------------------------------------------------------------------
(* A run under the tenant's lock *)

MoveTo(r, p) == phase' = [phase EXCEPT ![r] = p]

\* doExecuteRun returns early and withTenantLock releases the lock.
Block(r, why) ==
  /\ MoveTo(r, "released")
  /\ verdict' = [verdict EXCEPT ![r] = why]
  /\ UNCHANGED <<startedAt, provider, charge, inFlightRunCount, callVars,
                 runtimeVars, killSwitch, now>>

BlockedByKillSwitch(r) ==
  /\ HasLock(r)
  /\ killSwitch
  /\ TouchTenant(tenantOf[r])
  /\ Block(r, "killed")
  /\ UNCHANGED <<tenantLocks, runTimestamps, tokenTimestamps, consecutiveFailures, circuitOpenedAt>>

\* The budget or, within it, the breaker blocks the run.
BlockedByLimit(r) ==
  LET t == tenantOf[r]  gone == IdleTenants(t) IN
  /\ HasLock(r)
  /\ ~killSwitch
  /\ Visit(t, gone)
  /\ PruneBudget(t, gone)
  /\ KeepBreakers(gone)
  /\ \/ ~WithinBudget(t) /\ Block(r, "budget")
     \/ WithinBudget(t) /\ IsCircuitOpen(t) /\ Block(r, "circuit")

\* run_started: the provider is called and the timeout armed.  A breaker that
\* has cooled down is reset.  A tenant with neither a budget nor a breaker is
\* only touched.
StartRun(r) ==
  LET t == tenantOf[r]
      gone == IF t \in Budgeted \cup Breakers THEN IdleTenants(t) ELSE {}
  IN
  /\ HasLock(r)
  /\ ~killSwitch
  /\ WithinBudget(t)
  /\ ~IsCircuitOpen(t)
  /\ Visit(t, gone)
  /\ PruneBudget(t, gone)
  /\ consecutiveFailures' = Without(consecutiveFailures, gone, 0)
  /\ circuitOpenedAt' = [Without(circuitOpenedAt, gone, Never) EXCEPT
                           ![t] = IF t \in Breakers THEN Never ELSE @]
  /\ MoveTo(r, "running")
  /\ startedAt' = [startedAt EXCEPT ![r] = now]
  /\ provider' = [provider EXCEPT ![r] = "pending"]
  /\ UNCHANGED <<verdict, charge, inFlightRunCount, callVars, runtimeVars, killSwitch, now>>

Frame(r) == UNCHANGED <<startedAt, inFlightRunCount, callVars, runtimeVars, killSwitch, now>>

\* The provider returns in time: a result with tokens, whose status may be
\* 'error'.
RunCompletes(r, ok, n) ==
  LET gone == IdleTenants(tenantOf[r]) IN
  /\ phase[r] = "running"
  /\ Visit(tenantOf[r], gone)
  /\ RecordRun(r, n, gone)
  /\ IF ok THEN RecordSuccess(r, gone) ELSE RecordFailure(r, gone)
  /\ verdict' = [verdict EXCEPT ![r] = IF ok THEN "success" ELSE "failure"]
  /\ provider' = [provider EXCEPT ![r] = "settled"]
  /\ MoveTo(r, "released")
  /\ Frame(r)

\* The provider rejects in time: a failure, and a run of no tokens.
RunRejects(r) == RunCompletes(r, FALSE, 0)

\* The timeout wins the race: the signal is aborted, the failure recorded and
\* the grace period begins.
RunTimesOut(r) ==
  LET gone == IdleTenants(tenantOf[r]) IN
  /\ Quiescent
  /\ phase[r] = "running"
  /\ Visit(tenantOf[r], gone)
  /\ RecordFailure(r, gone)
  /\ KeepBudgets(gone)
  /\ verdict' = [verdict EXCEPT ![r] = "failure"]
  /\ MoveTo(r, "grace")
  /\ UNCHANGED provider
  /\ Frame(r)

\* recordRun alone, as the grace period ends: a tenant without a budget is not
\* even looked up.
ChargeAfterTimeout(r, n) ==
  LET t == tenantOf[r]
      gone == IF t \in Budgeted THEN IdleTenants(t) ELSE {}
  IN
  /\ IF t \in Budgeted THEN Visit(t, gone) ELSE UNCHANGED <<tenantLocks, tenantLastActivityAt>>
  /\ RecordRun(r, n, gone)
  /\ KeepBreakers(gone)
  /\ UNCHANGED verdict
  /\ Frame(r)

\* The provider settles within the grace period (n = 0 also when it rejects);
\* the race for the maximum hold is then decided at once.
ProviderSettlesInGrace(r, n) ==
  /\ phase[r] = "grace"
  /\ ChargeAfterTimeout(r, n)
  /\ provider' = [provider EXCEPT ![r] = "settled"]
  /\ MoveTo(r, "released")

GraceExpires(r) ==
  /\ Quiescent
  /\ phase[r] = "grace"
  /\ ChargeAfterTimeout(r, ChargeTokens)
  /\ MoveTo(r, "hold")
  /\ UNCHANGED provider

\* The lock goes, either because the provider settled at last or because the
\* maximum hold expired (audited as run_max_lock_hold_released).
LeaveHold(r, p) ==
  /\ phase[r] = "hold"
  /\ provider' = [provider EXCEPT ![r] = p]
  /\ MoveTo(r, "released")
  /\ UNCHANGED <<lockVars, limitVars, startedAt, verdict, callVars, runtimeVars,
                 killSwitch, now>>

ProviderSettlesInHold(r) == LeaveHold(r, "settled")
\* Mutant: the lock is held until the provider settles.
HoldsOn(r)               == Quiescent /\ provider[r] = "settled" /\ LeaveHold(r, "abandoned")
MaxHoldExpires(r)        == Quiescent /\ LeaveHold(r, "abandoned")

\* A provider the runtime no longer waits for settles: nothing listens.
ProviderSettlesLate(r) ==
  /\ provider[r] = "abandoned"
  /\ provider' = [provider EXCEPT ![r] = "settled"]
  /\ UNCHANGED <<lockVars, limitVars, startedAt, verdict, callVars, phase, runtimeVars,
                 killSwitch, now>>
-----------------------------------------------------------------------------
(* The end of a call *)

\* executeRun's finally.
Return(r) ==
  /\ phase[r] = "released"
  /\ inFlightRunCount' = [inFlightRunCount EXCEPT ![tenantOf[r]] = @ - 1]
  /\ MoveTo(r, "returned")
  /\ UNCHANGED <<tenantLocks, tenantLastActivityAt, limitVars, callVars, workVars,
                 runtimeVars, killSwitch, now>>

\* The condition of processEventQueue's loop (and a mutant, off by one).
MoreThanOneEvent == Running /\ Len(eventQueue) > 1
MoreEvents       == Running /\ eventQueue # <<>>

\* processEventQueue resumes after its run: the next event, or the end of the
\* loop.
ProcessNextEvent(r) ==
  /\ phase[r] = "returned"
  /\ via[r] = "event"
  /\ IF MoreEvents
       THEN /\ eventQueue' = Tail(eventQueue)
            /\ ExecuteRun(Head(eventQueue), "event", [phase EXCEPT ![r] = "done"])
            /\ UNCHANGED processingEvents
       ELSE /\ eventQueue' = IF Running THEN eventQueue ELSE <<>>
            /\ processingEvents' = FALSE
            /\ MoveTo(r, "done")
            /\ UNCHANGED <<tenantLocks, inFlightRunCount, callVars>>
  /\ UNCHANGED <<heartbeat, pendingHeartbeatRuns, killSwitch, now, tenantLastActivityAt,
                 limitVars, workVars>>

\* scheduleRun's finally.
HeartbeatRunSettles(r) ==
  /\ phase[r] = "returned"
  /\ via[r] = "heartbeat"
  /\ pendingHeartbeatRuns' = pendingHeartbeatRuns \ {tenantOf[r]}
  /\ MoveTo(r, "done")
  /\ UNCHANGED <<heartbeat, eventQueue, processingEvents, killSwitch, now, lockVars,
                 limitVars, callVars, workVars>>
-----------------------------------------------------------------------------
(* Surroundings *)

ToggleKillSwitch ==
  /\ HasKillSwitch
  /\ killSwitch' = ~killSwitch
  /\ UNCHANGED <<runtimeVars, now, lockVars, limitVars, callVars, phase, workVars>>

Tick ==
  /\ Quiescent
  /\ now < MaxTime
  /\ now' = now + 1
  /\ UNCHANGED <<runtimeVars, killSwitch, lockVars, limitVars, callVars, phase, workVars>>

Request == \E t \in Tenants : EmitEvent(t) \/ ScheduleRun(t)

Control == Stop \/ ToggleKillSwitch \/ Tick \/ \E t \in HeartbeatTenants : Start(t)

Admit(r) == BlockedByKillSwitch(r) \/ BlockedByLimit(r) \/ StartRun(r)

Timer(r) == RunTimesOut(r) \/ GraceExpires(r) \/ MaxHoldExpires(r)

Provider(r) == \/ RunRejects(r)
               \/ \E n \in TokenCounts : \/ \E ok \in BOOLEAN : RunCompletes(r, ok, n)
                                         \/ ProviderSettlesInGrace(r, n)
               \/ ProviderSettlesInHold(r)
               \/ ProviderSettlesLate(r)

Finish(r) == Return(r) \/ ProcessNextEvent(r) \/ HeartbeatRunSettles(r)

Next == \/ Request
        \/ Control
        \/ \E r \in Runs : Admit(r) \/ Timer(r) \/ Provider(r) \/ Finish(r)

Spec == Init /\ [][Next]_vars

\* Continuations and armed timers run eventually.  Nothing obliges a provider
\* to settle, a caller to call or the clock to advance.
Fairness == \A r \in Runs : WF_vars(Admit(r)) /\ WF_vars(Timer(r)) /\ WF_vars(Finish(r))

FairSpec == Spec /\ Fairness
=============================================================================
