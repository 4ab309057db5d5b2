----------------------- MODULE AgentRuntimeProperties -----------------------
(***************************************************************************)
(* What AgentRuntime guarantees, and the queue that it implements.         *)
(***************************************************************************)
EXTENDS AgentRuntime

SameTenant(q, r) == q # r /\ tenantOf[q] = tenantOf[r]

\* At most one run of a tenant is inside doExecuteRun, whatever the interleaving
\* of heartbeats, events, timeouts and the eviction of idle tenants' lock tails.
SerialPerTenant ==
  \A q, r \in Runs : SameTenant(q, r) /\ phase[q] \in Holding => phase[r] \notin Holding

\* While a provider call is unsettled, the runtime lets another call of the same
\* tenant start only after it has audited run_max_lock_hold_released for the
\* first one: an abort alone never frees the lock.
NoUnauditedOverlap ==
  \A q, r \in Runs :
    q < r /\ SameTenant(q, r) /\ provider[r] # "none" => provider[q] # "pending"

\* A tenant never has more than two calls of executeRun in flight, one from the
\* heartbeat and one from the event loop, however slow its providers are: the
\* promise chain cannot grow.
BoundedInFlight == \A t \in Tenants : inFlightRunCount[t] <= 2

\* A queued event always has somebody to take it: processingEvents is set
\* exactly while one event run is on its way to resume processEventQueue, also
\* across stop() and a new start().
EventLoopAlive ==
  LET resuming == {r \in Runs : via[r] = "event" /\ phase[r] \notin {"absent", "done"}}
  IN /\ eventQueue # <<>> => processingEvents
     /\ Cardinality(resuming) = IF processingEvents THEN 1 ELSE 0

\* The started runs of r's tenant before r that began less than window before it.
StartedBefore(r, window) ==
  {q \in Runs : /\ q < r
                /\ SameTenant(q, r)
                /\ startedAt[q] # Never
                /\ startedAt[q] > startedAt[r] - window}

\* Every run of a budgeted tenant that started had fewer than maxRunsPerHour
\* starts in the hour before it, timed out and overlapping runs included.
HourlyBudget ==
  \A r \in Runs :
    startedAt[r] # Never /\ tenantOf[r] \in Budgeted
      => Cardinality(StartedBefore(r, MsPerHour)) < MaxRunsPerHour

\* Every run of a budgeted tenant that started found fewer than maxTokensPerDay
\* tokens charged to the runs of the day before it: the daily budget is exceeded
\* by one run at most.
DailyTokens ==
  \A r \in Runs :
    startedAt[r] # Never /\ tenantOf[r] \in Budgeted
      => SumFunctionOnSet(charge, StartedBefore(r, MsPerDay)) < MaxTokensPerDay

\* The runs of r's tenant, from number n on, that were judged.
JudgedSince(n, r) ==
  {q \in Runs : q >= n /\ SameTenant(q, r) /\ verdict[q] \in {"success", "failure"}}

\* They call for an open breaker: at least FailureThreshold of them, all failures,
\* one of which started less than Cooldown ago.
TooManyFailures(n, r) ==
  LET judged == JudgedSince(n, r)
  IN /\ tenantOf[r] \in Breakers
     /\ Cardinality(judged) >= FailureThreshold
     /\ \A q \in judged : verdict[q] = "failure"
     /\ \E q \in judged : now - startedAt[q] < Cooldown

\* None of them was old enough to be forgotten with an idle tenant: each is
\* followed within IdleTtl by another one, or by now.
Remembered(n, r) ==
  IdleTtl > 0 =>
    \A q \in JudgedSince(n, r) :
      \/ now - startedAt[q] <= IdleTtl
      \/ \E p \in JudgedSince(n, r) : p > q /\ startedAt[p] - startedAt[q] <= IdleTtl

\* Of the runs that the kill switch and the budget let through, the breaker blocks
\* none but after too many failures, however they interleave with timeouts and
\* evictions, and every one after failures that no eviction can have forgotten.
BreakerDecides ==
  [][\A r \in Runs :
       phase[r] = "waiting" /\ phase'[r] # "waiting" /\ verdict'[r] \notin {"killed", "budget"}
         => /\ verdict'[r] = "circuit" => \E n \in Runs : TooManyFailures(n, r)
            /\ (\E n \in Runs : TooManyFailures(n, r) /\ Remembered(n, r))
                 => verdict'[r] = "circuit"]_vars

\* A heartbeat that found a run of its tenant pending is not suppressed for ever.
HeartbeatsResume == \A t \in Tenants : t \in pendingHeartbeatRuns ~> t \notin pendingHeartbeatRuns

\* What the callers see of a call: the tenant it was made for, and whether it
\* waits, is served or has left.
Owner == [r \in Runs |-> {tenantOf[r]} \ {NoTenant}]
Stage == [r \in Runs |-> IF phase[r] = "absent" THEN "absent"
                         ELSE IF phase[r] = "waiting" THEN "queued"
                         ELSE IF phase[r] \in Holding THEN "serving" ELSE "left"]

\* What the callers of one tenant see of the promise chain is a first-come
\* first-served queue.
Queue == INSTANCE RunQueue WITH owner <- Owner, stage <- Stage

QueueSpec     == Queue!Spec
QueueFairSpec == Queue!FairSpec
=============================================================================
