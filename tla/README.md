# Ernest Agent: verification project

TLA+ models of the parts of Ernest Agent whose correctness depends on the order
in which things happen: the multi-tenant runtime, the HTTP server with its
observability store, the page that shows it and the tools that share its files, the
sandboxed tool runner, the agent's own loop and its goal stack, its memory, the rate
limiter, the calls of the language model and the bus between agents. TLC checks each on a
small instance. TLAPS proves every safety property that a run checks for every value of
the constants, under the hypotheses section 5 names, and that compositions
implement the specifications below them; liveness is checked with TLC.

The paths below are those of the repository (`src/...` is the repository's root
as a whole). `PROJECT.json` maps every definition that stands for code to the
lines it stands for.

## 1. Inventory

The program is TypeScript on one Node event loop. Code runs without
interruption from one `await` to the next, so the unit of interleaving is the
stretch between two awaits. Tools run in worker threads, of which two start
child processes. Two kinds of state outlive the process: the JSON files of the
observability store and of the scheduled tasks, and the memories in Postgres.

| component | state | operations | how it interacts | what is hard about it | what makes it correct |
|---|---|---|---|---|---|
| AgentRuntime (`runtime/agent-runtime.ts`) | event queue, per-tenant promise chains, budgets, breakers, heartbeat flags, `running` | start, stop, emitEvent, heartbeat, runOnce | calls the run provider; audit logger; a library user starts it | promise chains, timeouts with grace and maximum hold, stop in mid-run, eviction of idle tenants | runs of a tenant go one by one, budgets hold, the breaker decides, callers get an answer, the loop never dies |
| ObservabilityStore (`server/observability-store.ts`) | two rings, active runs, debounce timer, two files | addRunStart/-Complete, addEvent, clear, load at start | called by the run executor; listeners for SSE | debounce, two-file save, torn files, clear against a scheduled save | what is in memory gets saved; cleared entries stay away; order and bounds survive restarts |
| Server and run executor (`server/server.ts`, `execute-agent-run.ts`) | `heartbeatRunning`, runs in progress, store | POST /agent/run-once, heartbeat tick, close | makes a CognitiveAgent per run, races it with a timer, records it | agents that go on after their timeout, close in mid-run, restart | one awaited heartbeat, one record per run |
| SandboxedToolRunner and tool worker (`security/sandboxed-tool-runner.ts`, `tools/`) | worker, its child process, five timers | run, abort, message, worker events | called by the environments; starts threads | timers of two threads that kill each other's subjects | each call settles once, nothing outlives it |
| CognitiveAgent (`core/agent/cognitive-agent.ts`) | step count, decision, plan, self model, goal, trace | runOnce | LLM, memory, environment, permission gate | retries, several acts per run, dry run, errors between acts | only permitted acts, bounded, dry runs inert, trace true |
| MemoryManager, Postgres repository, LocalVectorStore (`memory/`) | rows, vectors | addEpisodic/addSemantic/addProcedural, query | called by the agent; embedding by LLM adapter | two stores written in turn, reload in pages at start | stored is recallable, no vector without row, scope isolation |
| Container and start-up (`server/container.ts`) | factories | buildContainer, reindex | builds everything | reindexing fails in part | the server starts serving, with all vectors it could embed |
| RateLimiter (`security/rate-limiter.ts`) | buckets | consume | server admission | eviction forgets consumption | no key gets more than its rate |
| Scheduled tasks, recent runs (`tools/schedule-task.ts`, `get-recent-runs.ts`) | JSON files | append, read | files shared by worker threads and the store | lost updates, torn reads | tasks stay; the latest runs are told |
| GoalStack (`goals/goal-stack.ts`) | goals | addGoal, updateStatus, resolveNextGoal | asked and told by the agent's runs, changed by its owner | a status set while a run is at work; a goal that always comes first | a goal is settled once; every goal gets its turn |
| HeuristicPlanner (`goals/planner.ts`) | none | plan | agent; its plan goes into the prompt and the memory | it throws at an invalid candidate action | - |
| WorldModel, SelfModel (`world/`, `self/`) | counters | update, recordOutcome | agent | - | counts what happened |
| Multi-agent bus, registry, coordinator (`agents/`) | handlers, agents | publish, subscribe, register, send | library users only | handlers that subscribe, unsubscribe or publish in mid-publish, and throw | each lasting subscriber once; a failure is signalled |
| Page (`ui/src/App.tsx`) | runs and runs in progress shown | fetch, poll, event stream, clear | the routes of the store | answers that overtake each other and the stream; a stream that breaks | each run in its place, none in progress for ever |
| Tool gate and registry, environments, observation adapters, workspace adapter | filled at start | pure checks | agent, server | shape of JSON | - |
| LLM adapters (`llm/adapters/`) | cache of DNS validations, requests under way, codex's child | create, generate, embed | chosen and created at start-up; called by agent and memory; HTTP, a child process | lookups that overlap, a server or child that does not answer | a request goes only to a host validated lately; a call settles |
| Input, output and path checks, audit log, secrets, doc routes, CLI, examples | none to speak of | | | | |

`PROJECT.json` lists all components with their files, and the hazards at the
lines where they bite, with the properties that cover them or the reason why
none does yet.

## 2. Modules

| module | what it models | lines of code it stands for |
|---|---|---|
| `RunQueue` | abstract: per tenant, one run at a time in order of arrival | (promise of AgentRuntime) |
| `AgentRuntime` | `runtime/agent-runtime.ts` with its budgets and breaker | whole class |
| `AgentRuntimeProperties` | what it should satisfy, and the refinement of RunQueue | - |
| `AgentRuntimeProofs` | inductive invariants and theorems | - |
| `ObservabilityStore` | `server/observability-store.ts` | whole class but listeners |
| `AgentServer` | EXTENDS the store: `server/server.ts`, `execute-agent-run.ts` over it | runs, heartbeat, close, restart |
| `SharedFiles` | EXTENDS the store: `tools/schedule-task.ts`, `get-recent-runs.ts` in worker threads over its files | both tools |
| `LivePage` | EXTENDS the store: `ui/src/App.tsx` over `server/observability-routes.ts` | the two lists of runs |
| `ObservabilityStoreProofs` | inductive invariants and theorems of the store, the shared files, the server and the page | - |
| `SandboxedToolRunner` | `security/sandboxed-tool-runner.ts`, `security/tool-worker.ts`, `tools/run-command.ts`, `invoke-codex.ts`, `invoke-claude.ts`, `cli-kill.ts` | one call with its worker and child, or in process |
| `SandboxedToolRunnerProofs` | inductive invariant and theorems | - |
| `CognitiveAgent` | `core/agent/cognitive-agent.ts` | one runOnce |
| `GoalRuns` | EXTENDS the agent: run after run of it over `goals/goal-stack.ts` | whole class but listGoals |
| `CognitiveAgentProofs` | inductive invariants and theorems of both | - |
| `MemoryManager` | `memory/memory-manager.ts` over repository and vector store; reindexing in `server/container.ts` | store, query, start-up |
| `MemoryManagerProofs` | inductive invariant and theorems | - |
| `RateLimiter` | `security/rate-limiter.ts` | whole class but tick() |
| `RateLimiterProofs` | inductive invariant and theorems | - |
| `LlmCalls` | `llm/adapters/`, the choice of adapters in `server/container.ts` | start-up, generate and embed of each |
| `LlmCallsProofs` | inductive invariant and theorems | - |
| `MessageBus` | `agents/in-memory-bus.ts`, `agent-registry.ts`, `multi-agent-coordinator.ts` | publish handler by handler |
| `MessageBusProofs` | inductive invariant and theorems | - |
| `MC*` | the values that a .cfg cannot write: symmetry, functions, negative integers | - |

`AgentServer`, `SharedFiles`, `LivePage` and `GoalRuns` are compositions: every step of
theirs is written as the step of the component below, the store or the agent, plus their
own assignments. The composition of the others is by contract. CognitiveAgent sees its environment as
a call that always returns (the environment turns rejections into results), its
LLM and memory as calls that answer or reject; AgentServer sees the agent
through the events it emits and through its settling; MemoryManager sees an
embedding as one that works, is refused or fails.

### 2.1 AgentRuntime

One record per call of `runOnce` holds where it stands: queued behind
its tenant's tail, running, timed out and waiting for the grace to end, done.
The promise chain of `withTenantLock` is the link from a run to the run whose
promise it awaits. A provider is `working`, `settled`, or `abandoned` once
`run_max_lock_hold_released` let the tenant go on without it; an abandoned
provider may settle at any time, or never.

- `Start`, `Stop` and `EmitEvent` are the public methods, `ScheduleRun` is the
  tick of the heartbeat interval. `Admit` is the continuation that gets the
  tenant's lock and goes through kill switch, budget and breaker (`Block...` or
  `StartRun`); `Provider` is the settling of the provider's promise, in time, in
  the grace, in the hold after it or later; `Timer` the run's timeout, the end
  of the grace and of the maximum hold; `Finish` the `finally` blocks, with the
  loop of `processEventQueue`. The eviction of idle tenants is part of every
  step that calls it. `Tick` is the clock.
- The clock is coarser than the timers of a run: a timer may fire any time after
  it was armed, before or after the next Tick. Budgets, cooldown and idleness
  are measured by the clock.
- A timer, heartbeat or Tick fires only when no continuation is due: promise
  continuations go first on an event loop.
- The validation of the constructor (positive numbers, and so on) is the
  module's assumptions.
- Left out: results that are not objects, a clock that goes back, the audit
  logger (its messages are the history that NoUnauditedOverlap reads).

### 2.2 ObservabilityStore and AgentServer

Entries are numbered in order of addition, so that order, loss and return can
be told. A save truncates and writes one file and then the other; the process
may die between any two of these, or a write may fail, leaving a file torn;
a torn file loads as empty. `clearing`, `clearedAt` and `failed` are history for
the properties. The debounce timer may fire at any time once set.

In the server, a heartbeat's or request's run goes through `executeAgentRun`:
recorded as started, observing, running, then answered or timed out. After a
timeout the agent goes on and emits events until it settles, which it need not.
`persist` is synchronous, so no step of the server falls into a save. One event
stands for the several an agent emits. `Refuse` stands for every refusal: rate,
schema, API key, tenant, conflicting goal.

`SharedFiles` sets two worker threads beside the store. A call of `schedule_task` is
three steps of the file system (read all, truncate, write all), and between them come
those of another call, or the death of the thread or of the process. A write over what
another call has written meanwhile may leave an end of it, which then does not parse.
`GetRecentRuns` is what a call would answer at any moment, in the middle of a save or
not. Tasks carry the number of their call; what they say is left out.

`LivePage` sets a browser before it. What the page has asked is answered from the store as
it is when the server comes to it; answers arrive in any order. The stream (`Receive`) is
a queue that keeps its order, breaks, and when it is opened again begins with the events
the store has kept, newest first, which do not include the ends of runs. `unseen` is
history: what ended while the stream was broken, or was taken from the page by an answer
older than it. Saves by the timer, which the page does not see, and crashes of the
server are left out, and so is a refusal of a request by its status: the page ignores it,
but for a clear, which then empties the page alone (section 6).

### 2.3 SandboxedToolRunner

One call and its worker thread, with a discrete clock. The runner's side has the
timeout, the abort timer and the extra time after it; the worker's side has the
child's SIGTERM and SIGKILL timers and those of `run_command` itself. Every
timer fires between its deadline and `Lag` later; a thread that is blocked by
its tool handles nothing. Three kinds of tool: without a child, with a child
that listens to the abort signal (`invoke_codex`, `invoke_claude`), with one that does not
(`run_command`). The child's exit and its 'close' event, which comes when its pipes are
closed and which the handler waits for, are two steps, and the second may never come. The child of
`run_command` is the shell it spawns (`shell: true`): what the shell forks gets no
signal, and is here only as that which may keep the pipes open. A worker fails of itself only while it has no child, and starts
within the runner's timeout: outside of that nobody stops the child
(`tools/cli-kill.ts:39`), and NoOrphan does not hold.

With `inProcess` the same handlers run on the main thread and a race of promises takes
the place of the messages: an answer settles the call and clears the timer in the same
turn; the timer aborts, rejects, and leaves the child to the kill timer. A handler that
blocks keeps the timer from firing, which the code names as its limitation; if it answers
at last, the call resolves, however late. Left out: an uncaught error of a handler in
process, which ends the process.

### 2.4 CognitiveAgent

One `runOnce`; a step is the code between two awaits. `Allowed` is the permission
gate. The LLM may reject, or give an answer that is valid, invalid, or valid but without an
action type, which ends the run at any attempt (a validator may be given that lets it
pass; the default one does not). Each memory call may reject; `environment.act` succeeds or fails but never rejects. The self model is
a list of the outcomes it was told, the trace a list of what the result reports.

`GoalRuns` calls it again and again. `GoalPicked` is the step in which the run, having read
its memories, asks the stack for a goal and the planner for a plan; `GoalSettled` goes with
the step in which `learn` tells the stack. Between the two the owner of the stack adds
goals and sets statuses. The comparator is translated field by field; `ResolveNextGoal` is the
first of the stable sort, as a CHOOSE whose witness is proved to exist. Of the planner there is whether it
throws at one of the goal's candidate actions (`Refused`), which ends the run in an
error.

### 2.5 MemoryManager

Rows and vectors as two sets; each memory is stored once, with the phases
embedding, upsert, save, roll-back. The process may crash at any moment; rows in
flight may or may not be committed; the vectors are gone, and the next start
reads the table page by page, each page cut from a query of its own in which rows of the same
`created_at` stand in any order. `split` is history: the rows that were not on a page which
held one of their `created_at`, so that a later page may miss them as well. A query goes from embedding over the search of the vectors to the rows of
what it found, and other calls come in between; queries change nothing, so one
at a time is enough. Any matching record may be the nearest, which is every scoring there can be. The limits a caller
passes are halves of integers, since the code floors and clamps
them. Left out: `lastAccessedAt` (nothing reads it), the in-memory repository,
`persist: false`, storing an id twice.

### 2.6 RateLimiter

`Consume` is a whole call: clean-up if it is due, room for a new bucket if there
are too many, refill, decision. The buckets are a function on the keys that have
one; among the oldest any may make room, since JavaScript's order of insertion
decides only between those of one instant. `granted`, `spent`, `born` and
`crowdedOut` are history, kept for the watched keys only. The clock goes on by
whole units in which whole tokens are refilled: fractions of tokens and the
rounding of floating point are left out, and so is a clock that goes back.

### 2.7 LlmCalls

`config` stands for the environment variables: which provider answers, which embeds, at
which URLs, with or without DNS. Start-up creates one adapter or two, each looking its
hosts up first. A call is then idle, looking its host up, fetching, reading the body, or
a child of codex, at work or being killed. `Request` is what the six methods of the hosted
adapters share: use the cached validation if it is young enough, otherwise look up and
date the entry with the time the call began. `vouched`, which is history, is the age of
the latest lookup that said safe, whoever asked.

Timestamps are kept as ages, capped where they are past the time to live, and timers
count up from when they were set, so the clock needs no bound. Whether an address is safe
is the lookup's choice. A lookup in `create` does not fill the cache, and no more does the
model. Left out: the mock adapter and the contents of prompts and answers.

### 2.8 MessageBus

`Send` is the coordinator's, which checks and publishes; `Publish` alone is a call of the bus
past it. `stack` holds the publishes under way: a handler that sends a message calls `publish`
before it returns, and its delivery is over before the next handler of the outer one is
called. `Set.forEach` is a walk by the number of the subscription, which meets what has
been added since and misses what has been deleted. A handler is told from another only by
whether it throws; one that returns a promise counts as having returned, since `publish`
does not look at it. Payloads are left out: each handler has a clone.

## 3. Runs

Every run is exhaustive within its bounds. "Violation" runs refute a statement
of the repository's documents or comments; section 6 quotes them.

| run | instance | shows |
|---|---|---|
| runtime_runs | tenant `a` with budget, breaker and heartbeat, `b` with none; 3 calls, clock 0..2, hour 1, day 2, 2 runs an hour, 2 tokens a day, threshold 2, cooldown 2, idle limit 1, event queue of 1 | serial runs per tenant, no silent overlap of providers, two calls in flight at most, the event loop alive, refinement of the queue, hourly and daily budgets, the breaker's decision, all under eviction |
| runtime_live | 1 tenant, kill switch, 4 calls, clock still, threshold 2 | the queue's fair specification, heartbeats resume, the breaker's decision where a success may stand between failures |
| store_saves | 2 requests, 2 worker threads, rings of 2, up to 3 tasks and 4 entries and tasks together, writes may fail | save or schedule, clears, tasks stay, the latest runs are told, saves happen |
| server_runs | 1 HTTP request, 2 heartbeats (symmetric), rings of 2 and 1, up to 12 entries | heartbeat exclusion, one record per answered run and none of those in progress |
| tool_runs | three kinds of tool, in a worker and in process; timeout 2, kill grace 2, extra 3, command's timeout 1 and grace 1, lag 1, clock 0..12 | no orphan, every call settles and neither thread nor child remains |
| command_outlives | `run_command` with its default order of timeouts: its own (9) above the runner's (2) | violation |
| agent_runs | 2 types of action, 1 permitted, 3 steps, 2 retries, each mode; goals x, y, z of which y is refused by the planner and goes before z, added as pending or active; one status set by the user | permission, bounds, dry runs, records, trace; goals are settled once and get their turn |
| memory_runs | 4 memories of 2 tenants and 2 types, two of them with one `created_at` (symmetric), pages of 2, limits of 2, by default and by the maximum | recall, no phantom vectors, scope, undiluted answers |
| limiter_runs | 3 keys of which one is watched, 2 buckets, capacity 3, refill 1, costs 2 and 3, time to live 3, clean-up every 2, 6 instants; the unwatched keys symmetric | the rate kept and not undercut, two buckets' worth at most, table small and young |
| llm_runs | every configuration; 2 calls, time to live 1, request's timeout 1, codex's 2, kill grace 1, timers up to 1 late | requests only to validated hosts, calls settle |
| bus_runs | 2 agents, 2 handlers (both symmetric), one memory scope, 4 subscriptions, 2 messages | lasting subscriptions get each message once; a publish rejects if all it called threw |
| page_runs | 2 runs with 2 entries in all, both lists of 2, one event kept, one break of the stream or clear, buttons pressed when nothing is under way | each run in its place, no run in progress for ever that is not |

The types are proved (section 5), and no run lists them again.

### 3.1 Why the bounds are enough

- Runtime: the chain of one tenant needs three calls for a waiter that outlives
  the predecessor whose tail was evicted; the other tenant is needed for eviction in
  its step. That one of them has neither heartbeat nor limits loses nothing of the
  serialisation, which is proved for all. The budget cases need a clock that leaves the
  windows (hour 1, day 2, clock 2) and a tenant that is evicted. A tenant is evicted once it
  has been idle for more than the limit, here for two units: both windows and the
  cooldown are then over. A shorter limit loses them (section 6). Four calls let a success
  separate two failures and the threshold of two be reached twice. Failures that are
  forgotten between two others take four calls of a tenant with eviction, which
  runtime_runs has not: that BreakerDecides allows for them rightly was seen with such an
  instance, and is proved.
- Store: a ring of 2 with 4 entries overflows twice; two requests tell the
  entries of runs apart. Entry numbers grow only by calls, so `MaxAdded` also is
  the pause in the calls that the debounced save waits for. Two calls of `schedule_task`
  can overlap, and a third reads what they left.
- Server: two heartbeats and a request are every pair of kinds. `MaxAdded` is at
  least four per request, so that the bound on entries never stops a run that
  has been accepted.
- Tool runner: the deadlines keep the code's order (the extra time after the
  kill grace, the command's timeout below the runner's in tool_runs, above in
  command_outlives, where the defaults are 60 s and 30 s). `MaxTime` is beyond
  the last deadline, so the clock's bound never keeps a timer from firing.
- Agent: three steps have a first, a middle and a last turn of the loop; two
  retries tell "again" from "give up". Of the three goals one comes first, one is refused
  and one stands behind the refused one. A second change of status by the user would
  only repeat what the first can do to a run at work; goals may be added at any time.
- Memory: with one row and the two of the tie, or with the tie and an older row, a page
  of two is full and the next is not; the first border divides the tie, the second does not.
  A full last page occurs with two rows or four. Two tenants and two types are the least that
  the filter can tell apart; three memories of one tenant exceed the limit.
- Rate limiter: a third key makes room where two have buckets. The rate is a
  statement about one key, so one history is enough (`Watched`); the others only
  push its bucket out, once (`MaxCrowding`). Of a capacity of 3 a cost of 3
  leaves nothing and one of 2 a remainder; 6 instants see a bucket age, be dropped
  and be refilled.
- Model's calls: two lookups that overlap are what can bring an older entry into the
  cache; a third adds no kind of pair. Ages are told apart up to the time to live and one
  beyond. Time is not bounded.
- Bus: two handlers can each disturb the walk that the other is in, a subscription can be
  undone and made again, and a message be sent from within the delivery of another.
- Page: two entries are a run that begins and ends, or two runs that end in some order;
  a stream that breaks once begins again with what was kept. `MaxInFlight` only keeps
  buttons from being pressed while something is under way: what `onopen`, the poll and
  the tab ask, and their answers, still overtake each other.

`CHECK_DEADLOCK FALSE` is said only where the system stops: a tool call that has ended
(tool_runs, command_outlives), and a bus whose bounds are used up. The others never
deadlock, since a clock tick, a crash, a restart, a clear, another call or another tab is
possible; where the bounds on calls are used up in the runtime, `Stop` and `Start` still are.

### 3.2 Fairness

- Runtime: weak fairness of each run's continuation, timers and `finally`. The
  event loop runs due continuations and timers. A provider need never settle,
  nobody need call, stop or start, and the clock need not advance.
- Store: weak fairness of the save's steps, which are synchronous code once the
  timer fires.
- Tool runner: timers fire, messages arrive, the clock goes on. A handler or a
  child may run for ever, and a child that has exited need never close.
- Agent: what is awaited answers (resolves or rejects), and somebody calls `runOnce`
  again, as the heartbeat of a server or a runtime does. That runs complete from some time
  on is a premise of GoalsGetTurns, not an assumption.
- Model's calls: timers fire and the clock goes on; a lookup gives up by itself, as the
  resolver does. A body that is being read is no longer timed by the adapter; that it ends
  is `fetch`'s own time limit on bodies, not the code's. Servers need not answer and
  children need not exit.
- Page: the server comes to what it has been asked, however often it saves between, what is
  sent arrives, and the interval of the poll fires. The stream need not be opened again, nor
  anybody press a button.
- Server, memory, rate limiter and bus: none. Only safety is checked there.

## 4. Properties in words

The modules state each above its definition. In short: SerialPerTenant,
NoUnauditedOverlap, BoundedInFlight, EventLoopAlive, HourlyBudget, DailyTokens,
BreakerDecides, HeartbeatsResume and the refinement of RunQueue for the runtime;
SavedOrScheduled, ClearIsFinal, GetsSaved for the store, ScheduledStays and
AnswersLatest for the tools that share its files, RunsShown and GhostsGo for the page;
HeartbeatExclusive, RecordedOnce for the server; NoOrphan, Ends for tools; OnlyPermitted,
DryRunInert, CompletedIsRecorded, TraceTells for the agent, SettledOnce and
GoalsGetTurns for its goals; Recallable, NoPhantomVectors, AnswersInScope, NotDiluted for
the memory; RateKept, RefusedOverRate, TwoBucketsRate, StaleBucketsGo for the rate limiter;
FreshlyValidated, CallsSettle for the model's calls; EveryoneServed, FailureSignalled for
the bus. NewestFirst, ActsBounded, BucketsBounded and PagesBounded are proved only.

BreakerDecides and the budgets are stated over the history of runs (when each
began, how it was judged, what it was charged), not over the runtime's own
counters: they say what the counters are for. BreakerDecides is two implications: a
blocked run comes after `failureThreshold` failures in a row with one in the
cooldown, and after such failures a run is blocked unless the tenant was idle for long
enough between them, or since, to be forgotten (`Remembered`). Every property of a passing run
has a mutant, a plausible slip in one mapped definition that breaks it; the
mutated forms (`MatchesType`, `SaveFailsOnly`, `RefilledAgain` and so on) stand
beside the definitions they change.

## 5. Proofs

`AgentRuntimeProofs` proves `Spec => []Inv` for any number of tenants, calls and
instants and any limits. SerialPerTenant alone is not inductive: that the next
run finds the holder gone depends on which promise it awaits. `QueueInv` says why
the chain works:

- *Numbered, Counted, Linked*: calls are numbered in order, the in-flight count
  is the number of calls in flight, a promise awaited and a tail belong to the
  tenant;
- *Chained*: an unreleased call that has an unreleased predecessor awaits one
  that is not before it;
- *Tailed*: a tenant with an unreleased call has a tail, not before that call and
  unreleased itself - which eviction preserves only because it spares tenants
  with calls in flight (*Counted*);
- *HolderFirst*: whoever holds the lock is the first of the unreleased.

SerialPerTenant is HolderFirst for two holders. There is a lemma per action,
and one (`AdvanceKeepsQueue`) for all those that move a run without releasing it.
`InTurn` and `ProviderHeld` (a provider is pending only while its run holds the lock,
unless abandoned) give NoUnauditedOverlap, the one-call invariants EventLoopAlive and
BoundedInFlight; the initial states map to those of RunQueue, and every step to a step
of the queue or a stutter.

*The budgets.* The code counts what its lists hold, the properties what happened. `StartsInv`
says that a tenant was touched no earlier than its last start, so that one evicted has
started nothing within the idle limit; `Logged`, that the tenant's list holds every start
(or charge) of the window that is recorded, no fewer times than it was; what is not yet recorded
belongs to the holder of the lock, of which there is one. A start that `WithinBudget` lets
through therefore has fewer before it. The hypothesis is `IdleOutlasts(w)`: nobody is evicted, or
only when idle for the window `w` (an hour, a day); without it the properties are false
(section 6). Tokens are a sum over a set; the proof counts units instead (`SumCounts`), since an
induction over the fold is out of the prover's reach.

*The breaker.* `JudgedInv`: runs of a tenant start in the order of their numbers, and none is judged
before it starts. `FailuresInv`: there is a number n such that `consecutiveFailures` counts the judged
runs from n on, all of them failures, and those before n are behind a success or so old that
the tenant was, or may be, forgotten. `OpenInv`: with the threshold reached and no run on
trial the breaker is dated with the start of the latest judged run, otherwise it is
closed. Every action is one of three kinds, a step that judges nobody (`Leaves`), starts a
run (`Tries`) or judges one (`Judges`).

`MemoryManagerProofs` proves, for any number of memories, tenants, types and any
page size, that vectors carry their own metadata, committed saves are in the
table, vectors have a row or a save under way, and the candidates of a query fit
it. The last needs a count: a search promises as many places as records
match, less those being saved; a save that fails takes back a candidate that was
not counted (lemma `PlacesKept`). `PagesRight` (the next page starts where full ones
ended) is a second invariant, for PagesBounded. Recallable needs that a reindexing misses
nobody (*RecallInv*): while it reads, every row that has fewer newer ones than the offset is
rebuilt, or divided from its tie. Each page orders the rows anew, so a place in the listing
means nothing for a row of a tie; but the first place of the tie is the number of newer
rows in every listing (`PlaceInListing`). The page that has this place either has the row or
has one of its tie without it (`PageDividesOrHolds`). Times may be equal as they like.

`CognitiveAgentProofs` proves the agent's five invariants for any set of action
types, permissions and bounds. None is inductive: OnlyPermitted needs that the
decision about to be acted has passed the gate (*GateInv*), ActsBounded that `step`
counts the acts that returned, one less than the history before the next turn
(*CountInv*), DryRunInert that only a run that is not dry comes to store its plan
(*DryInv*), CompletedIsRecorded that the acts are stored in order while the loop is
over and that a status is set only at the end (*RecordInv*), TraceTells what the trace
holds at each place in the code (*TraceInv*). `LoopEnds` and `LoopTurns`
carry them through the loop's exits and its next turn, whichever of the
continuations leads there.

Its second half is about `GoalRuns`. Each step of a run there is one of the agent's, so all
carry over from one run to the next (`EveryRunKeeps`). SettledOnce needs that a run at
work on a goal that was open when chosen has not settled it yet (*ChosenInv*), and that a goal
settled once has a status that keeps it from being chosen (*SettledInv*). Both need to
know what `ResolveNextGoal` chooses: that among candidates there is a first one
(`FirstExists`), because the comparator is a strict weak order and ties are broken by
place (`BeforeOrders`, `PrecedesOrders`), by induction over the places.

`ObservabilityStoreProofs` proves the store's invariants and those of the three
compositions over it. *OrderInv*:
rings and files descend, and nothing in them is newer than the last call, so what is put in
front of a ring that was read from a file is newest. *ClearInv*: a clear under way has
emptied the rings, a saved one the files too. *SaveInv*: in the second half of a save the first
file equals the ring, and SavedOrScheduled. `ImplementsStore` carries them to the
composition, where *TasksInv* says that each call of `schedule_task` holds all tasks that
are not excepted, and that two calls under way are both marked as overlapping.

The server's steps are the store's with a request's progress, so `StoreInv` carries over
(`ServerStoreKeeps`). HeartbeatExclusive needs *BeatInv* (the flag is up exactly while a heartbeat
is awaited, and at most one is). RecordedOnce is inductive with it and *AgentInv*: no agent is at work for
a request that has not been observed, and the entries that requests under way may still
make fit below the bound, so that the bound stops nobody. A crash takes back a record
that was not saved, never one that was answered twice.

For the page, each run has one entry wherever it appears (*IdentityInv*), the stream tells ends
in their order and without a gap (*StreamInv*), and answers are sorted and the page has no run twice
(*ListsInv*). *ShownInv* is RunsShown with what is still under way: a run of the store was
missed, is about to be told, is below newer runs only, or newer runs take all the room.
`OthersAre` describes the filter of `ev.onmessage` as a list with one gap closed.

`SandboxedToolRunnerProofs` proves NoOrphan from *KillsInTime*: between the abort and the worker's
end there is time for the child's SIGKILL, and `run_command` has killed its child of its own
accord by then. The defaults of the tools that listen to the abort satisfy it as long as no
timer is more than half the extra time late; those of `run_command` do not, which is
command_outlives. *DoomInv* is the core: a child that lives has, in each phase, a message or timer
under way that kills it before its worker is terminated. It needs where messages can be
(*QueueInv*), which timers go together (*TimerInv*), and that nothing but the answer to an
abort leaves the worker while the child lives (*AnswerInv*).

`RateLimiterProofs` proves all six invariants for any keys, capacity, refill, table size
and times. The rate is a statement about the past, so the invariant ties each bucket to
the grants it gave: `Accounts` says that its tokens and what it gave since any of its
grants, or since it was made, are at most the capacity and the refill of that time, and
exactly that for one grant unless it is full. The exact part is what justifies a refusal.
`FormerBucket` keeps the same for the bucket a key had before, which is enough because
a bucket is dropped only when older than the time to live; `CleanSince` dates the last
clean-up. Refills are products of two variables, which the solvers see through
`Added` and the lemma `AddedAdds` alone.

`LlmCallsProofs` proves FreshlyValidated for any number of calls and any times. What
makes it inductive is *EntriesVouched*: no entry of a cache is younger than the latest
lookup that said safe. `LookupSafe` writes both, and may put an older entry over a
younger one, but never a younger age than the one vouched for; time ages both alike
(`TickKeeps`). That only hosted adapters look up (*LookupsHosted*) and that no timer is
overdue by more than its lag (*TimersBounded*) are needed for the types.

`MessageBusProofs` proves both properties for any agents, handlers and depth of nesting. No
publish that has returned is looked at again, so what has to be inductive is about
those under way: subscriptions are numbered once each (*TicketsInv*), and each publish has
called every subscription of its receiver up to the one it is at, in ascending order, and
counted failures of those only (*StackInv*). A handler that disturbs an outer walk takes away
from what is there or adds above all tickets, which `Progressing` survives; when the walk finds nothing
above, those that lasted have all been called.

The assumptions are those of the modules (`NumbersAssumption` and its like): limits
are natural numbers, positive where the constructor demands it; maps are
functions on the sets they are about. Each is evaluated by TLC in a run.

Every invariant and action property of the passing runs is proved, and QueueSpec.
Only model-checked, because fairness and ENABLED are out of the prover's reach, are the
other temporal properties: QueueFairSpec and
HeartbeatsResume of the runtime, GetsSaved of the store, GhostsGo of the page, Ends of the
tools, GoalsGetTurns of the goals and CallsSettle of the model's calls. That
command_outlives is a violation is TLC's finding alone.

## 6. Where code and documents disagree

With a run that shows it:

- **command_outlives.** `run_command` ignores the abort signal; its child
  outlives the worker that was to kill it (`tools/run-command.ts:41`;
  `docs/security.md:40`). Its own timer signals the shell only; what that has forked goes on,
  and holds the call back until the runner's timeout if it has the pipes.

Seen while modelling, without a run of their own:

- A run that fails after more than the cooldown opens a breaker that has cooled down
  already: `recordFailure` dates the opening with the start of the run
  (`runtime/agent-runtime.ts:469`; `docs/architecture.md:50`). BreakerDecides follows the code.
- `persist()` overwrites in place; a crash in `runs.json` makes the next start skip the
  intact `events.json` too (`server/observability-store.ts:80`), although data "survives
  server restarts" (header, line 4). SavedOrScheduled speaks of
  intact files only.
- "Data is stored in JSON files" (header, line 4), but every call sets the debounce timer anew
  (`:98`): calls that never pause for its time put the save off for ever, and GetsSaved
  demands it only of calls that pause. A save whose write fails is logged and not repeated
  before the next call (`:113`); SavedOrScheduled and GetsSaved except it.
- codex's `cleanup()` runs on 'error' and again on 'close'
  (`llm/adapters/codex-adapter.ts:130`, `tools/invoke-codex.ts:83`): the second
  `closeSync(fd)` throws, or closes another file that got the descriptor meanwhile.
  The message "Codex timed out" (`:147`) is never seen: the abort's 'error' settles the
  call first.
- The timeout of a request ends with the headers: its timer is cleared when `fetch`
  resolves, before the body is read (`llm/adapters/openai-adapter.ts:220`).
- "Dry run; decision returned, no side effects" (`docs/api.md:54`): `complete_run`
  is looked at before the dry run, which then tells the self model an outcome and
  completes its goal (`core/agent/cognitive-agent.ts:246`; `docs/architecture.md:60`).
- "LRU eviction" (`security/rate-limiter.ts:60`, `:114`): the bucket that makes room
  is the one made first, however lately it was used; its key starts again with a full
  one. TwoBucketsRate excepts keys that were crowded out.
- Eviction of an idle tenant deletes its budget and its breaker: with
  `tenantIdleEvictionMs` below an hour, a day or the cooldown a tenant starts more
  than `maxRunsPerHour` runs, spends more than `maxTokensPerDay` tokens or passes
  an open breaker. Whatever the cooldown, failures before and after an idle time are not
  added up (`runtime/agent-runtime.ts:417`). The budgets are proved for idle limits that outlast
  their windows; BreakerDecides excepts failures that may have been forgotten.
- "A kill switch stops the runtime immediately" (`docs/architecture.md:50`): it is
  read when a run gets its lock; a run under way goes on
  (`runtime/agent-runtime.ts:242`). A call waiting when `stop()` is called is
  served afterwards (`:215`).
- "Overlapping runs are prevented" (`docs/api.md:115`): the heartbeat's flag is
  cleared when the wait times out, so a second agent may work beside the first
  (`server/server.ts:169`). HeartbeatExclusive is about awaited runs.
- A run that timed out never leaves `activeRuns`; the page shows it as in
  progress (`ui/src/App.tsx:215`). GhostsGo is about runs that have left it.
- "SSE events include `run_complete` for live run updates" (`README.md:114`): `run_complete` is
  not among the events kept, so a run that ends while the stream is broken is missing from the
  page until the Runs tab is entered again; so is one whose end overtakes an older
  answer of `/ui/runs`. An older answer of `/ui/active-runs` without runs hides a run in
  progress until its next event. The kept events, sent newest first and each put in front
  (`ui/src/App.tsx:152`), appear with the oldest on top, and once more after every
  reconnection. A clear that is refused (403) empties the page all the same (`:111`).
- `schedule_task` ("The task is persisted to a JSON file", `tools/schedule-task.ts:4`) loses
  tasks to a call that overlaps it, and all of them to one that reads a file in the midst of
  a write as no tasks (`:36`). ScheduledStays excepts both. `get_recent_runs` answers an
  error during a save.
- "If all handlers failed, throw to signal publish failure" (`agents/in-memory-bus.ts:53`): the
  errors are compared with the number of handlers there are at the end. If all throw and one
  of them has unsubscribed somebody, or itself, publish resolves; if one fails and the others
  unsubscribe, it may reject. FailureSignalled is about publishes that leave the set as it
  was. A handler that unsubscribes and subscribes itself again is called for ever; undoing
  one of two subscriptions of a handler undoes both; a message sent from within a
  delivery is delivered before it is over; the rejection of an async handler is not seen.
- `learn` sets the status of the goal chosen at the start, over one that its owner has set
  meanwhile (`core/agent/cognitive-agent.ts:319`).
- A goal with an action that the planner refuses (`goals/planner.ts:26`) is chosen again
  by every run, and those behind it starve: nothing tells the stack of a run that
  ends in an error. GoalsGetTurns excepts both.
- A dry run without the model takes the first candidate action, not the step of the plan that it
  has just made (`core/agent/cognitive-agent.ts:136`).
- A result that is not a safe object throws in the message listener
  (`security/sandboxed-tool-runner.ts:314`), where the test at
  `tests/security/sandboxed-tool-runner.test.ts:87` awaits a rejection.
- Acts before a later error of the LLM or of the memory are not stored as
  memories (`core/agent/cognitive-agent.ts:298`; `README.md:49`).
- "Collect successful results, log failures but continue"
  (`server/container.ts:157`): an embedding that resolves but is refused by the
  vector store abandons its page and all later ones (`:169`). Recallable excepts
  such starts. "Fail fast in production" for a bad `REINDEX_CONCURRENCY` (`:95`)
  throws inside the `try` whose `catch` continues (`:186`).
- A memory whose save rejected after it had been committed is not recallable
  until the next start, and then is.
- Rows with equal `created_at` have no order across pages
  (`memory/repositories/postgres-memory-repository.ts:97`): of a tie that a page's border
  divides, one may be read twice and another missed, which a query then does not find,
  although reindexing is to "prevent desync after restart" (`server/container.ts:72`).
  Recallable excepts such rows, and RecallsStored proves that no other is lost.
- `docs/architecture.md:124` calls the observability data "Not durable: lost on
  restart"; the store's header says that it survives.

## 7. Not modelled

`PROJECT.json` gives the reason for each part. In general: pure
functions of strings and JSON (input, output and path checks, prompts, scoring),
tools that make one request, displays and clients, and the parts that only a
library user can reach and that decide nothing (the FAISS index, the world model). Of the
server's admission only that it may refuse is modelled.

## 8. Plan

1. Proofs: SandboxedToolRunner's answers, which Ends alone speaks of (each call settles once,
   whatever crosses it); that GoalRuns implements CognitiveAgent's next-state relation
   between two runs; the safety halves of the liveness properties (what a fair step is
   enabled for).
2. Compositions: AgentServer over RateLimiter, with the admission decisions that
   `Refuse` hides; CognitiveAgent over MemoryManager.
3. Modules: the size arithmetic of the composed observation.
