------------------------ MODULE SandboxedToolRunner -------------------------
(***************************************************************************)
(* One call of security/sandboxed-tool-runner.ts run(): the caller's       *)
(* promise and timers, the worker of tool-worker.ts behind two FIFO        *)
(* channels, and the child process that a tool spawns and                  *)
(* tools/cli-kill.ts kills.  Every call has a worker of its own, or runs   *)
(* its handler on the main thread, where a race decides the promise.       *)
(* run_command's child is the shell that it spawns (shell: true): what the *)
(* shell forks gets no signal, and shows here only in that it may keep the *)
(* child's pipes open, and the close event away, after the shell's end.    *)
(*                                                                         *)
(* The clock counts in units of the code's constants; a timer is never     *)
(* early and, like a message, at most Lag late on a thread that is free.   *)
(***************************************************************************)
EXTENDS Integers, Sequences

CONSTANTS
  Tools,           \* "pure": no child; "cli": invoke_codex, invoke_claude; "command": run_command
  Timeout,         \* timeoutMs
  KillGrace,       \* KILL_GRACE_MS
  Extra,           \* what the runner adds to it before it terminates the worker (500 ms)
  CommandTimeout, CommandGrace,   \* run_command's own
  StartWithin,     \* a worker has started or failed by then
  Lag,
  MaxTime          \* bound on the clock

ASSUME ToolAssumption ==
  /\ Tools \subseteq {"pure", "cli", "command"}
  /\ Timeout \in Nat \ {0} /\ KillGrace \in Nat /\ Extra \in Nat
  /\ CommandTimeout \in Nat \ {0} /\ CommandGrace \in Nat
  /\ StartWithin \in Nat /\ Lag \in Nat /\ MaxTime \in Nat

Never == -1
Time  == 0..MaxTime

VARIABLES
  now,
  tool,
  inProcess,               \* not useWorkerThreads
  call,                    \* run()'s promise
  completed,
  timeoutAt, terminateAt,  \* the runner's timers, Never when not set
  toWorker, toMain,        \* messages and worker events under way
  worker,                  \* the thread of the handler, in process the main one;
                           \* "blocked": inside a handler that does not yield
  handler,                 \* "busy": its controller is in abortControllers
  child,                   \* the spawned process; "exited": its pipes are not closed yet
  termAt, killAt           \* the worker's timers for SIGTERM and SIGKILL

given      == <<tool, inProcess>>
mainVars   == <<call, completed, timeoutAt, terminateAt>>
workerVars == <<worker, handler, child, termAt, killAt>>
vars       == <<now, given, mainVars, toWorker, toMain, workerVars>>

Answers   == {"success", "failure", "refused"}   \* "refused": assertSafeObject throws on it
Events    == Answers \cup {"error", "exit"}
Messages(T) == Seq([type : T, at : Time])
Deadlines == {Never} \cup Nat

TypeOK ==
  /\ now \in Time
  /\ tool \in Tools /\ inProcess \in BOOLEAN
  /\ call \in {"idle", "running", "resolved", "rejected", "crashed"}
  /\ completed \in BOOLEAN
  /\ {timeoutAt, terminateAt, termAt, killAt} \subseteq Deadlines
  /\ toWorker \in Messages({"run", "abort"}) /\ Len(toWorker) <= 2
  /\ toMain \in Messages(Events)
  /\ worker \in {"none", "starting", "ready", "blocked", "gone"}
  /\ handler \in {"none", "busy", "done"}
  /\ child \in {"none", "alive", "exited", "closed"}

Init ==
  /\ now = 0
  /\ tool \in Tools
  /\ inProcess \in BOOLEAN
  /\ call = "idle"
  /\ completed = FALSE
  /\ timeoutAt = Never
  /\ terminateAt = Never
  /\ toWorker = <<>>
  /\ toMain = <<>>
  /\ worker = "none"
  /\ handler = "none"
  /\ child = "none"
  /\ termAt = Never
  /\ killAt = Never

Message(type) == [type |-> type, at |-> now]
Post(types)   == toMain' = toMain \o [i \in DOMAIN types |-> Message(types[i])]
Due(t)        == t # Never /\ now >= t
Overdue(t)    == t # Never /\ now >= t + Lag
-----------------------------------------------------------------------------
(* The runner *)

\* worker.terminate(): its timers and what was under way to it go, its child stays.
Terminate ==
  /\ worker' = "gone"
  /\ toWorker' = <<>>
  /\ toMain' = IF worker = "gone" THEN Tail(toMain) ELSE <<Message("exit")>>
  /\ termAt' = Never
  /\ killAt' = Never
  /\ UNCHANGED <<handler, child>>

\* The input is not a safe object or the tool is not in the registry.
NotPermitted ==
  /\ call = "idle"
  /\ call' = "rejected"
  /\ UNCHANGED <<now, given, completed, timeoutAt, terminateAt, toWorker, toMain, workerVars>>

\* A worker is created and sent the request.
Run ==
  /\ call = "idle" /\ ~inProcess
  /\ call' = "running"
  /\ timeoutAt' = now + Timeout
  /\ worker' = "starting"
  /\ toWorker' = <<Message("run")>>
  /\ UNCHANGED <<now, given, completed, terminateAt, toMain, handler, child, termAt, killAt>>

\* The input cannot be cloned: the new worker is terminated, the call rejected.
RefuseInput ==
  /\ call = "idle" /\ ~inProcess
  /\ call' = "rejected"
  /\ completed' = TRUE
  /\ worker' = "gone"
  /\ toMain' = <<Message("exit")>>
  /\ UNCHANGED <<now, given, timeoutAt, terminateAt, toWorker, handler, child, termAt, killAt>>

\* How long the worker is kept after the abort (and the mutant that forgets the grace).
TerminateAfterExtra == Extra
TerminateAfter      == KillGrace + Extra

\* The timeout.
TimesOut ==
  /\ call # "crashed" /\ ~inProcess
  /\ Due(timeoutAt)
  /\ completed' = TRUE
  /\ timeoutAt' = Never
  /\ toWorker' = IF worker = "gone" THEN toWorker ELSE Append(toWorker, Message("abort"))
  /\ call' = "rejected"
  /\ terminateAt' = now + TerminateAfter
  /\ UNCHANGED <<now, given, toMain, workerVars>>

TerminateTimer ==
  /\ call # "crashed"
  /\ Due(terminateAt)
  /\ terminateAt' = Never
  /\ IF worker = "gone" THEN UNCHANGED <<toWorker, toMain, workerVars>> ELSE Terminate
  /\ UNCHANGED <<now, given, call, completed, timeoutAt>>

\* The first answer or error: the timers are cleared and the worker terminated
\* before the result is looked at; if that throws, nobody catches it.
Settle(m) ==
  /\ completed' = TRUE
  /\ timeoutAt' = Never
  /\ terminateAt' = Never
  /\ Terminate
  /\ call' = IF m.type = "success" THEN "resolved"
             ELSE IF m.type = "refused" THEN "crashed" ELSE "rejected"

\* An answer or an error after the call is over does nothing (and the mutant whose
\* handlers clear the timer before they look at completed).
IgnoreAndClear ==
  /\ terminateAt' = Never
  /\ toMain' = Tail(toMain)
  /\ UNCHANGED <<call, completed, timeoutAt, toWorker, workerVars>>

Ignore ==
  /\ toMain' = Tail(toMain)
  /\ UNCHANGED <<mainVars, toWorker, workerVars>>

\* The worker's exit, with a code that is not 0.
OnExit ==
  /\ terminateAt' = Never
  /\ timeoutAt' = IF completed THEN timeoutAt ELSE Never
  /\ call' = IF completed THEN call ELSE "rejected"
  /\ completed' = TRUE
  /\ toMain' = Tail(toMain)
  /\ UNCHANGED <<toWorker, workerVars>>

Receive ==
  /\ call # "crashed"
  /\ toMain # <<>>
  /\ \/ Head(toMain).type = "exit" /\ OnExit
     \/ Head(toMain).type # "exit" /\ completed /\ Ignore
     \/ Head(toMain).type # "exit" /\ ~completed /\ Settle(Head(toMain))
  /\ UNCHANGED <<now, given>>
-----------------------------------------------------------------------------
(* The worker and the child *)

WorkerStarts ==
  /\ worker = "starting"
  /\ worker' = "ready"
  /\ UNCHANGED <<now, given, mainVars, toWorker, toMain, handler, child, termAt, killAt>>

\* The registry does not initialise, or a handler without a child ends the thread.
WorkerFails ==
  /\ ~inProcess
  /\ worker \in {"starting", "ready", "blocked"}
  /\ child = "none"
  /\ worker' = "gone"
  /\ toWorker' = <<>>
  /\ Post(<<"error", "exit">>)
  /\ UNCHANGED <<now, given, mainVars, handler, child, termAt, killAt>>

\* A handler up to its first await: a pure one may never yield; another spawns its
\* child, or answers that it cannot.
Starts ==
  /\ tool = "pure"
  /\ worker' \in {"ready", "blocked"}
  /\ handler' = "busy"
  /\ UNCHANGED <<child, termAt>>

Spawns ==
  /\ tool # "pure"
  /\ worker' = "ready"
  /\ handler' = "busy"
  /\ child' = "alive"
  /\ termAt' = IF tool = "command" THEN now + CommandTimeout ELSE Never

CannotSpawn ==
  /\ tool # "pure"
  /\ worker' = "ready"
  /\ handler' = "done"
  /\ UNCHANGED <<child, termAt>>

OnRun ==
  /\ \/ (Starts \/ Spawns) /\ UNCHANGED toMain
     \/ CannotSpawn /\ Post(<<"success">>)
  /\ UNCHANGED killAt

\* killOnAbort sends SIGTERM and sets the timer for SIGKILL; spawn's own signal makes
\* the handler of a child that has not exited answer at once.  run_command and the
\* pure tools do not look.
Kills        == tool = "cli" /\ handler = "busy"
AnswersAbort == Kills /\ child = "alive"

Aborted ==
  /\ killAt' = IF Kills THEN now + KillGrace ELSE killAt
  /\ handler' = IF AnswersAbort THEN "done" ELSE handler
  /\ UNCHANGED <<worker, child, termAt>>

OnAbort ==
  /\ Aborted
  /\ IF AnswersAbort THEN Post(<<"success">>) ELSE UNCHANGED toMain

WorkerReceives ==
  /\ worker = "ready"
  /\ toWorker # <<>>
  /\ toWorker' = Tail(toWorker)
  /\ IF Head(toWorker).type = "run" THEN OnRun ELSE OnAbort
  /\ UNCHANGED <<now, given, mainVars>>

\* A handler that blocked comes to an await.
HandlerYields ==
  /\ worker = "blocked"
  /\ worker' = "ready"
  /\ UNCHANGED <<now, given, mainVars, toWorker, toMain, handler, child, termAt, killAt>>

\* The handler's promise settles.  In process that settles the race, if it is open, and
\* clears the timer before that can fire.
Gives(a) ==
  IF inProcess
  THEN /\ call' = IF call # "running" THEN call ELSE IF a = "success" THEN "resolved" ELSE "rejected"
       /\ timeoutAt' = Never
       /\ UNCHANGED <<completed, terminateAt, toMain>>
  ELSE Post(<<a>>) /\ UNCHANGED mainVars

\* A pure handler returns or throws.
HandlerSettles ==
  /\ worker \in {"ready", "blocked"}
  /\ tool = "pure"
  /\ handler = "busy"
  /\ handler' = "done"
  /\ worker' = "ready"
  /\ \E a \in Answers : Gives(a)
  /\ UNCHANGED <<now, given, toWorker, child, termAt, killAt>>

\* The child exits by itself or on SIGTERM, which it may also ignore.
ChildExits ==
  /\ child = "alive"
  /\ child' = "exited"
  /\ UNCHANGED <<now, given, mainVars, toWorker, toMain, worker, handler, termAt, killAt>>

\* The pipes are closed too: the handler, if it still waits, answers.  killOnAbort's timer
\* is cleared, run_command's for SIGKILL is not.
ChildCloses ==
  /\ child = "exited" /\ worker = "ready"
  /\ child' = "closed"
  /\ handler' = "done"
  /\ IF handler = "busy" THEN Gives("success") ELSE UNCHANGED <<mainVars, toMain>>
  /\ termAt' = Never
  /\ killAt' = IF tool = "cli" THEN Never ELSE killAt
  /\ UNCHANGED <<now, given, toWorker, worker>>

\* run_command's timer sends SIGTERM and sets the one for SIGKILL.
CommandTimer ==
  /\ worker = "ready"
  /\ Due(termAt)
  /\ termAt' = Never
  /\ killAt' = now + CommandGrace
  /\ UNCHANGED <<now, given, mainVars, toWorker, toMain, worker, handler, child>>

KillTimer ==
  /\ worker = "ready"
  /\ Due(killAt)
  /\ killAt' = Never
  /\ child' = IF child = "alive" THEN "exited" ELSE child
  /\ UNCHANGED <<now, given, mainVars, toWorker, toMain, worker, handler, termAt>>
-----------------------------------------------------------------------------
(* In process *)

\* The handler is called and raced with the timer.
RunInProcess ==
  /\ call = "idle" /\ inProcess
  /\ \/ (Starts \/ Spawns) /\ call' = "running" /\ timeoutAt' = now + Timeout
     \/ CannotSpawn /\ call' = "resolved" /\ UNCHANGED timeoutAt
  /\ UNCHANGED <<now, given, completed, terminateAt, toWorker, toMain, killAt>>

\* The timer aborts, and rejects before the handler's answer gets through.
TimesOutInProcess ==
  /\ inProcess /\ worker = "ready"
  /\ Due(timeoutAt)
  /\ timeoutAt' = Never
  /\ call' = "rejected"
  /\ Aborted
  /\ UNCHANGED <<now, given, completed, terminateAt, toWorker, toMain>>
-----------------------------------------------------------------------------
MainKeepsUp ==
  /\ ~(inProcess /\ worker = "blocked") => ~Overdue(timeoutAt) /\ ~Overdue(terminateAt)
  /\ toMain # <<>> => ~Overdue(Head(toMain).at)

WorkerKeepsUp ==
  /\ worker = "starting" => now < StartWithin
  /\ worker = "ready" =>
       /\ ~Overdue(termAt) /\ ~Overdue(killAt)
       /\ toWorker # <<>> => ~Overdue(Head(toWorker).at)

Tick ==
  /\ now < MaxTime
  /\ call \notin {"idle", "crashed"}
  /\ MainKeepsUp /\ WorkerKeepsUp
  /\ now' = now + 1
  /\ UNCHANGED <<given, mainVars, toWorker, toMain, workerVars>>

Main ==
  \/ NotPermitted \/ Run \/ RefuseInput \/ TimesOut \/ TerminateTimer \/ Receive
  \/ RunInProcess \/ TimesOutInProcess

Worker ==
  \/ WorkerStarts \/ WorkerFails \/ WorkerReceives
  \/ HandlerYields \/ HandlerSettles \/ ChildCloses \/ CommandTimer \/ KillTimer

Next == Main \/ Worker \/ ChildExits \/ Tick

Spec == Init /\ [][Next]_vars

\* Timers fire and messages arrive; a handler and a child may go on for ever,
\* and what holds the pipes of a child may.
FairSpec ==
  /\ Spec
  /\ WF_vars(Tick) /\ WF_vars(TimesOut) /\ WF_vars(TerminateTimer) /\ WF_vars(Receive)
  /\ WF_vars(TimesOutInProcess)
  /\ WF_vars(WorkerStarts \/ WorkerReceives \/ CommandTimer \/ KillTimer)
-----------------------------------------------------------------------------
(* Properties *)

\* The comment at security/sandboxed-tool-runner.ts:287, "on timeout, send abort so worker kills subprocesses before
\* we terminate": no child outlives its worker.  For run_command that is its shell.
NoOrphan == worker = "gone" => child # "alive"

\* A call settles and leaves neither a thread nor a child behind, also when the tool
\* never yields, the worker fails, or its answer arrives after the timeout; only a tool
\* that blocks the main thread ("LIMITATION", security/sandboxed-tool-runner.ts:197) may not.
Ends ==
  call = "running" ~>
    \/ call # "running" /\ (worker = "gone" \/ inProcess) /\ child # "alive"
    \/ inProcess /\ worker = "blocked"
=============================================================================
