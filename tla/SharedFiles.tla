----------------------------- MODULE SharedFiles -----------------------------
(***************************************************************************)
(* tools/schedule-task.ts and tools/get-recent-runs.ts: tools that run in  *)
(* worker threads of the process whose observability store this is, and    *)
(* work on files that others write at the same time.  schedule_task reads  *)
(* the tasks, adds one and writes them all back; writeFileSync truncates   *)
(* first.  get_recent_runs reads the file that the store saves its runs    *)
(* to.  Nothing locks either file.  Input checks and the contents of tasks *)
(* are left out; a task carries the number of the call that schedules it.  *)
(***************************************************************************)
EXTENDS ObservabilityStore, FiniteSets

CONSTANTS
  Workers,     \* threads that run tools
  MaxTasks,    \* bound: calls of schedule_task
  MaxCalls,    \* bound: calls of it and entries added to the store together
  Limits       \* limits that get_recent_runs may be called with

ASSUME FilesAssumption ==
  /\ MaxTasks \in Nat
  /\ MaxCalls \in Nat
  /\ Limits \subseteq Nat \ {0}

VARIABLES
  tasksFile,     \* the file of scheduled tasks
  calls,         \* calls of schedule_task under way
  begun,         \* calls of schedule_task so far
  scheduled,     \* history: tasks whose calls have reported success
  overlapping,   \* history: tasks whose calls overlapped another's
  mislaid        \* history: a call found a file that does not parse

toolVars == <<tasksFile, calls, begun, scheduled, overlapping, mislaid>>
fileVars == <<storeVars, toolVars>>

Tasks == 1..MaxTasks

TasksFiles == [text : {"whole", "empty", "garbled"}, tasks : SUBSET Tasks]
Intact(T)  == [text |-> "whole", tasks |-> T]
Emptied    == [text |-> "empty", tasks |-> {}]
Garbled    == [text |-> "garbled", tasks |-> {}]

Steps == {"none", "loaded", "truncated"}
Calls == [step : Steps, task : 0..MaxTasks, tasks : SUBSET Tasks]
NoCall == [step |-> "none", task |-> 0, tasks |-> {}]

FilesTypeOK ==
  /\ TypeOK
  /\ tasksFile \in TasksFiles
  /\ calls \in [Workers -> Calls]
  /\ begun \in 0..MaxTasks
  /\ scheduled \subseteq Tasks /\ overlapping \subseteq Tasks
  /\ mislaid \in BOOLEAN

\* A file that is not there is one without tasks, or without runs.
FilesInit ==
  /\ Init
  /\ tasksFile = Intact({})
  /\ calls = [w \in Workers |-> NoCall]
  /\ begun = 0
  /\ scheduled = {}
  /\ overlapping = {}
  /\ mislaid = FALSE
-----------------------------------------------------------------------------
(* schedule_task *)

\* loadTasks: what does not parse counts as no tasks (and a mutant that never looks).
LoadNothing == {}
LoadTasks   == IF tasksFile.text = "whole" THEN tasksFile.tasks ELSE {}

UnderWay == {calls[v].task : v \in {v \in Workers : calls[v].step # "none"}}

ScheduleTask(w) ==
  /\ up
  /\ calls[w].step = "none"
  /\ begun < MaxTasks /\ begun + added < MaxCalls
  /\ begun' = begun + 1
  /\ calls' = [calls EXCEPT ![w] = [step |-> "loaded", task |-> begun + 1,
                                    tasks |-> LoadTasks \cup {begun + 1}]]
  /\ overlapping' = overlapping \cup (IF UnderWay = {} THEN {} ELSE UnderWay \cup {begun + 1})
  /\ mislaid' = (mislaid \/ tasksFile.text # "whole")
  /\ UNCHANGED <<storeVars, tasksFile, scheduled>>

\* saveTasks: the file is opened, which empties it,
TruncateTasks(w) ==
  /\ calls[w].step = "loaded"
  /\ calls' = [calls EXCEPT ![w].step = "truncated"]
  /\ tasksFile' = Emptied
  /\ UNCHANGED <<storeVars, begun, scheduled, overlapping, mislaid>>

\* and written from its beginning: over what another call has written meanwhile, of which
\* an end may remain.
WriteTasks(w) ==
  /\ calls[w].step = "truncated"
  /\ calls' = [calls EXCEPT ![w] = NoCall]
  /\ scheduled' = scheduled \cup {calls[w].task}
  /\ \/ tasksFile' = Intact(calls[w].tasks)
     \/ tasksFile.text # "empty" /\ tasksFile' = Garbled
  /\ UNCHANGED <<storeVars, begun, overlapping, mislaid>>

\* The call ends with an error, or its thread is terminated by the runner's timeout.
ScheduleFails(w) ==
  /\ \/ calls[w].step = "loaded"
     \/ WritesFail /\ calls[w].step = "truncated"
  /\ calls' = [calls EXCEPT ![w] = NoCall]
  /\ UNCHANGED <<storeVars, tasksFile, begun, scheduled, overlapping, mislaid>>
-----------------------------------------------------------------------------
(* get_recent_runs *)

\* slice(0, limit).
SliceFirst(q, limit) == SubSeq(q, 1, IF Len(q) < limit THEN Len(q) ELSE limit)

\* What a call would answer now: it reads the file that the store saves its runs to, in the
\* midst of a save or not, and changes nothing.
GetRecentRuns(limit) ==
  IF runsFile.whole
    THEN [success |-> TRUE, runs |-> SliceFirst(runsFile.entries, limit),
          total |-> Len(runsFile.entries)]
    ELSE [success |-> FALSE, runs |-> <<>>, total |-> 0]
-----------------------------------------------------------------------------

ToolStep ==
  \E w \in Workers : ScheduleTask(w) \/ TruncateTasks(w) \/ WriteTasks(w) \/ ScheduleFails(w)

\* The store's steps; with the process go its threads.
StoreStep ==
  /\ Call \/ Save \/ Restart
  /\ added' # added => begun + added < MaxCalls
  /\ UNCHANGED toolVars

ProcessDies ==
  /\ Crash
  /\ calls' = [w \in Workers |-> NoCall]
  /\ UNCHANGED <<tasksFile, begun, scheduled, overlapping, mislaid>>

FilesNext == ToolStep \/ StoreStep \/ ProcessDies

FilesSpec == FilesInit /\ [][FilesNext]_fileVars

FilesFairSpec == FilesSpec /\ WF_fileVars(Save /\ UNCHANGED toolVars)
-----------------------------------------------------------------------------
(* Properties *)

\* A task whose call reported success is in the file, unless its call overlapped another
\* or some call found a file that did not parse: calls that fail, threads and
\* processes that die between two steps, and overlapping calls of others lose no task
\* otherwise.
ScheduledStays ==
  tasksFile.text = "whole" /\ ~mislaid => scheduled \ overlapping \subseteq tasksFile.tasks

\* The runs that get_recent_runs tells are the latest of those saved, the latest first, and
\* none that a saved clear removed: the store puts new ones in front, cuts and restores
\* its rings for it.
AnswersLatest ==
  \A limit \in Limits : GetRecentRuns(limit).success =>
    LET told  == GetRecentRuns(limit).runs
        saved == {runsFile.entries[i] : i \in DOMAIN runsFile.entries}
    IN /\ \A i \in DOMAIN told : \A e \in saved :
            e.at > told[i].at => \E j \in 1..(i - 1) : told[j] = e
       /\ \A i \in DOMAIN told : told[i].at > clearedAt
=============================================================================
