------------------------- MODULE ObservabilityStore -------------------------
(***************************************************************************)
(* server/observability-store.ts: ring buffers of runs and audit events,   *)
(* the runs in progress, and the two JSON files the rings are saved to.    *)
(* A save is two synchronous writes, each of which truncates its file      *)
(* first; no other step of the process comes between them, but a crash     *)
(* does.  Entries carry the number of the call that added them.  The SSE   *)
(* listeners, which change nothing of the store, are left out.             *)
(***************************************************************************)
EXTENDS Naturals, Sequences

CONSTANTS
  Requests,     \* request ids
  MaxRuns,      \* capacity of the ring of runs
  MaxEvents,    \* capacity of the ring of events
  WritesFail,   \* the file system may refuse a write
  MaxAdded      \* bound: entries ever added

ASSUME StoreAssumption ==
  /\ MaxRuns \in Nat \ {0}
  /\ MaxEvents \in Nat \ {0}
  /\ WritesFail \in BOOLEAN
  /\ MaxAdded \in Nat

VARIABLES
  up,            \* the process runs
  runs, events,  \* the rings, newest first
  activeRuns,    \* keys of the map of runs in progress
  persistTimer,  \* the debounce timer is set
  persisting,    \* which write of a save is under way
  runsFile, eventsFile,
  added,         \* entries added so far
  failed,        \* history: the last save was given up
  clearing,      \* history: `added` when clear() was called, until it is saved or given up; or 0
  clearedAt      \* history: `added` when the last clear() that was saved was called

memory    == <<runs, events, activeRuns>>
cleared   == <<clearing, clearedAt>>
disk      == <<runsFile, eventsFile>>
storeVars == <<up, memory, persistTimer, persisting, failed, disk, added, cleared>>

Entries == [at : 1..MaxAdded, request : Requests]
Files   == [whole : BOOLEAN, entries : Seq(Entries)]

Whole(q) == [whole |-> TRUE, entries |-> q]
Torn     == [whole |-> FALSE, entries |-> <<>>]   \* JSON.parse fails on it

TypeOK ==
  /\ up \in BOOLEAN
  /\ runs \in Seq(Entries) /\ Len(runs) <= MaxRuns
  /\ events \in Seq(Entries) /\ Len(events) <= MaxEvents
  /\ activeRuns \subseteq Requests
  /\ persistTimer \in BOOLEAN
  /\ persisting \in {"no", "runs", "between", "events"}
  /\ runsFile \in Files /\ eventsFile \in Files
  /\ added \in 0..MaxAdded
  /\ failed \in BOOLEAN
  /\ clearing \in 0..MaxAdded /\ clearedAt \in 0..MaxAdded

\* A process that finds no file starts with empty rings.
Init ==
  /\ up = TRUE
  /\ runs = <<>>
  /\ events = <<>>
  /\ activeRuns = {}
  /\ persistTimer = FALSE
  /\ persisting = "no"
  /\ failed = FALSE
  /\ runsFile = Whole(<<>>)
  /\ eventsFile = Whole(<<>>)
  /\ added = 0
  /\ clearing = 0
  /\ clearedAt = 0
-----------------------------------------------------------------------------
(* Calls *)

\* The process runs and is not inside persist().
Free == up /\ persisting = "no"

\* The ring q with e in front, the oldest entry dropped when it is over max (and a mutant
\* that adds at the other end).
PushShift(q, e, max) ==
  SubSeq(Append(q, e), IF Len(q) < max THEN 1 ELSE 2, Len(q) + 1)
Unshift(q, e, max) ==
  SubSeq(<<e>> \o q, 1, IF Len(q) < max THEN Len(q) + 1 ELSE max)

\* The n-th entry of a call for request r.
EntryAt(n, r) == [at |-> added + n, request |-> r]
Entry(r)      == EntryAt(1, r)

\* The runs in progress but r (and a mutant that keeps it).
ActiveStill(r)   == activeRuns
ActiveWithout(r) == activeRuns \ {r}

\* clearTimeout and setTimeout: the timer is set afterwards in any case.
SchedulePersist == persistTimer' = TRUE

NewEntry(r) ==
  /\ Free
  /\ added < MaxAdded
  /\ added' = added + 1
  /\ SchedulePersist
  /\ UNCHANGED <<up, persisting, failed, disk, cleared>>

\* Mutant: an event enters the ring but no save is scheduled.
AddEventUnsaved(r) ==
  /\ Free
  /\ added < MaxAdded
  /\ added' = added + 1
  /\ events' = Unshift(events, Entry(r), MaxEvents)
  /\ UNCHANGED <<up, runs, activeRuns, persistTimer, persisting, failed, disk, cleared>>

AddEvent(r) ==
  /\ NewEntry(r)
  /\ events' = Unshift(events, Entry(r), MaxEvents)
  /\ UNCHANGED <<runs, activeRuns>>

AddRunStart(r) ==
  /\ NewEntry(r)
  /\ activeRuns' = activeRuns \cup {r}
  /\ events' = Unshift(events, Entry(r), MaxEvents)
  /\ UNCHANGED runs

AddRun(r) ==
  /\ NewEntry(r)
  /\ activeRuns' = ActiveWithout(r)
  /\ runs' = Unshift(runs, Entry(r), MaxRuns)
  /\ UNCHANGED events

\* persist() is entered: the truncation of runs.json, or an error before it.
BeginPersist ==
  \/ /\ persisting' = "runs"
     /\ runsFile' = Torn
     /\ UNCHANGED <<failed, eventsFile>>
  \/ /\ WritesFail
     /\ failed' = TRUE
     /\ UNCHANGED <<persisting, disk>>

\* Mutant: the cleared rings are saved when the timer fires.
ClearLater ==
  /\ Free
  /\ runs' = <<>>
  /\ events' = <<>>
  /\ activeRuns' = {}
  /\ persistTimer' = TRUE
  /\ clearedAt' = added
  /\ UNCHANGED <<up, persisting, failed, disk, added, clearing>>

Clear ==
  /\ Free
  /\ runs' = <<>>
  /\ events' = <<>>
  /\ activeRuns' = {}
  /\ persistTimer' = FALSE
  /\ clearing' = added
  /\ BeginPersist
  /\ UNCHANGED <<up, added, clearedAt>>
-----------------------------------------------------------------------------
(* Saves, crashes and restarts *)

PersistTimerFires ==
  /\ Free
  /\ persistTimer
  /\ persistTimer' = FALSE
  /\ BeginPersist
  /\ UNCHANGED <<up, memory, added, cleared>>

\* Mutant: the save ends with runs.json.
RunsWrittenOnly ==
  /\ persisting = "runs"
  /\ persisting' = "no"
  /\ runsFile' = Whole(runs)
  /\ UNCHANGED <<up, memory, persistTimer, failed, eventsFile, added, cleared>>

RunsWritten ==
  /\ persisting = "runs"
  /\ persisting' = "between"
  /\ runsFile' = Whole(runs)
  /\ UNCHANGED <<up, memory, persistTimer, failed, eventsFile, added, cleared>>

EventsTruncated ==
  /\ persisting = "between"
  /\ persisting' = "events"
  /\ eventsFile' = Torn
  /\ UNCHANGED <<up, memory, persistTimer, failed, runsFile, added, cleared>>

EventsWritten ==
  /\ persisting = "events"
  /\ persisting' = "no"
  /\ eventsFile' = Whole(events)
  /\ failed' = FALSE
  /\ clearing' = 0
  /\ clearedAt' = IF clearing > 0 THEN clearing ELSE clearedAt
  /\ UNCHANGED <<up, memory, persistTimer, runsFile, added>>

\* A write fails: the error is logged and the save given up.
PersistFails ==
  /\ WritesFail
  /\ persisting # "no"
  /\ persisting' = "no"
  /\ failed' = TRUE
  /\ clearing' = 0
  /\ UNCHANGED <<up, memory, persistTimer, disk, added, clearedAt>>

Crash ==
  /\ up
  /\ up' = FALSE
  /\ runs' = <<>>
  /\ events' = <<>>
  /\ activeRuns' = {}
  /\ persistTimer' = FALSE
  /\ persisting' = "no"
  /\ UNCHANGED <<failed, disk, added, cleared>>

\* A new process: loadFromDisk reads runs.json, then events.json, and leaves
\* off at the first that does not parse.
Restart ==
  /\ ~up
  /\ up' = TRUE
  /\ runs' = IF runsFile.whole THEN runsFile.entries ELSE <<>>
  /\ events' = IF runsFile.whole /\ eventsFile.whole THEN eventsFile.entries ELSE <<>>
  /\ failed' = FALSE
  /\ clearing' = 0
  /\ UNCHANGED <<activeRuns, persistTimer, persisting, disk, added, clearedAt>>

Call == Clear \/ \E r \in Requests : AddRunStart(r) \/ AddEvent(r) \/ AddRun(r)

Save == PersistTimerFires \/ RunsWritten \/ EventsTruncated \/ EventsWritten \/ PersistFails

Next == Call \/ Save \/ Crash \/ Restart

Spec == Init /\ [][Next]_storeVars

\* The timer fires and a save goes on to its end.  (A timer that is set anew by
\* every call fires only when the calls pause; MaxAdded makes them.)
FairSpec == Spec /\ WF_storeVars(Save)
-----------------------------------------------------------------------------
(* Properties *)

Saved == runsFile = Whole(runs) /\ eventsFile = Whole(events)

\* What memory holds is on disk or will be written, unless a write failed: no
\* sequence of calls, clears, crashes in the middle of a save and restarts leaves
\* intact files that differ from memory without a timer set.
SavedOrScheduled ==
  Free /\ ~persistTimer /\ ~failed /\ runsFile.whole /\ eventsFile.whole => Saved

\* What a clear() that was saved removed never comes back, whatever is added,
\* saved, lost in a crash and loaded afterwards.
ClearIsFinal ==
  \A q \in {runs, events} : \A i \in DOMAIN q : q[i].at > clearedAt

\* The rings and the files that can be read hold entries newest first and none
\* twice, also when entries are added to rings that an older save restored.
NewestFirst ==
  \A q \in {runs, events, runsFile.entries, eventsFile.entries} :
    \A i, j \in DOMAIN q : i < j => q[i].at > q[j].at

\* Once the calls pause, what was added reaches the disk unless a write fails or the
\* process dies.
GetsSaved == persistTimer ~> Saved \/ failed \/ ~up
=============================================================================
