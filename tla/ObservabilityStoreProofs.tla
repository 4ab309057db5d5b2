---------------------- MODULE ObservabilityStoreProofs ----------------------
(***************************************************************************)
(* What ObservabilityStore keeps through saves, failures and crashes, what *)
(* the tools that share its files can rely on, what the server has         *)
(* recorded in it and what the page shows of it, for any number of         *)
(* requests, entries, threads and tasks and any size of the rings.         *)
(***************************************************************************)
EXTENDS SharedFiles, AgentServer, LivePage, SequenceTheorems, FiniteSetTheorems, TLAPS

\* Entries newest first, none newer than n, all newer than what a clear removed.
Descends(q, n) ==
  /\ \A i \in DOMAIN q : q[i].at <= n
  /\ \A i, j \in DOMAIN q : i < j => q[i].at > q[j].at

After(q, n) == \A i \in DOMAIN q : q[i].at > n

OrderInv ==
  /\ Descends(runs, added) /\ Descends(events, added)
  /\ Descends(runsFile.entries, added) /\ Descends(eventsFile.entries, added)

\* A clear under way, or given up, has emptied the rings; one that was saved the files too.
ClearInv ==
  /\ clearing <= added /\ clearedAt <= added
  /\ After(runs, clearing) /\ After(events, clearing)
  /\ After(runs, clearedAt) /\ After(events, clearedAt)
  /\ After(runsFile.entries, clearedAt) /\ After(eventsFile.entries, clearedAt)

\* In the second half of a save the first file is written; no file holds more than a ring.
SaveInv ==
  /\ Len(runsFile.entries) <= MaxRuns /\ Len(eventsFile.entries) <= MaxEvents
  /\ persisting \in {"between", "events"} => runsFile = Whole(runs)
  /\ SavedOrScheduled

StoreInv == TypeOK /\ OrderInv /\ ClearInv /\ SaveInv
-----------------------------------------------------------------------------
(* Lemmas *)

LEMMA StoreBounds == MaxRuns \in Nat \ {0} /\ MaxEvents \in Nat \ {0} /\ MaxAdded \in Nat
                 /\ WritesFail \in BOOLEAN
  BY StoreAssumption

LEMMA EmptyRing == ASSUME NEW n PROVE Descends(<<>>, n) /\ After(<<>>, n) /\ <<>> \in Seq(Entries)
                                      /\ Len(<<>>) = 0
  BY DEF Descends, After

LEMMA FileTypes ==
  /\ Torn \in Files /\ Torn.entries = <<>> /\ ~Torn.whole
  /\ \A q \in Seq(Entries) :
       Whole(q) \in Files /\ Whole(q).entries = q /\ Whole(q).whole
<1>1. <<>> \in Seq(Entries)
  OBVIOUS
<1> QED  BY <1>1 DEF Torn, Whole, Files

LEMMA EntriesOfRequests ==
  ASSUME NEW q \in Seq(Entries) PROVE \A i \in DOMAIN q : q[i].request \in Requests
<1>1. \A i \in DOMAIN q : q[i] \in Entries
  OBVIOUS
<1>2. \A e \in Entries : e.request \in Requests
  BY DEF Entries
<1> QED  BY <1>1, <1>2

LEMMA EntriesDated == ASSUME NEW q \in Seq(Entries) PROVE \A i \in DOMAIN q : q[i].at \in Nat \ {0}
<1>1. \A i \in DOMAIN q : q[i] \in Entries
  OBVIOUS
<1>2. \A e \in Entries : e.at \in 1..MaxAdded
  BY DEF Entries
<1>3. 1..MaxAdded \subseteq Nat \ {0}
  BY StoreBounds
<1> QED  BY <1>1, <1>2, <1>3

\* A longer past is no harder to descend from.
LEMMA DescendsOn ==
  ASSUME NEW q \in Seq(Entries), NEW n \in Nat, NEW m \in Nat, n <= m, Descends(q, n)
  PROVE  Descends(q, m)
<1>1. \A i \in DOMAIN q : q[i].at \in Nat
  BY EntriesDated
<1> QED  BY <1>1 DEF Descends

LEMMA EntryType ==
  ASSUME TypeOK, added < MaxAdded, NEW r \in Requests
  PROVE  Entry(r) \in Entries /\ Entry(r).at = added + 1
<1>1. added \in 0..MaxAdded
  BY DEF TypeOK
<1>2. added + 1 \in 1..MaxAdded
  BY <1>1, StoreBounds
<1>3. Entry(r) = [at |-> added + 1, request |-> r]
  BY DEF Entry, EntryAt
<1> QED  BY <1>2, <1>3 DEF Entries

\* A ring with a new entry in front.
LEMMA UnshiftKeeps ==
  ASSUME NEW q \in Seq(Entries), NEW e \in Entries, NEW max \in Nat \ {0}, Len(q) <= max
  PROVE  /\ Unshift(q, e, max) \in Seq(Entries) /\ Len(Unshift(q, e, max)) <= max
         /\ \A n \in Nat : Descends(q, n) /\ e.at = n + 1 => Descends(Unshift(q, e, max), n + 1)
         /\ \A n \in Nat : After(q, n) /\ e.at > n => After(Unshift(q, e, max), n)
         /\ \A i \in DOMAIN Unshift(q, e, max) :
              IF i = 1 THEN Unshift(q, e, max)[i] = e
                       ELSE i - 1 \in DOMAIN q /\ Unshift(q, e, max)[i] = q[i - 1]
<1> DEFINE u == Unshift(q, e, max)
           k == IF Len(q) < max THEN Len(q) + 1 ELSE max
<1>1. <<e>> \o q \in Seq(Entries) /\ Len(<<e>> \o q) = Len(q) + 1
  OBVIOUS
<1>2. k \in 1..(Len(q) + 1) /\ k <= max
  OBVIOUS
<1>3. u \in Seq(Entries) /\ Len(u) = k /\ DOMAIN u = 1..k
  BY <1>1, <1>2 DEF Unshift
<1>4. \A i \in 1..k : u[i] = IF i = 1 THEN e ELSE q[i - 1]
  <2> SUFFICES ASSUME NEW i \in 1..k PROVE u[i] = IF i = 1 THEN e ELSE q[i - 1]
    OBVIOUS
  <2>1. i \in 1..(Len(q) + 1)
    BY <1>2
  <2>2. (<<e>> \o q)[i] = IF i = 1 THEN e ELSE q[i - 1]
    BY <2>1
  <2>3. u[i] = (<<e>> \o q)[i]
    BY <1>1, <1>2, <2>1 DEF Unshift
  <2> QED  BY <2>2, <2>3
<1>5. \A i \in 1..k : i # 1 => i - 1 \in DOMAIN q
  BY <1>2
<1>6. \A i \in DOMAIN q : q[i].at \in Nat
  BY EntriesDated
<1> HIDE DEF u, k
<1>7. ASSUME NEW n \in Nat, Descends(q, n), e.at = n + 1
      PROVE  Descends(u, n + 1)
  <2>1. \A i \in DOMAIN u : u[i].at <= n + 1
    <3> SUFFICES ASSUME NEW i \in 1..k PROVE u[i].at <= n + 1
      BY <1>3
    <3>1. CASE i = 1
      BY <3>1, <1>4, <1>7
    <3>2. CASE i # 1
      <4>1. u[i] = q[i - 1] /\ i - 1 \in DOMAIN q
        BY <3>2, <1>4, <1>5
      <4>2. q[i - 1].at \in Nat /\ q[i - 1].at <= n
        BY <4>1, <1>6, <1>7 DEF Descends
      <4> QED  BY <4>1, <4>2
    <3> QED  BY <3>1, <3>2
  <2>2. ASSUME NEW i \in DOMAIN u, NEW j \in DOMAIN u, i < j
        PROVE  u[i].at > u[j].at
    <3>1. i \in 1..k /\ j \in 1..k /\ j # 1
      BY <2>2, <1>2, <1>3
    <3>2. u[j] = q[j - 1] /\ j - 1 \in DOMAIN q
      BY <3>1, <1>4, <1>5
    <3>3. q[j - 1].at \in Nat /\ q[j - 1].at <= n
      BY <3>2, <1>6, <1>7 DEF Descends
    <3>4. CASE i = 1
      BY <3>1, <3>2, <3>3, <3>4, <1>4, <1>7
    <3>5. CASE i # 1
      <4>1. u[i] = q[i - 1] /\ i - 1 \in DOMAIN q /\ i - 1 < j - 1
        BY <3>1, <3>5, <1>4, <1>5, <2>2, <1>2
      <4> QED  BY <4>1, <3>2, <1>7 DEF Descends
    <3> QED  BY <3>4, <3>5
  <2> QED  BY <2>1, <2>2 DEF Descends
<1>8. ASSUME NEW n \in Nat, After(q, n), e.at > n
      PROVE  After(u, n)
  <2> SUFFICES ASSUME NEW i \in 1..k PROVE u[i].at > n
    BY <1>3 DEF After
  <2>1. CASE i = 1
    BY <2>1, <1>4, <1>8
  <2>2. CASE i # 1
    <3>1. u[i] = q[i - 1] /\ i - 1 \in DOMAIN q
      BY <2>2, <1>4, <1>5
    <3> QED  BY <3>1, <1>8 DEF After
  <2> QED  BY <2>1, <2>2
<1>9. Len(u) <= max
  BY <1>2, <1>3
<1>10. \A i \in DOMAIN u : IF i = 1 THEN u[i] = e ELSE i - 1 \in DOMAIN q /\ u[i] = q[i - 1]
  BY <1>3, <1>4, <1>5
<1> QED  BY <1>3, <1>7, <1>8, <1>9, <1>10 DEF u
-----------------------------------------------------------------------------
(* The store *)

LEMMA StoreInitInv == Init => StoreInv
<1> SUFFICES ASSUME Init PROVE StoreInv
  OBVIOUS
<1>1. runsFile.entries = <<>> /\ eventsFile.entries = <<>> /\ runsFile \in Files /\ eventsFile \in Files
  BY FileTypes, EmptyRing DEF Init
<1>2. TypeOK
  <2>1. 0 \in 0..MaxAdded /\ 0 <= MaxRuns /\ 0 <= MaxEvents
    BY StoreBounds
  <2>2. /\ runs \in Seq(Entries) /\ Len(runs) <= MaxRuns
        /\ events \in Seq(Entries) /\ Len(events) <= MaxEvents
    BY <2>1, EmptyRing DEF Init
  <2> QED  BY <1>1, <2>1, <2>2 DEF Init, TypeOK
<1>3. OrderInv /\ ClearInv
  BY <1>1, EmptyRing DEF Init, OrderInv, ClearInv
<1>4. SaveInv
  <2>1. Len(runsFile.entries) <= MaxRuns /\ Len(eventsFile.entries) <= MaxEvents
    BY <1>1, StoreBounds, EmptyRing
  <2> QED  BY <2>1 DEF Init, SaveInv, SavedOrScheduled, Saved
<1> QED  BY <1>2, <1>3, <1>4 DEF StoreInv

\* Calls that add entries to the rings.
LEMMA AddedInv ==
  ASSUME StoreInv, Free, persistTimer' = TRUE, activeRuns' \subseteq Requests,
         UNCHANGED <<up, persisting, failed, disk, cleared>>,
         added' \in 0..MaxAdded, added <= added',
         runs' \in Seq(Entries), Len(runs') <= MaxRuns,
         events' \in Seq(Entries), Len(events') <= MaxEvents,
         Descends(runs', added'), Descends(events', added'),
         \A n \in Nat : n <= added =>
            (After(runs, n) => After(runs', n)) /\ (After(events, n) => After(events', n))
  PROVE  StoreInv'
<1> USE DEF StoreInv
<1>1. added \in Nat /\ added' \in Nat /\ clearing \in Nat /\ clearedAt \in Nat
  BY StoreBounds DEF TypeOK
<1>2. TypeOK'
  BY DEF TypeOK, disk, cleared
<1>3. OrderInv'
  <2>1. runsFile.entries \in Seq(Entries) /\ eventsFile.entries \in Seq(Entries)
    BY DEF TypeOK, Files
  <2>2. Descends(runsFile.entries, added') /\ Descends(eventsFile.entries, added')
    BY <1>1, <2>1, DescendsOn DEF OrderInv
  <2> QED  BY <2>2 DEF OrderInv, disk
<1>4. ClearInv'
  <2>1. clearing' = clearing /\ clearedAt' = clearedAt /\ clearing <= added /\ clearedAt <= added
    BY DEF cleared, ClearInv
  <2>2. clearing' <= added' /\ clearedAt' <= added'
    BY <1>1, <2>1
  <2>3. /\ After(runs', clearing) /\ After(events', clearing)
        /\ After(runs', clearedAt) /\ After(events', clearedAt)
    BY <1>1, <2>1 DEF ClearInv
  <2> QED  BY <2>1, <2>2, <2>3 DEF ClearInv, disk
<1>5. SaveInv'
  BY DEF SaveInv, SavedOrScheduled, Free, disk
<1> QED  BY <1>2, <1>3, <1>4, <1>5

\* The next entry, and the one after it, in front of a ring.
LEMMA RingGrows ==
  ASSUME TypeOK, NEW q \in Seq(Entries), NEW max \in Nat \ {0}, Len(q) <= max,
         NEW n \in Nat, NEW k \in {1, 2}, added <= n, n < added + k, added + k <= MaxAdded,
         Descends(q, n), NEW r \in Requests
  PROVE  LET u == Unshift(q, EntryAt(k, r), max)
         IN /\ EntryAt(k, r) \in Entries /\ EntryAt(k, r).request = r
            /\ u \in Seq(Entries) /\ Len(u) <= max /\ Descends(u, added + k)
            /\ \A m \in Nat : m <= added /\ After(q, m) => After(u, m)
            /\ \A i \in DOMAIN u : IF i = 1 THEN u[i] = EntryAt(k, r)
                                            ELSE i - 1 \in DOMAIN q /\ u[i] = q[i - 1]
<1> DEFINE e == EntryAt(k, r)
           before == added + k - 1
<1>1. added \in Nat /\ MaxAdded \in Nat /\ before \in Nat /\ before + 1 = added + k /\ n <= before
  BY StoreBounds DEF TypeOK
<1>2. e \in Entries /\ e.at = before + 1 /\ e.request = r
  <2>1. added + k \in 1..MaxAdded
    BY <1>1
  <2> QED  BY <1>1, <2>1 DEF EntryAt, Entries
<1> HIDE DEF e, before
<1>3. Descends(q, before)
  BY <1>1, DescendsOn
<1>4. \A m \in Nat : m <= added => e.at > m
  BY <1>1, <1>2
<1> DEFINE u == Unshift(q, e, max)
<1>5. /\ u \in Seq(Entries) /\ Len(u) <= max /\ Descends(u, before + 1)
      /\ \A m \in Nat : After(q, m) /\ e.at > m => After(u, m)
      /\ \A i \in DOMAIN u : IF i = 1 THEN u[i] = e ELSE i - 1 \in DOMAIN q /\ u[i] = q[i - 1]
  BY <1>1, <1>2, <1>3, UnshiftKeeps
<1> HIDE DEF u
<1>6. /\ e \in Entries /\ e.request = r
      /\ u \in Seq(Entries) /\ Len(u) <= max /\ Descends(u, added + k)
      /\ \A m \in Nat : m <= added /\ After(q, m) => After(u, m)
      /\ \A i \in DOMAIN u : IF i = 1 THEN u[i] = e ELSE i - 1 \in DOMAIN q /\ u[i] = q[i - 1]
  BY <1>1, <1>2, <1>4, <1>5
<1> QED  BY <1>6 DEF u, e

\* A call that adds an entry to one of the rings.
LEMMA AddingInv ==
  ASSUME StoreInv, NEW r \in Requests, NewEntry(r),
         \/ runs' = Unshift(runs, Entry(r), MaxRuns) /\ events' = events
         \/ events' = Unshift(events, Entry(r), MaxEvents) /\ runs' = runs,
         activeRuns' \subseteq Requests
  PROVE  StoreInv'
<1> USE DEF StoreInv
<1>1. /\ TypeOK /\ added \in Nat /\ MaxAdded \in Nat /\ added' = added + 1 /\ added < MaxAdded
      /\ persistTimer' = TRUE /\ Free /\ UNCHANGED <<up, persisting, failed, disk, cleared>>
      /\ runs \in Seq(Entries) /\ Len(runs) <= MaxRuns /\ Descends(runs, added)
      /\ events \in Seq(Entries) /\ Len(events) <= MaxEvents /\ Descends(events, added)
      /\ MaxRuns \in Nat \ {0} /\ MaxEvents \in Nat \ {0}
  BY StoreBounds DEF NewEntry, TypeOK, OrderInv, SchedulePersist
<1>2. Descends(runs, added + 1) /\ Descends(events, added + 1)
  BY <1>1, DescendsOn
<1>3. Entry(r) = EntryAt(1, r)
  BY DEF Entry
<1>4. \A q \in Seq(Entries), max \in Nat \ {0} :
        Len(q) <= max /\ Descends(q, added) =>
          LET u == Unshift(q, EntryAt(1, r), max)
          IN /\ u \in Seq(Entries) /\ Len(u) <= max /\ Descends(u, added + 1)
             /\ \A m \in Nat : m <= added /\ After(q, m) => After(u, m)
  <2> SUFFICES ASSUME NEW q \in Seq(Entries), NEW max \in Nat \ {0},
                      Len(q) <= max, Descends(q, added)
               PROVE  LET u == Unshift(q, EntryAt(1, r), max)
                      IN /\ u \in Seq(Entries) /\ Len(u) <= max /\ Descends(u, added + 1)
                         /\ \A m \in Nat : m <= added /\ After(q, m) => After(u, m)
    OBVIOUS
  <2>1. added <= added /\ added < added + 1 /\ added + 1 <= MaxAdded /\ 1 \in {1, 2}
    BY <1>1
  <2> QED  BY <1>1, <2>1, RingGrows
<1>5. /\ runs' \in Seq(Entries) /\ Len(runs') <= MaxRuns /\ Descends(runs', added')
      /\ events' \in Seq(Entries) /\ Len(events') <= MaxEvents /\ Descends(events', added')
      /\ \A n \in Nat : n <= added =>
           (After(runs, n) => After(runs', n)) /\ (After(events, n) => After(events', n))
  <2>1. CASE runs' = Unshift(runs, EntryAt(1, r), MaxRuns) /\ events' = events
    BY <1>1, <1>2, <1>4, <2>1
  <2>2. CASE events' = Unshift(events, EntryAt(1, r), MaxEvents) /\ runs' = runs
    BY <1>1, <1>2, <1>4, <2>2
  <2> QED  BY <1>3, <2>1, <2>2
<1>6. added' \in 0..MaxAdded /\ added <= added'
  BY <1>1
<1> HIDE DEF StoreInv
<1> QED  BY <1>1, <1>5, <1>6, AddedInv

\* What runs.json and events.json hold is part of what the invariant says of the disk.
LEMMA FilesTyped ==
  ASSUME TypeOK
  PROVE  /\ runsFile.entries \in Seq(Entries) /\ eventsFile.entries \in Seq(Entries)
         /\ runsFile.whole => runsFile = Whole(runsFile.entries)
         /\ eventsFile.whole => eventsFile = Whole(eventsFile.entries)
  BY DEF TypeOK, Files, Whole

LEMMA ClearInvKept ==
  ASSUME StoreInv, Clear
  PROVE  StoreInv'
<1> USE DEF StoreInv
<1>1. /\ added \in Nat /\ added \in 0..MaxAdded /\ clearedAt <= added /\ added' = added
      /\ clearing' = added /\ clearedAt' = clearedAt
      /\ runs' = <<>> /\ events' = <<>>
  BY StoreBounds DEF TypeOK, Clear, ClearInv
<1>2. /\ runsFile' \in Files /\ eventsFile' = eventsFile /\ eventsFile' \in Files
      /\ runsFile'.entries = <<>> \/ runsFile' = runsFile
      /\ persisting' \in {"no", "runs"}
      /\ persisting' = "no" => failed'
  BY FileTypes DEF Clear, BeginPersist, disk, TypeOK, Free
<1>3. TypeOK'
  <2>1. /\ runs' \in Seq(Entries) /\ Len(runs') <= MaxRuns
        /\ events' \in Seq(Entries) /\ Len(events') <= MaxEvents
    BY <1>1, StoreBounds, EmptyRing
  <2>2. failed' \in BOOLEAN
    BY DEF Clear, BeginPersist, TypeOK
  <2> QED  BY <1>1, <1>2, <2>1, <2>2 DEF TypeOK, Clear
<1>4. OrderInv' /\ ClearInv'
  BY <1>1, <1>2, EmptyRing DEF OrderInv, ClearInv
<1>5. SaveInv'
  <2>1. Len(runsFile'.entries) <= MaxRuns /\ Len(eventsFile'.entries) <= MaxEvents
    BY <1>2, StoreBounds, EmptyRing DEF SaveInv
  <2> QED  BY <1>2, <2>1 DEF SaveInv, SavedOrScheduled, Free
<1> QED  BY <1>3, <1>4, <1>5

LEMMA TimerInv ==
  ASSUME StoreInv, PersistTimerFires
  PROVE  StoreInv'
<1> USE DEF StoreInv
<1>1. /\ added' = added /\ clearing' = clearing /\ clearedAt' = clearedAt
      /\ runs' = runs /\ events' = events /\ activeRuns' = activeRuns /\ up' = up
  BY DEF PersistTimerFires, memory, cleared
<1>2. /\ runsFile' \in Files /\ eventsFile' = eventsFile /\ eventsFile' \in Files
      /\ runsFile'.entries = <<>> \/ runsFile' = runsFile
      /\ persisting' \in {"no", "runs"}
      /\ persisting' = "no" => failed'
      /\ failed' \in BOOLEAN
  BY FileTypes DEF PersistTimerFires, BeginPersist, disk, TypeOK, Free
<1>3. TypeOK'
  BY <1>1, <1>2 DEF TypeOK, PersistTimerFires
<1>4. OrderInv' /\ ClearInv'
  BY <1>1, <1>2, EmptyRing DEF OrderInv, ClearInv
<1>5. SaveInv'
  <2>1. Len(runsFile'.entries) <= MaxRuns /\ Len(eventsFile'.entries) <= MaxEvents
    BY <1>2, StoreBounds, EmptyRing DEF SaveInv
  <2> QED  BY <1>2, <2>1 DEF SaveInv, SavedOrScheduled, Free
<1> QED  BY <1>3, <1>4, <1>5

LEMMA RunsWrittenInv ==
  ASSUME StoreInv, RunsWritten
  PROVE  StoreInv'
<1> USE DEF StoreInv
<1>1. /\ runs \in Seq(Entries) /\ runsFile' = Whole(runs)
      /\ runsFile' \in Files /\ runsFile'.entries = runs
  BY FileTypes DEF RunsWritten, TypeOK
<1>2. UNCHANGED <<up, memory, persistTimer, failed, eventsFile, added, cleared>> /\ persisting' = "between"
  BY DEF RunsWritten
<1>3. TypeOK'
  BY <1>1, <1>2 DEF TypeOK, memory, cleared
<1>4. OrderInv' /\ ClearInv'
  BY <1>1, <1>2 DEF OrderInv, ClearInv, memory, cleared
<1>5. SaveInv'
  BY <1>1, <1>2 DEF SaveInv, SavedOrScheduled, Free, memory, TypeOK, RunsWritten
<1> QED  BY <1>3, <1>4, <1>5

LEMMA EventsTruncatedInv ==
  ASSUME StoreInv, EventsTruncated
  PROVE  StoreInv'
<1> USE DEF StoreInv
<1>1. eventsFile' \in Files /\ eventsFile'.entries = <<>>
  BY FileTypes DEF EventsTruncated
<1>2. /\ UNCHANGED <<up, memory, persistTimer, failed, runsFile, added, cleared>>
      /\ persisting = "between" /\ persisting' = "events"
  BY DEF EventsTruncated
<1>3. TypeOK'
  BY <1>1, <1>2 DEF TypeOK, memory, cleared
<1>4. OrderInv' /\ ClearInv'
  BY <1>1, <1>2, EmptyRing DEF OrderInv, ClearInv, memory, cleared
<1>5. SaveInv'
  BY <1>1, <1>2, StoreBounds, EmptyRing DEF SaveInv, SavedOrScheduled, Free, memory
<1> QED  BY <1>3, <1>4, <1>5

\* The clear that the save began with, or that one before it gave up, is on disk now.
LEMMA EventsWrittenInv ==
  ASSUME StoreInv, EventsWritten
  PROVE  StoreInv'
<1> USE DEF StoreInv
<1>1. /\ events \in Seq(Entries) /\ eventsFile' = Whole(events)
      /\ eventsFile' \in Files /\ eventsFile'.entries = events
  BY FileTypes DEF EventsWritten, TypeOK
<1>2. /\ UNCHANGED <<up, memory, persistTimer, runsFile, added>>
      /\ persisting' = "no" /\ failed' = FALSE /\ clearing' = 0
      /\ clearedAt' = clearing \/ clearedAt' = clearedAt
  BY DEF EventsWritten
<1>3. runsFile = Whole(runs) /\ runsFile.entries = runs
  BY FileTypes DEF EventsWritten, SaveInv, TypeOK
<1>4. TypeOK'
  <2>1. clearing' \in 0..MaxAdded /\ clearedAt' \in 0..MaxAdded
    BY <1>2, StoreBounds DEF TypeOK
  <2> QED  BY <1>1, <1>2, <2>1 DEF TypeOK, memory
<1>5. OrderInv'
  BY <1>1, <1>2 DEF OrderInv, memory
<1>6. ClearInv'
  <2>1. clearing' <= added' /\ clearedAt' <= added'
    BY <1>2, StoreBounds DEF ClearInv, TypeOK
  <2>2. /\ After(runs, clearedAt') /\ After(events, clearedAt')
    BY <1>2 DEF ClearInv
  <2>3. After(runs, 0) /\ After(events, 0)
    BY EntriesDated DEF After, TypeOK
  <2> QED  BY <1>1, <1>2, <1>3, <2>1, <2>2, <2>3 DEF ClearInv, memory
<1>7. SaveInv'
  <2>1. runs' = runs /\ events' = events /\ runsFile' = runsFile
    BY <1>2 DEF memory
  <2>2. Len(runs) <= MaxRuns /\ Len(events) <= MaxEvents
    BY DEF TypeOK
  <2> QED  BY <1>1, <1>2, <1>3, <2>1, <2>2 DEF SaveInv, SavedOrScheduled, Saved
<1> QED  BY <1>4, <1>5, <1>6, <1>7

LEMMA PersistFailsInv ==
  ASSUME StoreInv, PersistFails
  PROVE  StoreInv'
<1> USE DEF StoreInv
<1>1. /\ UNCHANGED <<up, memory, persistTimer, disk, added, clearedAt>>
      /\ persisting' = "no" /\ failed' = TRUE /\ clearing' = 0
  BY DEF PersistFails
<1>2. TypeOK'
  BY <1>1, StoreBounds DEF TypeOK, memory, disk
<1>3. OrderInv'
  BY <1>1 DEF OrderInv, memory, disk
<1>4. ClearInv'
  <2>1. clearing' <= added'
    BY <1>1, StoreBounds DEF TypeOK
  <2>2. After(runs, 0) /\ After(events, 0)
    BY EntriesDated DEF After, TypeOK
  <2> QED  BY <1>1, <2>1, <2>2 DEF ClearInv, memory, disk
<1>5. SaveInv'
  BY <1>1 DEF SaveInv, SavedOrScheduled, memory, disk
<1> QED  BY <1>2, <1>3, <1>4, <1>5

LEMMA CrashInv ==
  ASSUME StoreInv, Crash
  PROVE  StoreInv'
<1> USE DEF StoreInv
<1>1. /\ UNCHANGED <<failed, disk, added, cleared>> /\ up' = FALSE
      /\ runs' = <<>> /\ events' = <<>> /\ activeRuns' = {}
      /\ persistTimer' = FALSE /\ persisting' = "no"
  BY DEF Crash
<1>2. TypeOK'
  <2>1. /\ runs' \in Seq(Entries) /\ Len(runs') <= MaxRuns
        /\ events' \in Seq(Entries) /\ Len(events') <= MaxEvents
    BY <1>1, StoreBounds, EmptyRing
  <2> QED  BY <1>1, <2>1 DEF TypeOK, disk, cleared
<1>3. OrderInv' /\ ClearInv'
  BY <1>1, EmptyRing DEF OrderInv, ClearInv, disk, cleared
<1>4. SaveInv'
  BY <1>1 DEF SaveInv, SavedOrScheduled, Free, disk
<1> QED  BY <1>2, <1>3, <1>4

\* A new process has the rings of the files, or empty ones where a file does not parse.
LEMMA RestartInv ==
  ASSUME StoreInv, Restart
  PROVE  StoreInv'
<1> USE DEF StoreInv
<1>1. /\ UNCHANGED <<activeRuns, persistTimer, persisting, disk, added, clearedAt>>
      /\ up' = TRUE /\ failed' = FALSE /\ clearing' = 0
  BY DEF Restart
<1>2. /\ runs' = runsFile.entries \/ runs' = <<>>
      /\ events' = eventsFile.entries \/ events' = <<>>
      /\ runsFile.whole => runs' = runsFile.entries
      /\ runsFile.whole /\ eventsFile.whole => events' = eventsFile.entries
  BY DEF Restart
<1>3. /\ runs' \in Seq(Entries) /\ Len(runs') <= MaxRuns
      /\ events' \in Seq(Entries) /\ Len(events') <= MaxEvents
  <2>1. /\ runsFile.entries \in Seq(Entries) /\ Len(runsFile.entries) <= MaxRuns
        /\ eventsFile.entries \in Seq(Entries) /\ Len(eventsFile.entries) <= MaxEvents
    BY FilesTyped DEF SaveInv
  <2>2. /\ <<>> \in Seq(Entries) /\ Len(<<>>) <= MaxRuns /\ Len(<<>>) <= MaxEvents
    BY EmptyRing, StoreBounds
  <2> QED  BY <1>2, <2>1, <2>2
<1>4. TypeOK'
  <2>1. 0 \in 0..MaxAdded
    BY StoreBounds
  <2>2. clearing' \in 0..MaxAdded
    BY <1>1, <2>1
  <2>3. up' \in BOOLEAN /\ failed' \in BOOLEAN
    BY <1>1
  <2> QED  BY <1>1, <1>3, <2>2, <2>3 DEF TypeOK, disk
<1>5. OrderInv'
  BY <1>1, <1>2, EmptyRing DEF OrderInv, disk
<1>6. ClearInv'
  <2>1. clearing' <= added'
    BY <1>1, StoreBounds DEF TypeOK
  <2>2. After(runs', 0) /\ After(events', 0)
    BY <1>3, EntriesDated DEF After
  <2>3. After(runs', clearedAt) /\ After(events', clearedAt)
    BY <1>2, EmptyRing DEF ClearInv
  <2> QED  BY <1>1, <2>1, <2>2, <2>3 DEF ClearInv, disk
<1>7. SaveInv'
  <2>1. persisting' \in {"between", "events"} => runsFile' = Whole(runs')
    <3> SUFFICES ASSUME persisting \in {"between", "events"} PROVE runsFile = Whole(runs')
      BY <1>1 DEF disk
    <3>1. runsFile = Whole(runs) /\ runsFile.entries = runs /\ runsFile.whole
      BY FileTypes DEF SaveInv, TypeOK
    <3> QED  BY <1>2, <3>1
  <2>2. SavedOrScheduled'
    <3> SUFFICES ASSUME runsFile.whole, eventsFile.whole
                 PROVE  runsFile = Whole(runs') /\ eventsFile = Whole(events')
      BY <1>1 DEF SavedOrScheduled, Saved, disk
    <3> QED  BY <1>2, FilesTyped
  <2> QED  BY <1>1, <2>1, <2>2 DEF SaveInv, disk
<1> QED  BY <1>4, <1>5, <1>6, <1>7

LEMMA StoreStepInv == StoreInv /\ [Next]_storeVars => StoreInv'
<1> SUFFICES ASSUME StoreInv, [Next]_storeVars PROVE StoreInv'
  OBVIOUS
<1>1. CASE \E r \in Requests : AddRunStart(r)
  <2> PICK r \in Requests : AddRunStart(r)
    BY <1>1
  <2>1. activeRuns' \subseteq Requests
    BY DEF AddRunStart, StoreInv, TypeOK
  <2> QED  BY <2>1, AddingInv DEF AddRunStart
<1>2. CASE \E r \in Requests : AddEvent(r)
  <2> PICK r \in Requests : AddEvent(r)
    BY <1>2
  <2>1. activeRuns' \subseteq Requests
    BY DEF AddEvent, StoreInv, TypeOK
  <2> QED  BY <2>1, AddingInv DEF AddEvent
<1>3. CASE \E r \in Requests : AddRun(r)
  <2> PICK r \in Requests : AddRun(r)
    BY <1>3
  <2>1. activeRuns' \subseteq Requests
    BY DEF AddRun, ActiveWithout, StoreInv, TypeOK
  <2> QED  BY <2>1, AddingInv DEF AddRun
<1>4. CASE Clear
  BY <1>4, ClearInvKept
<1>5. CASE PersistTimerFires
  BY <1>5, TimerInv
<1>6. CASE RunsWritten
  BY <1>6, RunsWrittenInv
<1>7. CASE EventsTruncated
  BY <1>7, EventsTruncatedInv
<1>8. CASE EventsWritten
  BY <1>8, EventsWrittenInv
<1>9. CASE PersistFails
  BY <1>9, PersistFailsInv
<1>10. CASE Crash
  BY <1>10, CrashInv
<1>11. CASE Restart
  BY <1>11, RestartInv
<1>12. CASE UNCHANGED storeVars
  BY <1>12 DEF storeVars, memory, disk, cleared, StoreInv, TypeOK, OrderInv, ClearInv, SaveInv,
               SavedOrScheduled, Saved, Free
<1> QED  BY <1>1, <1>2, <1>3, <1>4, <1>5, <1>6, <1>7, <1>8, <1>9, <1>10, <1>11, <1>12
            DEF Next, Call, Save

\* The rings and files keep their types, capacities, order and what clears have removed.
THEOREM StoreInvariant == Spec => []StoreInv
<1> QED  BY StoreInitInv, StoreStepInv, PTL DEF Spec

\* The rings never hold more than their capacities, nor anything but entries, whatever
\* addRun, addEvent, clear, persist and loadFromDisk do in whatever order.
THEOREM StoreTypeCorrect == Spec => []TypeOK
<1>1. StoreInv => TypeOK
  BY DEF StoreInv
<1> QED  BY <1>1, StoreInvariant, PTL

\* addRun and addEvent, the saves and loadFromDisk keep rings and files newest first, with
\* no entry twice.
THEOREM NewestFirstAlways == Spec => []NewestFirst
<1>1. StoreInv => NewestFirst
  BY DEF StoreInv, OrderInv, Descends, NewestFirst
<1> QED  BY <1>1, StoreInvariant, PTL

\* What a saved clear() removed is in neither ring again.
THEOREM ClearsAreFinal == Spec => []ClearIsFinal
<1>1. StoreInv => ClearIsFinal
  BY DEF StoreInv, ClearInv, After, ClearIsFinal
<1> QED  BY <1>1, StoreInvariant, PTL

\* A ring that differs from intact files has the debounce timer set, or its save failed.
THEOREM SavedOrScheduledAlways == Spec => []SavedOrScheduled
<1>1. StoreInv => SavedOrScheduled
  BY DEF StoreInv, SaveInv
<1> QED  BY <1>1, StoreInvariant, PTL
-----------------------------------------------------------------------------
(* The tools *)

\* The tools in their threads leave the store to its own steps: with them it still
\* implements the specification of the store alone.
THEOREM ImplementsStore == FilesSpec => Spec
<1>1. FilesInit => Init
  BY DEF FilesInit
<1>2. [FilesNext]_fileVars => [Next]_storeVars
  <2> SUFFICES ASSUME [FilesNext]_fileVars PROVE [Next]_storeVars
    OBVIOUS
  <2>1. CASE \E w \in Workers :
               ScheduleTask(w) \/ TruncateTasks(w) \/ WriteTasks(w) \/ ScheduleFails(w)
    BY <2>1 DEF ScheduleTask, TruncateTasks, WriteTasks, ScheduleFails
  <2>2. CASE StoreStep
    BY <2>2 DEF StoreStep, Next
  <2>3. CASE ProcessDies
    BY <2>3 DEF ProcessDies, Next
  <2>4. CASE UNCHANGED fileVars
    BY <2>4 DEF fileVars
  <2> QED  BY <2>1, <2>2, <2>3, <2>4 DEF FilesNext, ToolStep
<1> QED  BY <1>1, <1>2, PTL DEF Spec, FilesSpec

\* So the rings and files hold only what the store's own calls leave there.
THEOREM FilesStoreInvariant == FilesSpec => []StoreInv
<1> QED  BY ImplementsStore, StoreInvariant, PTL

\* Alone among them the tasks of calls that overlapped, or that loaded what did not parse,
\* may be lost: a call that is under way by itself has all others, and its own.
UnderWayCall(w) == calls[w].step # "none"
Safe            == scheduled \ overlapping

TasksInv ==
  /\ tasksFile.text = "whole" /\ ~mislaid => Safe \subseteq tasksFile.tasks
  /\ \A w \in Workers : UnderWayCall(w) =>
       calls[w].task \in calls[w].tasks /\ (~mislaid => Safe \subseteq calls[w].tasks)
  /\ \A v, w \in Workers : v # w /\ UnderWayCall(v) /\ UnderWayCall(w) =>
       calls[w].task \in overlapping

CallsInv == calls \in [Workers -> Calls] /\ TasksInv

LEMMA TasksInitInv == FilesInit => CallsInv
<1> SUFFICES ASSUME FilesInit PROVE CallsInv
  OBVIOUS
<1>1. NoCall \in Calls
  BY FilesAssumption DEF NoCall, Calls, Steps
<1>2. calls \in [Workers -> Calls] /\ \A w \in Workers : ~UnderWayCall(w)
  BY <1>1 DEF FilesInit, UnderWayCall, NoCall
<1> QED  BY <1>2 DEF FilesInit, CallsInv, TasksInv, Safe

\* One thread's call is replaced by another record, the others' are not.
LEMMA OneCall ==
  ASSUME calls \in [Workers -> Calls], NEW w \in Workers, NEW c \in Calls,
         calls' = [calls EXCEPT ![w] = c]
  PROVE  /\ calls' \in [Workers -> Calls] /\ calls'[w] = c
         /\ \A v \in Workers : v # w => calls'[v] = calls[v]
  OBVIOUS

LEMMA ScheduleInv ==
  ASSUME CallsInv, FilesTypeOK, NEW w \in Workers, ScheduleTask(w)
  PROVE  CallsInv'
<1> DEFINE c == [step |-> "loaded", task |-> begun + 1, tasks |-> LoadTasks \cup {begun + 1}]
<1>1. begun + 1 \in Tasks /\ begun + 1 \in 0..MaxTasks
  BY FilesAssumption DEF ScheduleTask, FilesTypeOK, Tasks
<1>2. c \in Calls
  <2>1. LoadTasks \subseteq Tasks
    BY DEF LoadTasks, FilesTypeOK, TasksFiles
  <2> QED  BY <1>1, <2>1 DEF Calls, Steps
<1>3. c.step = "loaded" /\ c.task = begun + 1 /\ c.tasks = LoadTasks \cup {begun + 1}
  OBVIOUS
<1>4. calls' = [calls EXCEPT ![w] = c]
  BY DEF ScheduleTask
<1> HIDE DEF c
<1>5. /\ calls' \in [Workers -> Calls] /\ calls'[w] = c
      /\ \A v \in Workers : v # w => calls'[v] = calls[v]
  BY <1>2, <1>4, OneCall DEF CallsInv
<1>6. /\ tasksFile' = tasksFile /\ scheduled' = scheduled
      /\ overlapping \subseteq overlapping'
      /\ ~mislaid' => ~mislaid /\ tasksFile.text = "whole"
      /\ ~UnderWayCall(w)
  BY DEF ScheduleTask, UnderWayCall
<1>7. Safe' \subseteq Safe
  BY <1>6 DEF Safe
<1>8. ASSUME NEW v \in Workers, UnderWayCall(v)'
      PROVE  calls'[v].task \in calls'[v].tasks /\ (~mislaid' => Safe' \subseteq calls'[v].tasks)
  <2>1. CASE v = w
    <3>1. ~mislaid' => Safe \subseteq LoadTasks
      BY <1>6 DEF CallsInv, TasksInv, LoadTasks
    <3> QED  BY <2>1, <3>1, <1>3, <1>5, <1>7
  <2>2. CASE v # w
    BY <2>2, <1>5, <1>6, <1>7, <1>8 DEF CallsInv, TasksInv, UnderWayCall
  <2> QED  BY <2>1, <2>2
<1>9. ASSUME NEW u \in Workers, NEW v \in Workers, u # v, UnderWayCall(u)', UnderWayCall(v)'
      PROVE  calls'[v].task \in overlapping'
  <2>1. CASE u # w /\ v # w
    BY <2>1, <1>5, <1>6, <1>9 DEF CallsInv, TasksInv, UnderWayCall
  <2>2. CASE u = w
    <3>1. UnderWayCall(v) /\ calls'[v] = calls[v]
      BY <2>2, <1>5, <1>9 DEF UnderWayCall
    <3>2. calls[v].task \in UnderWay
      BY <3>1 DEF UnderWay, UnderWayCall
    <3> QED  BY <3>1, <3>2 DEF ScheduleTask
  <2>3. CASE v = w
    <3>1. UnderWayCall(u)
      BY <2>3, <1>5, <1>9 DEF UnderWayCall
    <3>2. UnderWay # {}
      BY <3>1 DEF UnderWay, UnderWayCall
    <3> QED  BY <3>2, <2>3, <1>3, <1>5 DEF ScheduleTask
  <2> QED  BY <2>1, <2>2, <2>3
<1>10. tasksFile'.text = "whole" /\ ~mislaid' => Safe' \subseteq tasksFile'.tasks
  BY <1>6, <1>7 DEF CallsInv, TasksInv
<1> QED  BY <1>5, <1>8, <1>9, <1>10 DEF CallsInv, TasksInv

LEMMA TruncateInv ==
  ASSUME CallsInv, NEW w \in Workers, TruncateTasks(w)
  PROVE  CallsInv'
<1>1. /\ calls[w] \in Calls /\ calls[w].step = "loaded"
      /\ calls' = [calls EXCEPT ![w].step = "truncated"]
      /\ tasksFile'.text = "empty"
      /\ UNCHANGED <<scheduled, overlapping, mislaid>>
  BY DEF TruncateTasks, CallsInv, Emptied
<1>2. \A v \in Workers : /\ calls'[v] \in Calls
                         /\ calls'[v].task = calls[v].task
                         /\ calls'[v].tasks = calls[v].tasks
                         /\ calls'[v].step # "none" => calls[v].step # "none"
  <2> SUFFICES ASSUME NEW v \in Workers
               PROVE  /\ calls'[v] \in Calls
                      /\ calls'[v].task = calls[v].task
                      /\ calls'[v].tasks = calls[v].tasks
                      /\ calls'[v].step # "none" => calls[v].step # "none"
    OBVIOUS
  <2>1. calls[v] \in Calls
    BY DEF CallsInv
  <2>2. CASE v = w
    BY <2>1, <2>2, <1>1 DEF CallsInv, Calls, Steps
  <2>3. CASE v # w
    BY <2>1, <2>3, <1>1 DEF CallsInv
  <2> QED  BY <2>2, <2>3
<1>3. calls' \in [Workers -> Calls]
  BY <1>1, <1>2 DEF CallsInv
<1> QED  BY <1>1, <1>2, <1>3 DEF CallsInv, TasksInv, UnderWayCall, Safe

\* A call ends: it writes what it loaded and its own task, or nothing.
LEMMA EndedInv ==
  ASSUME CallsInv, NEW w \in Workers, calls' = [calls EXCEPT ![w] = NoCall]
  PROVE  /\ calls' \in [Workers -> Calls] /\ ~UnderWayCall(w)'
         /\ \A v \in Workers : UnderWayCall(v)' =>
              v # w /\ UnderWayCall(v) /\ calls'[v] = calls[v]
<1>1. NoCall \in Calls /\ NoCall.step = "none"
  BY FilesAssumption DEF NoCall, Calls, Steps
<1>2. /\ calls' \in [Workers -> Calls] /\ calls'[w] = NoCall
      /\ \A v \in Workers : v # w => calls'[v] = calls[v]
  BY <1>1, OneCall DEF CallsInv
<1> QED  BY <1>1, <1>2 DEF UnderWayCall

LEMMA WriteInv ==
  ASSUME CallsInv, NEW w \in Workers, WriteTasks(w)
  PROVE  CallsInv'
<1>1. /\ UnderWayCall(w) /\ calls' = [calls EXCEPT ![w] = NoCall]
      /\ scheduled' = scheduled \cup {calls[w].task}
      /\ UNCHANGED <<overlapping, mislaid>>
      /\ tasksFile' = Intact(calls[w].tasks) \/ tasksFile'.text # "whole"
  BY DEF WriteTasks, UnderWayCall, Garbled
<1>2. /\ calls' \in [Workers -> Calls] /\ ~UnderWayCall(w)'
      /\ \A v \in Workers : UnderWayCall(v)' =>
           v # w /\ UnderWayCall(v) /\ calls'[v] = calls[v]
  BY <1>1, EndedInv
<1>3. Safe' \subseteq Safe \cup {calls[w].task}
  BY <1>1 DEF Safe
<1>4. tasksFile'.text = "whole" /\ ~mislaid' => Safe' \subseteq tasksFile'.tasks
  BY <1>1, <1>3 DEF CallsInv, TasksInv, Intact
<1>5. ASSUME NEW v \in Workers, UnderWayCall(v)'
      PROVE  calls'[v].task \in calls'[v].tasks /\ (~mislaid' => Safe' \subseteq calls'[v].tasks)
  <2>1. v # w /\ UnderWayCall(v) /\ calls'[v] = calls[v]
    BY <1>2, <1>5
  <2>2. calls[w].task \in overlapping
    BY <1>1, <2>1 DEF CallsInv, TasksInv
  <2>3. Safe' \subseteq Safe
    BY <1>1, <2>2 DEF Safe
  <2> QED  BY <1>1, <2>1, <2>3 DEF CallsInv, TasksInv
<1>6. ASSUME NEW u \in Workers, NEW v \in Workers, u # v, UnderWayCall(u)', UnderWayCall(v)'
      PROVE  calls'[v].task \in overlapping'
  BY <1>1, <1>2, <1>6 DEF CallsInv, TasksInv
<1> QED  BY <1>2, <1>4, <1>5, <1>6 DEF CallsInv, TasksInv

LEMMA FailsInv ==
  ASSUME CallsInv, NEW w \in Workers, ScheduleFails(w)
  PROVE  CallsInv'
<1>1. calls' = [calls EXCEPT ![w] = NoCall] /\ UNCHANGED <<tasksFile, scheduled, overlapping, mislaid>>
  BY DEF ScheduleFails
<1>2. /\ calls' \in [Workers -> Calls]
      /\ \A v \in Workers : UnderWayCall(v)' => UnderWayCall(v) /\ calls'[v] = calls[v]
  BY <1>1, EndedInv
<1> QED  BY <1>1, <1>2 DEF CallsInv, TasksInv, Safe

LEMMA DiesInv == CallsInv /\ ProcessDies => CallsInv'
<1> SUFFICES ASSUME CallsInv, ProcessDies PROVE CallsInv'
  OBVIOUS
<1>1. NoCall \in Calls /\ NoCall.step = "none"
  BY FilesAssumption DEF NoCall, Calls, Steps
<1>2. /\ calls' = [w \in Workers |-> NoCall]
      /\ UNCHANGED <<tasksFile, scheduled, overlapping, mislaid>>
  BY DEF ProcessDies
<1>3. calls' \in [Workers -> Calls] /\ \A v \in Workers : ~UnderWayCall(v)'
  BY <1>1, <1>2 DEF UnderWayCall
<1> QED  BY <1>2, <1>3 DEF CallsInv, TasksInv, Safe

\* The tools' own variables; a call that is under way is for a task.
ToolTypes ==
  /\ tasksFile \in TasksFiles
  /\ begun \in 0..MaxTasks
  /\ scheduled \subseteq Tasks /\ overlapping \subseteq Tasks
  /\ mislaid \in BOOLEAN
  /\ \A w \in Workers : UnderWayCall(w) => calls[w].task \in Tasks

FilesInv == StoreInv /\ CallsInv /\ ToolTypes

LEMMA ToolTypesKept ==
  ASSUME FilesInv, CallsInv', FilesNext
  PROVE  ToolTypes'
<1> USE DEF FilesInv
<1>1. CASE \E w \in Workers : ScheduleTask(w)
  <2> PICK w \in Workers : ScheduleTask(w)
    BY <1>1
  <2>1. begun + 1 \in Tasks /\ begun + 1 \in 0..MaxTasks
    BY FilesAssumption DEF ScheduleTask, ToolTypes, Tasks
  <2>2. UnderWay \subseteq Tasks
    BY DEF ToolTypes, UnderWay, UnderWayCall
  <2>3. overlapping' \subseteq Tasks
    BY <2>1, <2>2 DEF ScheduleTask, ToolTypes
  <2>4. ASSUME NEW v \in Workers, UnderWayCall(v)'
        PROVE  calls'[v].task \in Tasks
    <3> DEFINE c == [step |-> "loaded", task |-> begun + 1, tasks |-> LoadTasks \cup {begun + 1}]
    <3>1. c.task = begun + 1
      OBVIOUS
    <3>2. calls' = [calls EXCEPT ![w] = c] /\ calls \in [Workers -> Calls]
      BY DEF ScheduleTask, CallsInv
    <3> HIDE DEF c
    <3>3. CASE v = w
      BY <3>1, <3>2, <3>3, <2>1
    <3>4. CASE v # w
      BY <3>2, <3>4, <2>4 DEF ToolTypes, UnderWayCall
    <3> QED  BY <3>3, <3>4
  <2>5. mislaid' \in BOOLEAN
    BY DEF ScheduleTask, ToolTypes
  <2> QED  BY <2>1, <2>3, <2>4, <2>5 DEF ScheduleTask, ToolTypes
<1>2. CASE \E w \in Workers : TruncateTasks(w)
  <2> PICK w \in Workers : TruncateTasks(w)
    BY <1>2
  <2>1. \A v \in Workers : calls'[v].task = calls[v].task /\ (UnderWayCall(v)' => UnderWayCall(v))
    <3> SUFFICES ASSUME NEW v \in Workers
                 PROVE  calls'[v].task = calls[v].task /\ (UnderWayCall(v)' => UnderWayCall(v))
      OBVIOUS
    <3>1. calls[v] \in Calls /\ calls \in [Workers -> Calls]
      BY DEF CallsInv
    <3>2. CASE v = w
      BY <3>1, <3>2 DEF TruncateTasks, UnderWayCall, Calls
    <3>3. CASE v # w
      BY <3>1, <3>3 DEF TruncateTasks, UnderWayCall
    <3> QED  BY <3>2, <3>3
  <2>2. tasksFile' \in TasksFiles
    BY DEF TruncateTasks, Emptied, TasksFiles
  <2> QED  BY <2>1, <2>2 DEF TruncateTasks, ToolTypes
<1>3. CASE \E w \in Workers : WriteTasks(w)
  <2> PICK w \in Workers : WriteTasks(w)
    BY <1>3
  <2>1. UnderWayCall(w) /\ calls' = [calls EXCEPT ![w] = NoCall] /\ calls[w] \in Calls
    BY DEF WriteTasks, UnderWayCall, CallsInv
  <2>2. \A v \in Workers : UnderWayCall(v)' => UnderWayCall(v) /\ calls'[v] = calls[v]
    BY <2>1, EndedInv
  <2>3. calls[w].task \in Tasks /\ calls[w].tasks \in SUBSET Tasks
    BY <2>1 DEF ToolTypes, Calls
  <2>4. tasksFile' \in TasksFiles
    BY <2>3 DEF WriteTasks, Intact, Garbled, TasksFiles
  <2> QED  BY <2>2, <2>3, <2>4 DEF WriteTasks, ToolTypes
<1>4. CASE \E w \in Workers : ScheduleFails(w)
  <2> PICK w \in Workers : ScheduleFails(w)
    BY <1>4
  <2>1. \A v \in Workers : UnderWayCall(v)' => UnderWayCall(v) /\ calls'[v] = calls[v]
    BY EndedInv DEF ScheduleFails
  <2> QED  BY <2>1 DEF ScheduleFails, ToolTypes
<1>5. CASE StoreStep
  BY <1>5 DEF StoreStep, toolVars, ToolTypes, UnderWayCall
<1>6. CASE ProcessDies
  <2>1. NoCall.step = "none"
    BY DEF NoCall
  <2>2. \A v \in Workers : ~UnderWayCall(v)'
    BY <1>6, <2>1 DEF ProcessDies, UnderWayCall
  <2> QED  BY <1>6, <2>2 DEF ProcessDies, ToolTypes
<1> QED  BY <1>1, <1>2, <1>3, <1>4, <1>5, <1>6 DEF FilesNext, ToolStep

LEMMA FilesInitInv == FilesInit => FilesInv
<1> SUFFICES ASSUME FilesInit PROVE FilesInv
  OBVIOUS
<1>1. StoreInv
  BY StoreInitInv DEF FilesInit
<1>2. CallsInv
  BY TasksInitInv
<1>3. ToolTypes
  <2>1. NoCall.step = "none"
    BY DEF NoCall
  <2>2. \A w \in Workers : ~UnderWayCall(w)
    BY <2>1 DEF FilesInit, UnderWayCall
  <2>3. 0 \in 0..MaxTasks
    BY FilesAssumption
  <2>4. Intact({}) \in TasksFiles
    BY DEF TasksFiles, Intact
  <2> QED  BY <2>2, <2>3, <2>4 DEF FilesInit, ToolTypes
<1> QED  BY <1>1, <1>2, <1>3 DEF FilesInv

LEMMA FilesStepInv == FilesInv /\ StoreInv' /\ [FilesNext]_fileVars => FilesInv'
<1> SUFFICES ASSUME FilesInv, StoreInv', [FilesNext]_fileVars PROVE FilesInv'
  OBVIOUS
<1>1. FilesTypeOK
  <2>1. TypeOK
    BY DEF FilesInv, StoreInv
  <2> QED  BY <2>1 DEF FilesInv, CallsInv, ToolTypes, FilesTypeOK
<1>2. CallsInv'
  <2>1. CASE \E w \in Workers : ScheduleTask(w)
    BY <2>1, <1>1, ScheduleInv DEF FilesInv
  <2>2. CASE \E w \in Workers : TruncateTasks(w)
    BY <2>2, TruncateInv DEF FilesInv
  <2>3. CASE \E w \in Workers : WriteTasks(w)
    BY <2>3, WriteInv DEF FilesInv
  <2>4. CASE \E w \in Workers : ScheduleFails(w)
    BY <2>4, FailsInv DEF FilesInv
  <2>5. CASE StoreStep
    BY <2>5 DEF FilesInv, StoreStep, toolVars, CallsInv, TasksInv, UnderWayCall, Safe
  <2>6. CASE ProcessDies
    BY <2>6, DiesInv DEF FilesInv
  <2>7. CASE UNCHANGED fileVars
    BY <2>7 DEF FilesInv, fileVars, toolVars, CallsInv, TasksInv, UnderWayCall, Safe
  <2> QED  BY <2>1, <2>2, <2>3, <2>4, <2>5, <2>6, <2>7 DEF FilesNext, ToolStep
<1>3. ToolTypes'
  <2>1. CASE FilesNext
    BY <2>1, <1>2, ToolTypesKept
  <2>2. CASE UNCHANGED fileVars
    BY <2>2 DEF FilesInv, fileVars, toolVars, ToolTypes, UnderWayCall
  <2> QED  BY <2>1, <2>2
<1> QED  BY <1>2, <1>3 DEF FilesInv

THEOREM FilesInvariant == FilesSpec => []FilesInv
<1> QED  BY FilesInitInv, FilesStepInv, FilesStoreInvariant, PTL DEF FilesSpec

\* Store, files and calls keep their types.
THEOREM FilesTypeCorrect == FilesSpec => []FilesTypeOK
<1>1. FilesInv => FilesTypeOK
  <2>1. FilesInv => TypeOK
    BY DEF FilesInv, StoreInv
  <2> QED  BY <2>1 DEF FilesInv, CallsInv, ToolTypes, FilesTypeOK
<1> QED  BY <1>1, FilesInvariant, PTL

\* schedule_task loses no task of a call that ran alone, unless a call found a file that
\* does not parse, for any number of threads and calls.
THEOREM ScheduledStaysAlways == FilesSpec => []ScheduledStays
<1>1. FilesInv => ScheduledStays
  BY DEF FilesInv, CallsInv, TasksInv, Safe, ScheduledStays
<1> QED  BY <1>1, FilesInvariant, PTL

\* get_recent_runs answers, for any limit, the latest of the saved runs, latest first, none
\* of them older than a saved clear.
THEOREM AnswersLatestAlways == FilesSpec => []AnswersLatest
<1>1. StoreInv => AnswersLatest
  <2> SUFFICES ASSUME StoreInv, NEW limit \in Limits, GetRecentRuns(limit).success
               PROVE  LET told  == GetRecentRuns(limit).runs
                          saved == {runsFile.entries[i] : i \in DOMAIN runsFile.entries}
                      IN /\ \A i \in DOMAIN told : \A e \in saved :
                              e.at > told[i].at => \E j \in 1..(i - 1) : told[j] = e
                         /\ \A i \in DOMAIN told : told[i].at > clearedAt
    BY DEF AnswersLatest
  <2> DEFINE q    == runsFile.entries
             k    == IF Len(q) < limit THEN Len(q) ELSE limit
             told == GetRecentRuns(limit).runs
  <2>1. runsFile.whole
    BY DEF GetRecentRuns
  <2>2. told = SubSeq(q, 1, k)
    BY <2>1 DEF GetRecentRuns, SliceFirst
  <2>3. q \in Seq(Entries)
    BY FilesTyped DEF StoreInv
  <2>4. k \in 0..Len(q)
    BY <2>3, FilesAssumption
  <2>5. DOMAIN told = 1..k /\ \A i \in 1..k : told[i] = q[i] /\ i \in DOMAIN q
    BY <2>2, <2>3, <2>4
  <2>6. Descends(q, added) /\ After(q, clearedAt)
    BY DEF StoreInv, OrderInv, ClearInv
  <2>7. \A i \in DOMAIN q : q[i].at \in Nat
    BY <2>3, EntriesDated
  <2> HIDE DEF told, k, q
  <2>8. ASSUME NEW i \in DOMAIN told, NEW n \in DOMAIN q, q[n].at > told[i].at
        PROVE  \E j \in 1..(i - 1) : told[j] = q[n]
    <3>1. i \in 1..k /\ i \in DOMAIN q /\ told[i] = q[i] /\ n \in 1..Len(q) /\ k \in Nat
      BY <2>3, <2>4, <2>5
    <3>2. n < i
      <4>1. q[i].at \in Nat /\ q[n].at \in Nat /\ q[n].at > q[i].at
        BY <3>1, <2>7, <2>8
      <4>2. ~(i < n)
        BY <4>1, <3>1, <2>6 DEF Descends
      <4>3. i # n
        BY <4>1
      <4> QED  BY <4>2, <4>3, <3>1
    <3>3. n \in 1..(i - 1) /\ n \in 1..k
      BY <3>1, <3>2
    <3> QED  BY <3>3, <2>5
  <2>9. \A i \in DOMAIN told : told[i].at > clearedAt
    BY <2>5, <2>6 DEF After
  <2> QED  BY <2>8, <2>9 DEF told, q
<1> QED  BY <1>1, FilesStoreInvariant, PTL
-----------------------------------------------------------------------------
(* The server *)

\* One heartbeat run is awaited at most, and the flag tells whether there is one.
BeatInv ==
  /\ heartbeatRunning <=> \E r \in Heartbeats : stage[r] \in Awaited
  /\ \A r, q \in Heartbeats : stage[r] \in Awaited /\ stage[q] \in Awaited => r = q

\* An agent starts once its request has been observed; the requests that are not answered or
\* refused have entries owed to them.
AgentInv ==
  /\ \A r \in Requests : stage[r] \in {"absent", "observing"} => agent[r] = "none"
  /\ added + Owed <= MaxAdded

ServerTypes ==
  /\ open \in BOOLEAN /\ heartbeatRunning \in BOOLEAN
  /\ stage \in [Requests -> Stages]
  /\ agent \in [Requests -> {"none", "working", "settled"}]

ServerInv == StoreInv /\ ServerTypes /\ BeatInv /\ AgentInv /\ RecordedOnce

LEMMA RequestsFinite == IsFiniteSet(Requests) /\ Heartbeats \subseteq Requests
                        /\ MaxAdded >= 4 * Cardinality(Requests)
  BY HeartbeatsAssumption

LEMMA OwedType ==
  /\ Cardinality(NotStarted) \in Nat /\ Cardinality(AtWork) \in Nat /\ Owed \in Nat
  /\ IsFiniteSet(NotStarted) /\ IsFiniteSet(AtWork)
<1>1. NotStarted \subseteq Requests /\ AtWork \subseteq Requests
  BY DEF NotStarted, AtWork
<1>2. IsFiniteSet(NotStarted) /\ IsFiniteSet(AtWork)
  BY <1>1, RequestsFinite, FS_Subset
<1>3. Cardinality(NotStarted) \in Nat /\ Cardinality(AtWork) \in Nat
  BY <1>2, FS_CardinalityType
<1> QED  BY <1>2, <1>3 DEF Owed

\* Requests that settle or are refused owe nothing more.
LEMMA OwesLess ==
  ASSUME NotStarted' \subseteq NotStarted, AtWork' \subseteq AtWork
  PROVE  /\ Owed' \in Nat /\ Owed' <= Owed
         /\ \A r \in AtWork : r \notin AtWork' => Owed' + 2 <= Owed
<1>1. /\ IsFiniteSet(NotStarted) /\ IsFiniteSet(AtWork)
      /\ Cardinality(NotStarted) \in Nat /\ Cardinality(AtWork) \in Nat
  BY OwedType
<1>2. /\ Cardinality(NotStarted') \in Nat /\ Cardinality(NotStarted') <= Cardinality(NotStarted)
      /\ Cardinality(AtWork') \in Nat /\ Cardinality(AtWork') <= Cardinality(AtWork)
      /\ AtWork' # AtWork => Cardinality(AtWork') # Cardinality(AtWork)
  <2>1. IsFiniteSet(NotStarted') /\ IsFiniteSet(AtWork')
    BY <1>1, FS_Subset
  <2>2. Cardinality(NotStarted') \in Nat /\ Cardinality(AtWork') \in Nat
    BY <2>1, FS_CardinalityType
  <2>3. Cardinality(NotStarted') <= Cardinality(NotStarted)
    BY <1>1, FS_Subset
  <2>4. Cardinality(AtWork') <= Cardinality(AtWork)
    BY <1>1, FS_Subset
  <2>5. AtWork' # AtWork => Cardinality(AtWork') # Cardinality(AtWork)
    BY <1>1, FS_Subset
  <2> QED  BY <2>2, <2>3, <2>4, <2>5
<1>3. Owed' = 4 * Cardinality(NotStarted') + 2 * Cardinality(AtWork')
  BY DEF Owed
<1>4. Owed' \in Nat /\ Owed' <= Owed
  BY <1>1, <1>2, <1>3 DEF Owed
<1>5. ASSUME NEW r \in AtWork, r \notin AtWork'
      PROVE  Owed' + 2 <= Owed
  BY <1>1, <1>2, <1>3, <1>5 DEF Owed
<1> QED  BY <1>4, <1>5

\* A request whose agent starts owes two entries less.
LEMMA OwesStarted ==
  ASSUME NEW r \in NotStarted, r \notin AtWork,
         NotStarted' = NotStarted \ {r}, AtWork' = AtWork \cup {r}
  PROVE  Owed' \in Nat /\ Owed' + 2 = Owed
<1>1. /\ IsFiniteSet(NotStarted) /\ IsFiniteSet(AtWork)
      /\ Cardinality(NotStarted) \in Nat /\ Cardinality(AtWork) \in Nat
  BY OwedType
<1>2. IsFiniteSet(NotStarted \ {r}) /\ Cardinality(NotStarted \ {r}) = Cardinality(NotStarted) - 1
  BY <1>1, FS_RemoveElement
<1>3. Cardinality(NotStarted \ {r}) \in Nat
  BY <1>2, FS_CardinalityType
<1>4. Cardinality(AtWork \cup {r}) = Cardinality(AtWork) + 1
  BY <1>1, FS_AddElement
<1>5. Owed' = 4 * Cardinality(NotStarted \ {r}) + 2 * Cardinality(AtWork \cup {r})
  BY DEF Owed
<1> QED  BY <1>1, <1>2, <1>3, <1>4, <1>5 DEF Owed

\* What GoTo does to the requests and to the heartbeat.
LEMMA GoToBeat ==
  ASSUME ServerTypes, BeatInv, NEW r \in Requests, NEW s \in Stages, GoTo(r, s),
         r \in Heartbeats => stage[r] \in Awaited \/ (s \in Awaited /\ ~heartbeatRunning)
  PROVE  BeatInv' /\ stage' \in [Requests -> Stages] /\ heartbeatRunning' \in BOOLEAN
         /\ stage'[r] = s /\ \A q \in Requests \ {r} : stage'[q] = stage[q]
<1>1. /\ stage' \in [Requests -> Stages]
      /\ stage'[r] = s /\ \A q \in Requests \ {r} : stage'[q] = stage[q]
      /\ Heartbeats \subseteq Requests
  BY RequestsFinite DEF GoTo, ServerTypes
<1>2. CASE r \in Heartbeats
  <2>1. heartbeatRunning' <=> s \in Awaited
    BY <1>2 DEF GoTo
  <2>2. \A q \in Heartbeats : q # r => stage'[q] = stage[q]
    BY <1>1
  <2>3. ASSUME NEW q \in Heartbeats, q # r, stage'[q] \in Awaited
        PROVE  FALSE
    <3>1. stage[q] \in Awaited
      BY <2>2, <2>3
    <3> QED  BY <1>2, <2>3, <3>1 DEF BeatInv
  <2>4. BeatInv'
    BY <1>1, <1>2, <2>1, <2>3 DEF BeatInv
  <2>5. heartbeatRunning' \in BOOLEAN
    BY <1>2 DEF GoTo
  <2> QED  BY <1>1, <2>4, <2>5
<1>3. CASE r \notin Heartbeats
  <2>1. heartbeatRunning' = heartbeatRunning /\ \A q \in Heartbeats : stage'[q] = stage[q]
    BY <1>1, <1>3 DEF GoTo
  <2> QED  BY <1>1, <2>1 DEF BeatInv, ServerTypes
<1> QED  BY <1>2, <1>3

\* Steps that leave the store alone, and the agents.
LEMMA StageMoves ==
  ASSUME ServerInv, NEW r \in Requests, NEW s \in Stages, GoTo(r, s),
         r \in Heartbeats => stage[r] \in Awaited \/ (s \in Awaited /\ ~heartbeatRunning),
         UNCHANGED <<storeVars, agent>>, open' \in BOOLEAN,
         \/ stage[r] = "absent" /\ s \in {"refused", "observing"}
         \/ stage[r] = "observing" /\ s = "refused"
         \/ stage[r] = "running" /\ s = "timed_out"
  PROVE  ServerInv'
<1> USE DEF ServerInv
<1>1. /\ BeatInv' /\ stage' \in [Requests -> Stages] /\ heartbeatRunning' \in BOOLEAN
      /\ stage'[r] = s /\ \A q \in Requests \ {r} : stage'[q] = stage[q]
  BY GoToBeat
<1>2. StoreInv'
  BY StoreStepInv
<1>3. /\ added' = added /\ activeRuns' = activeRuns /\ runs' = runs /\ runsFile' = runsFile
      /\ agent' = agent
  BY DEF storeVars, memory, disk
<1>4. ServerTypes'
  BY <1>1, <1>3 DEF ServerTypes
<1>5. AgentInv'
  <2>1. NotStarted' \subseteq NotStarted /\ AtWork' \subseteq AtWork
    BY <1>1, <1>3 DEF NotStarted, AtWork
  <2>2. Owed' \in Nat /\ Owed' <= Owed /\ Owed \in Nat /\ added \in Nat /\ MaxAdded \in Nat
    BY <2>1, OwesLess, OwedType, StoreBounds DEF StoreInv, TypeOK
  <2>3. added' + Owed' <= MaxAdded
    <3>1. PICK o \in Nat : Owed' = o
      BY <2>2
    <3>2. o <= Owed /\ added + Owed <= MaxAdded
      BY <2>2, <3>1 DEF AgentInv
    <3> HIDE DEF Owed
    <3>3. added + o <= MaxAdded
      BY <2>2, <3>2
    <3> QED
      BY <1>3, <3>1, <3>3
  <2>4. \A q \in Requests : stage'[q] \in {"absent", "observing"} => agent'[q] = "none"
    BY <1>1, <1>3 DEF AgentInv
  <2> QED  BY <2>3, <2>4 DEF AgentInv
<1>6. RecordedOnce'
  <2>1. \A q \in Requests : /\ stage[q] = "answered" => stage'[q] = "answered"
                            /\ stage[q] \in {"running", "timed_out"} => stage'[q] \in {"running", "timed_out"}
    BY <1>1
  <2>2. /\ activeRuns \subseteq Requests /\ runs \in Seq(Entries) /\ runsFile.entries \in Seq(Entries)
    BY FilesTyped DEF StoreInv, TypeOK
  <2>3. \A q \in {runs, runsFile.entries} : \A i \in DOMAIN q : q[i].request \in Requests
    BY <2>2, EntriesOfRequests
  <2> QED  BY <1>3, <2>1, <2>2, <2>3 DEF RecordedOnce
<1> QED  BY <1>1, <1>2, <1>4, <1>5, <1>6

LEMMA RequestInv ==
  ASSUME ServerInv, NEW r \in Requests,
         Refuse(r) \/ Accept(r) \/ HeartbeatTick(r) \/ ObservationRefused(r) \/ TimesOut(r)
  PROVE  ServerInv'
<1>1. CASE Refuse(r)
  BY <1>1, StageMoves DEF Refuse, Stages, ServerInv, ServerTypes
<1>2. CASE Accept(r)
  BY <1>2, StageMoves DEF Accept, Stages, Awaited, ServerInv, ServerTypes
<1>3. CASE HeartbeatTick(r)
  BY <1>3, StageMoves DEF HeartbeatTick, MayTick, Stages, Awaited, ServerInv, ServerTypes
<1>4. CASE ObservationRefused(r)
  BY <1>4, StageMoves DEF ObservationRefused, Stages, Awaited, ServerInv, ServerTypes
<1>5. CASE TimesOut(r)
  BY <1>5, StageMoves DEF TimesOut, Stages, Awaited, ServerInv, ServerTypes
<1> QED  BY <1>1, <1>2, <1>3, <1>4, <1>5

LEMMA StartAgentInv ==
  ASSUME ServerInv, NEW r \in Requests, StartAgent(r)
  PROVE  ServerInv'
<1> USE DEF ServerInv
<1> DEFINE one == Unshift(events, EntryAt(1, r), MaxEvents)
           two == Unshift(one, EntryAt(2, r), MaxEvents)
<1>1. /\ stage[r] = "observing" /\ GoTo(r, "running") /\ Free
      /\ agent' = [agent EXCEPT ![r] = "working"]
      /\ activeRuns' = activeRuns \cup {r} /\ events' = two /\ runs' = runs
      /\ added' = added + 2 /\ persistTimer' = TRUE
      /\ UNCHANGED <<up, persisting, failed, disk, cleared, open>>
  BY DEF StartAgent, SchedulePersist
<1>2. /\ BeatInv' /\ stage' \in [Requests -> Stages] /\ heartbeatRunning' \in BOOLEAN
      /\ stage'[r] = "running" /\ \A q \in Requests \ {r} : stage'[q] = stage[q]
  BY <1>1, GoToBeat DEF Stages, Awaited
<1>3. /\ agent[r] = "none" /\ agent \in [Requests -> {"none", "working", "settled"}]
      /\ agent'[r] = "working" /\ \A q \in Requests \ {r} : agent'[q] = agent[q]
  BY <1>1 DEF AgentInv, ServerTypes
<1>4. ServerTypes'
  BY <1>1, <1>2 DEF ServerTypes
<1>5. AgentInv' /\ added + 2 <= MaxAdded
  <2>1. /\ r \in NotStarted /\ r \notin AtWork
        /\ NotStarted' = NotStarted \ {r} /\ AtWork' = AtWork \cup {r}
    BY <1>1, <1>2, <1>3 DEF NotStarted, AtWork
  <2>2. /\ Owed' \in Nat /\ Owed' + 2 = Owed /\ Owed \in Nat /\ added \in Nat /\ MaxAdded \in Nat
    BY <2>1, OwesStarted, OwedType, StoreBounds DEF StoreInv, TypeOK
  <2>3. added' + Owed' <= MaxAdded /\ added + 2 <= MaxAdded
    <3>1. added + Owed <= MaxAdded /\ added' = added + 2
      BY <1>1 DEF AgentInv
    <3>2. PICK owes \in Nat : Owed' = owes
      BY <2>2
    <3>3. owes + 2 <= Owed
      BY <2>2, <3>2
    <3> QED  BY <2>2, <3>1, <3>2, <3>3
  <2>4. \A q \in Requests : stage'[q] \in {"absent", "observing"} => agent'[q] = "none"
    BY <1>2, <1>3 DEF AgentInv
  <2> QED  BY <2>3, <2>4 DEF AgentInv
<1>6. /\ TypeOK /\ added \in Nat /\ MaxAdded \in Nat
      /\ events \in Seq(Entries) /\ Len(events) <= MaxEvents /\ Descends(events, added)
      /\ runs \in Seq(Entries) /\ Len(runs) <= MaxRuns /\ Descends(runs, added)
      /\ MaxEvents \in Nat \ {0} /\ activeRuns \subseteq Requests
  BY StoreBounds DEF StoreInv, TypeOK, OrderInv
<1>7. /\ one \in Seq(Entries) /\ Len(one) <= MaxEvents /\ Descends(one, added + 1)
      /\ \A m \in Nat : m <= added /\ After(events, m) => After(one, m)
  <2>1. added <= added /\ added < added + 1 /\ added + 1 <= MaxAdded /\ 1 \in {1, 2}
    BY <1>5, <1>6
  <2> QED  BY <1>6, <2>1, RingGrows
<1> HIDE DEF one
<1>8. /\ two \in Seq(Entries) /\ Len(two) <= MaxEvents /\ Descends(two, added + 2)
      /\ \A m \in Nat : m <= added /\ After(one, m) => After(two, m)
  <2>1. /\ added <= added + 1 /\ added + 1 < added + 2 /\ added + 2 <= MaxAdded /\ 2 \in {1, 2}
        /\ added + 1 \in Nat
    BY <1>5, <1>6
  <2> QED  BY <1>6, <1>7, <2>1, RingGrows
<1> HIDE DEF two
<1>9. StoreInv'
  <2>1. Descends(runs, added + 2)
    BY <1>6, DescendsOn
  <2>2. \A n \in Nat : n <= added => (After(events, n) => After(events', n))
    BY <1>1, <1>7, <1>8
  <2>3. added' \in 0..MaxAdded /\ added <= added' /\ activeRuns' \subseteq Requests
    BY <1>1, <1>5, <1>6
  <2> QED  BY <1>1, <1>6, <1>8, <2>1, <2>2, <2>3, AddedInv
<1>10. RecordedOnce'
  <2>1. runsFile.entries \in Seq(Entries) /\ runsFile' = runsFile
    BY <1>1, <1>6, FilesTyped DEF disk
  <2>2. \A q \in {runs, runsFile.entries} : \A i \in DOMAIN q : q[i].request \in Requests
    BY <1>6, <2>1, EntriesOfRequests
  <2>3. \A q \in activeRuns' : stage'[q] \in {"running", "timed_out"}
    BY <1>1, <1>2, <1>6 DEF RecordedOnce
  <2>4. \A q \in {runs, runsFile.entries} : \A i \in DOMAIN q : stage'[q[i].request] = "answered"
    <3> SUFFICES ASSUME NEW q \in {runs, runsFile.entries}, NEW i \in DOMAIN q
                 PROVE  stage'[q[i].request] = "answered"
      OBVIOUS
    <3>1. stage[q[i].request] = "answered" /\ q[i].request \in Requests
      BY <2>2 DEF RecordedOnce
    <3>2. q[i].request # r
      BY <1>1, <3>1
    <3> QED  BY <1>2, <3>1, <3>2
  <2>5. \A q \in {runs, runsFile.entries} : \A i, j \in DOMAIN q :
          q[i].request = q[j].request => i = j
    BY DEF RecordedOnce
  <2> QED  BY <1>1, <2>1, <2>3, <2>4, <2>5 DEF RecordedOnce
<1> QED  BY <1>2, <1>4, <1>5, <1>9, <1>10

\* The agent adds events, and nothing else changes.
LEMMA EventAdded ==
  ASSUME StoreInv, RecordedOnce, NEW r \in Requests, AddEvent(r), UNCHANGED stage
  PROVE  StoreInv' /\ RecordedOnce' /\ added' = added + 1
<1>1. StoreInv'
  BY StoreStepInv DEF Next, Call
<1> QED  BY <1>1 DEF AddEvent, NewEntry, disk, RecordedOnce

LEMMA ProgressInv ==
  ASSUME ServerInv, NEW r \in Requests, Progress(r)
  PROVE  ServerInv'
<1> USE DEF ServerInv
<1>1. StoreInv' /\ RecordedOnce' /\ added' = added + 1
  BY EventAdded DEF Progress
<1>2. added + Owed < MaxAdded /\ UNCHANGED <<open, heartbeatRunning, stage, agent>>
  BY DEF Progress, RoomForProgress
<1>3. Owed' = Owed /\ Owed \in Nat /\ added \in Nat /\ MaxAdded \in Nat
  BY <1>2, OwedType, StoreBounds DEF Owed, NotStarted, AtWork, StoreInv, TypeOK
<1>4. AgentInv'
  BY <1>1, <1>2, <1>3 DEF AgentInv
<1> QED  BY <1>1, <1>2, <1>4 DEF ServerTypes, BeatInv

LEMMA SettlesLateInv ==
  ASSUME ServerInv, NEW r \in Requests, SettlesLate(r)
  PROVE  ServerInv'
<1> USE DEF ServerInv
<1>1. /\ UNCHANGED <<open, heartbeatRunning, stage>> /\ agent[r] = "working" /\ stage[r] = "timed_out"
      /\ agent' = [agent EXCEPT ![r] = "settled"]
      /\ agent \in [Requests -> {"none", "working", "settled"}]
  BY DEF SettlesLate, ServerTypes
<1>2. StoreInv' /\ RecordedOnce' /\ added' = added + 1
  BY <1>1, EventAdded DEF SettlesLate
<1>3. NotStarted' \subseteq NotStarted /\ AtWork' \subseteq AtWork /\ r \in AtWork /\ r \notin AtWork'
  BY <1>1 DEF NotStarted, AtWork
<1>4. Owed' \in Nat /\ Owed' + 2 <= Owed /\ Owed \in Nat /\ added \in Nat /\ MaxAdded \in Nat
  BY <1>3, OwesLess, OwedType, StoreBounds DEF StoreInv, TypeOK
<1>5. AgentInv'
  <2>1. added + Owed <= MaxAdded
    BY DEF AgentInv
  <2>2. added' + Owed' <= MaxAdded
    <3>1. PICK owes \in Nat : Owed' = owes
      BY <1>4
    <3>2. owes + 2 <= Owed /\ added' = added + 1
      BY <1>2, <1>4, <3>1
    <3> QED  BY <1>4, <2>1, <3>1, <3>2
  <2>3. \A q \in Requests : stage'[q] \in {"absent", "observing"} => agent'[q] = "none"
    BY <1>1 DEF AgentInv
  <2> QED  BY <2>2, <2>3 DEF AgentInv
<1> QED  BY <1>1, <1>2, <1>5 DEF ServerTypes, BeatInv

LEMMA AnswerInv ==
  ASSUME ServerInv, NEW r \in Requests, Answer(r)
  PROVE  ServerInv'
<1> USE DEF ServerInv
<1> DEFINE ev == Unshift(events, EntryAt(1, r), MaxEvents)
           rs == Unshift(runs, EntryAt(2, r), MaxRuns)
<1>1. /\ stage[r] = "running" /\ agent[r] = "working" /\ GoTo(r, "answered") /\ Free
      /\ agent' = [agent EXCEPT ![r] = "settled"]
      /\ activeRuns' = activeRuns \ {r} /\ events' = ev /\ runs' = rs
      /\ added' = added + 2 /\ persistTimer' = TRUE
      /\ UNCHANGED <<up, persisting, failed, disk, cleared, open>>
  BY DEF Answer, SchedulePersist, ActiveWithout
<1>2. /\ BeatInv' /\ stage' \in [Requests -> Stages] /\ heartbeatRunning' \in BOOLEAN
      /\ stage'[r] = "answered" /\ \A q \in Requests \ {r} : stage'[q] = stage[q]
  BY <1>1, GoToBeat DEF Stages, Awaited
<1>3. /\ agent \in [Requests -> {"none", "working", "settled"}]
      /\ agent'[r] = "settled" /\ \A q \in Requests \ {r} : agent'[q] = agent[q]
  BY <1>1 DEF ServerTypes
<1>4. ServerTypes'
  BY <1>1, <1>2 DEF ServerTypes
<1>5. AgentInv' /\ added + 2 <= MaxAdded
  <2>1. NotStarted' \subseteq NotStarted /\ AtWork' \subseteq AtWork /\ r \in AtWork /\ r \notin AtWork'
    BY <1>1, <1>2, <1>3 DEF NotStarted, AtWork
  <2>2. Owed' \in Nat /\ Owed' + 2 <= Owed /\ Owed \in Nat /\ added \in Nat /\ MaxAdded \in Nat
    BY <2>1, OwesLess, OwedType, StoreBounds DEF StoreInv, TypeOK
  <2>3. added' + Owed' <= MaxAdded /\ added + 2 <= MaxAdded
    <3>1. added + Owed <= MaxAdded /\ added' = added + 2
      BY <1>1 DEF AgentInv
    <3>2. PICK owes \in Nat : Owed' = owes
      BY <2>2
    <3>3. owes + 2 <= Owed
      BY <2>2, <3>2
    <3> QED  BY <2>2, <3>1, <3>2, <3>3
  <2>4. \A q \in Requests : stage'[q] \in {"absent", "observing"} => agent'[q] = "none"
    BY <1>2, <1>3 DEF AgentInv
  <2> QED  BY <2>3, <2>4 DEF AgentInv
<1>6. /\ TypeOK /\ added \in Nat /\ MaxAdded \in Nat
      /\ events \in Seq(Entries) /\ Len(events) <= MaxEvents /\ Descends(events, added)
      /\ runs \in Seq(Entries) /\ Len(runs) <= MaxRuns /\ Descends(runs, added)
      /\ MaxEvents \in Nat \ {0} /\ MaxRuns \in Nat \ {0} /\ activeRuns \subseteq Requests
  BY StoreBounds DEF StoreInv, TypeOK, OrderInv
<1>7. /\ ev \in Seq(Entries) /\ Len(ev) <= MaxEvents /\ Descends(ev, added + 1)
      /\ \A m \in Nat : m <= added /\ After(events, m) => After(ev, m)
  <2>1. added <= added /\ added < added + 1 /\ added + 1 <= MaxAdded /\ 1 \in {1, 2}
    BY <1>5, <1>6
  <2> QED  BY <1>6, <2>1, RingGrows
<1>8. /\ rs \in Seq(Entries) /\ Len(rs) <= MaxRuns /\ Descends(rs, added + 2)
      /\ EntryAt(2, r).request = r
      /\ \A m \in Nat : m <= added /\ After(runs, m) => After(rs, m)
      /\ \A i \in DOMAIN rs : IF i = 1 THEN rs[i] = EntryAt(2, r)
                                       ELSE i - 1 \in DOMAIN runs /\ rs[i] = runs[i - 1]
  <2>1. added <= added /\ added < added + 2 /\ added + 2 <= MaxAdded /\ 2 \in {1, 2}
    BY <1>5, <1>6
  <2> QED  BY <1>6, <2>1, RingGrows
<1> HIDE DEF ev, rs
<1>9. StoreInv'
  <2>1. Descends(ev, added + 2)
    BY <1>6, <1>7, DescendsOn
  <2>2. \A n \in Nat : n <= added => /\ After(events, n) => After(events', n)
                                     /\ After(runs, n) => After(runs', n)
    BY <1>1, <1>7, <1>8
  <2>3. added' \in 0..MaxAdded /\ added <= added' /\ activeRuns' \subseteq Requests
    BY <1>1, <1>5, <1>6
  <2> QED  BY <1>1, <1>6, <1>7, <1>8, <2>1, <2>2, <2>3, AddedInv
<1>10. RecordedOnce'
  <2>1. runsFile.entries \in Seq(Entries) /\ runsFile' = runsFile
    BY <1>1, <1>6, FilesTyped DEF disk
  <2>2. \A q \in {runs, runsFile.entries} : \A i \in DOMAIN q : q[i].request \in Requests
    BY <1>6, <2>1, EntriesOfRequests
  <2>3. \A q \in {runs, runsFile.entries} : \A i \in DOMAIN q :
          stage'[q[i].request] = "answered" /\ q[i].request # r
    BY <1>1, <1>2, <2>2 DEF RecordedOnce
  <2>4. \A q \in activeRuns' : stage'[q] \in {"running", "timed_out"}
    BY <1>1, <1>2, <1>6 DEF RecordedOnce
  <2>5. ASSUME NEW i \in DOMAIN rs, NEW j \in DOMAIN rs
        PROVE  /\ stage'[rs[i].request] = "answered"
               /\ rs[i].request = rs[j].request => i = j
    <3>1. i \in Nat /\ j \in Nat
      BY <1>8
    <3>2. stage'[rs[i].request] = "answered"
      BY <1>2, <1>8, <2>3
    <3>3. ASSUME rs[i].request = rs[j].request, i # 1, j # 1
          PROVE  i = j
      <4>1. /\ i - 1 \in DOMAIN runs /\ rs[i] = runs[i - 1]
            /\ j - 1 \in DOMAIN runs /\ rs[j] = runs[j - 1]
        BY <1>8, <3>3
      <4>2. i - 1 = j - 1
        BY <3>3, <4>1 DEF RecordedOnce
      <4> QED  BY <3>1, <4>2
    <3>4. ASSUME rs[i].request = rs[j].request, i = 1 \/ j = 1
          PROVE  i = j
      BY <1>8, <2>3, <3>4
    <3> QED  BY <3>2, <3>3, <3>4
  <2>6. \A i, j \in DOMAIN runsFile.entries :
          /\ stage'[runsFile.entries[i].request] = "answered"
          /\ runsFile.entries[i].request = runsFile.entries[j].request => i = j
    BY <2>3 DEF RecordedOnce
  <2> QED  BY <1>1, <2>1, <2>4, <2>5, <2>6 DEF RecordedOnce
<1> QED  BY <1>2, <1>4, <1>5, <1>9, <1>10

\* Steps of the store alone, which adds nothing by itself.
LEMMA StoreGoesOn ==
  ASSUME ServerInv, Clear \/ Save \/ Restart,
         UNCHANGED <<heartbeatRunning, stage, agent>>, open' \in BOOLEAN
  PROVE  ServerInv'
<1> USE DEF ServerInv
<1>1. StoreInv'
  BY StoreStepInv DEF Next, Call
<1>2. added' = added
  BY DEF Clear, Save, Restart, PersistTimerFires, RunsWritten, EventsTruncated, EventsWritten,
         PersistFails
<1>3. AgentInv'
  BY <1>2 DEF AgentInv, Owed, NotStarted, AtWork
<1>4. activeRuns' = activeRuns \/ activeRuns' = {}
  BY DEF Clear, Save, Restart, PersistTimerFires, RunsWritten, EventsTruncated, EventsWritten,
         PersistFails, memory
<1>5. /\ runs' \in {runs, <<>>, runsFile.entries}
      /\ runsFile'.entries \in {runs, <<>>, runsFile.entries}
  <2>1. CASE Clear
    BY <2>1, FileTypes DEF Clear, BeginPersist, disk
  <2>2. CASE PersistTimerFires
    BY <2>2, FileTypes DEF PersistTimerFires, BeginPersist, disk, memory
  <2>3. CASE RunsWritten
    BY <2>3, FileTypes DEF RunsWritten, memory, StoreInv, TypeOK
  <2>4. CASE EventsTruncated \/ EventsWritten \/ PersistFails
    BY <2>4 DEF EventsTruncated, EventsWritten, PersistFails, memory, disk
  <2>5. CASE Restart
    BY <2>5 DEF Restart, disk
  <2> QED  BY <2>1, <2>2, <2>3, <2>4, <2>5 DEF Save
<1>6. RecordedOnce'
  BY <1>4, <1>5 DEF RecordedOnce
<1> QED  BY <1>1, <1>3, <1>6 DEF ServerTypes, BeatInv

LEMMA ServerCrashInv ==
  ASSUME ServerInv, ServerCrash
  PROVE  ServerInv'
<1> USE DEF ServerInv
<1>1. StoreInv'
  BY StoreStepInv DEF ServerCrash, Next
<1>2. /\ stage \in [Requests -> Stages] /\ agent \in [Requests -> {"none", "working", "settled"}]
      /\ Heartbeats \subseteq Requests
  BY RequestsFinite DEF ServerTypes
<1>3. /\ \A r \in Requests : /\ stage'[r] = IF stage[r] \in Awaited THEN "lost" ELSE stage[r]
                             /\ agent'[r] = IF stage[r] \in Awaited \/ agent[r] = "working"
                                            THEN "settled" ELSE agent[r]
      /\ stage' \in [Requests -> Stages] /\ agent' \in [Requests -> {"none", "working", "settled"}]
      /\ open' = FALSE /\ heartbeatRunning' = FALSE
  BY <1>2 DEF ServerCrash, Stages
<1>4. added' = added /\ activeRuns' = {} /\ runs' = <<>> /\ runsFile' = runsFile
  BY DEF ServerCrash, Crash, disk
<1>5. ServerTypes' /\ BeatInv'
  BY <1>2, <1>3 DEF ServerTypes, BeatInv, Awaited
<1>6. AgentInv'
  <2>1. NotStarted' \subseteq NotStarted /\ AtWork' \subseteq AtWork
    BY <1>3 DEF NotStarted, AtWork, Awaited
  <2>2. Owed' \in Nat /\ Owed' <= Owed /\ Owed \in Nat /\ added \in Nat /\ MaxAdded \in Nat
    BY <2>1, OwesLess, OwedType, StoreBounds DEF StoreInv, TypeOK
  <2>3. added' + Owed' <= MaxAdded
    <3>1. PICK o \in Nat : Owed' = o
      BY <2>2
    <3>2. o <= Owed /\ added + Owed <= MaxAdded
      BY <2>2, <3>1 DEF AgentInv
    <3> HIDE DEF Owed
    <3>3. added + o <= MaxAdded
      BY <2>2, <3>2
    <3> QED
      BY <1>4, <3>1, <3>3
  <2>4. \A q \in Requests : stage'[q] \in {"absent", "observing"} => agent'[q] = "none"
    BY <1>3 DEF AgentInv, Awaited
  <2> QED  BY <2>3, <2>4 DEF AgentInv
<1>7. RecordedOnce'
  <2>1. runsFile.entries \in Seq(Entries)
    BY FilesTyped DEF StoreInv
  <2>2. \A i \in DOMAIN runsFile.entries : runsFile.entries[i].request \in Requests
    BY <2>1, EntriesOfRequests
  <2>3. \A i \in DOMAIN runsFile.entries : stage'[runsFile.entries[i].request] = "answered"
    BY <1>3, <2>2 DEF RecordedOnce, Awaited
  <2> QED  BY <1>4, <2>3 DEF RecordedOnce
<1> QED  BY <1>1, <1>5, <1>6, <1>7

LEMMA ServerInitInv == ServerInit => ServerInv
<1> SUFFICES ASSUME ServerInit PROVE ServerInv
  OBVIOUS
<1>1. StoreInv /\ ServerTypes /\ BeatInv
  BY StoreInitInv, RequestsFinite DEF ServerInit, ServerTypes, Stages, BeatInv, Awaited
<1>2. AgentInv
  <2>1. NotStarted = Requests /\ AtWork = {} /\ added = 0
    BY DEF ServerInit, Init, NotStarted, AtWork
  <2>2. Cardinality(Requests) \in Nat /\ Cardinality({}) = 0 /\ MaxAdded \in Nat
    BY RequestsFinite, FS_CardinalityType, FS_EmptySet, StoreBounds
  <2>3. added + Owed <= MaxAdded
    BY <2>1, <2>2, RequestsFinite DEF Owed
  <2> QED  BY <2>3 DEF AgentInv, ServerInit
<1>3. RecordedOnce
  <2>1. runs = <<>> /\ runsFile.entries = <<>> /\ activeRuns = {}
    <3>1. runs = <<>> /\ runsFile = Whole(<<>>) /\ activeRuns = {}
      BY DEF ServerInit, Init
    <3> QED  BY <3>1 DEF Whole
  <2>2. DOMAIN <<>> = {}
    OBVIOUS
  <2> QED  BY <2>1, <2>2 DEF RecordedOnce
<1> QED  BY <1>1, <1>2, <1>3 DEF ServerInv

LEMMA ServerStepInv == ServerInv /\ [ServerNext]_allVars => ServerInv'
<1> SUFFICES ASSUME ServerInv, [ServerNext]_allVars PROVE ServerInv'
  OBVIOUS
<1>1. CASE \E r \in Requests : Refuse(r) \/ Accept(r) \/ HeartbeatTick(r) \/ Continue(r) \/ Agent(r)
  BY <1>1, RequestInv, StartAgentInv, ProgressInv, AnswerInv, SettlesLateInv DEF Continue, Agent
<1>2. CASE ServerClear \/ ServerSave \/ ServerRestart
  BY <1>2, StoreGoesOn DEF ServerClear, ServerSave, ServerRestart, SameServer, ServerInv, ServerTypes
<1>3. CASE ServerCrash
  BY <1>3, ServerCrashInv
<1>4. CASE Close \/ UNCHANGED allVars
  <2>1. UNCHANGED <<storeVars, heartbeatRunning, stage, agent>> /\ open' \in BOOLEAN
    BY <1>4 DEF Close, allVars, ServerInv, ServerTypes
  <2>2. StoreInv'
    BY <2>1, StoreStepInv DEF ServerInv
  <2> QED  BY <2>1, <2>2 DEF ServerInv, ServerTypes, BeatInv, AgentInv, Owed, NotStarted, AtWork,
                             RecordedOnce, storeVars, memory, disk
<1> QED  BY <1>1, <1>2, <1>3, <1>4 DEF ServerNext

THEOREM ServerInvariance == ServerSpec => []ServerInv
<1> QED  BY ServerInitInv, ServerStepInv, PTL DEF ServerSpec

\* The server and its store keep their types; the rings never hold more than their capacities.
THEOREM ServerTypeCorrect == ServerSpec => []ServerTypeOK
<1>1. ServerInv => ServerTypeOK
  BY DEF ServerInv, StoreInv, ServerTypes, ServerTypeOK
<1> QED  BY <1>1, ServerInvariance, PTL

\* heartbeatRunning tells exactly whether a heartbeat run is awaited, and two never are.
THEOREM HeartbeatsExclude == ServerSpec => []HeartbeatExclusive
<1>1. ServerInv => HeartbeatExclusive
  <2> SUFFICES ASSUME ServerInv PROVE HeartbeatExclusive
    OBVIOUS
  <2> DEFINE awaited == {r \in Heartbeats : stage[r] \in Awaited}
  <2>1. heartbeatRunning \in BOOLEAN /\ (heartbeatRunning <=> awaited # {})
    BY DEF ServerInv, ServerTypes, BeatInv
  <2>2. ASSUME awaited # {}
        PROVE  \E r : awaited = {r}
    <3>1. PICK r \in awaited : TRUE
      BY <2>2
    <3>2. \A q \in awaited : q = r
      BY <3>1 DEF ServerInv, BeatInv
    <3>3. awaited = {r}
      BY <3>1, <3>2
    <3> QED  BY <3>3
  <2>3. Cardinality(awaited) = IF awaited = {} THEN 0 ELSE 1
    BY <2>2, FS_EmptySet, FS_Singleton
  <2> QED  BY <2>1, <2>3 DEF HeartbeatExclusive
<1> QED  BY <1>1, ServerInvariance, PTL

\* executeAgentRun records a request once, if and only if it answers it with that result: not
\* when the agent settles after the timeout or its process has crashed.
THEOREM RecordedOnceAlways == ServerSpec => []RecordedOnce
<1>1. ServerInv => RecordedOnce
  BY DEF ServerInv
<1> QED  BY <1>1, ServerInvariance, PTL

\* The store keeps its promises under the server, which adds two entries in one step.
THEOREM ServerStoreKeeps == ServerSpec => [](NewestFirst /\ ClearIsFinal /\ SavedOrScheduled)
<1>1. ServerInv => NewestFirst /\ ClearIsFinal /\ SavedOrScheduled
  BY DEF ServerInv, StoreInv, OrderInv, Descends, NewestFirst, ClearInv, After, ClearIsFinal, SaveInv
<1> QED  BY <1>1, ServerInvariance, PTL
-----------------------------------------------------------------------------
(* The page over the store *)

Of(q)    == {q[i] : i \in DOMAIN q}
Told     == {stream[i].entry : i \in {k \in DOMAIN stream : stream[k].type = "complete"}}
Lists    == {a \in answers : a.to = "runs"}
Answered == UNION {Of(a.runs) : a \in Lists}
Known    == Of(runs) \cup Of(shownRuns) \cup Told \cup Answered

\* The messages of the stream.
Messages == [type : {"open"}] \cup [type : {"goes"}, request : Requests]
            \cup [type : {"complete"}, entry : Entries]

\* Whatever the page has or will get is of a run that is over, which has one entry only.
IdentityInv ==
  /\ \A e \in Known : e.at <= added /\ course[e.request] = "over"
  /\ \A e, f \in Known : e.at = f.at <=> e.request = f.request

\* Ends are told in their order and without a gap, by a stream that breaks with all of them.
StreamInv ==
  /\ stream \in Seq(Messages)
  /\ ~listening => stream = <<>>
  /\ \A i, j \in DOMAIN stream :
       i < j /\ stream[i].type = "complete" /\ stream[j].type = "complete"
         => stream[i].entry.at < stream[j].entry.at
  /\ \A e \in Of(runs), f \in Told : e.at > f.at => e \in Told

\* Answers are as the store was, newest first; the page has no run twice.
ListsInv ==
  /\ \A a \in Lists :
       Len(a.runs) <= MaxRuns /\ \A i, j \in DOMAIN a.runs : i < j => a.runs[i].at > a.runs[j].at
  /\ \A i, j \in DOMAIN shownRuns : i # j => shownRuns[i].request # shownRuns[j].request

\* e is below newer runs only, or newer runs take all the room.
InPlace(e) ==
  \E j \in DOMAIN shownRuns :
    shownRuns[j] = e /\ \A k \in DOMAIN shownRuns : k < j => shownRuns[k].at > e.at
Crowded(e) ==
  Len(shownRuns) = PageRuns /\ \A k \in DOMAIN shownRuns : shownRuns[k].at > e.at

\* A run of the store is missed, on its way, or where it belongs.
ShownInv == \A e \in Of(runs) : e.at \in unseen \/ e \in Told \/ InPlace(e) \/ Crowded(e)

PageInv == StoreInv /\ PageTypeOK /\ IdentityInv /\ StreamInv /\ ListsInv /\ ShownInv
-----------------------------------------------------------------------------
(* The page's lists *)

\* The runs but one of them: the others, with the gap closed.
LEMMA OthersAre ==
  ASSUME shownRuns \in Seq(Entries),
         \A i, j \in DOMAIN shownRuns : i # j => shownRuns[i].request # shownRuns[j].request,
         NEW r
  PROVE  \E p \in 1..(Len(shownRuns) + 1) :
           /\ \A k \in DOMAIN shownRuns : shownRuns[k].request = r <=> k = p
           /\ OtherRuns(r) = [n \in 1..(IF p <= Len(shownRuns) THEN Len(shownRuns) - 1 ELSE Len(shownRuns))
                                |-> shownRuns[IF n < p THEN n ELSE n + 1]]
<1> DEFINE len == Len(shownRuns)
           others == {k \in DOMAIN shownRuns : shownRuns[k].request # r}
           Nth(n) == CHOOSE k \in others : Cardinality(others \cap 1..k) = n
<1>1. len \in Nat /\ DOMAIN shownRuns = 1..len
  OBVIOUS
<1>2. PICK p \in 1..(len + 1) : \A k \in DOMAIN shownRuns : shownRuns[k].request = r <=> k = p
  <2>1. CASE \E k \in DOMAIN shownRuns : shownRuns[k].request = r
    BY <1>1, <2>1
  <2>2. CASE \A k \in DOMAIN shownRuns : shownRuns[k].request # r
    BY <1>1, <2>2
  <2> QED
    BY <2>1, <2>2
<1> DEFINE size == IF p <= len THEN len - 1 ELSE len
           at(n) == IF n < p THEN n ELSE n + 1
<1>3. others = (1..len) \ {p}
  BY <1>1, <1>2
<1> HIDE DEF len, others
<1>4. \A k \in 0..len : Cardinality(others \cap 1..k) = IF p <= k THEN k - 1 ELSE k
  <2> TAKE k \in 0..len
  <2>1. others \cap 1..k = (1..k) \ {p}
    BY <1>1, <1>3
  <2>2. IsFiniteSet(1..k) /\ Cardinality(1..k) = k
    <3>1. k \in Int /\ 1 \in Int /\ k >= 0
      BY <1>1
    <3> QED
      BY <3>1, FS_Interval
  <2> DEFINE all == 1..k
  <2>3. p \in all <=> p <= k
    BY <1>1, <1>2
  <2> HIDE DEF all
  <2>4. Cardinality(all \ {p}) = IF p \in all THEN Cardinality(all) - 1 ELSE Cardinality(all)
    BY <2>2, FS_RemoveElement DEF all
  <2> QED
    BY <2>1, <2>2, <2>3, <2>4 DEF all
<1>5. Cardinality(others) = size
  <2>1. others \cap 1..len = others /\ len \in 0..len
    BY <1>1, <1>3
  <2> QED
    BY <1>4, <2>1
<1>6. ASSUME NEW n \in 1..size PROVE Nth(n) = at(n)
  <2>1. at(n) \in others /\ at(n) \in 0..len /\ Cardinality(others \cap 1..at(n)) = n
    <3>1. at(n) \in others /\ at(n) \in 0..len
      BY <1>1, <1>2, <1>3
    <3>2. (IF p <= at(n) THEN at(n) - 1 ELSE at(n)) = n
      BY <1>1, <1>2
    <3> QED
      BY <1>4, <3>1, <3>2
  <2>2. ASSUME NEW k \in others, Cardinality(others \cap 1..k) = n
        PROVE  k = at(n)
    <3>1. k \in 0..len /\ k # p
      BY <1>1, <1>3
    <3>2. (IF p <= k THEN k - 1 ELSE k) = n
      BY <1>4, <2>2, <3>1
    <3> QED
      BY <1>1, <1>2, <3>1, <3>2
  <2> HIDE DEF at
  <2> QED
    BY <2>1, <2>2
<1>7. OtherRuns(r) = [n \in 1..size |-> shownRuns[at(n)]]
  <2>1. OtherRuns(r) = [n \in 1..Cardinality(others) |-> shownRuns[Nth(n)]]
    BY DEF OtherRuns, others
  <2> HIDE DEF Nth, at, size
  <2> QED
    BY <1>5, <1>6, <2>1
<1> QED
  BY <1>2, <1>7 DEF len

\* The runs with e in front: those before its old place, or all, one place further down.
LEMMA WithRunIs ==
  ASSUME shownRuns \in Seq(Entries), PageRuns \in Nat \ {0},
         \A i, j \in DOMAIN shownRuns : i # j => shownRuns[i].request # shownRuns[j].request,
         NEW e \in Entries
  PROVE  \E p \in 1..(Len(shownRuns) + 1), size \in Nat :
           /\ size = IF p <= Len(shownRuns) THEN Len(shownRuns) ELSE Len(shownRuns) + 1
           /\ \A k \in DOMAIN shownRuns : shownRuns[k].request = e.request <=> k = p
           /\ WithRun(e) \in Seq(Entries)
           /\ Len(WithRun(e)) = IF size < PageRuns THEN size ELSE PageRuns
           /\ \A i \in 1..Len(WithRun(e)) :
                WithRun(e)[i] = IF i = 1 THEN e ELSE shownRuns[IF i <= p THEN i - 1 ELSE i]
<1> DEFINE r == e.request
<1> HIDE DEF r
<1>1. PICK p \in 1..(Len(shownRuns) + 1) :
        /\ \A k \in DOMAIN shownRuns : shownRuns[k].request = r <=> k = p
        /\ OtherRuns(r) = [n \in 1..(IF p <= Len(shownRuns) THEN Len(shownRuns) - 1 ELSE Len(shownRuns))
                             |-> shownRuns[IF n < p THEN n ELSE n + 1]]
  BY OthersAre
<1> DEFINE len == Len(shownRuns)
           rest == OtherRuns(r)
           q == <<e>> \o rest
<1> DEFINE short == IF p <= len THEN len - 1 ELSE len
           size == short + 1
           cut == IF size < PageRuns THEN size ELSE PageRuns
<1>2. len \in Nat /\ short \in Nat /\ size \in Nat /\ cut \in 1..size
  BY <1>1
<1>3. rest \in Seq(Entries) /\ Len(rest) = short
  <2>1. \A n \in 1..short : shownRuns[IF n < p THEN n ELSE n + 1] \in Entries
    BY <1>1, <1>2
  <2> QED
    BY <1>1, <1>2, <2>1
<1>4. \A n \in 1..short : rest[n] = shownRuns[IF n < p THEN n ELSE n + 1]
  BY <1>1
<1> HIDE DEF rest
<1>5. q \in Seq(Entries) /\ Len(q) = size
  BY <1>3
<1>6. \A i \in 1..size : q[i] = IF i = 1 THEN e ELSE rest[i - 1]
  BY <1>2, <1>3
<1>7. WithRun(e) = SubSeq(q, 1, cut)
  BY <1>5 DEF WithRun, rest, r
<1>8. WithRun(e) \in Seq(Entries) /\ Len(WithRun(e)) = cut /\ \A i \in 1..cut : WithRun(e)[i] = q[i]
  <2> HIDE DEF q, size, cut
  <2> QED
    BY <1>2, <1>5, <1>7
<1>9. \A i \in 1..cut : q[i] = IF i = 1 THEN e ELSE shownRuns[IF i <= p THEN i - 1 ELSE i]
  <2> TAKE i \in 1..cut
  <2>1. i # 1 => i - 1 \in 1..short
    BY <1>2
  <2>2. i # 1 => (i - 1 < p <=> i <= p) /\ i - 1 + 1 = i
    BY <1>1, <1>2
  <2>3. i \in 1..size
    BY <1>2
  <2> HIDE DEF q
  <2> QED
    BY <1>4, <1>6, <2>1, <2>2, <2>3
<1>10. size = IF p <= len THEN len ELSE len + 1
  BY <1>1, <1>2
<1> HIDE DEF q
<1> QED
  BY <1>1, <1>2, <1>8, <1>9, <1>10 DEF r
-----------------------------------------------------------------------------
(* The page's steps *)

LEMMA PageBounds == PageRuns \in Nat \ {0} /\ MaxUpsets \in Nat /\ MaxInFlight \in Nat
  BY PageAssumption

\* The page does nothing to the store that the store does not.
LEMMA PageStoreStep == [PageNext]_liveVars => [Next]_storeVars
  BY DEF PageNext, Server, Page, liveVars, RunBegins, RunProgresses, RunCompletes, Connect, AnswerRuns,
         AnswerActive, ServerClears, RequestFails, ClearGoesOn, Receive, Breaks, Arrives, Poll, Ask,
         PressRefresh, PressClear, ChangeTab, Next, Call, Save

LEMMA EntryFields ==
  /\ \A e \in Entries : e.at \in Nat /\ e.at \in 1..MaxAdded /\ e.request \in Requests
  /\ \A e, f \in Entries : e.at = f.at /\ e.request = f.request => e = f
<1>1. 1..MaxAdded \subseteq Nat
  BY StoreBounds
<1> QED
  BY <1>1 DEF Entries

LEMMA MessageFields ==
  /\ \A r \in Requests : Goes(r) \in Messages /\ Goes(r).type = "goes"
  /\ \A e \in Entries : /\ Completed(e) \in Messages
                        /\ Completed(e).type = "complete" /\ Completed(e).entry = e
  /\ Opened \in Messages /\ Opened.type = "open"
  /\ \A m \in Messages : /\ m.type \in {"open", "goes", "complete"}
                         /\ m.type = "goes" => m.request \in Requests
                         /\ m.type = "complete" => m.entry \in Entries
  BY DEF Goes, Completed, Opened, Messages

LEMMA AnswerFields ==
  /\ \A q \in Seq(Entries) : LET a == [to |-> "runs", runs |-> q]
                             IN a \in Answers /\ a.to = "runs" /\ a.runs = q
  /\ \A A \in SUBSET Requests : LET a == [to |-> "active", active |-> A]
                                IN a \in Answers /\ a.to = "active" /\ a.active = A
  /\ [to |-> "clear"] \in Answers /\ [to |-> "clear"].to = "clear"
  /\ \A a \in Answers : /\ a.to = "runs" => a.runs \in Seq(Entries)
                        /\ a.to = "active" => a.active \in SUBSET Requests
  BY DEF Answers

LEMMA KnownTyped ==
  ASSUME PageTypeOK, StreamInv
  PROVE  /\ Told \subseteq Entries /\ Known \subseteq Entries
         /\ Of(runs) \subseteq Entries /\ Of(shownRuns) \subseteq Entries
         /\ OnTheWay = {e.at : e \in Told}
<1>1. Told \subseteq Entries
  BY MessageFields DEF StreamInv, Told
<1>2. Of(runs) \subseteq Entries /\ Of(shownRuns) \subseteq Entries
  BY DEF PageTypeOK, TypeOK, Of
<1>3. \A a \in Lists : Of(a.runs) \subseteq Entries
  BY AnswerFields DEF PageTypeOK, Lists, Of
<1>4. OnTheWay = {e.at : e \in Told}
  BY DEF OnTheWay, Told
<1> QED
  BY <1>1, <1>2, <1>3, <1>4 DEF Known, Answered

\* Nothing new is known.
LEMMA IdentityKept ==
  ASSUME PageInv, PageTypeOK', added <= added', Known' \subseteq Known,
         \A r \in Requests : course[r] = "over" => course'[r] = "over"
  PROVE  IdentityInv'
<1>1. added \in Int /\ added' \in Int
  BY StoreBounds DEF PageInv, PageTypeOK, TypeOK
<1>2. Known \subseteq Entries
  BY KnownTyped DEF PageInv
<1>3. \A e \in Known : e.at \in Nat /\ e.request \in Requests
  BY <1>2, EntryFields
<1> QED
  BY <1>1, <1>3 DEF PageInv, IdentityInv

\* Nothing changes of what is shown, missed and on its way; of the store's runs all stay or
\* none; lists that are sent are those.
LEMMA SteadyInv ==
  ASSUME PageInv, StoreInv', PageTypeOK',
         UNCHANGED <<stream, shownRuns, unseen, course, listening, added>>,
         runs' \in {runs, <<>>},
         \A a \in answers' : a \in answers \/ (a.to = "runs" => a.runs \in {runs, <<>>})
  PROVE  PageInv'
<1>1. Told' = Told /\ Of(shownRuns)' = Of(shownRuns)
  BY DEF Told, Of
<1>2. Of(runs)' \subseteq Of(runs)
  BY DEF Of
<1>3. \A a \in Lists' : a \in Lists \/ Of(a.runs) \subseteq Of(runs)
  BY DEF Lists, Of
<1>4. Known' \subseteq Known
  BY <1>1, <1>2, <1>3 DEF Known, Answered
<1>5. IdentityInv'
  <2>1. added <= added'
    BY StoreBounds DEF PageInv, PageTypeOK, TypeOK
  <2> QED
    BY <1>4, <2>1, IdentityKept
<1>6. StreamInv'
  BY <1>1, <1>2 DEF PageInv, StreamInv
<1>7. ListsInv'
  <2>1. \A a \in Lists' : a \in Lists \/ a.runs = runs \/ a.runs = <<>>
    BY DEF Lists
  <2>2. \A i, j \in DOMAIN runs : i < j => runs[i].at > runs[j].at
    BY DEF PageInv, StoreInv, OrderInv, Descends
  <2>3. Len(runs) <= MaxRuns /\ Len(<<>>) <= MaxRuns
    BY StoreBounds DEF PageInv, PageTypeOK, TypeOK
  <2> QED
    BY <2>1, <2>2, <2>3 DEF PageInv, ListsInv
<1>8. ShownInv'
  BY <1>1, <1>2 DEF PageInv, ShownInv, InPlace, Crowded
<1> QED
  BY <1>5, <1>6, <1>7, <1>8 DEF PageInv

\* One more message that tells of no end.
LEMMA TellGoesInv ==
  ASSUME PageInv, StoreInv', PageTypeOK', NEW r \in Requests, Tell(Goes(r)), added <= added',
         UNCHANGED <<runs, answers, shownRuns, unseen, listening>>,
         \A q \in Requests : course[q] = "over" => course'[q] = "over"
  PROVE  PageInv'
<1>1. /\ stream \in Seq(Messages) /\ stream' \in Seq(Messages)
      /\ ~listening => stream' = <<>>
      /\ \A i \in DOMAIN stream' : /\ stream'[i].type = "complete" => i \in DOMAIN stream /\ stream'[i] = stream[i]
      /\ \A i \in DOMAIN stream : i \in DOMAIN stream' /\ stream'[i] = stream[i]
  BY MessageFields DEF PageInv, StreamInv, Tell
<1>2. Told' = Told
  BY <1>1 DEF Told
<1>3. Known' \subseteq Known
  BY <1>2 DEF Known, Of, Answered, Lists
<1>4. IdentityInv'
  BY <1>3, IdentityKept
<1>5. StreamInv'
  BY <1>1, <1>2 DEF PageInv, StreamInv, Of
<1>6. ListsInv' /\ ShownInv'
  BY <1>2 DEF PageInv, ListsInv, Lists, ShownInv, InPlace, Crowded, Of
<1> QED
  BY <1>4, <1>5, <1>6 DEF PageInv

\* A run ends: it is told, or missed.
LEMMA RunCompletesInv ==
  ASSUME PageInv, StoreInv', PageTypeOK', NEW r \in Requests, RunCompletes(r)
  PROVE  PageInv'
<1> DEFINE e == Entry(r)
<1>1. /\ e \in Entries /\ e.at = added + 1 /\ e.request = r /\ added \in Nat /\ added' = added + 1
      /\ course[r] # "over" /\ course' = [course EXCEPT ![r] = "over"] /\ course \in [Requests -> {"new", "going", "over"}]
      /\ UNCHANGED <<answers, shownRuns, listening>>
  <2>1. TypeOK /\ added < MaxAdded /\ added \in Nat
    BY StoreBounds DEF PageInv, PageTypeOK, RunCompletes, AddRun, NewEntry, TypeOK
  <2> QED
    BY <2>1, EntryType DEF PageInv, PageTypeOK, RunCompletes, AddRun, NewEntry, Entry, EntryAt, page
<1> HIDE DEF e
<1>2. Of(runs)' \subseteq Of(runs) \cup {e}
  <2>1. runs \in Seq(Entries) /\ Len(runs) <= MaxRuns /\ MaxRuns \in Nat \ {0}
    BY StoreBounds DEF PageInv, PageTypeOK, TypeOK
  <2>2. \A i \in DOMAIN Unshift(runs, e, MaxRuns) :
              IF i = 1 THEN Unshift(runs, e, MaxRuns)[i] = e
                       ELSE i - 1 \in DOMAIN runs /\ Unshift(runs, e, MaxRuns)[i] = runs[i - 1]
    <3>1. e \in Entries
      BY <1>1
    <3> DEFINE q == runs  max == MaxRuns
    <3> HIDE DEF q, max
    <3>2. q \in Seq(Entries) /\ Len(q) <= max /\ max \in Nat \ {0}
      BY <2>1 DEF q, max
    <3>3. \A i \in DOMAIN Unshift(q, e, max) :
              IF i = 1 THEN Unshift(q, e, max)[i] = e
                       ELSE i - 1 \in DOMAIN q /\ Unshift(q, e, max)[i] = q[i - 1]
      BY <3>1, <3>2, UnshiftKeeps
    <3> QED
      BY <3>3 DEF q, max
  <2>3. runs' = Unshift(runs, e, MaxRuns)
    BY DEF RunCompletes, AddRun, e
  <2> QED
    BY <2>2, <2>3 DEF Of
<1>3. /\ stream \in Seq(Messages) /\ stream' \in Seq(Messages)
      /\ ~listening => stream' = <<>> /\ Told' = {} /\ Told = {} /\ unseen' = unseen \cup {e.at}
      /\ listening => stream' = Append(stream, Completed(e)) /\ Told' = Told \cup {e} /\ unseen' = unseen
  <2>1. stream \in Seq(Messages) /\ Completed(e) \in Messages /\ Completed(e).type = "complete"
        /\ Completed(e).entry = e
    BY <1>1, MessageFields DEF PageInv, StreamInv
  <2>2. CASE listening
    <3>1. stream' = Append(stream, Completed(e)) /\ unseen' = unseen
      BY <2>2 DEF RunCompletes, Tell, e
    <3>2. /\ DOMAIN stream' = DOMAIN stream \cup {Len(stream) + 1}
          /\ \A i \in DOMAIN stream : stream'[i] = stream[i]
          /\ stream'[Len(stream) + 1] = Completed(e) /\ stream' \in Seq(Messages)
      BY <2>1, <3>1
    <3>3. Told' = Told \cup {e}
      BY <2>1, <3>2 DEF Told
    <3> QED
      BY <2>1, <2>2, <3>1, <3>2, <3>3
  <2>3. CASE ~listening
    <3>1. stream' = stream /\ stream = <<>> /\ unseen' = unseen \cup {added + 1}
      BY <2>3 DEF PageInv, StreamInv, RunCompletes, Tell
    <3>2. Told = {} /\ Told' = {}
      BY <3>1 DEF Told
    <3> QED
      BY <1>1, <2>1, <2>3, <3>1, <3>2
  <2> QED
    BY <2>2, <2>3
<1>4. Known' \subseteq Known \cup {e} /\ Told \subseteq Known /\ Of(runs) \subseteq Known
  BY <1>1, <1>2, <1>3 DEF Known, Answered, Lists, Of
<1>5. \A f \in Known : f.at \in Nat /\ f.at <= added /\ f.request \in Requests /\ course[f.request] = "over"
  BY KnownTyped, EntryFields DEF PageInv, IdentityInv
<1>6. IdentityInv'
  BY <1>1, <1>4, <1>5 DEF PageInv, IdentityInv
<1>7. StreamInv'
  <2>1. \A f \in Told : f.at <= added
    BY <1>4, <1>5
  <2>2. \A i, j \in DOMAIN stream' :
          i < j /\ stream'[i].type = "complete" /\ stream'[j].type = "complete"
            => stream'[i].entry.at < stream'[j].entry.at
    <3>1. CASE listening
      <4>1. /\ DOMAIN stream' = 1..(Len(stream) + 1) /\ DOMAIN stream = 1..Len(stream) /\ Len(stream) \in Nat
            /\ \A i \in DOMAIN stream : stream'[i] = stream[i]
            /\ stream'[Len(stream) + 1] = Completed(e)
        BY <1>3, <3>1
      <4>2. \A i \in DOMAIN stream : stream[i].type = "complete" => stream[i].entry \in Told
        BY DEF Told
      <4>3. Completed(e).entry.at = added + 1
        BY <1>1, MessageFields
      <4>4. \A i \in DOMAIN stream : stream[i].type = "complete"
              => stream[i].entry.at < stream'[Len(stream) + 1].entry.at
        <5>1. \A f \in Told : f.at \in Nat
          BY <1>4, <1>5
        <5> QED
          BY <1>1, <2>1, <4>1, <4>2, <4>3, <5>1
      <4> QED
        BY <4>1, <4>4 DEF PageInv, StreamInv
    <3>2. CASE ~listening
      BY <1>3, <3>2
    <3> QED
      BY <3>1, <3>2
  <2>3. \A f \in Of(runs)', g \in Told' : f.at > g.at => f \in Told'
    <3>1. \A f \in Told : e.at > f.at /\ f.at \in Nat
      BY <1>1, <1>4, <1>5
    <3>2. \A f \in Of(runs) : f.at \in Nat /\ ~(f.at > e.at)
      BY <1>1, <1>4, <1>5
    <3>3. CASE listening
      BY <1>1, <1>2, <1>3, <3>1, <3>2, <3>3 DEF PageInv, StreamInv
    <3>4. CASE ~listening
      BY <1>3, <3>4
    <3> QED
      BY <3>3, <3>4
  <2> QED
    BY <1>1, <1>3, <2>2, <2>3 DEF StreamInv
<1>8. ListsInv'
  BY <1>1 DEF PageInv, ListsInv, Lists
<1>9. ShownInv'
  BY <1>1, <1>2, <1>3 DEF PageInv, ShownInv, InPlace, Crowded
<1> QED
  BY <1>6, <1>7, <1>8, <1>9 DEF PageInv

\* The stream is opened: of what was added before it tells no end.
LEMMA ConnectInv ==
  ASSUME PageInv, StoreInv', PageTypeOK', Connect
  PROVE  PageInv'
<1>1. /\ stream = <<>> /\ listening' = TRUE /\ events \in Seq(Entries)
      /\ UNCHANGED <<runs, added, course, answers, shownRuns, unseen>>
  BY DEF Connect, PageInv, StreamInv, PageTypeOK, TypeOK, storeVars, memory, page
<1> DEFINE kept == [i \in DOMAIN events |-> Goes(events[i].request)]
<1>2. kept \in Seq(Messages) /\ \A i \in DOMAIN kept : kept[i].type = "goes"
  <2>1. \A i \in DOMAIN events : events[i].request \in Requests
    BY <1>1, EntryFields
  <2>2. DOMAIN events = 1..Len(events) /\ Len(events) \in Nat
    BY <1>1
  <2>3. \A i \in DOMAIN events : Goes(events[i].request) \in Messages /\ Goes(events[i].request).type = "goes"
    BY <2>1, MessageFields
  <2> QED
    BY <2>2, <2>3
<1> HIDE DEF kept
<1>3. /\ stream' \in Seq(Messages)
      /\ \A i \in DOMAIN stream' : stream'[i].type # "complete"
  <2>1. stream' = <<Opened>> \o kept
    BY DEF Connect, kept
  <2>2. Opened \in Messages /\ Opened.type = "open"
    BY MessageFields
  <2> QED
    BY <1>2, <2>1, <2>2
<1>4. Told = {} /\ Told' = {}
  BY <1>1, <1>3 DEF Told
<1>5. Known' \subseteq Known
  BY <1>1, <1>4 DEF Known, Answered, Lists, Of
<1>6. IdentityInv'
  <2>1. added <= added'
    BY <1>1, StoreBounds DEF PageInv, PageTypeOK, TypeOK
  <2> QED
    BY <1>1, <1>5, <2>1, IdentityKept
<1>7. StreamInv' /\ ListsInv'
  BY <1>1, <1>3, <1>4 DEF PageInv, StreamInv, ListsInv, Lists
<1>8. ShownInv'
  BY <1>1, <1>4 DEF PageInv, ShownInv, InPlace, Crowded, Of
<1> QED
  BY <1>6, <1>7, <1>8 DEF PageInv

\* The stream breaks: the ends on their way are missed.
LEMMA BreaksInv ==
  ASSUME PageInv, StoreInv', PageTypeOK', Breaks
  PROVE  PageInv'
<1>1. /\ stream' = <<>> /\ unseen' = unseen \cup OnTheWay
      /\ UNCHANGED <<runs, added, course, answers, shownRuns>>
  BY DEF Breaks, storeVars, memory
<1>2. Told' = {} /\ \A e \in Told : e.at \in OnTheWay
  BY <1>1, KnownTyped DEF Told, PageInv
<1>3. Known' \subseteq Known
  BY <1>1, <1>2 DEF Known, Answered, Lists, Of
<1>4. IdentityInv'
  <2>1. added <= added'
    BY <1>1, StoreBounds DEF PageInv, PageTypeOK, TypeOK
  <2> QED
    BY <1>1, <1>3, <2>1, IdentityKept
<1>5. StreamInv' /\ ListsInv'
  BY <1>1, <1>2 DEF PageInv, StreamInv, ListsInv, Lists
<1>6. ShownInv'
  BY <1>1, <1>2 DEF PageInv, ShownInv, InPlace, Crowded, Of
<1> QED
  BY <1>4, <1>5, <1>6 DEF PageInv

\* The first message arrives; what is said of the others holds of the tail.
LEMMA TailOfStream ==
  ASSUME PageInv, stream # <<>>, stream' = Tail(stream)
  PROVE  /\ Head(stream) \in Messages /\ stream' \in Seq(Messages)
         /\ listening
         /\ \A i, j \in DOMAIN stream' :
              i < j /\ stream'[i].type = "complete" /\ stream'[j].type = "complete"
                => stream'[i].entry.at < stream'[j].entry.at
         /\ Head(stream).type # "complete" => Told' = Told
         /\ Head(stream).type = "complete" =>
              LET e == Head(stream).entry
              IN /\ e \in Told /\ Told = Told' \cup {e}
                 /\ \A f \in Told' : f.at > e.at
<1>1. stream \in Seq(Messages) /\ Len(stream) \in Nat \ {0}
  BY DEF PageInv, StreamInv
<1>2. /\ Head(stream) = stream[1] /\ 1 \in DOMAIN stream /\ stream' \in Seq(Messages)
      /\ DOMAIN stream = 1..Len(stream) /\ DOMAIN stream' = 1..(Len(stream) - 1)
      /\ \A i \in DOMAIN stream' : i + 1 \in DOMAIN stream /\ stream'[i] = stream[i + 1]
      /\ Head(stream) \in Messages
  BY <1>1
<1>3. \A i \in DOMAIN stream : i = 1 \/ (i - 1 \in DOMAIN stream' /\ stream'[i - 1] = stream[i])
  BY <1>1, <1>2
<1>4. \A i, j \in DOMAIN stream' :
        i < j /\ stream'[i].type = "complete" /\ stream'[j].type = "complete"
          => stream'[i].entry.at < stream'[j].entry.at
  BY <1>1, <1>2 DEF PageInv, StreamInv
<1>5. Told' \subseteq Told
  <2> SUFFICES ASSUME NEW f \in Told' PROVE f \in Told
    OBVIOUS
  <2>1. PICK i \in DOMAIN stream' : stream'[i].type = "complete" /\ f = stream'[i].entry
    BY DEF Told
  <2>2. i + 1 \in DOMAIN stream /\ stream[i + 1] = stream'[i]
    BY <1>2
  <2> QED
    BY <2>1, <2>2 DEF Told
<1>6. \A e \in Told : e \in Told' \/ (Head(stream).type = "complete" /\ e = Head(stream).entry)
  <2> SUFFICES ASSUME NEW e \in Told
               PROVE  e \in Told' \/ (Head(stream).type = "complete" /\ e = Head(stream).entry)
    OBVIOUS
  <2>1. PICK i \in DOMAIN stream : stream[i].type = "complete" /\ e = stream[i].entry
    BY DEF Told
  <2>2. CASE i = 1
    BY <1>2, <2>1, <2>2
  <2>3. CASE i # 1
    <3>1. i - 1 \in DOMAIN stream' /\ stream'[i - 1] = stream[i]
      BY <1>3, <2>3
    <3> QED
      BY <2>1, <3>1 DEF Told
  <2> QED
    BY <2>2, <2>3
<1>7. ASSUME Head(stream).type = "complete", NEW f \in Told'
      PROVE  Head(stream).entry \in Told /\ f.at > Head(stream).entry.at
  <2>1. PICK i \in DOMAIN stream' : stream'[i].type = "complete" /\ f = stream'[i].entry
    BY <1>7 DEF Told
  <2>2. 1 < i + 1 /\ i + 1 \in DOMAIN stream /\ stream[i + 1] = stream'[i]
    BY <1>1, <1>2
  <2>3. stream[1].entry.at < f.at
    BY <1>2, <1>7, <2>1, <2>2 DEF PageInv, StreamInv
  <2>4. Head(stream).entry \in Told
    BY <1>2, <1>7 DEF Told
  <2>5. f \in Entries /\ Head(stream).entry \in Entries
    BY <1>5, <2>4, KnownTyped DEF PageInv
  <2> QED
    BY <1>2, <2>3, <2>4, <2>5, EntryFields
<1>8. Head(stream).type = "complete" => Head(stream).entry \in Told
  BY <1>2 DEF Told
<1>9. listening
  BY DEF PageInv, StreamInv
<1> QED
  BY <1>2, <1>4, <1>5, <1>6, <1>7, <1>8, <1>9

\* A message that tells of no end.
LEMMA ReceiveOtherInv ==
  ASSUME PageInv, StoreInv', PageTypeOK', Receive, Head(stream).type # "complete"
  PROVE  PageInv'
<1>1. /\ UNCHANGED <<runs, added, course, answers, unseen, listening, shownRuns>>
      /\ stream # <<>> /\ stream' = Tail(stream)
  BY DEF Receive, storeVars, memory
<1>2. /\ Told' = Told /\ stream' \in Seq(Messages)
      /\ \A i, j \in DOMAIN stream' :
           i < j /\ stream'[i].type = "complete" /\ stream'[j].type = "complete"
             => stream'[i].entry.at < stream'[j].entry.at
      /\ listening
  BY <1>1, TailOfStream
<1>3. Known' \subseteq Known
  BY <1>1, <1>2 DEF Known, Answered, Lists, Of
<1>4. IdentityInv'
  <2>1. added <= added'
    BY <1>1, StoreBounds DEF PageInv, PageTypeOK, TypeOK
  <2> QED
    BY <1>1, <1>3, <2>1, IdentityKept
<1>5. StreamInv'
  BY <1>1, <1>2 DEF PageInv, StreamInv, Of
<1>6. ListsInv' /\ ShownInv'
  BY <1>1, <1>2 DEF PageInv, ListsInv, Lists, ShownInv, InPlace, Crowded, Of
<1> QED
  BY <1>4, <1>5, <1>6 DEF PageInv

\* The end of a run arrives: it is newer than all that is in place, and goes in front.
LEMMA ReceiveCompleteInv ==
  ASSUME PageInv, StoreInv', PageTypeOK', Receive, Head(stream).type = "complete"
  PROVE  PageInv'
<1> DEFINE e == Head(stream).entry
<1>1. /\ UNCHANGED <<runs, added, course, answers, unseen, listening>>
      /\ stream # <<>> /\ stream' = Tail(stream) /\ shownRuns' = WithRun(e)
  BY DEF Receive, storeVars, memory
<1>2. /\ e \in Told /\ Told = Told' \cup {e} /\ \A f \in Told' : f.at > e.at
      /\ stream' \in Seq(Messages) /\ listening
      /\ \A i, j \in DOMAIN stream' :
           i < j /\ stream'[i].type = "complete" /\ stream'[j].type = "complete"
             => stream'[i].entry.at < stream'[j].entry.at
  BY <1>1, TailOfStream
<1> HIDE DEF e
<1>3. e \in Entries /\ e \in Known /\ Told \subseteq Known /\ Of(runs) \subseteq Known /\ Of(shownRuns) \subseteq Known
  BY <1>2, KnownTyped DEF Known, PageInv
<1>4. \A f \in Known : f \in Entries /\ f.at \in Nat /\ f.request \in Requests
  BY KnownTyped, EntryFields DEF PageInv
<1>5. \A f, g \in Known : (f.at = g.at <=> f.request = g.request) /\ (f.at = g.at => f = g)
  BY <1>4, EntryFields DEF PageInv, IdentityInv
<1>6. /\ shownRuns \in Seq(Entries) /\ Len(shownRuns) \in Nat /\ DOMAIN shownRuns = 1..Len(shownRuns)
      /\ \A i, j \in DOMAIN shownRuns : i # j => shownRuns[i].request # shownRuns[j].request
  BY DEF PageInv, PageTypeOK, ListsInv
<1>a. PICK p \in 1..(Len(shownRuns) + 1), size \in Nat :
        /\ size = IF p <= Len(shownRuns) THEN Len(shownRuns) ELSE Len(shownRuns) + 1
        /\ \A k \in DOMAIN shownRuns : shownRuns[k].request = e.request <=> k = p
        /\ WithRun(e) \in Seq(Entries)
        /\ Len(WithRun(e)) = IF size < PageRuns THEN size ELSE PageRuns
        /\ \A i \in 1..Len(WithRun(e)) :
             WithRun(e)[i] = IF i = 1 THEN e ELSE shownRuns[IF i <= p THEN i - 1 ELSE i]
  BY <1>3, <1>6, PageBounds, WithRunIs
<1> DEFINE len == Len(shownRuns)
           room == Len(shownRuns')
           old(i) == IF i <= p THEN i - 1 ELSE i
           new(k) == IF k < p THEN k + 1 ELSE k
<1>7. /\ \A k \in 1..len : shownRuns[k].request = e.request <=> k = p
      /\ shownRuns' \in Seq(Entries)
      /\ \A i \in 1..room : shownRuns'[i] = IF i = 1 THEN e ELSE shownRuns[old(i)]
  BY <1>1, <1>6, <1>a
<1>b. /\ len \in Nat /\ p \in Nat /\ 1 <= p /\ p <= len + 1 /\ room \in Nat /\ size \in Nat
      /\ room = IF size < PageRuns THEN size ELSE PageRuns
      /\ size = IF p <= len THEN len ELSE len + 1
  <2>1. len \in Nat /\ p \in Nat /\ 1 <= p /\ p <= len + 1 /\ size \in Nat /\ PageRuns \in Nat
    BY <1>6, PageBounds
  <2>2. size = IF p <= len THEN len ELSE len + 1
    BY <1>a
  <2>3. room = IF size < PageRuns THEN size ELSE PageRuns
    BY <1>1, <1>a
  <2> HIDE DEF room, len
  <2>4. room \in Nat
    BY <2>1, <2>3
  <2> QED
    BY <2>1, <2>2, <2>3, <2>4
<1>c. DOMAIN shownRuns = 1..len
  BY <1>6
<1>8. /\ DOMAIN shownRuns' = 1..room /\ PageRuns \in Nat \ {0} /\ room >= 1
      /\ room <= size /\ room <= PageRuns /\ room \in Nat
  BY <1>7, <1>b, PageBounds
<1> HIDE DEF len, room
<1>9. \A i \in 1..room : i # 1 => /\ old(i) \in 1..len /\ old(i) # p /\ shownRuns'[i] = shownRuns[old(i)]
                                  /\ new(old(i)) = i
  <2> TAKE i \in 1..room
  <2>1. i # 1 => old(i) \in 1..len /\ old(i) # p /\ new(old(i)) = i
    BY <1>8, <1>b
  <2> QED
    BY <1>7, <2>1
<1>10. \A k \in 1..len : k # p => /\ new(k) \in 2..size /\ old(new(k)) = k
  BY <1>b
<1>11. Of(shownRuns)' \subseteq Of(shownRuns) \cup {e}
  <2>1. \A i \in 1..room : shownRuns'[i] \in Of(shownRuns) \cup {e}
    <3> TAKE i \in 1..room
    <3>1. CASE i = 1
      BY <1>7, <3>1
    <3>2. CASE i # 1
      <4>1. old(i) \in DOMAIN shownRuns /\ shownRuns'[i] = shownRuns[old(i)]
        BY <1>9, <1>c, <3>2
      <4> HIDE DEF old
      <4> QED
        BY <4>1 DEF Of
    <3> QED
      BY <3>1, <3>2
  <2> QED
    BY <1>8, <2>1 DEF Of
<1>12. IdentityInv'
  <2>1. Known' \subseteq Known
    <3>1. Of(runs)' = Of(runs) /\ Answered' = Answered /\ Told' \subseteq Told
      BY <1>1, <1>2 DEF Answered, Lists, Of
    <3>2. Of(shownRuns)' \subseteq Known
      BY <1>3, <1>11
    <3> QED
      BY <3>1, <3>2 DEF Known
  <2>2. added <= added'
    BY <1>1, StoreBounds DEF PageInv, PageTypeOK, TypeOK
  <2> QED
    BY <1>1, <2>1, <2>2, IdentityKept
<1>13. StreamInv'
  <2>1. \A f \in Of(runs)', g \in Told' : f.at > g.at => f \in Told'
    <3> SUFFICES ASSUME NEW f \in Of(runs), NEW g \in Told', f.at > g.at
                 PROVE  f \in Told'
      BY <1>1 DEF Of
    <3>1. f \in Told
      BY <1>2 DEF PageInv, StreamInv
    <3>2. g.at > e.at /\ f.at \in Nat /\ g.at \in Nat /\ e.at \in Nat
      BY <1>2, <1>3, <1>4
    <3> QED
      BY <1>2, <3>1, <3>2
  <2> QED
    BY <1>1, <1>2, <2>1 DEF StreamInv
<1>14. ListsInv'
  <2>1. \A i, j \in 1..room : i # j => shownRuns'[i].request # shownRuns'[j].request
    <3> SUFFICES ASSUME NEW i \in 1..room, NEW j \in 1..room, i < j
                 PROVE  shownRuns'[i].request # shownRuns'[j].request
      BY <1>8
    <3>1. j # 1 /\ shownRuns'[j] = shownRuns[old(j)] /\ old(j) \in 1..len /\ old(j) # p
      BY <1>8, <1>9
    <3>2. CASE i = 1
      <4>1. shownRuns'[i] = e /\ shownRuns[old(j)].request # e.request
        BY <1>7, <3>1, <3>2
      <4> QED
        BY <3>1, <4>1
    <3>3. CASE i # 1
      <4>1. shownRuns'[i] = shownRuns[old(i)] /\ old(i) \in 1..len /\ old(i) # old(j)
        BY <1>9, <3>3
      <4> HIDE DEF old
      <4> QED
        BY <1>6, <1>c, <3>1, <4>1
    <3> QED
      BY <3>2, <3>3
  <2> QED
    BY <1>1, <1>8, <2>1 DEF PageInv, ListsInv, Lists
<1>15. ASSUME NEW f \in Of(runs), f # e, InPlace(f) \/ Crowded(f), f \notin Told
       PROVE  InPlace(f)' \/ Crowded(f)'
  <2>1. f \in Known /\ e.at > f.at /\ f.at \in Nat /\ e.at \in Nat /\ f.request # e.request
    BY <1>2, <1>3, <1>4, <1>5, <1>15 DEF PageInv, StreamInv
  <2>2. CASE InPlace(f)
    <3>1. PICK j \in 1..len : shownRuns[j] = f /\ \A k \in 1..len : k < j => shownRuns[k].at > f.at
      BY <1>c, <2>2 DEF InPlace
    <3>2. j # p
      BY <1>7, <2>1, <3>1
    <3>3. \A i \in 1..room : i < new(j) => shownRuns'[i].at > f.at
      <4> SUFFICES ASSUME NEW i \in 1..room, i < new(j) PROVE shownRuns'[i].at > f.at
        OBVIOUS
      <4>1. CASE i = 1
        BY <1>7, <2>1, <4>1
      <4>2. CASE i # 1
        <5>1. old(i) \in 1..len /\ shownRuns'[i] = shownRuns[old(i)]
          BY <1>9, <4>2
        <5>2. old(i) < j
          BY <1>8, <1>b, <3>2, <4>2
        <5> HIDE DEF old, new
        <5> QED
          BY <3>1, <5>1, <5>2
      <4> QED
        BY <4>1, <4>2
    <3>4. CASE new(j) \in 1..room
      <4>1. shownRuns'[new(j)] = f
        <5>1. new(j) # 1 /\ old(new(j)) = j
          BY <1>10, <3>2
        <5> HIDE DEF old, new
        <5> QED
          BY <1>9, <3>1, <3>4, <5>1
      <4> HIDE DEF new
      <4> QED
        BY <1>8, <3>3, <3>4, <4>1 DEF InPlace
    <3>5. CASE new(j) \notin 1..room
      <4>1. new(j) \in 2..size
        BY <1>10, <3>2
      <4>2. new(j) > room /\ room = PageRuns
        BY <1>8, <1>b, <3>5, <4>1
      <4>3. \A i \in 1..room : i < new(j)
        BY <1>8, <4>1, <4>2
      <4> HIDE DEF new
      <4> QED
        BY <1>8, <3>3, <4>2, <4>3 DEF Crowded, room
    <3> QED
      BY <3>4, <3>5
  <2>3. CASE Crowded(f)
    <3>1. len = PageRuns /\ \A k \in 1..len : shownRuns[k].at > f.at
      BY <1>c, <2>3 DEF Crowded, len
    <3>2. room = PageRuns
      BY <1>8, <1>b, <3>1
    <3>3. \A i \in 1..room : shownRuns'[i].at > f.at
      BY <1>7, <1>9, <2>1, <3>1
    <3> QED
      BY <1>8, <3>2, <3>3 DEF Crowded, room
  <2> QED
    BY <1>15, <2>2, <2>3
<1>16. ShownInv'
  <2>1. ASSUME NEW f, f = e PROVE InPlace(f)'
    <3>1. 1 \in DOMAIN shownRuns' /\ shownRuns'[1] = e /\ \A k \in DOMAIN shownRuns' : ~(k < 1)
      BY <1>7, <1>8
    <3> QED
      BY <2>1, <3>1 DEF InPlace
  <2>2. Of(runs)' = Of(runs)
    BY <1>1 DEF Of
  <2>3. ASSUME NEW f \in Of(runs)
        PROVE  f.at \in unseen' \/ f \in Told' \/ InPlace(f)' \/ Crowded(f)'
    <3>1. f.at \in unseen \/ f \in Told \/ InPlace(f) \/ Crowded(f)
      BY DEF PageInv, ShownInv
    <3> QED
      BY <1>1, <1>2, <1>15, <2>1, <3>1
  <2> QED
    BY <2>2, <2>3 DEF ShownInv
<1> QED
  BY <1>12, <1>13, <1>14, <1>16 DEF PageInv

\* An answer replaces the list of runs, or empties it; what it does not have is missed.
LEMMA ReplacedInv ==
  ASSUME PageInv, StoreInv', PageTypeOK', Forgets,
         UNCHANGED <<runs, added, stream, course, listening>>, answers' \subseteq answers,
         shownRuns' \in {<<>>} \cup {a.runs : a \in Lists}
  PROVE  PageInv'
<1>1. Told' = Told /\ Of(runs)' = Of(runs) /\ OnTheWay' = OnTheWay
  BY DEF Told, Of, OnTheWay
<1>2. Of(shownRuns)' \subseteq Answered
  BY DEF Of, Answered
<1>3. Known' \subseteq Known
  BY <1>1, <1>2 DEF Known, Answered, Lists
<1>4. IdentityInv'
  <2>1. added <= added'
    BY StoreBounds DEF PageInv, PageTypeOK, TypeOK
  <2> QED
    BY <1>3, <2>1, IdentityKept
<1>5. StreamInv'
  BY <1>1 DEF PageInv, StreamInv
<1>6. \A i, j \in DOMAIN shownRuns' : i < j => shownRuns'[i].at > shownRuns'[j].at
  BY DEF PageInv, ListsInv
<1>7. \A i \in DOMAIN shownRuns' : shownRuns'[i] \in Known /\ shownRuns'[i] \in Entries
  <2>1. \A i \in DOMAIN shownRuns' : shownRuns'[i] \in Known
    BY <1>2 DEF Of, Known
  <2> QED
    BY <2>1, KnownTyped DEF PageInv
<1>8. shownRuns' \in Seq(Entries) /\ DOMAIN shownRuns' \subseteq Nat
  BY DEF PageTypeOK
<1>9. ListsInv'
  <2>1. ASSUME NEW i \in DOMAIN shownRuns', NEW j \in DOMAIN shownRuns', i < j
        PROVE  shownRuns'[i].request # shownRuns'[j].request
    <3>1. shownRuns'[i].at > shownRuns'[j].at /\ shownRuns'[i].at \in Nat /\ shownRuns'[j].at \in Nat
      BY <1>6, <1>7, <2>1, EntryFields
    <3>2. shownRuns'[i].at # shownRuns'[j].at
      BY <3>1
    <3> QED
      BY <1>7, <3>2 DEF PageInv, IdentityInv
  <2>2. \A i, j \in DOMAIN shownRuns' : i # j => shownRuns'[i].request # shownRuns'[j].request
    BY <1>8, <2>1
  <2> QED
    BY <2>2 DEF PageInv, ListsInv, Lists
<1>10. ASSUME NEW f \in Of(runs), f.at \notin unseen', f \notin Told
       PROVE  InPlace(f)'
  <2>1. f \in Known /\ f \in Entries /\ f.at \in 1..added
    <3>1. f \in Known /\ f \in Entries
      BY KnownTyped DEF PageInv, Known
    <3>2. f.at <= added /\ f.at \in 1..MaxAdded /\ added \in 0..MaxAdded
      BY <3>1, EntryFields DEF PageInv, IdentityInv, PageTypeOK, TypeOK
    <3> QED
      BY <3>1, <3>2, StoreBounds
  <2>2. f.at \notin OnTheWay
    <3>1. \A g \in Told : g \in Known /\ g \in Entries
      BY KnownTyped DEF PageInv, Known
    <3>2. \A g \in Told : g.at # f.at
      BY <1>10, <2>1, <3>1, EntryFields DEF PageInv, IdentityInv
    <3> QED
      BY <3>2, KnownTyped DEF PageInv
  <2>3. f.at \in Numbers(shownRuns')
    BY <1>10, <2>1, <2>2 DEF Forgets
  <2>4. PICK j \in DOMAIN shownRuns' : shownRuns'[j].at = f.at
    BY <2>3 DEF Numbers
  <2>5. shownRuns'[j] = f
    BY <1>7, <2>1, <2>4, EntryFields DEF PageInv, IdentityInv
  <2> QED
    BY <1>6, <2>5 DEF InPlace
<1>11. ShownInv'
  BY <1>1, <1>10 DEF ShownInv
<1> QED
  BY <1>4, <1>5, <1>9, <1>11 DEF PageInv

LEMMA RunEndingTypes ==
  ASSUME PageTypeOK, StoreInv', NEW r \in Requests,
         RunBegins(r) \/ RunProgresses(r) \/ RunCompletes(r)
  PROVE  PageTypeOK'
<1>1. /\ TypeOK' /\ added' = added + 1 /\ added \in Nat /\ added + 1 \in 1..MaxAdded
      /\ UNCHANGED <<listening, asked, answers, tab, shownRuns, shownActive, upsets>>
      /\ unseen' \subseteq unseen \cup {added + 1}
      /\ course' \in [Requests -> {"new", "going", "over"}]
  <2>1. added < MaxAdded /\ added \in 0..MaxAdded /\ added' = added + 1
    BY DEF RunBegins, RunProgresses, RunCompletes, AddRunStart, AddEvent, AddRun, NewEntry,
           PageTypeOK, TypeOK
  <2>2. added \in Nat /\ added + 1 \in 1..MaxAdded
    BY <2>1, StoreBounds
  <2> QED
    BY <2>1, <2>2 DEF RunBegins, RunProgresses, RunCompletes, PageTypeOK, page, StoreInv
<1> QED
  BY <1>1 DEF PageTypeOK

LEMMA PageTypesKept == PageInv /\ StoreInv' /\ [PageNext]_liveVars => PageTypeOK'
<1> SUFFICES ASSUME PageInv, StoreInv', [PageNext]_liveVars PROVE PageTypeOK'
  OBVIOUS
<1>1. PageTypeOK /\ TypeOK'
  BY DEF PageInv, StoreInv
<1>2. \A r \in Requests : RunBegins(r) \/ RunProgresses(r) \/ RunCompletes(r) => PageTypeOK'
  BY <1>1, RunEndingTypes
<1>3. ASSUME Connect \/ AnswerRuns \/ AnswerActive \/ ServerClears \/ RequestFails
      PROVE  PageTypeOK'
  <2>1. /\ UNCHANGED <<course, tab, shownRuns, shownActive, unseen>>
        /\ listening' \in BOOLEAN /\ asked' \subseteq asked
        /\ upsets' = upsets \/ (upsets' = upsets + 1 /\ upsets < MaxUpsets)
    BY <1>1, <1>3
       DEF Connect, AnswerRuns, AnswerActive, ServerClears, RequestFails, PageTypeOK, page
  <2>2. \A a \in answers' : a \in Answers
    <3>1. /\ [to |-> "runs", runs |-> runs] \in Answers /\ [to |-> "active", active |-> activeRuns] \in Answers
          /\ [to |-> "clear"] \in Answers /\ Refusals \subseteq Answers
      <4>1. runs \in Seq(Entries) /\ activeRuns \in SUBSET Requests /\ <<>> \in Seq(Entries) /\ {} \in SUBSET Requests
        BY <1>1 DEF PageTypeOK, TypeOK
      <4> QED
        BY <4>1, AnswerFields DEF Refusals
    <3> QED
      BY <1>1, <1>3, <3>1 DEF Connect, AnswerRuns, AnswerActive, ServerClears, RequestFails, PageTypeOK, page
  <2>3. upsets' \in 0..MaxUpsets
    BY <1>1, <2>1, PageBounds DEF PageTypeOK
  <2> QED
    BY <1>1, <2>1, <2>2, <2>3 DEF PageTypeOK
<1>4. ASSUME Receive PROVE PageTypeOK'
  <2>1. /\ UNCHANGED <<course, listening, answers, tab, upsets, unseen>> /\ asked' \subseteq Kinds
        /\ stream # <<>>
    BY <1>1, <1>4 DEF Receive, PageTypeOK, Kinds
  <2>2. Head(stream) \in Messages
    BY <2>1 DEF PageInv, StreamInv
  <2>3. shownActive' \subseteq Requests
    BY <1>1, <1>4, <2>2, MessageFields DEF Receive, PageTypeOK
  <2>4. shownRuns' \in Seq(Entries) /\ Len(shownRuns') <= (IF MaxRuns > PageRuns THEN MaxRuns ELSE PageRuns)
    <3>1. CASE shownRuns' = shownRuns
      BY <1>1, <3>1 DEF PageTypeOK
    <3>2. CASE Head(stream).type = "complete" /\ shownRuns' = WithRun(Head(stream).entry)
      <4>1. Head(stream).entry \in Entries
        BY <2>2, <3>2, MessageFields
      <4> DEFINE e == Head(stream).entry
      <4> HIDE DEF e
      <4>2. PICK p \in 1..(Len(shownRuns) + 1), size \in Nat :
              /\ WithRun(e) \in Seq(Entries)
              /\ Len(WithRun(e)) = IF size < PageRuns THEN size ELSE PageRuns
        BY <1>1, <4>1, PageBounds, WithRunIs DEF PageInv, ListsInv, PageTypeOK, e
      <4>3. shownRuns' = WithRun(e)
        BY <3>2 DEF e
      <4> QED
        BY <4>2, <4>3, PageBounds, StoreBounds
    <3> QED
      BY <1>4, <3>1, <3>2 DEF Receive
  <2> QED
    BY <1>1, <2>1, <2>3, <2>4 DEF PageTypeOK
<1>5. ASSUME Breaks PROVE PageTypeOK'
  <2>1. OnTheWay \subseteq 1..MaxAdded
    BY KnownTyped, EntryFields DEF PageInv
  <2>2. upsets' \in 0..MaxUpsets
    <3>1. upsets' = upsets + 1 /\ upsets < MaxUpsets /\ upsets \in 0..MaxUpsets
      BY <1>1, <1>5 DEF Breaks, PageTypeOK
    <3> QED
      BY <3>1, PageBounds
  <2> QED
    BY <1>1, <1>5, <2>1, <2>2 DEF Breaks, PageTypeOK
<1>6. ASSUME NEW a \in answers, Arrives(a) PROVE PageTypeOK'
  <2>1. /\ UNCHANGED <<course, listening, asked, tab, upsets>> /\ answers' \subseteq answers /\ a \in Answers
        /\ added' = added
    BY <1>1, <1>6 DEF Arrives, PageTypeOK, storeVars
  <2>2. shownRuns' \in Seq(Entries) /\ Len(shownRuns') <= (IF MaxRuns > PageRuns THEN MaxRuns ELSE PageRuns)
    <3>1. shownRuns' = shownRuns \/ shownRuns' = <<>> \/ (a.to = "runs" /\ shownRuns' = a.runs)
      BY <1>6 DEF Arrives, RunsArrive, ActiveArrive, Cleared
    <3>2. CASE shownRuns' = shownRuns
      BY <1>1, <3>2 DEF PageTypeOK
    <3>3. CASE shownRuns' = <<>>
      BY <3>3, PageBounds, StoreBounds
    <3>4. CASE a.to = "runs" /\ shownRuns' = a.runs
      <4>1. a.runs \in Seq(Entries) /\ Len(a.runs) <= MaxRuns
        BY <2>1, <3>4, AnswerFields DEF PageInv, ListsInv, Lists
      <4> QED
        BY <3>4, <4>1, PageBounds, StoreBounds
    <3> QED
      BY <3>1, <3>2, <3>3, <3>4
  <2>3. shownActive' \subseteq Requests
    BY <1>1, <1>6, <2>1, AnswerFields DEF Arrives, RunsArrive, ActiveArrive, Cleared, PageTypeOK
  <2>4. unseen' \subseteq 1..MaxAdded
    <3>1. 1..added \subseteq 1..MaxAdded
      BY <1>1, StoreBounds DEF PageTypeOK, TypeOK
    <3> QED
      BY <1>1, <1>6, <3>1 DEF Arrives, RunsArrive, ActiveArrive, Cleared, Forgets, PageTypeOK
  <2> QED
    BY <1>1, <2>1, <2>2, <2>3, <2>4 DEF PageTypeOK
<1>7. ASSUME Poll \/ PressRefresh \/ PressClear \/ ChangeTab PROVE PageTypeOK'
  BY <1>1, <1>7 DEF Poll, PressRefresh, PressClear, ChangeTab, Ask, PageTypeOK, Kinds
<1>8. ASSUME ClearGoesOn \/ UNCHANGED liveVars PROVE PageTypeOK'
  BY <1>1, <1>8 DEF ClearGoesOn, liveVars, pageVars, PageTypeOK
<1> QED
  BY <1>2, <1>3, <1>4, <1>5, <1>6, <1>7, <1>8 DEF PageNext, Server, Page

LEMMA PageInitInv == PageInit => PageInv
<1> SUFFICES ASSUME PageInit PROVE PageInv
  OBVIOUS
<1>1. /\ StoreInv /\ runs = <<>> /\ stream = <<>> /\ shownRuns = <<>> /\ answers = {} /\ unseen = {}
      /\ added = 0 /\ listening = FALSE
  BY StoreInitInv DEF PageInit, Init
<1>2. PageTypeOK
  <2>1. 0 <= (IF MaxRuns > PageRuns THEN MaxRuns ELSE PageRuns) /\ 0 \in 0..MaxUpsets
    BY PageBounds, StoreBounds
  <2>2. shownRuns \in Seq(Entries) /\ Len(shownRuns) = 0
    BY <1>1
  <2> QED
    BY <1>1, <2>1, <2>2 DEF PageInit, PageTypeOK, StoreInv, Kinds
<1>3. Known = {} /\ Told = {} /\ Of(runs) = {}
  BY <1>1 DEF Known, Told, Of, Answered, Lists
<1>4. IdentityInv /\ StreamInv /\ ListsInv /\ ShownInv
  BY <1>1, <1>3 DEF IdentityInv, StreamInv, ListsInv, ShownInv, Lists
<1> QED
  BY <1>1, <1>2, <1>4 DEF PageInv

LEMMA PageStepInv == PageInv /\ [PageNext]_liveVars => PageInv'
<1> SUFFICES ASSUME PageInv, [PageNext]_liveVars PROVE PageInv'
  OBVIOUS
<1>1. StoreInv'
  BY PageStoreStep, StoreStepInv DEF PageInv
<1>2. PageTypeOK'
  BY <1>1, PageTypesKept
<1>3. /\ added \in Int /\ course \in [Requests -> {"new", "going", "over"}]
  BY StoreBounds DEF PageInv, PageTypeOK, TypeOK
<1>4. ASSUME NEW r \in Requests, RunBegins(r) PROVE PageInv'
  <2>1. /\ Tell(Goes(r)) /\ added <= added' /\ UNCHANGED <<runs, answers, shownRuns, unseen, listening>>
        /\ \A q \in Requests : course[q] = "over" => course'[q] = "over"
    BY <1>3, <1>4 DEF RunBegins, AddRunStart, NewEntry, page
  <2> QED
    BY <1>1, <1>2, <2>1, TellGoesInv
<1>5. ASSUME NEW r \in Requests, RunProgresses(r) PROVE PageInv'
  <2>1. /\ Tell(Goes(r)) /\ added <= added' /\ UNCHANGED <<runs, answers, shownRuns, unseen, listening, course>>
    BY <1>3, <1>5 DEF RunProgresses, AddEvent, NewEntry, page
  <2> QED
    BY <1>1, <1>2, <2>1, TellGoesInv
<1>6. ASSUME NEW r \in Requests, RunCompletes(r) PROVE PageInv'
  BY <1>1, <1>2, <1>6, RunCompletesInv
<1>7. CASE Connect
  BY <1>1, <1>2, <1>7, ConnectInv
<1>8. ASSUME \/ AnswerRuns \/ AnswerActive \/ ServerClears \/ RequestFails \/ ClearGoesOn
             \/ Poll \/ PressRefresh \/ PressClear \/ ChangeTab \/ UNCHANGED liveVars
      PROVE  PageInv'
  <2>1. /\ UNCHANGED <<stream, shownRuns, unseen, course, listening, added>>
        /\ runs' \in {runs, <<>>}
    BY <1>8 DEF AnswerRuns, AnswerActive, ServerClears, RequestFails, ClearGoesOn, Poll, PressRefresh,
                PressClear, ChangeTab, Ask, Clear, RunsWritten, EventsTruncated, EventsWritten,
                liveVars, pageVars, storeVars, memory, page
  <2>2. \A a \in answers' : a \in answers \/ (a.to = "runs" => a.runs \in {runs, <<>>})
    <3>1. /\ \A q : [to |-> "runs", runs |-> q].runs = q
          /\ \A A : [to |-> "active", active |-> A].to = "active"
          /\ [to |-> "clear"].to = "clear"
      OBVIOUS
    <3> QED
      BY <1>8, <3>1 DEF AnswerRuns, AnswerActive, ServerClears, RequestFails, ClearGoesOn, Poll, PressRefresh,
                  PressClear, ChangeTab, Ask, Refusals, liveVars, pageVars, page
  <2> QED
    BY <1>1, <1>2, <2>1, <2>2, SteadyInv
<1>9. CASE Receive
  BY <1>1, <1>2, <1>9, ReceiveOtherInv, ReceiveCompleteInv
<1>10. CASE Breaks
  BY <1>1, <1>2, <1>10, BreaksInv
<1>11. ASSUME NEW a \in answers, Arrives(a) PROVE PageInv'
  <2>1. UNCHANGED <<runs, added, stream, course, listening>> /\ answers' \subseteq answers
    BY <1>11 DEF Arrives, storeVars, memory
  <2>2. CASE RunsArrive(a) \/ Cleared(a)
    <3>1. Forgets /\ shownRuns' \in {<<>>} \cup {b.runs : b \in Lists}
      BY <2>2 DEF RunsArrive, Cleared, Lists
    <3> QED
      BY <1>1, <1>2, <2>1, <3>1, ReplacedInv
  <2>3. CASE ActiveArrive(a)
    BY <1>1, <1>2, <2>1, <2>3, SteadyInv DEF ActiveArrive
  <2> QED
    BY <1>11, <2>2, <2>3 DEF Arrives
<1> QED
  BY <1>4, <1>5, <1>6, <1>7, <1>8, <1>9, <1>10, <1>11 DEF PageNext, Server, Page

THEOREM PageInvariance == PageSpec => []PageInv
<1> QED  BY PageInitInv, PageStepInv, PTL DEF PageSpec

\* The page keeps its types: its list of runs outgrows neither its own room nor the store's.
THEOREM PageTypeCorrect == PageSpec => []PageTypeOK
<1>1. PageInv => PageTypeOK
  BY DEF PageInv
<1> QED  BY <1>1, PageInvariance, PTL

\* When the stream is read to its end, App.tsx shows each of the store's runs below newer
\* ones only, or has no room for it, whatever answers and breaks came between, unless it
\* missed the run's end.
THEOREM RunsAreShown == PageSpec => []RunsShown
<1>1. PageInv => RunsShown
  <2> SUFFICES ASSUME PageInv, stream = <<>>, NEW e \in Of(runs), e.at \notin unseen
               PROVE  \/ \E j \in DOMAIN shownRuns :
                           /\ shownRuns[j] = e
                           /\ \A k \in DOMAIN shownRuns : k < j => shownRuns[k].at > e.at
                           /\ \A k \in DOMAIN shownRuns : k > j => shownRuns[k].request # e.request
                      \/ Cardinality({k \in DOMAIN shownRuns : shownRuns[k].at > e.at}) = PageRuns
    BY DEF RunsShown, Of
  <2>1. InPlace(e) \/ Crowded(e)
    BY DEF PageInv, ShownInv, Told
  <2>2. /\ shownRuns \in Seq(Entries) /\ Len(shownRuns) \in Nat
        /\ DOMAIN shownRuns = 1..Len(shownRuns)
        /\ \A i, j \in DOMAIN shownRuns : i # j => shownRuns[i].request # shownRuns[j].request
    BY DEF PageInv, PageTypeOK, ListsInv
  <2>3. CASE InPlace(e)
    BY <2>2, <2>3 DEF InPlace
  <2>4. CASE Crowded(e)
    <3>1. {k \in DOMAIN shownRuns : shownRuns[k].at > e.at} = 1..PageRuns
      BY <2>2, <2>4 DEF Crowded
    <3>2. Cardinality(1..PageRuns) = PageRuns
      <4>1. PageRuns \in Int /\ 1 \in Int /\ PageRuns >= 1
        BY PageBounds
      <4> QED
        BY <4>1, FS_Interval
    <3> QED
      BY <3>1, <3>2
  <2> QED
    BY <2>1, <2>3, <2>4
<1> QED  BY <1>1, PageInvariance, PTL

\* The page does to the store only what the store allows: it keeps its promises.
THEOREM PageImplementsStore == PageSpec => Spec
<1>1. PageInit => Init
  BY DEF PageInit
<1> QED  BY <1>1, PageStoreStep, PTL DEF PageSpec, Spec
=============================================================================
