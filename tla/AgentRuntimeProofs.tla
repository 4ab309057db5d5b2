------------------------- MODULE AgentRuntimeProofs -------------------------
(***************************************************************************)
(* Proofs about AgentRuntime for every number of tenants and runs and      *)
(* every value of the limits: its inductive invariant, that it implements  *)
(* RunQueue, and what else follows: provider calls of a tenant overlap     *)
(* only after an audited release, the event loop is never stranded, at     *)
(* most two calls of a tenant are in flight, its budgets hold unless it is *)
(* forgotten within their windows, and the breaker decides by the history  *)
(* of its runs.                                                            *)
(***************************************************************************)
EXTENDS AgentRuntimeProperties, FiniteSetTheorems, WellFoundedInduction, TLAPS

\* The calls of tenant t that inFlightRunCount ought to count.
Calls(t) == {r \in Runs : tenantOf[r] = t /\ phase[r] \in InFlight}

\* Numbers are taken in order, each by a tenant.
Numbered ==
  \A r \in Runs : /\ phase[r] = "absent" <=> r >= nextRun
                  /\ phase[r] # "absent" => tenantOf[r] \in Tenants

Counted == \A t \in Tenants : inFlightRunCount[t] = Cardinality(Calls(t))

\* The promises r awaits and the tail of t's chain belong to the same tenant.
Linked ==
  /\ \A r \in Runs : previous[r] # NoRun =>
       previous[r] < nextRun /\ tenantOf[previous[r]] = tenantOf[r]
  /\ \A t \in Tenants : tenantLocks[t] # NoRun =>
       tenantLocks[t] < nextRun /\ tenantOf[tenantLocks[t]] = t

\* Of the unreleased runs of a tenant, every one waits for an unreleased run that
\* is not before any of its predecessors...
Chained ==
  \A q, r \in Runs :
    /\ q < r /\ SameTenant(q, r)
    /\ phase[q] \in Unreleased
    /\ phase[r] = "waiting"
    => previous[r] # NoRun /\ q <= previous[r] /\ phase[previous[r]] \in Unreleased

\* ... the tail is the last of them ...
Tailed ==
  \A q \in Runs :
    phase[q] \in Unreleased =>
      LET tail == tenantLocks[tenantOf[q]]
      IN  tail # NoRun /\ q <= tail /\ phase[tail] \in Unreleased

\* ... and the holder the first.
HolderFirst ==
  \A q, r \in Runs :
    q < r /\ SameTenant(q, r) /\ phase[r] \in Holding => phase[q] \notin Unreleased

QueueInv == Numbered /\ Counted /\ Linked /\ Chained /\ Tailed /\ HolderFirst

-----------------------------------------------------------------------------
(* Types *)

USE DEF Runs, NoRun, Never, Time

LEMMA NumbersType ==
  /\ MaxRuns \in Nat /\ MaxTime \in Nat /\ MsPerHour \in Nat /\ MsPerDay \in Nat
  /\ ChargeTokens \in Nat /\ IdleTtl \in Nat
  /\ MaxEventQueueSize \in Nat /\ MaxEventQueueSize > 0
  /\ TokenCounts \subseteq Nat
  BY NumbersAssumption

LEMMA InitTypeOK == Init => TypeOK
  <1> SUFFICES ASSUME Init PROVE TypeOK
    OBVIOUS
  <1>0. eventQueue \in Seq(Tenants) /\ Len(eventQueue) <= MaxEventQueueSize
    BY NumbersType DEF Init
  <1>a. now \in Time
    BY NumbersType DEF Init
  <1>b. pendingHeartbeatRuns \subseteq Tenants /\ heartbeat \in Tenants \cup {NoTenant} /\ processingEvents \in BOOLEAN /\ killSwitch \in BOOLEAN
    BY DEF Init
  <1>1. RuntimeTypes
    BY <1>0, <1>a, <1>b DEF RuntimeTypes
  <1>2. LockTypes
    BY DEF Init, LockTypes
  <1>3. LimitTypes
    BY DEF Init, LimitTypes
  <1>4. RunTypes
    BY NumbersType DEF Init, RunTypes, Phases
  <1>5. WorkTypes
    BY DEF Init, WorkTypes, Verdicts
  <1> QED
    BY <1>1, <1>2, <1>3, <1>4, <1>5 DEF TypeOK

LEMMA OthersType ==
  ASSUME eventQueue \in Seq(Tenants), NEW t \in Tenants
  PROVE  Others(t) \in Seq(Tenants)
  <1>1. CASE \E i \in DOMAIN eventQueue : eventQueue[i] = t
    <2> DEFINE i == CHOOSE j \in DOMAIN eventQueue : eventQueue[j] = t
    <2>1. i \in 1..Len(eventQueue)
      BY <1>1
    <2>4. Others(t) = SubSeq(eventQueue, 1, i - 1) \o SubSeq(eventQueue, i + 1, Len(eventQueue))
      BY <1>1 DEF Others
    <2> HIDE DEF i
    <2>2. SubSeq(eventQueue, 1, i - 1) \in Seq(Tenants)
      BY <2>1
    <2>3. SubSeq(eventQueue, i + 1, Len(eventQueue)) \in Seq(Tenants)
      BY <2>1
    <2> QED
      BY <2>2, <2>3, <2>4
  <1>2. CASE ~ \E i \in DOMAIN eventQueue : eventQueue[i] = t
    BY <1>2 DEF Others
  <1> QED
    BY <1>1, <1>2

LEMMA EnqueuedType ==
  ASSUME eventQueue \in Seq(Tenants), NEW t \in Tenants
  PROVE  /\ Enqueued(t) \in Seq(Tenants)
         /\ Len(Enqueued(t)) \in 1..MaxEventQueueSize
  <1> DEFINE q == Others(t)
             surplus == Len(q) - (MaxEventQueueSize - 1)
             first == IF surplus > 0 THEN surplus + 1 ELSE 1
             kept == SubSeq(q, first, Len(q))
  <1>1. q \in Seq(Tenants) /\ Len(q) \in Nat
    BY OthersType
  <1>2. first \in Nat \ {0} /\ surplus \in Int
    BY <1>1, NumbersType
  <1>3. kept \in Seq(Tenants)
    BY <1>1, <1>2
  <1>4. Len(kept) = IF first <= Len(q) THEN Len(q) - first + 1 ELSE 0
    BY <1>1, <1>2
  <1>5. Len(kept) \in 0..(MaxEventQueueSize - 1)
    BY <1>1, <1>2, <1>4, NumbersType
  <1>6. Enqueued(t) = Append(kept, t)
    BY DEF Enqueued
  <1> HIDE DEF kept
  <1> QED
    BY <1>3, <1>5, <1>6, NumbersType
-----------------------------------------------------------------------------
(* The promise chain *)

LEMMA CallsFinite == \A t : IsFiniteSet(Calls(t))
  <1>1. IsFiniteSet(Runs)
    BY FS_Interval, NumbersType
  <1> QED
    BY <1>1, FS_Subset DEF Calls

\* Whoever has the lock, or is about to take it, has no unreleased predecessor.
LEMMA HolderHasTurn ==
  ASSUME QueueInv, NEW q \in Runs, NEW r \in Runs,
         q < r, SameTenant(q, r), HasLock(r) \/ phase[r] \in Holding
  PROVE  phase[q] \notin Unreleased
  <1>1. CASE HasLock(r)
    BY <1>1 DEF QueueInv, Chained, HasLock
  <1>2. CASE phase[r] \in Holding
    BY <1>2 DEF QueueInv, HolderFirst
  <1> QED
    BY <1>1, <1>2

\* A step of run r that makes no new call: it takes the lock, goes on under it,
\* gives it up, or lets its caller go on; it may evict tenants with no call in
\* flight.
Advances(r, p) ==
  /\ phase' = [phase EXCEPT ![r] = p]
  /\ \/ HasLock(r) /\ p \in {"running", "released"}
     \/ phase[r] \in Holding /\ p \in {"grace", "hold", "released"}
     \/ phase[r] = "returned" /\ p = "done"
  /\ UNCHANGED <<callVars, inFlightRunCount>>
  /\ \E gone \in SUBSET Tenants :
       /\ \A u \in gone : inFlightRunCount[u] = 0
       /\ tenantLocks' = Without(tenantLocks, gone, NoRun)

LEMMA AdvanceKeepsQueue ==
  ASSUME TypeOK, QueueInv, NEW r \in Runs, NEW p, Advances(r, p)
  PROVE  QueueInv'
  <1> USE DEF Holding, Unreleased, InFlight, Phases
  <1>1. phase \in [Runs -> Phases] /\ tenantOf \in [Runs -> Tenants \cup {NoTenant}]
    BY DEF TypeOK, RunTypes
  <1>2. \A q \in Runs : q # r => phase'[q] = phase[q]
    BY <1>1 DEF Advances
  <1>3. phase'[r] = p /\ phase[r] # "absent" /\ p # "absent"
    BY <1>1 DEF Advances, HasLock
  <1>4. nextRun' = nextRun /\ tenantOf' = tenantOf /\ previous' = previous /\ inFlightRunCount' = inFlightRunCount
    BY DEF Advances, callVars
  <1>5. \A q \in Runs : phase'[q] \in Unreleased => phase[q] \in Unreleased
    BY <1>2, <1>3 DEF Advances, HasLock
  <1>6. Numbered'
    BY <1>2, <1>3, <1>4 DEF QueueInv, Numbered
  <1>7. Counted'
    <2>1. \A t \in Tenants : Calls(t)' = Calls(t)
      BY <1>1, <1>2, <1>3, <1>4 DEF Calls, Advances, HasLock
    <2> QED
      BY <2>1, <1>4 DEF QueueInv, Counted
  <1>8. PICK gone \in SUBSET Tenants : /\ \A u \in gone : inFlightRunCount[u] = 0
                                       /\ tenantLocks' = Without(tenantLocks, gone, NoRun)
    BY DEF Advances
  <1>9. \A u \in Tenants : tenantLocks'[u] = IF u \in gone THEN NoRun ELSE tenantLocks[u]
    BY <1>8 DEF Without
  <1>10. Linked'
    BY <1>4, <1>9 DEF QueueInv, Linked
  \* q is unreleased after the step, so it was before: r, if it left, was ahead.
  <1>11. ASSUME NEW q \in Runs, NEW s \in Runs, q <= s, tenantOf[q] = tenantOf[s],
                phase'[q] \in Unreleased, phase[s] \in Unreleased
         PROVE  phase'[s] \in Unreleased
    <2>1. CASE s # r
      BY <2>1, <1>2, <1>11
    <2>2. CASE s = r /\ q = r
      BY <2>2, <1>11
    <2>3. CASE s = r /\ q # r
      <3>1. HasLock(r) \/ phase[r] \in Holding
        BY <2>3, <1>11 DEF Advances
      <3>2. q < r /\ SameTenant(q, r)
        BY <2>3, <1>11 DEF SameTenant
      <3>3. phase[q] \in Unreleased
        BY <1>5, <1>11
      <3> QED
        BY <3>1, <3>2, <3>3, HolderHasTurn
    <2> QED
      BY <2>1, <2>2, <2>3
  <1>12. Chained'
    <2> SUFFICES ASSUME NEW q \in Runs, NEW s \in Runs, q < s, SameTenant(q, s)',
                        phase'[q] \in Unreleased, phase'[s] = "waiting"
                 PROVE  previous'[s] # NoRun /\ q <= previous'[s] /\ phase'[previous'[s]] \in Unreleased
      BY DEF Chained
    <2>1. phase[s] = "waiting" /\ phase[q] \in Unreleased /\ SameTenant(q, s)
      BY <1>2, <1>3, <1>4, <1>5 DEF SameTenant, Advances
    <2>2. previous[s] # NoRun /\ q <= previous[s] /\ phase[previous[s]] \in Unreleased
      BY <2>1 DEF QueueInv, Chained
    <2>3. previous[s] \in Runs /\ tenantOf[previous[s]] = tenantOf[q]
      BY <2>1, <2>2 DEF QueueInv, Linked, SameTenant, TypeOK, RunTypes
    <2> QED
      BY <2>2, <2>3, <1>4, <1>11
  <1>13. Tailed'
    <2> SUFFICES ASSUME NEW q \in Runs, phase'[q] \in Unreleased
                 PROVE  LET tail == tenantLocks'[tenantOf'[q]]
                        IN  tail # NoRun /\ q <= tail /\ phase'[tail] \in Unreleased
      BY DEF Tailed
    <2> DEFINE t == tenantOf[q]
               tail == tenantLocks[t]
    <2>1. phase[q] \in Unreleased /\ t \in Tenants
      BY <1>5 DEF QueueInv, Numbered
    <2>2. tail # NoRun /\ q <= tail /\ phase[tail] \in Unreleased
      BY <2>1 DEF QueueInv, Tailed
    <2>3. t \notin gone
      <3>1. q \in Calls(t)
        BY <2>1 DEF Calls
      <3>2. Cardinality(Calls(t)) # 0
        BY <3>1, CallsFinite, FS_EmptySet
      <3> QED
        BY <3>2, <2>1, <1>8 DEF QueueInv, Counted
    <2>4. tenantLocks'[tenantOf'[q]] = tail
      BY <2>1, <2>3, <1>4, <1>9
    <2>5. tail \in Runs /\ tenantOf[tail] = t
      BY <2>1, <2>2 DEF QueueInv, Linked, TypeOK, LockTypes
    <2> QED
      BY <2>2, <2>4, <2>5, <1>11
  <1>14. HolderFirst'
    <2> SUFFICES ASSUME NEW q \in Runs, NEW s \in Runs, q < s, SameTenant(q, s)',
                        phase'[s] \in Holding, phase'[q] \in Unreleased
                 PROVE  FALSE
      BY DEF HolderFirst
    <2>1. SameTenant(q, s) /\ phase[q] \in Unreleased
      BY <1>4, <1>5 DEF SameTenant
    <2>2. HasLock(s) \/ phase[s] \in Holding
      BY <1>2, <1>3 DEF Advances
    <2> QED
      BY <2>1, <2>2, HolderHasTurn
  <1> QED
    BY <1>6, <1>7, <1>10, <1>12, <1>13, <1>14 DEF QueueInv

\* executeRun's finally: a released call is counted no more.
LEMMA ReturnKeepsQueue ==
  ASSUME TypeOK, QueueInv, NEW r \in Runs, Return(r)
  PROVE  QueueInv' /\ inFlightRunCount' \in [Tenants -> Nat]
  <1> USE DEF Holding, Unreleased, InFlight, Phases
  <1>1. /\ phase \in [Runs -> Phases] /\ tenantOf \in [Runs -> Tenants \cup {NoTenant}]
        /\ inFlightRunCount \in [Tenants -> Nat]
    BY DEF TypeOK, RunTypes, LockTypes
  <1>2. phase[r] = "released" /\ phase' = [phase EXCEPT ![r] = "returned"]
    BY DEF Return, MoveTo
  <1>3. UNCHANGED <<callVars, tenantLocks>>
    BY DEF Return
  <1>4. Numbered' /\ Linked' /\ Chained' /\ Tailed' /\ HolderFirst'
    <2>1. \A q \in Runs : /\ phase'[q] \in Unreleased <=> phase[q] \in Unreleased
                          /\ phase'[q] \in Holding <=> phase[q] \in Holding
                          /\ phase'[q] = "waiting" <=> phase[q] = "waiting"
                          /\ phase'[q] = "absent" <=> phase[q] = "absent"
      BY <1>1, <1>2
    <2>2. /\ nextRun' = nextRun /\ tenantOf' = tenantOf /\ previous' = previous
          /\ tenantLocks' = tenantLocks
      BY <1>3 DEF callVars
    <2>3. Numbered' /\ Linked'
      BY <2>1, <2>2 DEF QueueInv, Numbered, Linked
    <2>4. Chained'
      BY <2>1, <2>2 DEF QueueInv, Chained, SameTenant, TypeOK, RunTypes
    <2>5. Tailed'
      BY <2>1, <2>2 DEF QueueInv, Tailed, Numbered, TypeOK, LockTypes
    <2>6. HolderFirst'
      BY <2>1, <2>2 DEF QueueInv, HolderFirst, SameTenant
    <2> QED
      BY <2>3, <2>4, <2>5, <2>6
  <1>5. PICK t \in Tenants : t = tenantOf[r]
    BY <1>2 DEF QueueInv, Numbered
  <1>6. r \in Calls(t)
    BY <1>2, <1>5 DEF Calls
  <1>7. Calls(t)' = Calls(t) \ {r}
    BY <1>1, <1>2, <1>3, <1>5 DEF Calls, callVars
  <1>8. \A u \in Tenants : u # t => Calls(u)' = Calls(u)
    BY <1>1, <1>2, <1>3, <1>5 DEF Calls, callVars
  <1>9. Cardinality(Calls(t)) \in Nat /\ Cardinality(Calls(t)) # 0
    BY <1>6, CallsFinite, FS_EmptySet, FS_CardinalityType
  <1>10. Cardinality(Calls(t)') = Cardinality(Calls(t)) - 1
    BY <1>6, <1>7, CallsFinite, FS_RemoveElement
  <1>11. inFlightRunCount' = [inFlightRunCount EXCEPT ![t] = @ - 1]
    BY <1>5 DEF Return
  <1>12. inFlightRunCount[t] = Cardinality(Calls(t))
    BY <1>5 DEF QueueInv, Counted
  <1>13. Counted'
    <2> SUFFICES ASSUME NEW u \in Tenants
                 PROVE  inFlightRunCount'[u] = Cardinality(Calls(u)')
      BY DEF Counted
    <2>1. inFlightRunCount[u] = Cardinality(Calls(u))
      BY DEF QueueInv, Counted
    <2>2. CASE u = t
      BY <1>1, <1>10, <1>11, <1>12, <2>2
    <2>3. CASE u # t
      BY <1>1, <1>8, <1>11, <2>1, <2>3
    <2> QED
      BY <2>2, <2>3
  <1> QED
    BY <1>1, <1>4, <1>5, <1>9, <1>11, <1>12, <1>13 DEF QueueInv

\* A call of executeRun joins its tenant's chain, possibly as the caller of an
\* earlier call goes on.
LEMMA ExecuteRunKeepsQueue ==
  ASSUME TypeOK, QueueInv, NEW t \in Tenants, NEW kind \in {"event", "heartbeat"}, NEW ph,
         ph \in [Runs -> Phases],
         \A q \in Runs : ph[q] = phase[q] \/ (phase[q] = "returned" /\ ph[q] = "done"),
         ExecuteRun(t, kind, ph)
  PROVE  /\ QueueInv'
         /\ RunTypes'
         /\ tenantLocks' \in [Tenants -> Runs \cup {NoRun}]
         /\ inFlightRunCount' \in [Tenants -> Nat]
  <1> USE DEF Holding, Unreleased, InFlight, Phases
  <1> DEFINE n == nextRun
  <1>1. RunTypes /\ tenantLocks \in [Tenants -> Runs \cup {NoRun}] /\ inFlightRunCount \in [Tenants -> Nat]
    BY DEF TypeOK, LockTypes
  <1>2. n \in Runs /\ nextRun' = n + 1
    BY DEF ExecuteRun
  <1>3. /\ tenantOf' = [tenantOf EXCEPT ![n] = t]
        /\ via' = [via EXCEPT ![n] = kind]
        /\ phase' = [ph EXCEPT ![n] = "waiting"]
        /\ previous' = [previous EXCEPT ![n] = tenantLocks[t]]
        /\ tenantLocks' = [tenantLocks EXCEPT ![t] = n]
        /\ inFlightRunCount' = [inFlightRunCount EXCEPT ![t] = @ + 1]
    BY DEF ExecuteRun
  <1>4. RunTypes'
    <2>1. nextRun' \in 1..(MaxRuns + 1)
      BY <1>2, NumbersType
    <2>2. tenantOf' \in [Runs -> Tenants \cup {NoTenant}] /\ via' \in [Runs -> {"event", "heartbeat"}]
      BY <1>1, <1>3 DEF RunTypes
    <2>3. phase' \in [Runs -> Phases]
      BY <1>3
    <2>4. previous' \in [Runs -> Runs \cup {NoRun}]
      BY <1>1, <1>3 DEF RunTypes
    <2> QED
      BY <2>1, <2>2, <2>3, <2>4 DEF RunTypes
  <1>5. tenantLocks' \in [Tenants -> Runs \cup {NoRun}] /\ inFlightRunCount' \in [Tenants -> Nat]
    BY <1>1, <1>2, <1>3
  <1>6. phase[n] = "absent" /\ phase'[n] = "waiting" /\ tenantOf'[n] = t /\ previous'[n] = tenantLocks[t]
    BY <1>1, <1>2, <1>3 DEF QueueInv, Numbered, RunTypes
  <1>7. \A q \in Runs : q # n =>
          /\ phase'[q] = phase[q] \/ (phase[q] = "returned" /\ phase'[q] = "done")
          /\ tenantOf'[q] = tenantOf[q] /\ previous'[q] = previous[q]
    BY <1>1, <1>2, <1>3 DEF RunTypes
  <1>8. \A q \in Runs : phase[q] # "absent" <=> q < n
    BY <1>1, <1>2 DEF QueueInv, Numbered, RunTypes
  <1>9. Numbered'
    BY <1>2, <1>6, <1>7, <1>8 DEF QueueInv, Numbered
  <1>10. Counted'
    <2>1. n \notin Calls(t)
      BY <1>6 DEF Calls
    <2>2. Calls(t)' = Calls(t) \cup {n}
      BY <1>2, <1>6, <1>7 DEF Calls
    <2>3. \A u \in Tenants : u # t => Calls(u)' = Calls(u)
      BY <1>6, <1>7 DEF Calls
    <2>4. Cardinality(Calls(t)') = Cardinality(Calls(t)) + 1
      BY <2>1, <2>2, CallsFinite, FS_AddElement
    <2> SUFFICES ASSUME NEW u \in Tenants
                 PROVE  inFlightRunCount'[u] = Cardinality(Calls(u)')
      BY DEF Counted
    <2>5. inFlightRunCount[u] = Cardinality(Calls(u))
      BY DEF QueueInv, Counted
    <2>6. CASE u = t
      BY <1>1, <1>3, <2>4, <2>5, <2>6
    <2>7. CASE u # t
      BY <1>1, <1>3, <2>3, <2>5, <2>7
    <2> QED
      BY <2>6, <2>7
  <1>11. \A u \in Tenants : tenantLocks'[u] = IF u = t THEN n ELSE tenantLocks[u]
    BY <1>1, <1>3
  <1>12. tenantLocks[t] # NoRun => tenantLocks[t] \in Runs /\ tenantLocks[t] < n /\ tenantOf[tenantLocks[t]] = t
    BY <1>1 DEF QueueInv, Linked
  <1>13. Linked'
    <2>1. \A r \in Runs : previous'[r] # NoRun =>
            previous'[r] < nextRun' /\ tenantOf'[previous'[r]] = tenantOf'[r]
      <3> SUFFICES ASSUME NEW r \in Runs, previous'[r] # NoRun
                   PROVE  previous'[r] < n + 1 /\ tenantOf'[previous'[r]] = tenantOf'[r]
        BY <1>2
      <3>1. CASE r = n
        BY <3>1, <1>2, <1>6, <1>7, <1>12
      <3>2. CASE r # n
        <4>1. previous[r] \in Runs /\ previous[r] < n /\ tenantOf[previous[r]] = tenantOf[r]
          BY <3>2, <1>1, <1>7 DEF QueueInv, Linked, RunTypes
        <4> QED
          BY <3>2, <4>1, <1>2, <1>7
      <3> QED
        BY <3>1, <3>2
    <2>2. \A u \in Tenants : tenantLocks'[u] # NoRun =>
            tenantLocks'[u] < nextRun' /\ tenantOf'[tenantLocks'[u]] = u
      <3> SUFFICES ASSUME NEW u \in Tenants, tenantLocks'[u] # NoRun
                   PROVE  tenantLocks'[u] < n + 1 /\ tenantOf'[tenantLocks'[u]] = u
        BY <1>2
      <3>1. CASE u = t
        BY <3>1, <1>2, <1>6, <1>11
      <3>2. CASE u # t
        <4>1. tenantLocks[u] \in Runs /\ tenantLocks[u] < n /\ tenantOf[tenantLocks[u]] = u
          BY <3>2, <1>1, <1>11 DEF QueueInv, Linked
        <4> QED
          BY <3>2, <4>1, <1>2, <1>7, <1>11
      <3> QED
        BY <3>1, <3>2
    <2> QED
      BY <2>1, <2>2 DEF Linked
  \* Whatever was unreleased still is.
  <1>14. \A q \in Runs : phase[q] \in Unreleased => phase'[q] \in Unreleased /\ q < n
    BY <1>7, <1>8
  <1>15. \A q \in Runs : phase'[q] \in Unreleased => q = n \/ (q < n /\ phase[q] \in Unreleased)
    BY <1>7, <1>8
  <1>16. Chained'
    <2> SUFFICES ASSUME NEW q \in Runs, NEW r \in Runs, q < r, SameTenant(q, r)',
                        phase'[q] \in Unreleased, phase'[r] = "waiting"
                 PROVE  previous'[r] # NoRun /\ q <= previous'[r] /\ phase'[previous'[r]] \in Unreleased
      BY DEF Chained
    <2>1. r = n \/ r < n
      BY <1>15
    <2>2. q < n /\ phase[q] \in Unreleased
      BY <2>1, <1>2, <1>15
    <2>3. CASE r = n
      <3>1. tenantOf[q] = t
        BY <2>2, <2>3, <1>6, <1>7 DEF SameTenant
      <3>2. tenantLocks[t] # NoRun /\ q <= tenantLocks[t] /\ phase[tenantLocks[t]] \in Unreleased
        BY <2>2, <3>1 DEF QueueInv, Tailed
      <3> QED
        BY <2>3, <3>2, <1>6, <1>12, <1>14
    <2>4. CASE r # n
      <3>1. SameTenant(q, r) /\ phase[r] = "waiting"
        BY <2>2, <2>4, <1>7 DEF SameTenant
      <3>2. previous[r] # NoRun /\ q <= previous[r] /\ phase[previous[r]] \in Unreleased
        BY <2>2, <3>1 DEF QueueInv, Chained
      <3>3. previous[r] \in Runs
        BY <3>2, <1>1 DEF RunTypes
      <3> QED
        BY <2>4, <3>2, <3>3, <1>7, <1>14
    <2> QED
      BY <2>3, <2>4
  <1>17. Tailed'
    <2> SUFFICES ASSUME NEW q \in Runs, phase'[q] \in Unreleased
                 PROVE  LET tail == tenantLocks'[tenantOf'[q]]
                        IN  tail # NoRun /\ q <= tail /\ phase'[tail] \in Unreleased
      BY DEF Tailed
    <2>1. tenantOf'[q] \in Tenants
      BY <1>9 DEF Numbered
    <2>2. CASE tenantOf'[q] = t
      <3>1. tenantLocks'[tenantOf'[q]] = n
        BY <2>2, <1>11
      <3> QED
        BY <3>1, <1>2, <1>6, <1>15
    <2>3. CASE tenantOf'[q] # t
      <3>1. q # n /\ q < n /\ phase[q] \in Unreleased /\ tenantOf'[q] = tenantOf[q]
        BY <2>3, <1>6, <1>7, <1>15
      <3> DEFINE tail == tenantLocks[tenantOf[q]]
      <3>2. tail # NoRun /\ q <= tail /\ phase[tail] \in Unreleased
        BY <3>1 DEF QueueInv, Tailed
      <3>3. tail \in Runs
        BY <3>1, <3>2, <2>1, <1>1
      <3>4. tenantLocks'[tenantOf'[q]] = tail
        BY <2>1, <2>3, <3>1, <1>11
      <3> QED
        BY <3>2, <3>3, <3>4, <1>14
    <2> QED
      BY <2>2, <2>3
  <1>18. HolderFirst'
    <2> SUFFICES ASSUME NEW q \in Runs, NEW r \in Runs, q < r, SameTenant(q, r)',
                        phase'[r] \in Holding, phase'[q] \in Unreleased
                 PROVE  FALSE
      BY DEF HolderFirst
    <2>1. r # n /\ r < n
      BY <1>6, <1>15
    <2>2. SameTenant(q, r) /\ phase[r] \in Holding /\ phase[q] \in Unreleased
      BY <2>1, <1>2, <1>7, <1>15 DEF SameTenant
    <2> QED
      BY <2>2 DEF QueueInv, HolderFirst
  <1> QED
    BY <1>4, <1>5, <1>9, <1>10, <1>13, <1>16, <1>17, <1>18 DEF QueueInv
-----------------------------------------------------------------------------
(* Types of the helpers *)

LEMMA WithoutType ==
  ASSUME NEW S, NEW map \in [Tenants -> S], NEW gone, NEW d \in S
  PROVE  Without(map, gone, d) \in [Tenants -> S]
  BY DEF Without

LEMMA IdleTenantsAreIdle ==
  \A t : IdleTenants(t) \in SUBSET Tenants /\ \A u \in IdleTenants(t) : inFlightRunCount[u] = 0
  BY DEF IdleTenants

LEMMA VisitType ==
  ASSUME TypeOK, NEW t \in Tenants, NEW gone, Visit(t, gone)
  PROVE  /\ tenantLocks' \in [Tenants -> Runs \cup {NoRun}]
         /\ tenantLastActivityAt' \in [Tenants -> Time \cup {Never}]
  BY WithoutType DEF TypeOK, RuntimeTypes, LockTypes, Visit

LEMMA KeepBudgetsType ==
  ASSUME TypeOK, NEW gone, KeepBudgets(gone)
  PROVE  /\ runTimestamps' \in [Tenants -> SUBSET Runs]
         /\ tokenTimestamps' \in [Tenants -> SUBSET Runs]
         /\ charge' \in [Runs -> Nat]
  BY WithoutType DEF TypeOK, LimitTypes, KeepBudgets

LEMMA PruneBudgetType ==
  ASSUME TypeOK, NEW t \in Tenants, NEW gone, PruneBudget(t, gone)
  PROVE  /\ runTimestamps' \in [Tenants -> SUBSET Runs]
         /\ tokenTimestamps' \in [Tenants -> SUBSET Runs]
  <1>1. /\ Without(runTimestamps, gone, {}) \in [Tenants -> SUBSET Runs]
        /\ Without(tokenTimestamps, gone, {}) \in [Tenants -> SUBSET Runs]
    BY WithoutType DEF TypeOK, LimitTypes
  <1>2. \A runs \in SUBSET Runs : \A at, window : Recent(runs, at, window) \in SUBSET Runs
    BY DEF Recent
  <1> QED
    BY <1>1, <1>2 DEF PruneBudget

LEMMA RecordRunType ==
  ASSUME TypeOK, NEW r \in Runs, NEW n \in Nat, NEW gone, RecordRun(r, n, gone)
  PROVE  /\ runTimestamps' \in [Tenants -> SUBSET Runs]
         /\ tokenTimestamps' \in [Tenants -> SUBSET Runs]
         /\ charge' \in [Runs -> Nat]
  <1>1. CASE tenantOf[r] \in Budgeted
    <2>1. /\ Without(runTimestamps, gone, {}) \in [Tenants -> SUBSET Runs]
          /\ Without(tokenTimestamps, gone, {}) \in [Tenants -> SUBSET Runs]
      BY WithoutType DEF TypeOK, LimitTypes
    <2>2. \A runs \in SUBSET Runs : \A at, window : Recent(runs, at, window) \in SUBSET Runs
      BY DEF Recent
    <2>3. charge' \in [Runs -> Nat]
      BY <1>1 DEF RecordRun, TypeOK, LimitTypes
    <2> QED
      BY <1>1, <2>1, <2>2, <2>3 DEF RecordRun
  <1>2. CASE tenantOf[r] \notin Budgeted
    BY <1>2, KeepBudgetsType DEF RecordRun
  <1> QED
    BY <1>1, <1>2

LEMMA BreakerTypes ==
  ASSUME TypeOK, NEW r \in Runs, tenantOf[r] \in Tenants, NEW gone,
         KeepBreakers(gone) \/ RecordFailure(r, gone) \/ RecordSuccess(r, gone)
  PROVE  /\ consecutiveFailures' \in [Tenants -> Nat]
         /\ circuitOpenedAt' \in [Tenants -> Time \cup {Never}]
  <1>1. /\ Without(consecutiveFailures, gone, 0) \in [Tenants -> Nat]
        /\ Without(circuitOpenedAt, gone, Never) \in [Tenants -> Time \cup {Never}]
    BY WithoutType DEF TypeOK, LimitTypes
  <1>2. consecutiveFailures[tenantOf[r]] + 1 \in Nat /\ startedAt[r] \in Time \cup {Never}
    BY DEF TypeOK, LimitTypes, WorkTypes
  <1>3. CASE KeepBreakers(gone)
    BY <1>1, <1>3 DEF KeepBreakers
  <1>4. CASE RecordFailure(r, gone)
    BY <1>1, <1>2, <1>4 DEF RecordFailure
  <1>5. CASE RecordSuccess(r, gone)
    BY <1>1, <1>5 DEF RecordSuccess
  <1> QED
    BY <1>3, <1>4, <1>5

\* A step that lets r advance, typed.
LEMMA AdvanceKeeps ==
  ASSUME TypeOK, QueueInv, NEW r \in Runs, NEW p, Advances(r, p)
  PROVE  QueueInv' /\ RunTypes' /\ inFlightRunCount' \in [Tenants -> Nat]
  <1>1. QueueInv'
    BY AdvanceKeepsQueue
  <1>2. p \in Phases
    BY DEF Advances, Phases, InFlight, Unreleased, Holding
  <1>3. RunTypes'
    BY <1>2 DEF TypeOK, RunTypes, Advances, callVars
  <1>4. inFlightRunCount' \in [Tenants -> Nat]
    BY DEF TypeOK, LockTypes, Advances
  <1> QED
    BY <1>1, <1>3, <1>4

LEMMA VisitEvicts ==
  ASSUME NEW t, NEW gone, gone = IdleTenants(t) \/ gone = {}, Visit(t, gone)
  PROVE  \E g \in SUBSET Tenants : /\ \A u \in g : inFlightRunCount[u] = 0
                                   /\ tenantLocks' = Without(tenantLocks, g, NoRun)
  BY IdleTenantsAreIdle DEF Visit

LEMMA NobodyEvicted ==
  ASSUME TypeOK, UNCHANGED tenantLocks
  PROVE  \E g \in SUBSET Tenants : /\ \A u \in g : inFlightRunCount[u] = 0
                                   /\ tenantLocks' = Without(tenantLocks, g, NoRun)
  <1>1. tenantLocks' = Without(tenantLocks, {}, NoRun)
    BY DEF TypeOK, LockTypes, Without
  <1> QED
    BY <1>1
-----------------------------------------------------------------------------
(* One lemma per action: it preserves the types and the queue. *)

LEMMA OwnerType ==
  ASSUME QueueInv, NEW r \in Runs, phase[r] # "absent"
  PROVE  tenantOf[r] \in Tenants
  BY DEF QueueInv, Numbered

LEMMA BlockedByKillSwitchStep ==
  ASSUME TypeOK, QueueInv, NEW r \in Runs, BlockedByKillSwitch(r)
  PROVE  TypeOK' /\ QueueInv'
  <1>1. Advances(r, "released")
    BY NobodyEvicted DEF BlockedByKillSwitch, Block, MoveTo, Advances
  <1>2. tenantOf[r] \in Tenants
    BY OwnerType DEF BlockedByKillSwitch, HasLock
  <1>3. RuntimeTypes'
    BY DEF BlockedByKillSwitch, Block, runtimeVars, TypeOK, RuntimeTypes
  <1>4. LockTypes'
    BY <1>1, <1>2, AdvanceKeeps DEF BlockedByKillSwitch, TouchTenant, TypeOK, RuntimeTypes, LockTypes
  <1>5. LimitTypes'
    BY DEF BlockedByKillSwitch, Block, TypeOK, LimitTypes
  <1>6. WorkTypes'
    BY DEF BlockedByKillSwitch, Block, TypeOK, WorkTypes, Verdicts
  <1> QED
    BY <1>1, <1>3, <1>4, <1>5, <1>6, AdvanceKeeps DEF TypeOK

LEMMA BlockedByLimitStep ==
  ASSUME TypeOK, QueueInv, NEW r \in Runs, BlockedByLimit(r)
  PROVE  TypeOK' /\ QueueInv'
  <1> DEFINE t == tenantOf[r]
             gone == IdleTenants(t)
  <1>1. Visit(t, gone) /\ PruneBudget(t, gone) /\ KeepBreakers(gone) /\ HasLock(r)
    BY DEF BlockedByLimit
  <1>2. PICK why \in {"budget", "circuit"} : Block(r, why)
    BY DEF BlockedByLimit
  <1>3. t \in Tenants
    BY <1>1, OwnerType DEF HasLock
  <1>4. Advances(r, "released")
    BY <1>1, <1>2, VisitEvicts DEF Block, MoveTo, Advances
  <1>5. RuntimeTypes'
    BY <1>2 DEF Block, runtimeVars, TypeOK, RuntimeTypes
  <1>6. LockTypes'
    BY <1>1, <1>3, <1>4, AdvanceKeeps, VisitType DEF LockTypes
  <1>7. charge' = charge
    BY <1>2 DEF Block
  <1>8. LimitTypes'
    BY <1>1, <1>3, <1>7, PruneBudgetType, BreakerTypes DEF TypeOK, LimitTypes
  <1>9. WorkTypes'
    BY <1>2 DEF Block, TypeOK, WorkTypes, Verdicts
  <1> QED
    BY <1>4, <1>5, <1>6, <1>8, <1>9, AdvanceKeeps DEF TypeOK

LEMMA StartRunStep ==
  ASSUME TypeOK, QueueInv, NEW r \in Runs, StartRun(r)
  PROVE  TypeOK' /\ QueueInv'
  <1> DEFINE t == tenantOf[r]
             gone == IF t \in Budgeted \cup Breakers THEN IdleTenants(t) ELSE {}
  <1>1. Visit(t, gone) /\ PruneBudget(t, gone) /\ HasLock(r)
    BY DEF StartRun
  <1>2. t \in Tenants
    BY <1>1, OwnerType DEF HasLock
  <1>3. UNCHANGED <<verdict, charge, inFlightRunCount, callVars, runtimeVars, killSwitch, now>>
    BY DEF StartRun
  <1>4. Advances(r, "running")
    BY <1>1, <1>3, VisitEvicts DEF StartRun, MoveTo, Advances
  <1>5. RuntimeTypes'
    BY <1>3 DEF runtimeVars, TypeOK, RuntimeTypes
  <1>6. LockTypes'
    BY <1>1, <1>2, <1>4, AdvanceKeeps, VisitType DEF LockTypes
  <1>7. /\ consecutiveFailures' \in [Tenants -> Nat]
        /\ circuitOpenedAt' \in [Tenants -> Time \cup {Never}]
    <2>1. /\ Without(consecutiveFailures, gone, 0) \in [Tenants -> Nat]
          /\ Without(circuitOpenedAt, gone, Never) \in [Tenants -> Time \cup {Never}]
      BY WithoutType DEF TypeOK, LimitTypes
    <2> QED
      BY <2>1 DEF StartRun
  <1>8. LimitTypes'
    BY <1>1, <1>2, <1>3, <1>7, PruneBudgetType DEF TypeOK, LimitTypes
  <1>9. WorkTypes'
    BY <1>3 DEF StartRun, TypeOK, WorkTypes, RuntimeTypes
  <1> QED
    BY <1>4, <1>5, <1>6, <1>8, <1>9, AdvanceKeeps DEF TypeOK

LEMMA RunCompletesStep ==
  ASSUME TypeOK, QueueInv, NEW r \in Runs, NEW ok \in BOOLEAN, NEW n \in Nat,
         RunCompletes(r, ok, n)
  PROVE  TypeOK' /\ QueueInv'
  <1> DEFINE t == tenantOf[r]
             gone == IdleTenants(t)
  <1>1. /\ phase[r] = "running" /\ Visit(t, gone) /\ RecordRun(r, n, gone)
        /\ RecordSuccess(r, gone) \/ RecordFailure(r, gone)
        /\ MoveTo(r, "released") /\ Frame(r)
    BY DEF RunCompletes
  <1>2. t \in Tenants
    BY <1>1, OwnerType
  <1>3. Advances(r, "released")
    BY <1>1, VisitEvicts DEF MoveTo, Frame, Advances, Holding
  <1>4. RuntimeTypes'
    BY <1>1 DEF Frame, runtimeVars, TypeOK, RuntimeTypes
  <1>5. LockTypes'
    BY <1>1, <1>2, <1>3, AdvanceKeeps, VisitType DEF LockTypes
  <1>6. LimitTypes'
    BY <1>1, <1>2, RecordRunType, BreakerTypes DEF LimitTypes
  <1>7. WorkTypes'
    BY <1>1 DEF RunCompletes, Frame, TypeOK, WorkTypes, Verdicts
  <1> QED
    BY <1>3, <1>4, <1>5, <1>6, <1>7, AdvanceKeeps DEF TypeOK

LEMMA RunTimesOutStep ==
  ASSUME TypeOK, QueueInv, NEW r \in Runs, RunTimesOut(r)
  PROVE  TypeOK' /\ QueueInv'
  <1> DEFINE t == tenantOf[r]
             gone == IdleTenants(t)
  <1>1. /\ phase[r] = "running" /\ Visit(t, gone) /\ RecordFailure(r, gone)
        /\ KeepBudgets(gone) /\ MoveTo(r, "grace") /\ Frame(r)
    BY DEF RunTimesOut
  <1>2. t \in Tenants
    BY <1>1, OwnerType
  <1>3. Advances(r, "grace")
    BY <1>1, VisitEvicts DEF MoveTo, Frame, Advances, Holding
  <1>4. RuntimeTypes'
    BY <1>1 DEF Frame, runtimeVars, TypeOK, RuntimeTypes
  <1>5. LockTypes'
    BY <1>1, <1>2, <1>3, AdvanceKeeps, VisitType DEF LockTypes
  <1>6. LimitTypes'
    BY <1>1, <1>2, KeepBudgetsType, BreakerTypes DEF LimitTypes
  <1>7. WorkTypes'
    BY <1>1 DEF RunTimesOut, Frame, TypeOK, WorkTypes, Verdicts
  <1> QED
    BY <1>3, <1>4, <1>5, <1>6, <1>7, AdvanceKeeps DEF TypeOK

\* The two ends of the grace period.
LEMMA GraceEndsStep ==
  ASSUME TypeOK, QueueInv, NEW r \in Runs, NEW n \in Nat, NEW p \in {"hold", "released"},
         phase[r] = "grace", ChargeAfterTimeout(r, n), MoveTo(r, p),
         provider' \in [Runs -> {"none", "pending", "abandoned", "settled"}]
  PROVE  TypeOK' /\ QueueInv'
  <1> DEFINE t == tenantOf[r]
             gone == IF t \in Budgeted THEN IdleTenants(t) ELSE {}
  <1>1. /\ Visit(t, gone) \/ UNCHANGED <<tenantLocks, tenantLastActivityAt>>
        /\ RecordRun(r, n, gone) /\ KeepBreakers(gone) /\ UNCHANGED verdict /\ Frame(r)
    BY DEF ChargeAfterTimeout
  <1>2. t \in Tenants
    BY OwnerType
  <1>3. \E g \in SUBSET Tenants : /\ \A u \in g : inFlightRunCount[u] = 0
                                  /\ tenantLocks' = Without(tenantLocks, g, NoRun)
    <2>1. CASE Visit(t, gone)
      BY <2>1, VisitEvicts
    <2>2. CASE UNCHANGED <<tenantLocks, tenantLastActivityAt>>
      BY <2>2, NobodyEvicted
    <2> QED
      BY <1>1, <2>1, <2>2
  <1>4. Advances(r, p)
    BY <1>1, <1>3 DEF MoveTo, Frame, Advances, Holding
  <1>5. RuntimeTypes'
    BY <1>1 DEF Frame, runtimeVars, TypeOK, RuntimeTypes
  <1>6. tenantLocks' \in [Tenants -> Runs \cup {NoRun}] /\ tenantLastActivityAt' \in [Tenants -> Time \cup {Never}]
    <2>1. CASE Visit(t, gone)
      BY <1>2, <2>1, VisitType
    <2>2. CASE UNCHANGED <<tenantLocks, tenantLastActivityAt>>
      BY <2>2 DEF TypeOK, LockTypes
    <2> QED
      BY <1>1, <2>1, <2>2
  <1>7. LockTypes'
    BY <1>4, <1>6, AdvanceKeeps DEF LockTypes
  <1>8. LimitTypes'
    BY <1>1, <1>2, RecordRunType, BreakerTypes DEF LimitTypes
  <1>9. WorkTypes'
    BY <1>1 DEF Frame, TypeOK, WorkTypes
  <1> QED
    BY <1>4, <1>5, <1>7, <1>8, <1>9, AdvanceKeeps DEF TypeOK

LEMMA LeaveHoldStep ==
  ASSUME TypeOK, QueueInv, NEW r \in Runs, NEW p \in {"settled", "abandoned"}, LeaveHold(r, p)
  PROVE  TypeOK' /\ QueueInv'
  <1>1. Advances(r, "released")
    BY NobodyEvicted DEF LeaveHold, MoveTo, Advances, Holding, lockVars
  <1>2. RuntimeTypes' /\ LockTypes'
    BY DEF LeaveHold, runtimeVars, lockVars, TypeOK, RuntimeTypes, LockTypes
  <1>3. LimitTypes'
    BY DEF LeaveHold, limitVars, TypeOK, LimitTypes
  <1>4. WorkTypes'
    BY DEF LeaveHold, TypeOK, WorkTypes
  <1> QED
    BY <1>1, <1>2, <1>3, <1>4, AdvanceKeeps DEF TypeOK

\* A step that leaves the calls and the chains alone.
LEMMA QueueUntouched ==
  ASSUME TypeOK, QueueInv, UNCHANGED <<phase, callVars, tenantLocks, inFlightRunCount>>
  PROVE  QueueInv' /\ RunTypes'
  <1>1. RunTypes'
    BY DEF TypeOK, RunTypes, callVars
  <1>2. \A t : Calls(t)' = Calls(t)
    BY DEF Calls, callVars
  <1>3. Numbered' /\ Counted' /\ Linked'
    BY <1>2 DEF QueueInv, Numbered, Counted, Linked, callVars
  <1>4. Chained' /\ Tailed' /\ HolderFirst'
    BY DEF QueueInv, Chained, Tailed, HolderFirst, SameTenant, callVars
  <1> QED
    BY <1>1, <1>3, <1>4 DEF QueueInv

LEMMA ReturnStep ==
  ASSUME TypeOK, QueueInv, NEW r \in Runs, Return(r)
  PROVE  TypeOK' /\ QueueInv'
  <1>1. RuntimeTypes' /\ LimitTypes' /\ WorkTypes'
    BY DEF Return, runtimeVars, limitVars, workVars, TypeOK, RuntimeTypes, LimitTypes, WorkTypes
  <1>2. LockTypes'
    BY ReturnKeepsQueue DEF Return, TypeOK, LockTypes
  <1>3. RunTypes'
    BY DEF Return, MoveTo, callVars, TypeOK, RunTypes, Phases
  <1> QED
    BY <1>1, <1>2, <1>3, ReturnKeepsQueue DEF TypeOK

LEMMA HeartbeatRunSettlesStep ==
  ASSUME TypeOK, QueueInv, NEW r \in Runs, HeartbeatRunSettles(r)
  PROVE  TypeOK' /\ QueueInv'
  <1>1. Advances(r, "done")
    BY NobodyEvicted DEF HeartbeatRunSettles, MoveTo, Advances, lockVars
  <1>2. RuntimeTypes'
    BY DEF HeartbeatRunSettles, TypeOK, RuntimeTypes
  <1>3. LockTypes' /\ LimitTypes' /\ WorkTypes'
    BY DEF HeartbeatRunSettles, lockVars, limitVars, workVars, TypeOK, LockTypes, LimitTypes, WorkTypes
  <1> QED
    BY <1>1, <1>2, <1>3, AdvanceKeeps DEF TypeOK

LEMMA ProviderSettlesLateStep ==
  ASSUME TypeOK, QueueInv, NEW r \in Runs, ProviderSettlesLate(r)
  PROVE  TypeOK' /\ QueueInv'
  <1>1. QueueInv' /\ RunTypes'
    BY QueueUntouched DEF ProviderSettlesLate, lockVars
  <1>2. RuntimeTypes' /\ LockTypes' /\ LimitTypes'
    BY DEF ProviderSettlesLate, runtimeVars, lockVars, limitVars, TypeOK, RuntimeTypes, LockTypes, LimitTypes
  <1>3. WorkTypes'
    BY DEF ProviderSettlesLate, TypeOK, WorkTypes
  <1> QED
    BY <1>1, <1>2, <1>3 DEF TypeOK

LEMMA TouchType ==
  ASSUME TypeOK, NEW t \in Tenants, TouchTenant(t)
  PROVE  tenantLastActivityAt' \in [Tenants -> Time \cup {Never}]
  BY DEF TypeOK, RuntimeTypes, LockTypes, TouchTenant

LEMMA ScheduleRunStep ==
  ASSUME TypeOK, QueueInv, NEW t \in Tenants, ScheduleRun(t)
  PROVE  TypeOK' /\ QueueInv'
  <1>1. phase \in [Runs -> Phases] /\ ExecuteRun(t, "heartbeat", phase)
    BY DEF ScheduleRun, TypeOK, RunTypes
  <1>2. /\ QueueInv' /\ RunTypes' /\ tenantLocks' \in [Tenants -> Runs \cup {NoRun}]
        /\ inFlightRunCount' \in [Tenants -> Nat]
    BY <1>1, ExecuteRunKeepsQueue
  <1>3. RuntimeTypes'
    BY DEF ScheduleRun, TypeOK, RuntimeTypes
  <1>4. LockTypes'
    BY <1>2, TouchType DEF ScheduleRun, LockTypes
  <1>5. LimitTypes' /\ WorkTypes'
    BY DEF ScheduleRun, limitVars, workVars, TypeOK, LimitTypes, WorkTypes
  <1> QED
    BY <1>2, <1>3, <1>4, <1>5 DEF TypeOK

LEMMA EmitEventStep ==
  ASSUME TypeOK, QueueInv, NEW t \in Tenants, EmitEvent(t)
  PROVE  TypeOK' /\ QueueInv'
  <1>1. eventQueue \in Seq(Tenants)
    BY DEF TypeOK, RuntimeTypes
  <1>2. Enqueued(t) \in Seq(Tenants) /\ Len(Enqueued(t)) \in 1..MaxEventQueueSize
    BY <1>1, EnqueuedType
  <1>3. LimitTypes' /\ WorkTypes'
    BY DEF EmitEvent, limitVars, workVars, TypeOK, LimitTypes, WorkTypes
  <1>4. tenantLastActivityAt' \in [Tenants -> Time \cup {Never}]
    BY TouchType DEF EmitEvent
  <1>5. CASE processingEvents
    <2>1. UNCHANGED <<phase, callVars, tenantLocks, inFlightRunCount>>
      BY <1>5 DEF EmitEvent
    <2>2. LockTypes'
      BY <1>4, <2>1 DEF TypeOK, LockTypes
    <2>3. eventQueue' \in Seq(Tenants) /\ Len(eventQueue') <= MaxEventQueueSize
      BY <1>2, <1>5, NumbersType DEF EmitEvent
    <2>4. RuntimeTypes'
      BY <2>3, <1>5 DEF EmitEvent, TypeOK, RuntimeTypes
    <2> QED
      BY <1>3, <2>1, <2>2, <2>4, QueueUntouched DEF TypeOK
  <1>6. CASE ~processingEvents
    <2> DEFINE u == Head(Enqueued(t))
    <2>1. u \in Tenants /\ Tail(Enqueued(t)) \in Seq(Tenants) /\ Len(Tail(Enqueued(t))) <= MaxEventQueueSize
      BY <1>2, NumbersType
    <2>2. phase \in [Runs -> Phases] /\ ExecuteRun(u, "event", phase)
      BY <1>6 DEF EmitEvent, TypeOK, RunTypes
    <2>3. /\ QueueInv' /\ RunTypes' /\ tenantLocks' \in [Tenants -> Runs \cup {NoRun}]
          /\ inFlightRunCount' \in [Tenants -> Nat]
      BY <2>1, <2>2, ExecuteRunKeepsQueue
    <2>4. RuntimeTypes'
      BY <1>6, <2>1 DEF EmitEvent, TypeOK, RuntimeTypes
    <2> QED
      BY <1>3, <1>4, <2>3, <2>4 DEF TypeOK, LockTypes
  <1> QED
    BY <1>5, <1>6 DEF TypeOK, RuntimeTypes

LEMMA ProcessNextEventStep ==
  ASSUME TypeOK, QueueInv, NEW r \in Runs, ProcessNextEvent(r)
  PROVE  TypeOK' /\ QueueInv'
  <1>1. LimitTypes' /\ WorkTypes'
    BY DEF ProcessNextEvent, limitVars, workVars, TypeOK, LimitTypes, WorkTypes
  <1>2. eventQueue \in Seq(Tenants) /\ Len(eventQueue) <= MaxEventQueueSize
    BY DEF TypeOK, RuntimeTypes
  <1>3. CASE MoreEvents
    <2> DEFINE ph == [phase EXCEPT ![r] = "done"]
               t == Head(eventQueue)
    <2>1. t \in Tenants /\ Tail(eventQueue) \in Seq(Tenants) /\ Len(Tail(eventQueue)) <= MaxEventQueueSize
      BY <1>2, <1>3, NumbersType DEF MoreEvents
    <2>2. /\ ph \in [Runs -> Phases]
          /\ \A q \in Runs : ph[q] = phase[q] \/ (phase[q] = "returned" /\ ph[q] = "done")
      BY DEF ProcessNextEvent, TypeOK, RunTypes, Phases
    <2>3. ExecuteRun(t, "event", ph)
      BY <1>3 DEF ProcessNextEvent
    <2>4. /\ QueueInv' /\ RunTypes' /\ tenantLocks' \in [Tenants -> Runs \cup {NoRun}]
          /\ inFlightRunCount' \in [Tenants -> Nat]
      <3> HIDE DEF ph, t
      <3> QED
        BY <2>1, <2>2, <2>3, ExecuteRunKeepsQueue
    <2>5. RuntimeTypes'
      BY <1>3, <2>1 DEF ProcessNextEvent, TypeOK, RuntimeTypes
    <2>6. LockTypes'
      BY <2>4 DEF ProcessNextEvent, TypeOK, LockTypes
    <2> QED
      BY <1>1, <2>4, <2>5, <2>6 DEF TypeOK
  <1>4. CASE ~MoreEvents
    <2>1. Advances(r, "done")
      BY <1>4, NobodyEvicted DEF ProcessNextEvent, MoveTo, Advances
    <2>2. eventQueue' \in Seq(Tenants) /\ Len(eventQueue') <= MaxEventQueueSize
      <3>1. eventQueue' = eventQueue \/ eventQueue' = <<>>
        BY <1>4 DEF ProcessNextEvent
      <3>2. CASE eventQueue' = eventQueue
        BY <1>2, <3>2
      <3>3. CASE eventQueue' = <<>>
        BY <3>3, NumbersType
      <3> QED
        BY <3>1, <3>2, <3>3
    <2>3. RuntimeTypes'
      BY <1>4, <2>2 DEF ProcessNextEvent, TypeOK, RuntimeTypes
    <2>4. LockTypes'
      BY <1>4 DEF ProcessNextEvent, TypeOK, LockTypes
    <2> QED
      BY <1>1, <2>1, <2>3, <2>4, AdvanceKeeps DEF TypeOK
  <1> QED
    BY <1>3, <1>4

LEMMA ControlStep ==
  ASSUME TypeOK, QueueInv, Control
  PROVE  TypeOK' /\ QueueInv'
  <1>1. UNCHANGED <<lockVars, limitVars, callVars, phase, workVars>>
    BY DEF Control, Start, Stop, ToggleKillSwitch, Tick
  <1>2. QueueInv' /\ RunTypes'
    BY <1>1, QueueUntouched DEF lockVars
  <1>3. LockTypes' /\ LimitTypes' /\ WorkTypes'
    BY <1>1 DEF lockVars, limitVars, workVars, TypeOK, LockTypes, LimitTypes, WorkTypes
  <1>4. ASSUME NEW t \in HeartbeatTenants, Start(t) PROVE RuntimeTypes'
    BY <1>4, TenantsAssumption DEF Start, TypeOK, RuntimeTypes
  <1>5. ASSUME Stop PROVE RuntimeTypes'
    <2>1. eventQueue' \in Seq(Tenants) /\ Len(eventQueue') <= MaxEventQueueSize
      <3>1. eventQueue' = <<>>
        BY <1>5 DEF Stop
      <3> QED
        BY <3>1, NumbersType
    <2> QED
      BY <1>5, <2>1 DEF Stop, TypeOK, RuntimeTypes
  <1>6. ASSUME ToggleKillSwitch PROVE RuntimeTypes'
    BY <1>6 DEF ToggleKillSwitch, runtimeVars, TypeOK, RuntimeTypes
  <1>7. ASSUME Tick PROVE RuntimeTypes'
    BY <1>7, NumbersType DEF Tick, runtimeVars, TypeOK, RuntimeTypes
  <1> QED
    BY <1>2, <1>3, <1>4, <1>5, <1>6, <1>7 DEF Control, TypeOK
-----------------------------------------------------------------------------
(* The theorems *)

Inv == TypeOK /\ QueueInv

LEMMA InitInv == Init => Inv
  <1> SUFFICES ASSUME Init PROVE Inv
    OBVIOUS
  <1>1. TypeOK
    BY InitTypeOK
  <1>2. \A r \in Runs : phase[r] = "absent" /\ previous[r] = NoRun
    BY DEF Init
  <1>3. Numbered /\ Linked
    BY <1>2, NumbersType DEF Init, Numbered, Linked
  <1>4. Chained /\ Tailed /\ HolderFirst
    BY <1>2 DEF Chained, Tailed, HolderFirst, Unreleased, Holding
  <1>5. \A t : Calls(t) = {}
    BY <1>2 DEF Calls, InFlight, Unreleased, Holding
  <1>6. Counted
    BY <1>5, FS_EmptySet DEF Init, Counted
  <1> QED
    BY <1>1, <1>3, <1>4, <1>6 DEF Inv, QueueInv

LEMMA NextInv == Inv /\ [Next]_vars => Inv'
  <1> SUFFICES ASSUME Inv, [Next]_vars PROVE Inv'
    OBVIOUS
  <1> USE DEF Inv
  <1>1. CASE Request
    BY <1>1, EmitEventStep, ScheduleRunStep DEF Request
  <1>2. CASE Control
    BY <1>2, ControlStep
  <1>3. ASSUME NEW r \in Runs, Admit(r) PROVE Inv'
    BY <1>3, BlockedByKillSwitchStep, BlockedByLimitStep, StartRunStep DEF Admit
  <1>4. ASSUME NEW r \in Runs, Timer(r) PROVE Inv'
    <2>1. CASE RunTimesOut(r)
      BY <2>1, RunTimesOutStep
    <2>2. CASE GraceExpires(r)
      <3>1. provider' \in [Runs -> {"none", "pending", "abandoned", "settled"}]
        BY <2>2 DEF GraceExpires, TypeOK, WorkTypes
      <3> QED
        BY <2>2, <3>1, NumbersType, GraceEndsStep DEF GraceExpires
    <2>3. CASE MaxHoldExpires(r)
      BY <2>3, LeaveHoldStep DEF MaxHoldExpires
    <2> QED
      BY <1>4, <2>1, <2>2, <2>3 DEF Timer
  <1>5. ASSUME NEW r \in Runs, Provider(r) PROVE Inv'
    <2>1. CASE RunRejects(r)
      BY <2>1, RunCompletesStep DEF RunRejects
    <2>2. ASSUME NEW n \in TokenCounts, NEW ok \in BOOLEAN, RunCompletes(r, ok, n) PROVE Inv'
      BY <2>2, NumbersType, RunCompletesStep
    <2>3. ASSUME NEW n \in TokenCounts, ProviderSettlesInGrace(r, n) PROVE Inv'
      <3>1. n \in Nat
        BY NumbersType
      <3>2. provider' \in [Runs -> {"none", "pending", "abandoned", "settled"}]
        BY <2>3 DEF ProviderSettlesInGrace, TypeOK, WorkTypes
      <3> QED
        BY <2>3, <3>1, <3>2, GraceEndsStep DEF ProviderSettlesInGrace
    <2>4. CASE ProviderSettlesInHold(r)
      BY <2>4, LeaveHoldStep DEF ProviderSettlesInHold
    <2>5. CASE ProviderSettlesLate(r)
      BY <2>5, ProviderSettlesLateStep
    <2> QED
      BY <1>5, <2>1, <2>2, <2>3, <2>4, <2>5 DEF Provider
  <1>6. ASSUME NEW r \in Runs, Finish(r) PROVE Inv'
    BY <1>6, ReturnStep, ProcessNextEventStep, HeartbeatRunSettlesStep DEF Finish
  <1>7. CASE UNCHANGED vars
    <2>1. UNCHANGED <<heartbeat, pendingHeartbeatRuns, eventQueue, processingEvents, killSwitch, now,
                      lockVars, limitVars, callVars, phase, workVars>>
      BY <1>7 DEF vars, runtimeVars
    <2>2. QueueInv' /\ RunTypes'
      BY <2>1, QueueUntouched DEF lockVars
    <2>3. RuntimeTypes' /\ LockTypes' /\ LimitTypes' /\ WorkTypes'
      BY <2>1 DEF lockVars, limitVars, workVars, TypeOK, RuntimeTypes, LockTypes, LimitTypes, WorkTypes
    <2> QED
      BY <2>2, <2>3 DEF TypeOK
  <1> QED
    BY <1>1, <1>2, <1>3, <1>4, <1>5, <1>6, <1>7 DEF Next

THEOREM Invariance == Spec => []Inv
  BY InitInv, NextInv, PTL DEF Spec

\* The variables keep their types in every execution.
THEOREM TypeCorrect == Spec => []TypeOK
  BY Invariance, PTL DEF Inv

\* withTenantLock serialises the runs of a tenant for any number of tenants and
\* calls, although evictIdleTenants deletes lock tails while runs are in flight
\* elsewhere.
THEOREM MutualExclusion == Spec => []SerialPerTenant
  <1>1. Inv => SerialPerTenant
    <2> SUFFICES ASSUME Inv, NEW q \in Runs, NEW r \in Runs, SameTenant(q, r),
                        phase[q] \in Holding, phase[r] \in Holding
                 PROVE  FALSE
      BY DEF SerialPerTenant
    <2>1. q < r \/ r < q
      BY DEF SameTenant
    <2> QED
      BY <2>1 DEF Inv, QueueInv, HolderFirst, SameTenant, Unreleased
  <1> QED
    BY <1>1, Invariance, PTL

USE DEF Holding
-----------------------------------------------------------------------------
(* The kinds of steps *)

\* Run r goes on to phase p: it takes the lock, goes on under it, gives it up, or
\* its caller goes on.
Goes(r, p) ==
  /\ phase' = [phase EXCEPT ![r] = p]
  /\ UNCHANGED callVars
  /\ \/ HasLock(r) /\ p \in {"running", "released"}
     \/ phase[r] \in Holding /\ p \in Holding \cup {"released"}
     \/ phase[r] = "released" /\ p = "returned"
     \/ phase[r] = "returned" /\ p = "done"

\* It goes on while neither loop notices.
Works(r, p) == Goes(r, p) /\ p # "done" /\ UNCHANGED runtimeVars

\* No call goes on; the event queue changes at most under processEventQueue.
Quiet == /\ UNCHANGED <<phase, callVars, processingEvents, pendingHeartbeatRuns>>
         /\ eventQueue' # <<>> => eventQueue # <<>> \/ processingEvents

LEMMA StepKinds ==
  ASSUME Inv, [Next]_vars
  PROVE  \/ Quiet
         \/ \E r \in Runs, p \in Phases : Works(r, p)
         \/ \E r \in Runs : HeartbeatRunSettles(r) \/ ProcessNextEvent(r)
         \/ \E t \in Tenants : ScheduleRun(t) \/ (EmitEvent(t) /\ ~processingEvents)
  <1> DEFINE Kinds == \/ Quiet
                      \/ \E r \in Runs, p \in Phases : Works(r, p)
                      \/ \E r \in Runs : HeartbeatRunSettles(r) \/ ProcessNextEvent(r)
                      \/ \E t \in Tenants : ScheduleRun(t) \/ (EmitEvent(t) /\ ~processingEvents)
  <1> SUFFICES Kinds
    OBVIOUS
  <1>a. {"running", "grace", "hold", "released", "returned"} \subseteq Phases
    BY DEF Phases, InFlight, Unreleased
  <1>1. CASE Request
    BY <1>1 DEF Request, EmitEvent, Quiet, callVars
  <1>2. CASE Control
    BY <1>2 DEF Control, Stop, ToggleKillSwitch, Tick, Start, Quiet, runtimeVars
  <1>3. ASSUME NEW r \in Runs, Admit(r) PROVE Kinds
    <2>1. Works(r, "running") \/ Works(r, "released")
      BY <1>3 DEF Admit, BlockedByKillSwitch, BlockedByLimit, StartRun, Block, MoveTo, Goes, Works
    <2> QED
      BY <1>a, <2>1
  <1>4. ASSUME NEW r \in Runs, Timer(r) PROVE Kinds
    <2>1. Works(r, "grace") \/ Works(r, "hold") \/ Works(r, "released")
      BY <1>4 DEF Timer, RunTimesOut, GraceExpires, ChargeAfterTimeout, MaxHoldExpires, LeaveHold,
                  MoveTo, Frame, Goes, Works
    <2> QED
      BY <1>a, <2>1
  <1>5. ASSUME NEW r \in Runs, Provider(r) PROVE Kinds
    <2>1. CASE ProviderSettlesLate(r)
      BY <2>1 DEF ProviderSettlesLate, Quiet, runtimeVars
    <2>2. ASSUME NEW ok, NEW n, RunCompletes(r, ok, n) PROVE Works(r, "released")
      BY <2>2 DEF RunCompletes, MoveTo, Frame, Goes, Works
    <2>3. ASSUME NEW n, ProviderSettlesInGrace(r, n) PROVE Works(r, "released")
      BY <2>3 DEF ProviderSettlesInGrace, ChargeAfterTimeout, MoveTo, Frame, Goes, Works
    <2>4. CASE ProviderSettlesInHold(r)
      <3>1. Works(r, "released")
        BY <2>4 DEF ProviderSettlesInHold, LeaveHold, MoveTo, Goes, Works
      <3> QED
        BY <1>a, <3>1
    <2> QED
      BY <1>5, <1>a, <2>1, <2>2, <2>3, <2>4 DEF Provider, RunRejects
  <1>6. ASSUME NEW r \in Runs, Finish(r) PROVE Kinds
    <2>1. CASE Return(r)
      <3>1. Works(r, "returned")
        BY <2>1 DEF Return, MoveTo, Goes, Works
      <3> QED
        BY <1>a, <3>1
    <2> QED
      BY <1>6, <2>1 DEF Finish
  <1>7. CASE UNCHANGED vars
    BY <1>7 DEF vars, runtimeVars, Quiet
  <1> QED
    BY <1>1, <1>2, <1>3, <1>4, <1>5, <1>6, <1>7 DEF Next

\* The arguments of executeRun where it is called.
LEMMA Arrivals ==
  ASSUME Inv
  PROVE  /\ \A t \in Tenants : ScheduleRun(t) => ExecuteRun(t, "heartbeat", phase)
         /\ \A t \in Tenants : EmitEvent(t) /\ ~processingEvents =>
              \E u \in Tenants : ExecuteRun(u, "event", phase)
         /\ \A r \in Runs : ProcessNextEvent(r) /\ MoreEvents =>
              \E u \in Tenants : ExecuteRun(u, "event", [phase EXCEPT ![r] = "done"])
  <1>1. eventQueue \in Seq(Tenants)
    BY DEF Inv, TypeOK, RuntimeTypes
  <1>2. ASSUME NEW t \in Tenants, EmitEvent(t), ~processingEvents
        PROVE  \E u \in Tenants : ExecuteRun(u, "event", phase)
    <2>1. Head(Enqueued(t)) \in Tenants
      BY <1>1, EnqueuedType
    <2> QED
      BY <1>2, <2>1 DEF EmitEvent
  <1>3. ASSUME NEW r \in Runs, ProcessNextEvent(r), MoreEvents
        PROVE  \E u \in Tenants : ExecuteRun(u, "event", [phase EXCEPT ![r] = "done"])
    <2>1. Head(eventQueue) \in Tenants
      BY <1>1, <1>3 DEF MoreEvents
    <2> QED
      BY <1>3, <2>1 DEF ProcessNextEvent
  <1> QED
    BY <1>2, <1>3 DEF ScheduleRun

\* The phases a new call leaves to the others.
AllBut(ph) ==
  /\ ph \in [Runs -> Phases]
  /\ \A q \in Runs : ph[q] = phase[q] \/ (phase[q] = "returned" /\ ph[q] = "done")

LEMMA AllButType ==
  ASSUME Inv
  PROVE  AllBut(phase) /\ \A r \in Runs : phase[r] = "returned" => AllBut([phase EXCEPT ![r] = "done"])
  BY DEF AllBut, Phases, Inv, TypeOK, RunTypes
-----------------------------------------------------------------------------
(* The refinement *)

LEMMA StageIs ==
  ASSUME NEW r \in Runs
  PROVE  Stage[r] = IF phase[r] = "absent" THEN "absent"
                    ELSE IF phase[r] = "waiting" THEN "queued"
                    ELSE IF phase[r] \in Holding THEN "serving" ELSE "left"
  BY DEF Stage

LEMMA OwnerIs ==
  ASSUME Inv, NEW r \in Runs
  PROVE  Owner[r] = IF phase[r] = "absent" THEN Owner[r] ELSE {tenantOf[r]}
  BY TenantsAssumption DEF Owner, Inv, QueueInv, Numbered

\* Nobody of r's tenant is ahead of r when it has the lock.
LEMMA TurnOfHolder ==
  ASSUME Inv, NEW r \in Runs, HasLock(r)
  PROVE  Queue!Turn(r)
  <1>1. phase[r] = "waiting"
    BY DEF HasLock
  <1>2. Stage[r] = "queued"
    BY <1>1, StageIs
  <1>3. ASSUME NEW q \in Runs, q < r, Owner[q] = Owner[r]
        PROVE  Stage[q] = "left"
    <2>1. phase[q] # "absent"
      BY <1>1, <1>3 DEF Inv, QueueInv, Numbered, TypeOK, RunTypes
    <2>2. SameTenant(q, r)
      <3>1. Owner[q] = {tenantOf[q]} /\ Owner[r] = {tenantOf[r]}
        BY <1>1, <2>1, OwnerIs
      <3>2. tenantOf[q] \in {tenantOf[r]}
        BY <1>3, <3>1
      <3> QED
        BY <1>3, <3>2 DEF SameTenant
    <2>3. phase[q] \notin Unreleased
      BY <1>3, <2>2, HolderHasTurn DEF Inv
    <2> QED
      BY <2>1, <2>3, StageIs DEF Unreleased
  <1> QED
    BY <1>2, <1>3 DEF Queue!Turn, Queue!Runs

LEMMA GoesRefines ==
  ASSUME Inv, NEW r \in Runs, NEW p, Goes(r, p)
  PROVE  [Queue!Next]_<<Owner, Stage>>
  <1>1. phase \in [Runs -> Phases]
    BY DEF Inv, TypeOK, RunTypes
  <1>2. Owner' = Owner
    BY DEF Goes, Owner, callVars
  <1>3. phase'[r] = p /\ \A q \in Runs : q # r => phase'[q] = phase[q]
    BY <1>1 DEF Goes
  <1>4. ASSUME NEW s, Stage'[r] = s PROVE Stage' = [Stage EXCEPT ![r] = s]
    BY <1>3, <1>4 DEF Stage
  <1>5. CASE HasLock(r) /\ p = "running"
    <2>1. Stage'[r] = "serving"
      BY <1>3, <1>5 DEF Stage
    <2>2. Queue!Serve(r)
      BY <1>2, <1>4, <1>5, <2>1, TurnOfHolder DEF Queue!Serve
    <2> QED
      BY <2>2 DEF Queue!Next, Queue!Runs
  <1>6. CASE HasLock(r) /\ p = "released"
    <2>1. Stage'[r] = "left"
      BY <1>3, <1>6 DEF Stage
    <2>2. Queue!TurnAway(r)
      BY <1>2, <1>4, <1>6, <2>1, TurnOfHolder DEF Queue!TurnAway
    <2> QED
      BY <2>2 DEF Queue!Next, Queue!Runs
  <1>7. CASE phase[r] \in Holding /\ p = "released"
    <2>1. Stage[r] = "serving" /\ Stage'[r] = "left"
      BY <1>3, <1>7 DEF Stage
    <2>2. Queue!Leave(r)
      BY <1>2, <1>4, <2>1 DEF Queue!Leave
    <2> QED
      BY <2>2 DEF Queue!Next, Queue!Runs
  <1>8. CASE \/ phase[r] \in Holding /\ p \in Holding
             \/ phase[r] = "released" /\ p = "returned"
             \/ phase[r] = "returned" /\ p = "done"
    <2>1. Stage'[r] = Stage[r]
      BY <1>3, <1>8 DEF Stage
    <2>2. Stage' = [Stage EXCEPT ![r] = Stage[r]]
      BY <1>4, <2>1
    <2>3. Stage' = Stage
      BY <2>2 DEF Stage
    <2> QED
      BY <1>2, <2>3
  <1> QED
    BY <1>5, <1>6, <1>7, <1>8 DEF Goes

\* A call of executeRun arrives, possibly as the caller of another goes on.
LEMMA ExecuteRunRefines ==
  ASSUME Inv, NEW t \in Tenants, NEW kind, NEW ph, AllBut(ph), ExecuteRun(t, kind, ph)
  PROVE  Queue!Next
  <1> DEFINE n == nextRun
  <1>1. /\ n \in Runs
        /\ tenantOf' = [tenantOf EXCEPT ![n] = t]
        /\ phase' = [ph EXCEPT ![n] = "waiting"]
        /\ ph \in [Runs -> Phases]
        /\ \A q \in Runs : ph[q] = phase[q] \/ (phase[q] = "returned" /\ ph[q] = "done")
    BY DEF ExecuteRun, AllBut
  <1>2. tenantOf \in [Runs -> Tenants \cup {NoTenant}]
    BY DEF Inv, TypeOK, RunTypes
  <1>3. \A q \in Runs : q >= n => phase[q] = "absent"
    BY DEF Inv, QueueInv, Numbered
  <1>4. \A q \in Runs : q >= n => Stage[q] = "absent"
    BY <1>3, StageIs
  <1>5. Owner' = [Owner EXCEPT ![n] = {t}]
    BY <1>1, <1>2, TenantsAssumption DEF Owner
  <1>6. Stage' = [Stage EXCEPT ![n] = "queued"]
    <2>1. \A q \in Runs : q # n =>
            phase'[q] = phase[q] \/ (phase[q] = "returned" /\ phase'[q] = "done")
      BY <1>1
    <2>2. \A q \in Runs : q # n => Stage'[q] = Stage[q]
      BY <2>1 DEF Stage
    <2>3. Stage'[n] = "queued"
      BY <1>1 DEF Stage
    <2> QED
      BY <2>2, <2>3 DEF Stage
  <1>7. Queue!Arrive(n, t)
    BY <1>4, <1>5, <1>6 DEF Queue!Arrive, Queue!Runs
  <1> QED
    BY <1>1, <1>7 DEF Queue!Next, Queue!Runs

LEMMA InitRefines == Init => Queue!Init
  BY DEF Init, Queue!Init, Owner, Stage, Queue!Runs

LEMMA NextRefines == Inv /\ [Next]_vars => [Queue!Next]_<<Owner, Stage>>
  <1> SUFFICES ASSUME Inv, [Next]_vars PROVE [Queue!Next]_<<Owner, Stage>>
    OBVIOUS
  <1>1. CASE Quiet
    BY <1>1 DEF Quiet, callVars, Owner, Stage
  <1>2. ASSUME NEW r \in Runs, NEW p \in Phases, Works(r, p) PROVE [Queue!Next]_<<Owner, Stage>>
    BY <1>2, GoesRefines DEF Works
  <1>3. ASSUME NEW r \in Runs, HeartbeatRunSettles(r) PROVE [Queue!Next]_<<Owner, Stage>>
    <2>1. Goes(r, "done")
      BY <1>3 DEF HeartbeatRunSettles, MoveTo, Goes
    <2> QED
      BY <2>1, GoesRefines
  <1>4. ASSUME NEW r \in Runs, ProcessNextEvent(r), MoreEvents PROVE Queue!Next
    <2>1. phase[r] = "returned"
      BY <1>4 DEF ProcessNextEvent
    <2> QED
      BY <1>4, <2>1, Arrivals, AllButType, ExecuteRunRefines
  <1>5. ASSUME NEW r \in Runs, ProcessNextEvent(r), ~MoreEvents PROVE [Queue!Next]_<<Owner, Stage>>
    <2>1. Goes(r, "done")
      BY <1>5 DEF ProcessNextEvent, MoveTo, Goes, callVars
    <2> QED
      BY <2>1, GoesRefines
  <1>6. ASSUME NEW t \in Tenants, ScheduleRun(t) \/ (EmitEvent(t) /\ ~processingEvents)
        PROVE  Queue!Next
    BY <1>6, Arrivals, AllButType, ExecuteRunRefines
  <1> QED
    BY <1>1, <1>2, <1>3, <1>4, <1>5, <1>6, StepKinds

\* What the callers of a tenant see is a first-come first-served queue, for any
\* number of tenants and calls: every step of the runtime is one step of
\* RunQueue or changes neither the owners nor the stages.
THEOREM ImplementsQueue == Spec => QueueSpec
  <1>1. Queue!queueVars = <<Owner, Stage>>
    BY DEF Queue!queueVars
  <1>2. Inv /\ [Next]_vars => [Queue!Next]_Queue!queueVars
    BY NextRefines DEF Queue!queueVars
  <1> QED
    BY Invariance, InitRefines, <1>2, PTL DEF Spec, QueueSpec, Queue!Spec
-----------------------------------------------------------------------------
(* Overlapping provider calls *)

\* A call that has had its turn left nobody of its tenant behind.
InTurn ==
  \A q, r \in Runs :
    q < r /\ SameTenant(q, r) /\ phase[r] \notin {"absent", "waiting"} => phase[q] \notin Unreleased

\* A provider is called by a run that has had its turn; an unsettled, unreleased
\* call keeps the lock.
ProviderHeld ==
  \A r \in Runs : /\ provider[r] # "none" => phase[r] \notin {"absent", "waiting"}
                  /\ provider[r] = "pending" => phase[r] \in Holding

OverlapInv == InTurn /\ ProviderHeld

LEMMA NewCallKeepsInTurn ==
  ASSUME Inv, InTurn, NEW t \in Tenants, NEW kind, NEW ph, AllBut(ph), ExecuteRun(t, kind, ph)
  PROVE  InTurn'
  <1> DEFINE n == nextRun
  <1>1. /\ n \in Runs
        /\ tenantOf' = [tenantOf EXCEPT ![n] = t]
        /\ phase' = [ph EXCEPT ![n] = "waiting"]
        /\ tenantOf \in [Runs -> Tenants \cup {NoTenant}]
    BY DEF ExecuteRun, Inv, TypeOK, RunTypes
  <1>2. \A q \in Runs : q >= n => phase[q] = "absent"
    BY DEF Inv, QueueInv, Numbered
  <1>3. \A q \in Runs : q # n =>
          phase'[q] = phase[q] \/ (phase[q] = "returned" /\ phase'[q] = "done")
    BY <1>1 DEF AllBut
  <1>4. phase'[n] = "waiting"
    BY <1>1 DEF AllBut
  <1> SUFFICES ASSUME NEW q \in Runs, NEW r \in Runs, q < r, SameTenant(q, r)',
                      phase'[r] \notin {"absent", "waiting"}, phase'[q] \in Unreleased
               PROVE  FALSE
    BY DEF InTurn
  <1>5. r # n /\ phase[r] \notin {"absent", "waiting"}
    BY <1>3, <1>4
  <1>6. q # n
    BY <1>1, <1>2, <1>5
  <1>7. SameTenant(q, r) /\ phase[q] \in Unreleased
    BY <1>1, <1>3, <1>5, <1>6 DEF SameTenant, Unreleased
  <1> QED
    BY <1>5, <1>7 DEF InTurn

LEMMA GoesKeepsInTurn ==
  ASSUME Inv, InTurn, NEW r \in Runs, NEW p, Goes(r, p)
  PROVE  InTurn'
  <1>1. /\ phase'[r] = p /\ p \notin {"absent", "waiting"} /\ phase[r] # "absent"
        /\ \A q \in Runs : q # r => phase'[q] = phase[q]
    BY DEF Goes, HasLock, Inv, TypeOK, RunTypes
  <1>2. \A q \in Runs : phase'[q] \in Unreleased => phase[q] \in Unreleased
    BY <1>1 DEF Goes, HasLock, Unreleased
  <1> SUFFICES ASSUME NEW q \in Runs, NEW s \in Runs, q < s, SameTenant(q, s)',
                      phase'[s] \notin {"absent", "waiting"}, phase'[q] \in Unreleased
               PROVE  FALSE
    BY DEF InTurn
  <1>3. SameTenant(q, s) /\ phase[q] \in Unreleased
    BY <1>2 DEF Goes, callVars, SameTenant
  <1>4. HasLock(s) \/ phase[s] \notin {"absent", "waiting"}
    BY <1>1 DEF Goes
  <1> QED
    BY <1>3, <1>4, HolderHasTurn DEF InTurn, Inv

LEMMA NextInTurn ==
  ASSUME Inv, InTurn, [Next]_vars
  PROVE  InTurn'
  <1>1. CASE Quiet
    BY <1>1 DEF Quiet, callVars, InTurn, SameTenant
  <1>2. ASSUME NEW r \in Runs, NEW p \in Phases, Works(r, p) PROVE InTurn'
    BY <1>2, GoesKeepsInTurn DEF Works
  <1>3. ASSUME NEW r \in Runs, HeartbeatRunSettles(r) PROVE InTurn'
    <2>1. Goes(r, "done")
      BY <1>3 DEF HeartbeatRunSettles, MoveTo, Goes
    <2> QED
      BY <2>1, GoesKeepsInTurn
  <1>4. ASSUME NEW r \in Runs, ProcessNextEvent(r), MoreEvents PROVE InTurn'
    <2>1. phase[r] = "returned"
      BY <1>4 DEF ProcessNextEvent
    <2> QED
      BY <1>4, <2>1, Arrivals, AllButType, NewCallKeepsInTurn
  <1>5. ASSUME NEW r \in Runs, ProcessNextEvent(r), ~MoreEvents PROVE InTurn'
    <2>1. Goes(r, "done")
      BY <1>5 DEF ProcessNextEvent, MoveTo, Goes, callVars
    <2> QED
      BY <2>1, GoesKeepsInTurn
  <1>6. ASSUME NEW t \in Tenants, ScheduleRun(t) \/ (EmitEvent(t) /\ ~processingEvents)
        PROVE  InTurn'
    BY <1>6, Arrivals, AllButType, NewCallKeepsInTurn
  <1> QED
    BY <1>1, <1>2, <1>3, <1>4, <1>5, <1>6, StepKinds

\* Steps that leave provider calls alone.
LEMMA UnheardKeepsHeld ==
  ASSUME Inv, ProviderHeld, provider' = provider,
         \A q \in Runs : provider[q] # "none" =>
           phase'[q] = phase[q] \/ (phase[q] \in {"released", "returned"} /\ phase'[q] \in {"returned", "done"})
  PROVE  ProviderHeld'
  BY DEF ProviderHeld

LEMMA ExecuteRunKeepsHeld ==
  ASSUME Inv, ProviderHeld, provider' = provider, NEW t, NEW kind, NEW ph, AllBut(ph), ExecuteRun(t, kind, ph)
  PROVE  ProviderHeld'
  <1>1. nextRun \in Runs /\ phase' = [ph EXCEPT ![nextRun] = "waiting"] /\ phase[nextRun] = "absent"
    BY DEF ExecuteRun, Inv, QueueInv, Numbered, TypeOK, RunTypes
  <1>2. provider[nextRun] = "none"
    BY <1>1 DEF ProviderHeld
  <1> QED
    BY <1>1, <1>2, UnheardKeepsHeld DEF AllBut

LEMMA NextHeld ==
  ASSUME Inv, ProviderHeld, [Next]_vars
  PROVE  ProviderHeld'
  <1> USE DEF workVars
  <1>1. phase \in [Runs -> Phases] /\ provider \in [Runs -> {"none", "pending", "abandoned", "settled"}]
    BY DEF Inv, TypeOK, RunTypes, WorkTypes
  <1>2. ASSUME NEW t \in Tenants, EmitEvent(t) PROVE ProviderHeld'
    <2>1. CASE processingEvents
      BY <1>2, <2>1, UnheardKeepsHeld DEF EmitEvent
    <2>2. CASE ~processingEvents
      BY <1>2, <2>2, Arrivals, AllButType, ExecuteRunKeepsHeld DEF EmitEvent
    <2> QED
      BY <2>1, <2>2
  <1>3. ASSUME NEW t \in Tenants, ScheduleRun(t) PROVE ProviderHeld'
    BY <1>3, Arrivals, AllButType, ExecuteRunKeepsHeld DEF ScheduleRun
  <1>4. CASE Control
    BY <1>4, UnheardKeepsHeld DEF Control, Stop, ToggleKillSwitch, Tick, Start
  <1>5. ASSUME NEW r \in Runs, Admit(r) PROVE ProviderHeld'
    <2>1. CASE BlockedByKillSwitch(r) \/ BlockedByLimit(r)
      BY <1>1, <2>1 DEF BlockedByKillSwitch, BlockedByLimit, Block, MoveTo, HasLock, ProviderHeld
    <2>2. CASE StartRun(r)
      <3>1. phase' = [phase EXCEPT ![r] = "running"] /\ provider' = [provider EXCEPT ![r] = "pending"]
        BY <2>2 DEF StartRun, MoveTo
      <3> QED
        BY <1>1, <3>1 DEF ProviderHeld
    <2> QED
      BY <1>5, <2>1, <2>2 DEF Admit
  <1>6. ASSUME NEW r \in Runs, Timer(r) PROVE ProviderHeld'
    <2>1. CASE RunTimesOut(r)
      BY <1>1, <2>1 DEF RunTimesOut, MoveTo, ProviderHeld
    <2>2. CASE GraceExpires(r)
      BY <1>1, <2>2 DEF GraceExpires, MoveTo, ProviderHeld
    <2>3. CASE MaxHoldExpires(r)
      BY <1>1, <2>3 DEF MaxHoldExpires, LeaveHold, MoveTo, ProviderHeld
    <2> QED
      BY <1>6, <2>1, <2>2, <2>3 DEF Timer
  <1>7. ASSUME NEW r \in Runs, Provider(r) PROVE ProviderHeld'
    <2>1. ASSUME NEW ok, NEW n, RunCompletes(r, ok, n) PROVE ProviderHeld'
      BY <1>1, <2>1 DEF RunCompletes, MoveTo, ProviderHeld
    <2>2. ASSUME NEW n, ProviderSettlesInGrace(r, n) PROVE ProviderHeld'
      BY <1>1, <2>2 DEF ProviderSettlesInGrace, MoveTo, ProviderHeld
    <2>3. CASE ProviderSettlesInHold(r)
      BY <1>1, <2>3 DEF ProviderSettlesInHold, LeaveHold, MoveTo, ProviderHeld
    <2>4. CASE ProviderSettlesLate(r)
      BY <1>1, <2>4 DEF ProviderSettlesLate, ProviderHeld
    <2> QED
      BY <1>7, <2>1, <2>2, <2>3, <2>4 DEF Provider, RunRejects
  <1>8. ASSUME NEW r \in Runs, Finish(r) PROVE ProviderHeld'
    <2>1. CASE Return(r)
      BY <1>1, <2>1, UnheardKeepsHeld DEF Return, MoveTo
    <2>2. CASE HeartbeatRunSettles(r)
      BY <1>1, <2>2, UnheardKeepsHeld DEF HeartbeatRunSettles, MoveTo
    <2>3. CASE ProcessNextEvent(r)
      <3>1. phase[r] = "returned" /\ provider' = provider
        BY <2>3 DEF ProcessNextEvent
      <3>2. CASE MoreEvents
        BY <2>3, <3>1, <3>2, Arrivals, AllButType, ExecuteRunKeepsHeld
      <3>3. CASE ~MoreEvents
        BY <1>1, <2>3, <3>1, <3>3, UnheardKeepsHeld DEF ProcessNextEvent, MoveTo
      <3> QED
        BY <3>2, <3>3
    <2> QED
      BY <1>8, <2>1, <2>2, <2>3 DEF Finish
  <1>9. CASE UNCHANGED vars
    BY <1>9, UnheardKeepsHeld DEF vars
  <1> QED
    BY <1>2, <1>3, <1>4, <1>5, <1>6, <1>7, <1>8, <1>9 DEF Next, Request

\* Two provider calls of a tenant overlap only when the first one's lock was
\* released by run_max_lock_hold_released.
THEOREM AuditedOverlap == Spec => []NoUnauditedOverlap
  <1>1. Init => OverlapInv
    BY DEF Init, OverlapInv, InTurn, ProviderHeld
  <1>2. Inv /\ OverlapInv /\ [Next]_vars => OverlapInv'
    BY NextInTurn, NextHeld DEF OverlapInv
  <1>3. OverlapInv => NoUnauditedOverlap
    BY DEF OverlapInv, InTurn, ProviderHeld, NoUnauditedOverlap, Unreleased
  <1> QED
    BY <1>1, <1>2, <1>3, Invariance, PTL DEF Spec
-----------------------------------------------------------------------------
(* The event loop and the heartbeat *)

\* A call its caller still waits for.
Active(r) == phase[r] \notin {"absent", "done"}

\* processingEvents is set exactly while an event call is active, and then only one
\* is; an event is queued only then.
OneEventCall ==
  /\ eventQueue # <<>> => processingEvents
  /\ processingEvents <=> \E r \in Runs : via[r] = "event" /\ Active(r)
  /\ \A q, r \in Runs : via[q] = "event" /\ Active(q) /\ via[r] = "event" /\ Active(r) => q = r

\* A tenant has at most one active heartbeat call and it is pending then.
OneHeartbeatCall ==
  /\ \A r \in Runs : via[r] = "heartbeat" /\ Active(r) => tenantOf[r] \in pendingHeartbeatRuns
  /\ \A q, r \in Runs :
       via[q] = "heartbeat" /\ Active(q) /\ via[r] = "heartbeat" /\ Active(r)
         /\ tenantOf[q] = tenantOf[r] => q = r

CallersInv == OneEventCall /\ OneHeartbeatCall

\* What a new call changes of the callers' view.
LEMMA NewCallIs ==
  ASSUME Inv, NEW t \in Tenants, NEW kind \in {"event", "heartbeat"}, NEW ph, AllBut(ph),
         ExecuteRun(t, kind, ph)
  PROVE  \E n \in Runs :
           /\ ~Active(n) /\ Active(n)' /\ via'[n] = kind /\ tenantOf'[n] = t
           /\ \A q \in Runs : q # n => /\ via'[q] = via[q] /\ tenantOf'[q] = tenantOf[q]
                                      /\ phase'[q] = ph[q]
  <1>1. nextRun \in Runs /\ phase[nextRun] = "absent"
    BY DEF ExecuteRun, Inv, QueueInv, Numbered
  <1>2. /\ tenantOf' = [tenantOf EXCEPT ![nextRun] = t] /\ via' = [via EXCEPT ![nextRun] = kind]
        /\ phase' = [ph EXCEPT ![nextRun] = "waiting"]
    BY DEF ExecuteRun
  <1>3. /\ tenantOf \in [Runs -> Tenants \cup {NoTenant}] /\ via \in [Runs -> {"event", "heartbeat"}]
        /\ ph \in [Runs -> Phases]
    BY DEF Inv, TypeOK, RunTypes, AllBut
  <1> QED
    BY <1>1, <1>2, <1>3 DEF Active

LEMMA GoesKeepsActive ==
  ASSUME Inv, NEW r \in Runs, NEW p, Goes(r, p)
  PROVE  /\ Active(r) /\ (Active(r)' <=> p # "done")
         /\ \A q \in Runs : q # r => (Active(q)' <=> Active(q))
         /\ via' = via /\ tenantOf' = tenantOf
  BY DEF Goes, HasLock, Active, callVars, Inv, TypeOK, RunTypes

LEMMA NextCallers ==
  ASSUME Inv, CallersInv, [Next]_vars
  PROVE  CallersInv'
  <1>0. AllBut(phase)
    BY AllButType
  <1>1. CASE Quiet
    BY <1>1 DEF Quiet, callVars, CallersInv, OneEventCall, OneHeartbeatCall, Active
  <1>2. ASSUME NEW r \in Runs, NEW p \in Phases, Works(r, p) PROVE CallersInv'
    <2>1. \A q \in Runs : Active(q)' <=> Active(q)
      BY <1>2, GoesKeepsActive DEF Works
    <2>2. /\ via' = via /\ tenantOf' = tenantOf /\ eventQueue' = eventQueue
          /\ processingEvents' = processingEvents /\ pendingHeartbeatRuns' = pendingHeartbeatRuns
      BY <1>2 DEF Works, Goes, callVars, runtimeVars
    <2> QED
      BY <2>1, <2>2 DEF CallersInv, OneEventCall, OneHeartbeatCall
  <1>3. ASSUME NEW r \in Runs, HeartbeatRunSettles(r) PROVE CallersInv'
    <2>1. Goes(r, "done") /\ via[r] = "heartbeat"
      BY <1>3 DEF HeartbeatRunSettles, MoveTo, Goes
    <2>2. /\ Active(r) /\ ~Active(r)' /\ via' = via /\ tenantOf' = tenantOf
          /\ \A q \in Runs : q # r => (Active(q)' <=> Active(q))
      BY <2>1, GoesKeepsActive
    <2>3. /\ eventQueue' = eventQueue /\ processingEvents' = processingEvents
          /\ pendingHeartbeatRuns' = pendingHeartbeatRuns \ {tenantOf[r]}
      BY <1>3 DEF HeartbeatRunSettles
    <2>4. OneEventCall'
      BY <2>1, <2>2, <2>3 DEF CallersInv, OneEventCall
    <2>5. OneHeartbeatCall'
      BY <2>1, <2>2, <2>3 DEF CallersInv, OneHeartbeatCall
    <2> QED
      BY <2>4, <2>5 DEF CallersInv
  <1>4. ASSUME NEW r \in Runs, ProcessNextEvent(r), MoreEvents PROVE CallersInv'
    <2> DEFINE ph == [phase EXCEPT ![r] = "done"]
    <2>1. via[r] = "event" /\ phase[r] = "returned"
      BY <1>4 DEF ProcessNextEvent
    <2>2. AllBut(ph)
      BY <2>1, AllButType
    <2>3. PICK u \in Tenants : ExecuteRun(u, "event", ph)
      BY <1>4, Arrivals
    <2>4. processingEvents' = processingEvents /\ pendingHeartbeatRuns' = pendingHeartbeatRuns
      BY <1>4 DEF ProcessNextEvent
    <2>5. /\ Active(r) /\ ph[r] = "done" /\ \A q \in Runs : q # r => ph[q] = phase[q]
      BY <2>1 DEF Active, Inv, TypeOK, RunTypes
    <2> HIDE DEF ph
    <2>6. PICK n \in Runs :
            /\ ~Active(n) /\ Active(n)' /\ via'[n] = "event" /\ tenantOf'[n] = u
            /\ \A q \in Runs : q # n => /\ via'[q] = via[q] /\ tenantOf'[q] = tenantOf[q]
                                       /\ phase'[q] = ph[q]
      BY <2>2, <2>3, NewCallIs
    <2>7. ~Active(r)' /\ \A q \in Runs : q \notin {n, r} => (Active(q)' <=> Active(q))
      BY <2>5, <2>6 DEF Active
    <2>8. processingEvents
      BY <2>1, <2>5 DEF CallersInv, OneEventCall
    <2>9. OneEventCall'
      BY <2>1, <2>4, <2>5, <2>6, <2>7, <2>8 DEF CallersInv, OneEventCall
    <2>10. OneHeartbeatCall'
      BY <2>1, <2>4, <2>6, <2>7 DEF CallersInv, OneHeartbeatCall
    <2> QED
      BY <2>9, <2>10 DEF CallersInv
  <1>5. ASSUME NEW r \in Runs, ProcessNextEvent(r), ~MoreEvents PROVE CallersInv'
    <2>1. Goes(r, "done") /\ via[r] = "event"
      BY <1>5 DEF ProcessNextEvent, MoveTo, Goes, callVars
    <2>2. /\ Active(r) /\ ~Active(r)' /\ via' = via /\ tenantOf' = tenantOf
          /\ \A q \in Runs : q # r => (Active(q)' <=> Active(q))
      BY <2>1, GoesKeepsActive
    <2>3. /\ eventQueue' = <<>> /\ processingEvents' = FALSE
          /\ pendingHeartbeatRuns' = pendingHeartbeatRuns
      BY <1>5 DEF ProcessNextEvent, MoreEvents
    <2>4. OneEventCall'
      BY <2>1, <2>2, <2>3 DEF CallersInv, OneEventCall
    <2>5. OneHeartbeatCall'
      BY <2>1, <2>2, <2>3 DEF CallersInv, OneHeartbeatCall
    <2> QED
      BY <2>4, <2>5 DEF CallersInv
  <1>6. ASSUME NEW t \in Tenants, ScheduleRun(t) PROVE CallersInv'
    <2>1. PICK n \in Runs :
            /\ ~Active(n) /\ Active(n)' /\ via'[n] = "heartbeat" /\ tenantOf'[n] = t
            /\ \A q \in Runs : q # n => /\ via'[q] = via[q] /\ tenantOf'[q] = tenantOf[q]
                                       /\ phase'[q] = phase[q]
      BY <1>0, <1>6, Arrivals, NewCallIs
    <2>2. \A q \in Runs : q # n => (Active(q)' <=> Active(q))
      BY <2>1 DEF Active
    <2>3. /\ t \notin pendingHeartbeatRuns /\ pendingHeartbeatRuns' = pendingHeartbeatRuns \cup {t}
          /\ eventQueue' = eventQueue /\ processingEvents' = processingEvents
      BY <1>6 DEF ScheduleRun, MayHeartbeat
    <2>4. OneEventCall'
      BY <2>1, <2>2, <2>3 DEF CallersInv, OneEventCall
    <2>5. OneHeartbeatCall'
      BY <2>1, <2>2, <2>3 DEF CallersInv, OneHeartbeatCall
    <2> QED
      BY <2>4, <2>5 DEF CallersInv
  <1>7. ASSUME NEW t \in Tenants, EmitEvent(t), ~processingEvents PROVE CallersInv'
    <2>1. PICK u \in Tenants : ExecuteRun(u, "event", phase)
      BY <1>7, Arrivals
    <2>2. PICK n \in Runs :
            /\ ~Active(n) /\ Active(n)' /\ via'[n] = "event" /\ tenantOf'[n] = u
            /\ \A q \in Runs : q # n => /\ via'[q] = via[q] /\ tenantOf'[q] = tenantOf[q]
                                       /\ phase'[q] = phase[q]
      BY <1>0, <2>1, NewCallIs
    <2>3. \A q \in Runs : q # n => (Active(q)' <=> Active(q))
      BY <2>2 DEF Active
    <2>4. processingEvents' = TRUE /\ pendingHeartbeatRuns' = pendingHeartbeatRuns
      BY <1>7 DEF EmitEvent
    <2>5. OneEventCall'
      BY <1>7, <2>2, <2>3, <2>4 DEF CallersInv, OneEventCall
    <2>6. OneHeartbeatCall'
      BY <2>2, <2>3, <2>4 DEF CallersInv, OneHeartbeatCall
    <2> QED
      BY <2>5, <2>6 DEF CallersInv
  <1> QED
    BY <1>1, <1>2, <1>3, <1>4, <1>5, <1>6, <1>7, StepKinds

THEOREM CallersInvariance == Spec => []CallersInv
  <1>1. Init => CallersInv
    BY DEF Init, CallersInv, OneEventCall, OneHeartbeatCall, Active
  <1>2. Inv /\ CallersInv /\ [Next]_vars => CallersInv'
    BY NextCallers
  <1> QED
    BY <1>1, <1>2, Invariance, PTL DEF Spec

\* processEventQueue never strands an event, across any sequence of emitEvent,
\* stop() and start().
THEOREM EventLoopLives == Spec => []EventLoopAlive
  <1>1. Inv /\ CallersInv => EventLoopAlive
    <2> SUFFICES ASSUME Inv, CallersInv PROVE EventLoopAlive
      OBVIOUS
    <2> DEFINE resuming == {r \in Runs : via[r] = "event" /\ phase[r] \notin {"absent", "done"}}
    <2>1. CASE processingEvents
      <3>1. PICK r \in Runs : via[r] = "event" /\ Active(r)
        BY <2>1 DEF CallersInv, OneEventCall
      <3>2. resuming = {r}
        BY <3>1 DEF CallersInv, OneEventCall, Active
      <3>3. Cardinality(resuming) = 1
        BY <3>2, FS_Singleton
      <3> QED
        BY <2>1, <3>3 DEF EventLoopAlive
    <2>2. CASE ~processingEvents
      <3>1. resuming = {}
        BY <2>2 DEF CallersInv, OneEventCall, Active
      <3>2. Cardinality(resuming) = 0
        BY <3>1, FS_EmptySet
      <3> QED
        BY <2>2, <3>2 DEF EventLoopAlive, CallersInv, OneEventCall
    <2> QED
      BY <2>1, <2>2
  <1> QED
    BY <1>1, CallersInvariance, Invariance, PTL

\* However long its providers take, a tenant has at most two calls in flight.
THEOREM InFlightBounded == Spec => []BoundedInFlight
  <1>1. Inv /\ CallersInv => BoundedInFlight
    <2> SUFFICES ASSUME Inv, CallersInv, NEW t \in Tenants PROVE inFlightRunCount[t] <= 2
      BY DEF BoundedInFlight
    <2> DEFINE of(kind) == {r \in Calls(t) : via[r] = kind}
    <2>1. \A r \in Calls(t) : r \in Runs /\ Active(r) /\ tenantOf[r] = t
      BY DEF Calls, InFlight, Unreleased, Active
    <2>2. \A q, r \in of("event") : q = r
      BY <2>1 DEF CallersInv, OneEventCall
    <2>3. \A q, r \in of("heartbeat") : q = r
      BY <2>1 DEF CallersInv, OneHeartbeatCall
    <2>4. ASSUME NEW S, \A q, r \in S : q = r
          PROVE  IsFiniteSet(S) /\ Cardinality(S) \in {0, 1}
      <3>1. S = {} \/ \E r : S = {r}
        BY <2>4
      <3> QED
        BY <3>1, FS_EmptySet, FS_Singleton
    <2>5. Calls(t) = of("event") \cup of("heartbeat")
      BY DEF Calls, Inv, TypeOK, RunTypes
    <2>6. /\ IsFiniteSet(of("event")) /\ Cardinality(of("event")) \in {0, 1}
          /\ IsFiniteSet(of("heartbeat")) /\ Cardinality(of("heartbeat")) \in {0, 1}
      BY <2>2, <2>3, <2>4
    <2>7. of("event") \cap of("heartbeat") = {}
      OBVIOUS
    <2>8. Cardinality(of("event") \cap of("heartbeat")) = 0
      BY <2>7, FS_EmptySet
    <2> HIDE DEF of
    <2>9. Cardinality(Calls(t)) <= 2
      BY <2>5, <2>6, <2>8, FS_Union
    <2> QED
      BY <2>9 DEF Inv, QueueInv, Counted
  <1> QED
    BY <1>1, CallersInvariance, Invariance, PTL
-----------------------------------------------------------------------------
(* Sums *)

\* Every set of numbers has a least one.
LEMMA Least ==
  ASSUME NEW T \in SUBSET Nat, T # {}
  PROVE  \E n \in T : \A m \in T : n <= m
<1>1. PICK n \in T : \A m \in T : ~ (<<m, n>> \in OpToRel(<, Nat))
  BY NatLessThanWellFounded, WFMin
<1>2. \A m \in T : ~ (m < n)
  BY <1>1 DEF OpToRel
<1> QED  BY <1>2

\* A sum counted: one pair for each unit of c[x], x in s.
Units(c, s) == UNION {{x} \X (1 .. c[x]) : x \in s}
\* The element a fold over s takes first.
Taken(s) == CHOOSE x \in s : TRUE
\* f satisfies the equation by which sums over subsets of S are defined.
SumStep(f, c, S) ==
  f = [s \in SUBSET S |-> IF s = {} THEN 0 ELSE c[Taken(s)] + f[s \ {Taken(s)}]]

LEMMA SumDef ==
  ASSUME NEW S, NEW c
  PROVE  SumFunctionOnSet(c, S) = (CHOOSE f : SumStep(f, c, S))[S]
  BY DEF SumFunctionOnSet, FoldFunctionOnSet, MapThenFoldSet, SumStep, Taken

LEMMA UnitsFinite ==
  ASSUME NEW S, IsFiniteSet(S), NEW c, \A x \in S : c[x] \in Nat
  PROVE  IsFiniteSet(Units(c, S))
<1> DEFINE Of(x) == {x} \X (1 .. c[x])
           all == {Of(x) : x \in S}
<1>1. \A x \in S : IsFiniteSet(Of(x))
  <2> SUFFICES ASSUME NEW x \in S PROVE IsFiniteSet(Of(x))
    OBVIOUS
  <2>1. c[x] \in Int /\ 1 \in Int
    OBVIOUS
  <2>2. IsFiniteSet(1 .. c[x])
    BY <2>1, FS_Interval
  <2> QED
    BY <2>2, FS_Singleton, FS_Product
<1>2. IsFiniteSet(all)
  <2> DEFINE h == [x \in S |-> Of(x)]
  <2>1. h \in Surjection(S, all)
    <3> HIDE DEF Of
    <3> QED  BY DEF Surjection
  <2> HIDE DEF h, all
  <2> QED
    BY <2>1, FS_Surjection
<1>3. \A T \in all : IsFiniteSet(T)
  BY <1>1
<1>4. IsFiniteSet(UNION all)
  <2> HIDE DEF all
  <2> QED  BY <1>2, <1>3, FS_UNION
<1> QED
  BY <1>4 DEF Units

\* One element more adds its value to the count.
LEMMA UnitsStep ==
  ASSUME NEW s, IsFiniteSet(s), NEW c, \A y \in s : c[y] \in Nat, NEW x \in s
  PROVE  Cardinality(Units(c, s)) = c[x] + Cardinality(Units(c, s \ {x}))
<1> DEFINE rest == Units(c, s \ {x})
           mine == {x} \X (1 .. c[x])
<1>1. Units(c, s) = mine \cup rest /\ mine \cap rest = {}
  BY DEF Units
<1>2. IsFiniteSet(mine) /\ Cardinality(mine) = c[x]
  <2>1. c[x] \in Int /\ 1 \in Int /\ c[x] >= 0
    OBVIOUS
  <2>2. IsFiniteSet(1 .. c[x]) /\ Cardinality(1 .. c[x]) = c[x]
    <3>1. IsFiniteSet(1 .. c[x]) /\ Cardinality(1 .. c[x]) = IF 1 > c[x] THEN 0 ELSE c[x] - 1 + 1
      BY <2>1, FS_Interval
    <3> QED
      BY <2>1, <3>1
  <2>3. IsFiniteSet({x}) /\ Cardinality({x}) = 1
    BY FS_Singleton
  <2> DEFINE one == {x}
             marks == 1 .. c[x]
  <2> HIDE DEF one, marks
  <2>4. IsFiniteSet(one \X marks) /\ Cardinality(one \X marks) = Cardinality(one) * Cardinality(marks)
    BY <2>2, <2>3, FS_Product DEF one, marks
  <2> QED
    BY <2>1, <2>2, <2>3, <2>4 DEF one, marks
<1>3. IsFiniteSet(rest)
  <2>1. rest \subseteq Units(c, s)
    BY <1>1
  <2> QED
    BY <2>1, UnitsFinite, FS_Subset
<1>4. Cardinality(mine \cap rest) = 0
  BY <1>1, FS_EmptySet
<1> HIDE DEF mine, rest
<1>5. Cardinality(mine \cup rest) = Cardinality(mine) + Cardinality(rest) - Cardinality(mine \cap rest)
  BY <1>2, <1>3, FS_Union
<1>6. Cardinality(rest) \in Nat /\ c[x] \in Nat
  BY <1>3, FS_CardinalityType
<1>7. Cardinality(Units(c, s)) = c[x] + Cardinality(rest)
  BY <1>1, <1>2, <1>4, <1>5, <1>6
<1> QED
  BY <1>7 DEF rest

\* A sum of naturals is the number of its units: these satisfy its equation, and the
\* smallest set on which two solutions differ cannot exist.
LEMMA SumCounts ==
  ASSUME NEW S, IsFiniteSet(S), NEW c, \A x \in S : c[x] \in Nat
  PROVE  SumFunctionOnSet(c, S) = Cardinality(Units(c, S))
<1> DEFINE g == [s \in SUBSET S |-> Cardinality(Units(c, s))]
           sum == CHOOSE f : SumStep(f, c, S)
<1>1. \A s \in SUBSET S : IsFiniteSet(s) /\ Cardinality(s) \in Nat
  BY FS_Subset, FS_CardinalityType
<1>2. \A s \in SUBSET S : s # {} => Taken(s) \in s
  BY DEF Taken
<1>3. \A s \in SUBSET S : s # {} => g[s] = c[Taken(s)] + g[s \ {Taken(s)}]
  <2> SUFFICES ASSUME NEW s \in SUBSET S, s # {}
               PROVE  Cardinality(Units(c, s)) = c[Taken(s)] + Cardinality(Units(c, s \ {Taken(s)}))
    OBVIOUS
  <2> QED
    BY <1>1, <1>2, UnitsStep
<1>4. g[{}] = 0
  <2>1. Units(c, {}) = {}
    BY DEF Units
  <2> QED
    BY <2>1, FS_EmptySet
<1>5. SumStep(g, c, S)
  <2>1. DOMAIN g = SUBSET S /\ g = [s \in SUBSET S |-> g[s]]
    OBVIOUS
  <2> HIDE DEF g
  <2> QED
    BY <1>3, <1>4, <2>1 DEF SumStep
<1> HIDE DEF g
<1>6. SumStep(sum, c, S)
  BY <1>5
<1> HIDE DEF sum
<1>7. ASSUME NEW t \in SUBSET S, sum[t] # g[t]
      PROVE  FALSE
  <2> DEFINE bad == {n \in Nat : \E s \in SUBSET S : sum[s] # g[s] /\ Cardinality(s) = n}
  <2>1. PICK n \in bad : \A m \in bad : n <= m
    <3>1. bad # {} /\ bad \in SUBSET Nat
      BY <1>1, <1>7
    <3> HIDE DEF bad
    <3> QED  BY <3>1, Least
  <2>2. PICK s \in SUBSET S : sum[s] # g[s] /\ Cardinality(s) = n
    OBVIOUS
  <2>3. s # {}
    BY <1>4, <1>6, <2>2 DEF SumStep
  <2> DEFINE x == Taken(s)
  <2>4. x \in s
    BY <1>2, <2>3
  <2>5. Cardinality(s \ {x}) = n - 1 /\ n \in Nat /\ Cardinality(s \ {x}) \in Nat
    <3>1. IsFiniteSet(s) /\ s \ {x} \in SUBSET S
      BY <1>1
    <3> HIDE DEF x
    <3> QED
      BY <1>1, <2>2, <2>4, <3>1, FS_RemoveElement
  <2>6. sum[s \ {x}] = g[s \ {x}]
    <3> HIDE DEF x
    <3> QED
      BY <2>1, <2>5
  <2>7. sum[s] = c[x] + sum[s \ {x}]
    BY <1>6, <2>3 DEF SumStep
  <2> QED
    BY <1>3, <2>2, <2>3, <2>6, <2>7
<1>8. sum[S] = g[S]
  BY <1>7
<1> QED
  BY <1>8, SumDef DEF g, sum

\* A sum depends only on the values over its set.
LEMMA SumSame ==
  ASSUME NEW S, IsFiniteSet(S), NEW c, \A x \in S : c[x] \in Nat,
         NEW d, \A x \in S : d[x] = c[x]
  PROVE  SumFunctionOnSet(d, S) = SumFunctionOnSet(c, S)
<1>1. Units(d, S) = Units(c, S)
  BY DEF Units
<1> QED
  BY <1>1, SumCounts

\* A sum over a set that has every positive element of another is not less.
LEMMA SumGrows ==
  ASSUME NEW T, IsFiniteSet(T), NEW S, IsFiniteSet(S),
         NEW c, \A x \in S \cup T : c[x] \in Nat,
         \A x \in S : c[x] > 0 => x \in T
  PROVE  /\ SumFunctionOnSet(c, S) \in Nat /\ SumFunctionOnSet(c, T) \in Nat
         /\ SumFunctionOnSet(c, S) <= SumFunctionOnSet(c, T)
<1>1. Units(c, S) \subseteq Units(c, T)
  BY DEF Units
<1>2. IsFiniteSet(Units(c, T)) /\ IsFiniteSet(Units(c, S))
  BY UnitsFinite
<1>3. /\ Cardinality(Units(c, S)) <= Cardinality(Units(c, T))
      /\ Cardinality(Units(c, S)) \in Nat /\ Cardinality(Units(c, T)) \in Nat
  BY <1>1, <1>2, FS_Subset, FS_CardinalityType
<1>4. /\ SumFunctionOnSet(c, S) = Cardinality(Units(c, S))
      /\ SumFunctionOnSet(c, T) = Cardinality(Units(c, T))
  BY SumCounts
<1> QED
  BY <1>3, <1>4

-----------------------------------------------------------------------------
(* Budgets *)

\* The runs whose recordRun is still to come.
Unrecorded == {"running", "grace"}

\* An idle tenant is forgotten only when its runs have left the window too.
IdleOutlasts(window) == IdleTtl = 0 \/ IdleTtl + 1 >= window

\* A run that started did so under the lock, not after now, and has touched its tenant.
StartsInv ==
  \A r \in Runs :
    /\ phase[r] \in Holding => startedAt[r] # Never
    /\ startedAt[r] # Never =>
         /\ phase[r] \notin {"absent", "waiting"}
         /\ startedAt[r] <= now
         /\ tenantLastActivityAt[tenantOf[r]] # Never =>
              startedAt[r] <= tenantLastActivityAt[tenantOf[r]]

\* The tenant's list holds every run of the window that is recorded and, for the list
\* of tokens, was charged.
Logged(lists, window, counts) ==
  \A r \in counts :
    /\ startedAt[r] # Never /\ tenantOf[r] \in Budgeted
    /\ phase[r] \notin Unrecorded
    /\ startedAt[r] > now - window
    => r \in lists[tenantOf[r]]
Charged   == {r \in Runs : charge[r] > 0}
HoursInv  == Logged(runTimestamps, MsPerHour, Runs)
TokensInv == Logged(tokenTimestamps, MsPerDay, Charged)

\* A list loses only what has left the window.
Remembers(lists, window) ==
  IdleOutlasts(window) =>
    \A q \in Runs : startedAt[q] # Never /\ tenantOf[q] \in Budgeted /\ q \in lists[tenantOf[q]]
                      => q \in lists'[tenantOf[q]] \/ startedAt[q] <= now - window

\* What a step does to the time, to what its tenants are remembered for, and to the
\* started runs' phases.
Elapses ==
  /\ now <= now'
  /\ \A u \in Tenants : tenantLastActivityAt'[u] \in {tenantLastActivityAt[u], now, Never}
  /\ Remembers(runTimestamps, MsPerHour)
  /\ Remembers(tokenTimestamps, MsPerDay)
  /\ \A q \in Runs : startedAt[q] # Never => tenantOf'[q] = tenantOf[q] /\ startedAt'[q] = startedAt[q]

\* Steps that start no run and record none, that start r, and that record r.
Passes ==
  /\ Elapses
  /\ UNCHANGED <<startedAt, charge>>
  /\ \A q \in Runs :
       /\ phase'[q] \in Holding => phase[q] \in Holding
       /\ startedAt[q] # Never => /\ phase'[q] \notin {"absent", "waiting"}
                                  /\ phase'[q] \in Unrecorded <=> phase[q] \in Unrecorded
Begins(r) ==
  /\ Elapses
  /\ HasLock(r) /\ WithinBudget(tenantOf[r])
  /\ startedAt' = [startedAt EXCEPT ![r] = now]
  /\ phase' = [phase EXCEPT ![r] = "running"]
  /\ UNCHANGED <<now, charge, tenantOf>>
  /\ tenantLastActivityAt'[tenantOf[r]] = now
Records(r) ==
  /\ Elapses
  /\ UNCHANGED <<startedAt, tenantOf>>
  /\ phase[r] \in Unrecorded
  /\ \E p \in {"released", "hold"} : phase' = [phase EXCEPT ![r] = p]
  /\ \A q \in Runs \ {r} : charge'[q] = charge[q]
  /\ tenantOf[r] \in Budgeted => /\ r \in runTimestamps'[tenantOf[r]]
                                 /\ charge'[r] > 0 => r \in tokenTimestamps'[tenantOf[r]]

LEMMA BudgetTypes ==
  ASSUME TypeOK
  PROVE  /\ now \in Int /\ startedAt \in [Runs -> Int] /\ phase \in [Runs -> Phases]
         /\ \A r \in Runs : startedAt[r] # Never => startedAt[r] \in Nat
         /\ tenantLastActivityAt \in [Tenants -> Int] /\ tenantOf \in [Runs -> Tenants \cup {NoTenant}]
         /\ runTimestamps \in [Tenants -> SUBSET Runs] /\ tokenTimestamps \in [Tenants -> SUBSET Runs]
         /\ charge \in [Runs -> Nat]
         /\ MsPerHour \in Nat /\ MsPerDay \in Nat /\ IdleTtl \in Nat
         /\ Budgeted \subseteq Tenants
  BY NumbersType, TenantsAssumption
     DEF TypeOK, RuntimeTypes, LockTypes, LimitTypes, RunTypes, WorkTypes

\* The runs of an evicted tenant have left the window.
LEMMA EvictedAreOld ==
  ASSUME TypeOK, StartsInv, NEW t, NEW window \in Nat, IdleOutlasts(window),
         NEW q \in Runs, startedAt[q] # Never, tenantOf[q] \in IdleTenants(t)
  PROVE  startedAt[q] <= now - window
  <1>1. /\ IdleTtl > 0 /\ tenantLastActivityAt[tenantOf[q]] # Never
        /\ tenantLastActivityAt[tenantOf[q]] < now - IdleTtl /\ tenantOf[q] \in Tenants
    BY DEF IdleTenants
  <1>2. startedAt[q] <= tenantLastActivityAt[tenantOf[q]]
    BY <1>1 DEF StartsInv
  <1>3. /\ startedAt[q] \in Int /\ tenantLastActivityAt[tenantOf[q]] \in Int /\ now \in Int
        /\ IdleTtl \in Nat
    BY <1>1, BudgetTypes
  <1>4. IdleTtl + 1 >= window
    BY <1>1, <1>3 DEF IdleOutlasts
  <1> QED
    BY <1>1, <1>2, <1>3, <1>4

\* Evictions and a prune at an earlier instant forget only what has left the window.
LEMMA PrunedRemember ==
  ASSUME TypeOK, StartsInv, NEW t, NEW gone, gone = IdleTenants(t) \/ gone = {},
         NEW window \in Nat, IdleOutlasts(window), NEW at \in Int, at <= now,
         NEW before, NEW after,
         NEW q \in Runs, startedAt[q] # Never, tenantOf[q] \in Tenants, q \in before[tenantOf[q]],
         tenantOf[q] \notin gone => Recent(before[tenantOf[q]], at, window) \subseteq after[tenantOf[q]]
  PROVE  q \in after[tenantOf[q]] \/ startedAt[q] <= now - window
  <1>1. startedAt[q] \in Int /\ now \in Int
    BY BudgetTypes
  <1>2. CASE tenantOf[q] \in gone
    BY <1>2, EvictedAreOld
  <1>3. CASE tenantOf[q] \notin gone
    BY <1>1, <1>3 DEF Recent
  <1> QED
    BY <1>2, <1>3

LEMMA KeepBudgetsRemembers ==
  ASSUME TypeOK, StartsInv, NEW t, NEW gone, gone = IdleTenants(t) \/ gone = {},
         \/ KeepBudgets(gone)
         \/ UNCHANGED <<runTimestamps, tokenTimestamps>>
         \/ t \in Tenants /\ PruneBudget(t, gone)
         \/ \E r \in Runs, n \in Nat : t = tenantOf[r] /\ startedAt[r] # Never /\ RecordRun(r, n, gone)
  PROVE  Remembers(runTimestamps, MsPerHour) /\ Remembers(tokenTimestamps, MsPerDay)
  <1>1. /\ now \in Int /\ \A r \in Runs : startedAt[r] \in Int
        /\ \A r \in Runs : startedAt[r] # Never => startedAt[r] <= now
        /\ runTimestamps \in [Tenants -> SUBSET Runs] /\ tokenTimestamps \in [Tenants -> SUBSET Runs]
        /\ MsPerHour \in Nat /\ MsPerDay \in Nat /\ Budgeted \subseteq Tenants
    BY BudgetTypes DEF StartsInv
  <1>2. \E at \in Int : /\ at <= now
                        /\ \A u \in Tenants \ gone :
                             /\ Recent(runTimestamps[u], at, MsPerHour) \subseteq runTimestamps'[u]
                             /\ Recent(tokenTimestamps[u], at, MsPerDay) \subseteq tokenTimestamps'[u]
    <2>1. \A runs, at, window : Recent(runs, at, window) \subseteq runs
      BY DEF Recent
    <2>2. CASE KeepBudgets(gone)
      BY <1>1, <2>1, <2>2 DEF KeepBudgets, Without
    <2>3. CASE UNCHANGED <<runTimestamps, tokenTimestamps>>
      BY <1>1, <2>1, <2>3
    <2>4. CASE t \in Tenants /\ PruneBudget(t, gone)
      BY <1>1, <2>1, <2>4 DEF PruneBudget, Without
    <2>5. ASSUME NEW r \in Runs, NEW n \in Nat, t = tenantOf[r], startedAt[r] # Never,
                 RecordRun(r, n, gone)
          PROVE  \A u \in Tenants \ gone :
                   /\ Recent(runTimestamps[u], startedAt[r], MsPerHour) \subseteq runTimestamps'[u]
                   /\ Recent(tokenTimestamps[u], startedAt[r], MsPerDay) \subseteq tokenTimestamps'[u]
      <3>1. CASE t \in Budgeted
        <4> DEFINE rts  == Without(runTimestamps, gone, {})
                   toks == Without(tokenTimestamps, gone, {})
        <4>1. /\ runTimestamps' = [rts EXCEPT ![t] = Recent(@, startedAt[r], MsPerHour) \cup {r}]
              /\ tokenTimestamps' = [toks EXCEPT ![t] = Recent(@, startedAt[r], MsPerDay)
                                                          \cup (IF n > 0 THEN {r} ELSE {})]
          BY <2>5, <3>1 DEF RecordRun
        <4>2. \A u \in Tenants \ gone : rts[u] = runTimestamps[u] /\ toks[u] = tokenTimestamps[u]
          BY DEF Without
        <4>3. DOMAIN rts = Tenants /\ DOMAIN toks = Tenants
          BY DEF Without
        <4> HIDE DEF rts, toks
        <4> QED
          BY <2>1, <4>1, <4>2, <4>3
      <3>2. CASE t \notin Budgeted
        BY <1>1, <2>1, <2>5, <3>2 DEF RecordRun, KeepBudgets, Without
      <3> QED
        BY <3>1, <3>2
    <2> QED
      BY <1>1, <2>2, <2>3, <2>4, <2>5
  <1>3. PICK at \in Int : /\ at <= now
                          /\ \A u \in Tenants \ gone :
                               /\ Recent(runTimestamps[u], at, MsPerHour) \subseteq runTimestamps'[u]
                               /\ Recent(tokenTimestamps[u], at, MsPerDay) \subseteq tokenTimestamps'[u]
    BY <1>2
  <1>4. Remembers(runTimestamps, MsPerHour)
    <2> SUFFICES ASSUME IdleOutlasts(MsPerHour), NEW q \in Runs, startedAt[q] # Never,
                        tenantOf[q] \in Budgeted, q \in runTimestamps[tenantOf[q]]
                 PROVE  q \in runTimestamps'[tenantOf[q]] \/ startedAt[q] <= now - MsPerHour
      BY DEF Remembers
    <2> QED
      BY <1>1, <1>3, PrunedRemember
  <1>5. Remembers(tokenTimestamps, MsPerDay)
    <2> SUFFICES ASSUME IdleOutlasts(MsPerDay), NEW q \in Runs, startedAt[q] # Never,
                        tenantOf[q] \in Budgeted, q \in tokenTimestamps[tenantOf[q]]
                 PROVE  q \in tokenTimestamps'[tenantOf[q]] \/ startedAt[q] <= now - MsPerDay
      BY DEF Remembers
    <2> QED
      BY <1>1, <1>3, PrunedRemember
  <1> QED
    BY <1>4, <1>5

\* Requests, the clock, the kill switch and the ends of calls leave the budgets alone.
LEMMA UnlimitedPasses ==
  ASSUME Inv, StartsInv, UNCHANGED <<runTimestamps, tokenTimestamps, charge, startedAt>>,
         now' = now \/ (now' = now + 1 /\ UNCHANGED tenantLastActivityAt),
         UNCHANGED tenantLastActivityAt \/ \E t \in Tenants : TouchTenant(t),
         \A q \in Runs : \/ phase'[q] = phase[q] /\ (phase[q] # "absent" => tenantOf'[q] = tenantOf[q])
                         \/ phase[q] = "absent" /\ phase'[q] = "waiting"
                         \/ /\ phase[q] \in {"hold", "released", "returned"}
                            /\ phase'[q] \in {"released", "returned", "done"}
                            /\ tenantOf'[q] = tenantOf[q]
  PROVE  Passes
<1>1. Remembers(runTimestamps, MsPerHour) /\ Remembers(tokenTimestamps, MsPerDay)
  BY DEF Remembers
<1>2. now <= now' /\ \A u \in Tenants : tenantLastActivityAt'[u] \in {tenantLastActivityAt[u], now, Never}
  BY BudgetTypes DEF Inv, TouchTenant
<1>3. \A q \in Runs : startedAt[q] # Never => phase[q] \notin {"absent", "waiting"}
  BY DEF StartsInv
<1>4. \A q \in Runs :
        /\ phase'[q] \in Holding => phase[q] \in Holding
        /\ startedAt[q] # Never => /\ phase'[q] \notin {"absent", "waiting"}
                                   /\ phase'[q] \in Unrecorded <=> phase[q] \in Unrecorded
                                   /\ tenantOf'[q] = tenantOf[q]
  BY <1>3 DEF Holding, Unrecorded
<1> QED
  BY <1>1, <1>2, <1>3, <1>4 DEF Passes, Elapses

\* A new call of executeRun starts nothing.
LEMMA NewCallPasses ==
  ASSUME Inv, NEW t, NEW kind, NEW ph, AllBut(ph), ExecuteRun(t, kind, ph)
  PROVE  \A q \in Runs : \/ phase'[q] = phase[q] /\ (phase[q] # "absent" => tenantOf'[q] = tenantOf[q])
                         \/ phase[q] = "absent" /\ phase'[q] = "waiting"
                         \/ /\ phase[q] \in {"hold", "released", "returned"}
                            /\ phase'[q] \in {"released", "returned", "done"}
                            /\ tenantOf'[q] = tenantOf[q]
<1>1. nextRun \in Runs /\ phase[nextRun] = "absent"
  BY DEF ExecuteRun, Inv, QueueInv, Numbered, TypeOK, RunTypes
<1>2. tenantOf' = [tenantOf EXCEPT ![nextRun] = t] /\ phase' = [ph EXCEPT ![nextRun] = "waiting"]
  BY DEF ExecuteRun
<1>3. ph \in [Runs -> Phases] /\ tenantOf \in [Runs -> Tenants \cup {NoTenant}]
  BY DEF AllBut, Inv, TypeOK, RunTypes
<1>4. \A q \in Runs : ph[q] = phase[q] \/ (phase[q] = "returned" /\ ph[q] = "done")
  BY DEF AllBut
<1>5. \A q \in Runs : q # nextRun => phase'[q] = ph[q] /\ tenantOf'[q] = tenantOf[q]
  BY <1>2, <1>3
<1>6. phase'[nextRun] = "waiting"
  BY <1>1, <1>2, <1>3
<1> QED
  BY <1>1, <1>4, <1>5, <1>6

\* Whoever visits a tenant touches it, and forgets the idle ones.
LEMMA VisitElapses ==
  ASSUME Inv, StartsInv, NEW t \in Tenants, NEW gone, Visit(t, gone)
  PROVE  /\ \A u \in Tenants : tenantLastActivityAt'[u] \in {tenantLastActivityAt[u], now, Never}
         /\ tenantLastActivityAt'[t] = now
  BY DEF Visit, Without

LEMMA RecordsRun ==
  ASSUME Inv, StartsInv, NEW r \in Runs, phase[r] \in Unrecorded, NEW n \in Nat, NEW gone,
         gone = IdleTenants(tenantOf[r]) \/ gone = {},
         Visit(tenantOf[r], gone) \/ UNCHANGED tenantLastActivityAt,
         RecordRun(r, n, gone), Frame(r), NEW p \in {"released", "hold"}, MoveTo(r, p)
  PROVE  Records(r)
<1>1. startedAt[r] # Never /\ tenantOf[r] \in Tenants /\ phase[r] # "absent"
  BY OwnerType DEF StartsInv, Unrecorded, Holding, Inv
<1>2. Remembers(runTimestamps, MsPerHour) /\ Remembers(tokenTimestamps, MsPerDay)
  BY <1>1, KeepBudgetsRemembers DEF Inv
<1>3. now' = now /\ startedAt' = startedAt /\ tenantOf' = tenantOf
  BY DEF Frame, callVars
<1>4. Elapses
  BY <1>1, <1>2, <1>3, VisitElapses, BudgetTypes DEF Elapses, Inv
<1>5. \A q \in Runs \ {r} : charge'[q] = charge[q]
  BY BudgetTypes DEF RecordRun, KeepBudgets, Inv
<1>6. ASSUME tenantOf[r] \in Budgeted
      PROVE  /\ r \in runTimestamps'[tenantOf[r]]
             /\ charge'[r] > 0 => r \in tokenTimestamps'[tenantOf[r]]
  <2> DEFINE t    == tenantOf[r]
             rts  == Without(runTimestamps, gone, {})
             toks == Without(tokenTimestamps, gone, {})
  <2>1. /\ runTimestamps' = [rts EXCEPT ![t] = Recent(@, startedAt[r], MsPerHour) \cup {r}]
        /\ tokenTimestamps' = [toks EXCEPT ![t] = Recent(@, startedAt[r], MsPerDay)
                                                    \cup (IF n > 0 THEN {r} ELSE {})]
        /\ charge' = [charge EXCEPT ![r] = n]
    BY <1>6 DEF RecordRun
  <2>2. DOMAIN rts = Tenants /\ DOMAIN toks = Tenants
    BY DEF Without
  <2>3. charge'[r] = n
    BY <2>1, BudgetTypes DEF Inv
  <2> HIDE DEF rts, toks
  <2> QED
    BY <1>1, <2>1, <2>2, <2>3
<1> QED
  BY <1>3, <1>4, <1>5, <1>6 DEF Records, MoveTo

LEMMA BudgetSteps ==
  ASSUME Inv, StartsInv, [Next]_vars
  PROVE  Passes \/ \E r \in Runs : Begins(r) \/ Records(r)
<1> DEFINE Kinds == Passes \/ \E r \in Runs : Begins(r) \/ Records(r)
<1> SUFFICES Kinds
  OBVIOUS
<1> USE DEF limitVars, workVars, callVars, lockVars
<1>t. phase \in [Runs -> Phases]
  BY DEF Inv, TypeOK, RunTypes
<1>1. ASSUME NEW t \in Tenants, EmitEvent(t) PROVE Kinds
  <2>1. CASE processingEvents
    BY <1>1, <2>1, UnlimitedPasses DEF EmitEvent
  <2>2. CASE ~processingEvents
    <3>1. PICK u \in Tenants : ExecuteRun(u, "event", phase)
      BY <1>1, <2>2, Arrivals
    <3>2. AllBut(phase)
      BY AllButType
    <3> QED
      BY <1>1, <3>1, <3>2, NewCallPasses, UnlimitedPasses DEF EmitEvent
  <2> QED
    BY <2>1, <2>2
<1>2. ASSUME NEW t \in Tenants, ScheduleRun(t) PROVE Kinds
  <2>1. AllBut(phase)
    BY AllButType
  <2> QED
    BY <1>2, <2>1, NewCallPasses, UnlimitedPasses DEF ScheduleRun
<1>3. CASE Control
  <2>1. CASE Tick
    BY <2>1, UnlimitedPasses DEF Tick
  <2>2. CASE Stop \/ ToggleKillSwitch \/ \E t \in HeartbeatTenants : Start(t)
    BY <2>2, UnlimitedPasses DEF Stop, ToggleKillSwitch, Start
  <2> QED
    BY <1>3, <2>1, <2>2 DEF Control
<1>5. ASSUME NEW r \in Runs, Admit(r) PROVE Kinds
  <2>1. HasLock(r) /\ tenantOf[r] \in Tenants /\ phase[r] = "waiting"
    BY <1>5, OwnerType DEF Admit, BlockedByKillSwitch, BlockedByLimit, StartRun, HasLock, Inv
  <2>2. startedAt[r] = Never
    BY <2>1 DEF StartsInv
  <2>3. CASE BlockedByKillSwitch(r) \/ BlockedByLimit(r)
    <3>1. /\ phase' = [phase EXCEPT ![r] = "released"]
          /\ UNCHANGED <<startedAt, charge, now, tenantOf>>
      BY <2>3 DEF BlockedByKillSwitch, BlockedByLimit, Block, MoveTo
    <3>2. Remembers(runTimestamps, MsPerHour) /\ Remembers(tokenTimestamps, MsPerDay)
      BY <2>1, <2>3, KeepBudgetsRemembers DEF BlockedByKillSwitch, BlockedByLimit, Inv
    <3>3. \A u \in Tenants : tenantLastActivityAt'[u] \in {tenantLastActivityAt[u], now, Never}
      BY <2>1, <2>3, VisitElapses, BudgetTypes
         DEF BlockedByKillSwitch, TouchTenant, BlockedByLimit, Inv
    <3>4. Elapses
      BY <3>1, <3>2, <3>3, BudgetTypes DEF Elapses, Inv
    <3>5. \A q \in Runs : q # r => phase'[q] = phase[q]
      BY <3>1
    <3> QED
      BY <1>t, <2>2, <3>1, <3>4, <3>5 DEF Passes, Unrecorded, Holding, StartsInv
  <2>4. CASE StartRun(r)
    <3> DEFINE t    == tenantOf[r]
               gone == IF t \in Budgeted \cup Breakers THEN IdleTenants(t) ELSE {}
    <3>1. /\ Visit(t, gone) /\ PruneBudget(t, gone) /\ WithinBudget(t)
          /\ startedAt' = [startedAt EXCEPT ![r] = now]
          /\ phase' = [phase EXCEPT ![r] = "running"]
          /\ UNCHANGED <<now, charge, tenantOf>>
      BY <2>4 DEF StartRun, MoveTo
    <3>2. Remembers(runTimestamps, MsPerHour) /\ Remembers(tokenTimestamps, MsPerDay)
      BY <2>1, <3>1, KeepBudgetsRemembers DEF Inv
    <3>3. /\ \A u \in Tenants : tenantLastActivityAt'[u] \in {tenantLastActivityAt[u], now, Never}
          /\ tenantLastActivityAt'[t] = now
      BY <2>1, <3>1, VisitElapses
    <3>4. \A q \in Runs : startedAt[q] # Never => startedAt'[q] = startedAt[q]
      BY <2>2, <3>1, BudgetTypes DEF Inv
    <3>5. Elapses
      BY <3>1, <3>2, <3>3, <3>4, BudgetTypes DEF Elapses, Inv
    <3>6. Begins(r)
      BY <2>1, <3>1, <3>3, <3>5 DEF Begins
    <3> QED
      BY <3>6
  <2> QED
    BY <1>5, <2>3, <2>4 DEF Admit
<1>6. ASSUME NEW r \in Runs, RunTimesOut(r) PROVE Kinds
  <2>1. /\ phase[r] = "running" /\ phase' = [phase EXCEPT ![r] = "grace"]
        /\ Visit(tenantOf[r], IdleTenants(tenantOf[r])) /\ KeepBudgets(IdleTenants(tenantOf[r]))
        /\ UNCHANGED <<startedAt, charge, now, tenantOf>> /\ tenantOf[r] \in Tenants
    BY <1>6, OwnerType DEF RunTimesOut, MoveTo, KeepBudgets, Frame, Inv
  <2>2. Remembers(runTimestamps, MsPerHour) /\ Remembers(tokenTimestamps, MsPerDay)
    BY <2>1, KeepBudgetsRemembers DEF Inv
  <2>3. \A u \in Tenants : tenantLastActivityAt'[u] \in {tenantLastActivityAt[u], now, Never}
    BY <2>1, VisitElapses
  <2>4. Elapses
    BY <2>1, <2>2, <2>3, BudgetTypes DEF Elapses, Inv
  <2>5. phase'[r] = "grace" /\ \A q \in Runs : q # r => phase'[q] = phase[q]
    BY <1>t, <2>1
  <2> QED
    BY <2>1, <2>4, <2>5 DEF Passes, Unrecorded, Holding, StartsInv
<1>7. ASSUME NEW r \in Runs, NEW ok \in BOOLEAN, NEW n \in Nat, RunCompletes(r, ok, n) PROVE Kinds
  BY <1>7, RecordsRun DEF RunCompletes, Unrecorded
<1>8. ASSUME NEW r \in Runs, NEW n \in Nat, NEW p \in {"released", "hold"}, phase[r] = "grace",
             ChargeAfterTimeout(r, n), MoveTo(r, p)
      PROVE  Kinds
  BY <1>8, RecordsRun DEF ChargeAfterTimeout, Unrecorded
<1>9. ASSUME NEW r \in Runs, NEW p, LeaveHold(r, p) PROVE Kinds
  BY <1>t, <1>9, UnlimitedPasses DEF LeaveHold, MoveTo
<1>10. ASSUME NEW r \in Runs, Provider(r) PROVE Kinds
  <2>1. CASE RunRejects(r)
    BY <1>7, <2>1 DEF RunRejects
  <2>2. ASSUME NEW n \in TokenCounts, NEW ok \in BOOLEAN, RunCompletes(r, ok, n) PROVE Kinds
    BY <1>7, <2>2, NumbersType
  <2>3. ASSUME NEW n \in TokenCounts, ProviderSettlesInGrace(r, n) PROVE Kinds
    BY <1>8, <2>3, NumbersType DEF ProviderSettlesInGrace
  <2>4. CASE ProviderSettlesInHold(r)
    BY <1>9, <2>4 DEF ProviderSettlesInHold
  <2>5. CASE ProviderSettlesLate(r)
    BY <2>5, UnlimitedPasses DEF ProviderSettlesLate
  <2> QED
    BY <1>10, <2>1, <2>2, <2>3, <2>4, <2>5 DEF Provider
<1>11. ASSUME NEW r \in Runs, Timer(r) PROVE Kinds
  BY <1>6, <1>8, <1>9, <1>11, NumbersType DEF Timer, GraceExpires, MaxHoldExpires
<1>12. ASSUME NEW r \in Runs, Finish(r) PROVE Kinds
  <2>1. CASE Return(r) \/ HeartbeatRunSettles(r)
    BY <1>t, <2>1, UnlimitedPasses DEF Return, HeartbeatRunSettles, MoveTo
  <2>2. CASE ProcessNextEvent(r) /\ MoreEvents
    <3>1. PICK u \in Tenants : ExecuteRun(u, "event", [phase EXCEPT ![r] = "done"])
      BY <2>2, Arrivals
    <3>2. AllBut([phase EXCEPT ![r] = "done"])
      BY <2>2, AllButType DEF ProcessNextEvent
    <3> QED
      BY <2>2, <3>1, <3>2, NewCallPasses, UnlimitedPasses DEF ProcessNextEvent
  <2>3. CASE ProcessNextEvent(r) /\ ~MoreEvents
    BY <1>t, <2>3, UnlimitedPasses DEF ProcessNextEvent, MoveTo
  <2> QED
    BY <1>12, <2>1, <2>2, <2>3 DEF Finish
<1>13. CASE UNCHANGED vars
  BY <1>13, UnlimitedPasses DEF vars
<1> QED
  BY <1>1, <1>2, <1>3, <1>5, <1>10, <1>11, <1>12, <1>13 DEF Next, Request

LEMMA StartsStep ==
  ASSUME Inv, StartsInv, [Next]_vars
  PROVE  StartsInv'
<1>1. /\ now \in Int /\ \A u \in Tenants : tenantLastActivityAt[u] \in Int
      /\ \A r \in Runs : startedAt[r] \in Int
      /\ startedAt \in [Runs -> Int] /\ phase \in [Runs -> Phases]
  BY BudgetTypes DEF Inv
<1>2. now' \in Int
  <2>1. Inv'
    BY NextInv
  <2> QED
    BY <2>1 DEF Inv, TypeOK, RuntimeTypes
<1>3. \A r \in Runs : startedAt[r] # Never => tenantOf[r] \in Tenants
  BY OwnerType DEF StartsInv, Inv
<1>4. ASSUME Elapses, NEW q \in Runs, startedAt[q] # Never
      PROVE  /\ startedAt'[q] <= now'
             /\ tenantLastActivityAt'[tenantOf'[q]] # Never =>
                  startedAt'[q] <= tenantLastActivityAt'[tenantOf'[q]]
  BY <1>1, <1>2, <1>3, <1>4 DEF Elapses, StartsInv
<1>5. CASE Passes
  <2>1. startedAt' = startedAt /\ Elapses
    BY <1>5 DEF Passes
  <2>2. \A q \in Runs : /\ phase'[q] \in Holding => startedAt[q] # Never
                        /\ startedAt[q] # Never => phase'[q] \notin {"absent", "waiting"}
    BY <1>5 DEF Passes, StartsInv
  <2> QED
    BY <1>4, <2>1, <2>2 DEF StartsInv
<1>6. ASSUME NEW r \in Runs, Begins(r)
      PROVE  StartsInv'
  <2>1. /\ startedAt'[r] = now /\ \A q \in Runs : q # r => startedAt'[q] = startedAt[q]
        /\ phase'[r] = "running" /\ \A q \in Runs : q # r => phase'[q] = phase[q]
        /\ now' = now /\ tenantOf' = tenantOf /\ tenantLastActivityAt'[tenantOf[r]] = now
        /\ Elapses
    BY <1>1, <1>6 DEF Begins
  <2>2. now # Never
    BY DEF Inv, TypeOK, RuntimeTypes
  <2> QED
    BY <1>1, <1>4, <2>1, <2>2 DEF StartsInv
<1>7. ASSUME NEW r \in Runs, Records(r)
      PROVE  StartsInv'
  <2>1. /\ startedAt' = startedAt /\ Elapses
        /\ phase'[r] \in {"released", "hold"} /\ \A q \in Runs : q # r => phase'[q] = phase[q]
        /\ phase[r] \in Holding
    BY <1>1, <1>7 DEF Records, Unrecorded, Holding
  <2> QED
    BY <1>4, <2>1 DEF StartsInv
<1> QED
  BY <1>5, <1>6, <1>7, BudgetSteps

\* A run that has started keeps the runs that started before it.
LEMMA StartedBeforeKept ==
  ASSUME Inv, StartsInv, InTurn, [Next]_vars,
         NEW s \in Runs, startedAt[s] # Never, NEW window \in Nat
  PROVE  /\ StartedBefore(s, window)' = StartedBefore(s, window)
         /\ \A q \in StartedBefore(s, window) : charge'[q] = charge[q]
<1>1. startedAt \in [Runs -> Int] /\ phase[s] \notin {"absent", "waiting"}
  BY BudgetTypes DEF Inv, StartsInv
<1>2. \A q \in Runs : q < s /\ SameTenant(q, s) => phase[q] \notin Unreleased
  BY <1>1 DEF InTurn
<1>3. ASSUME Elapses, startedAt' = startedAt
      PROVE  StartedBefore(s, window)' = StartedBefore(s, window)
  BY <1>3 DEF Elapses, StartedBefore, SameTenant
<1>4. CASE Passes
  BY <1>3, <1>4 DEF Passes
<1>5. ASSUME NEW r \in Runs, Begins(r)
      PROVE  /\ StartedBefore(s, window)' = StartedBefore(s, window)
             /\ charge' = charge
  <2>1. r # s /\ ~(r < s /\ SameTenant(r, s))
    BY <1>1, <1>2, <1>5 DEF Begins, HasLock, Unreleased
  <2>2. /\ \A q \in Runs : q # r => startedAt'[q] = startedAt[q]
        /\ tenantOf' = tenantOf /\ charge' = charge
    BY <1>1, <1>5 DEF Begins
  <2>3. \A q \in Runs : SameTenant(q, s)' <=> SameTenant(q, s)
    BY <2>2 DEF SameTenant
  <2> QED
    BY <2>1, <2>2, <2>3 DEF StartedBefore
<1>6. ASSUME NEW r \in Runs, Records(r)
      PROVE  /\ StartedBefore(s, window)' = StartedBefore(s, window)
             /\ \A q \in StartedBefore(s, window) : charge'[q] = charge[q]
  <2>1. r \notin StartedBefore(s, window)
    BY <1>2, <1>6 DEF Records, Unrecorded, Unreleased, Holding, StartedBefore
  <2>2. StartedBefore(s, window) \subseteq Runs
    BY DEF StartedBefore
  <2> QED
    BY <1>3, <1>6, <2>1, <2>2 DEF Records
<1> QED
  BY <1>4, <1>5, <1>6, BudgetSteps DEF Passes

\* The list of a tenant holds the recorded runs of its window, and still does.
LEMMA LoggedStep ==
  ASSUME Inv, StartsInv, [Next]_vars
  PROVE  /\ IdleOutlasts(MsPerHour) /\ HoursInv => HoursInv'
         /\ IdleOutlasts(MsPerDay) /\ TokensInv => TokensInv'
<1>1. /\ now \in Int /\ now' \in Int /\ startedAt \in [Runs -> Int] /\ phase \in [Runs -> Phases]
      /\ MsPerHour \in Nat /\ MsPerDay \in Nat
  <2>1. Inv'
    BY NextInv
  <2>2. now' \in Int
    BY <2>1 DEF Inv, TypeOK, RuntimeTypes
  <2> QED
    BY <2>2, BudgetTypes DEF Inv
<1>2. ASSUME Elapses, NEW q \in Runs, startedAt[q] # Never, tenantOf'[q] \in Budgeted
      PROVE  /\ IdleOutlasts(MsPerHour) /\ startedAt'[q] > now' - MsPerHour
                  /\ q \in runTimestamps[tenantOf[q]] => q \in runTimestamps'[tenantOf'[q]]
             /\ IdleOutlasts(MsPerDay) /\ startedAt'[q] > now' - MsPerDay
                  /\ q \in tokenTimestamps[tenantOf[q]] => q \in tokenTimestamps'[tenantOf'[q]]
             /\ startedAt'[q] > now' - MsPerHour => startedAt[q] > now - MsPerHour
             /\ startedAt'[q] > now' - MsPerDay => startedAt[q] > now - MsPerDay
             /\ tenantOf[q] \in Budgeted
  BY <1>1, <1>2 DEF Elapses, Remembers
<1>3. CASE Passes
  <2>1. Elapses /\ startedAt' = startedAt /\ charge' = charge
    BY <1>3 DEF Passes
  <2>2. \A q \in Runs : startedAt[q] # Never /\ phase'[q] \notin Unrecorded => phase[q] \notin Unrecorded
    BY <1>3 DEF Passes
  <2>3. ASSUME IdleOutlasts(MsPerHour), HoursInv PROVE HoursInv'
    BY <1>2, <2>1, <2>2, <2>3 DEF HoursInv, Logged
  <2>4. ASSUME IdleOutlasts(MsPerDay), TokensInv PROVE TokensInv'
    BY <1>2, <2>1, <2>2, <2>4 DEF TokensInv, Logged, Charged
  <2> QED
    BY <2>3, <2>4
<1>4. ASSUME NEW r \in Runs, Begins(r)
      PROVE  /\ IdleOutlasts(MsPerHour) /\ HoursInv => HoursInv'
             /\ IdleOutlasts(MsPerDay) /\ TokensInv => TokensInv'
  <2>1. /\ phase'[r] = "running" /\ \A q \in Runs : q # r => phase'[q] = phase[q]
        /\ \A q \in Runs : q # r => startedAt'[q] = startedAt[q]
        /\ charge' = charge /\ Elapses
    BY <1>1, <1>4 DEF Begins
  <2>2. ASSUME IdleOutlasts(MsPerHour), HoursInv PROVE HoursInv'
    BY <1>2, <2>1, <2>2 DEF HoursInv, Logged, Unrecorded
  <2>3. ASSUME IdleOutlasts(MsPerDay), TokensInv PROVE TokensInv'
    BY <1>2, <2>1, <2>3 DEF TokensInv, Logged, Unrecorded, Charged
  <2> QED
    BY <2>2, <2>3
<1>5. ASSUME NEW r \in Runs, Records(r)
      PROVE  /\ IdleOutlasts(MsPerHour) /\ HoursInv => HoursInv'
             /\ IdleOutlasts(MsPerDay) /\ TokensInv => TokensInv'
  <2>1. /\ \A q \in Runs : q # r => phase'[q] = phase[q] /\ charge'[q] = charge[q]
        /\ startedAt' = startedAt /\ tenantOf' = tenantOf /\ Elapses
        /\ tenantOf[r] \in Budgeted => /\ r \in runTimestamps'[tenantOf[r]]
                                       /\ charge'[r] > 0 => r \in tokenTimestamps'[tenantOf[r]]
    BY <1>1, <1>5 DEF Records
  <2>2. ASSUME IdleOutlasts(MsPerHour), HoursInv PROVE HoursInv'
    BY <1>2, <2>1, <2>2 DEF HoursInv, Logged
  <2>3. ASSUME IdleOutlasts(MsPerDay), TokensInv PROVE TokensInv'
    BY <1>2, <2>1, <2>3 DEF TokensInv, Logged, Charged
  <2> QED
    BY <2>2, <2>3
<1> QED
  BY <1>3, <1>4, <1>5, BudgetSteps

\* What a run that starts finds: of its tenant's earlier runs of the window, all are in the
\* list, as none is unreleased and so none unrecorded.
LEMMA StarterFinds ==
  ASSUME Inv, StartsInv, NEW r \in Runs, Begins(r), tenantOf[r] \in Budgeted
  PROVE  /\ HoursInv => StartedBefore(r, MsPerHour)' \subseteq
                          Recent(runTimestamps[tenantOf[r]], now, MsPerHour)
         /\ TokensInv => StartedBefore(r, MsPerDay)' \cap Charged \subseteq
                           Recent(tokenTimestamps[tenantOf[r]], now, MsPerDay)
<1>1. /\ startedAt'[r] = now /\ \A q \in Runs : q # r => startedAt'[q] = startedAt[q]
      /\ tenantOf' = tenantOf /\ HasLock(r)
  BY BudgetTypes DEF Begins, Inv
<1>2. ASSUME NEW q \in Runs, q < r, SameTenant(q, r)
      PROVE  phase[q] \notin Unrecorded
  BY <1>1, <1>2, HolderHasTurn DEF Inv, Unrecorded, Unreleased, Holding
<1>3. ASSUME NEW window, NEW q \in StartedBefore(r, window)'
      PROVE  /\ q \in Runs /\ startedAt[q] # Never /\ tenantOf[q] = tenantOf[r]
             /\ startedAt[q] > now - window /\ phase[q] \notin Unrecorded
  <2>1. q \in Runs /\ q < r /\ SameTenant(q, r)' /\ startedAt'[q] # Never /\ startedAt'[q] > startedAt'[r] - window
    BY <1>3 DEF StartedBefore
  <2>2. q # r /\ SameTenant(q, r) /\ tenantOf[q] = tenantOf[r]
    BY <1>1, <2>1 DEF SameTenant
  <2> QED
    BY <1>1, <1>2, <2>1, <2>2
<1>4. ASSUME HoursInv, NEW q \in StartedBefore(r, MsPerHour)'
      PROVE  q \in Recent(runTimestamps[tenantOf[r]], now, MsPerHour)
  BY <1>3, <1>4 DEF HoursInv, Logged, Recent
<1>5. ASSUME TokensInv, NEW q \in StartedBefore(r, MsPerDay)', q \in Charged
      PROVE  q \in Recent(tokenTimestamps[tenantOf[r]], now, MsPerDay)
  BY <1>3, <1>5 DEF TokensInv, Logged, Recent
<1> QED
  BY <1>4, <1>5

\* Every run of a budgeted tenant that started had fewer than maxRunsPerHour starts in the
\* hour before it, whatever times out, overlaps or is evicted, unless idle tenants are
\* forgotten within the hour.
THEOREM HourlyBudgetHolds == ASSUME IdleOutlasts(MsPerHour) PROVE Spec => []HourlyBudget
<1>1. Init => StartsInv /\ InTurn /\ HoursInv /\ HourlyBudget
  BY DEF Init, StartsInv, InTurn, HoursInv, Logged, HourlyBudget, Holding
<1>2. ASSUME Inv, StartsInv, InTurn, HoursInv, HourlyBudget, [Next]_vars
      PROVE  HourlyBudget'
  <2> SUFFICES ASSUME NEW s \in Runs, startedAt'[s] # Never, tenantOf'[s] \in Budgeted
               PROVE  Cardinality(StartedBefore(s, MsPerHour)') < MaxRunsPerHour
    BY DEF HourlyBudget
  <2>1. CASE startedAt[s] # Never
    <3>1. StartedBefore(s, MsPerHour)' = StartedBefore(s, MsPerHour)
      BY <1>2, <2>1, StartedBeforeKept, NumbersType
    <3>2. tenantOf'[s] = tenantOf[s]
      BY <1>2, <2>1, BudgetSteps DEF Passes, Begins, Records, Elapses
    <3> QED
      BY <1>2, <2>1, <3>1, <3>2 DEF HourlyBudget
  <2>2. CASE startedAt[s] = Never
    <3>1. Begins(s)
      <4>1. PICK r \in Runs : Begins(r)
        BY <1>2, <2>2, BudgetSteps DEF Passes, Records
      <4>2. r = s
        BY <1>2, <2>2, <4>1, BudgetTypes DEF Begins, Inv
      <4> QED
        BY <4>1, <4>2
    <3> DEFINE recent == Recent(runTimestamps[tenantOf[s]], now, MsPerHour)
    <3>2. tenantOf' = tenantOf /\ WithinBudget(tenantOf[s])
      BY <3>1 DEF Begins
    <3>3. Cardinality(recent) < MaxRunsPerHour
      BY <3>2 DEF WithinBudget
    <3>4. StartedBefore(s, MsPerHour)' \subseteq recent
      BY <1>2, <3>1, <3>2, StarterFinds
    <3>5. recent \subseteq Runs
      BY <1>2, <3>2, BudgetTypes DEF Recent, Inv
    <3> HIDE DEF recent
    <3>6. IsFiniteSet(Runs)
      BY FS_Interval, NumbersType
    <3>7. IsFiniteSet(recent)
      BY <3>5, <3>6, FS_Subset
    <3>8. /\ IsFiniteSet(StartedBefore(s, MsPerHour)')
          /\ Cardinality(StartedBefore(s, MsPerHour)') <= Cardinality(recent)
      BY <3>4, <3>7, FS_Subset
    <3>9. Cardinality(recent) \in Nat /\ Cardinality(StartedBefore(s, MsPerHour)') \in Nat
      BY <3>7, <3>8, FS_CardinalityType
    <3> QED
      BY <3>3, <3>8, <3>9, NumbersAssumption
  <2> QED
    BY <2>1, <2>2
<1>3. Inv /\ StartsInv /\ InTurn /\ HoursInv /\ HourlyBudget /\ [Next]_vars
        => StartsInv' /\ InTurn' /\ HoursInv' /\ HourlyBudget'
  BY <1>2, StartsStep, NextInTurn, LoggedStep
<1> QED
  BY <1>1, <1>3, Invariance, PTL DEF Spec

\* The tokens charged to the runs that a run of a budgeted tenant found started in the day
\* before it are fewer than maxTokensPerDay, whatever times out, overlaps or is evicted,
\* unless idle tenants are forgotten within the day.
THEOREM DailyTokensHold == ASSUME IdleOutlasts(MsPerDay) PROVE Spec => []DailyTokens
<1>1. Init => StartsInv /\ InTurn /\ TokensInv /\ DailyTokens
  <2> HAVE Init
  <2>1. \A r \in Runs : startedAt[r] = Never /\ phase[r] = "absent"
    BY DEF Init
  <2>2. StartsInv /\ InTurn
    BY <2>1 DEF StartsInv, InTurn, Holding
  <2>3. TokensInv
    BY <2>1 DEF TokensInv, Logged, Charged
  <2>4. DailyTokens
    BY <2>1 DEF DailyTokens
  <2> QED
    BY <2>2, <2>3, <2>4
<1>2. ASSUME Inv, StartsInv, InTurn, TokensInv, DailyTokens, [Next]_vars
      PROVE  DailyTokens'
  <2> SUFFICES ASSUME NEW s \in Runs, startedAt'[s] # Never, tenantOf'[s] \in Budgeted
               PROVE  SumFunctionOnSet(charge', StartedBefore(s, MsPerDay)') < MaxTokensPerDay
    BY DEF DailyTokens
  <2>1. IsFiniteSet(Runs) /\ \A q \in Runs : charge[q] \in Nat
    <3>1. IsFiniteSet(Runs)
      BY FS_Interval, NumbersType
    <3>2. charge \in [Runs -> Nat]
      BY <1>2 DEF Inv, TypeOK, LimitTypes
    <3> QED
      BY <3>1, <3>2
  <2>2. CASE startedAt[s] # Never
    <3> DEFINE before == StartedBefore(s, MsPerDay)
    <3>1. before' = before /\ \A q \in before : charge'[q] = charge[q]
      BY <1>2, <2>2, StartedBeforeKept, NumbersType
    <3>2. tenantOf'[s] = tenantOf[s]
      BY <1>2, <2>2, BudgetSteps DEF Passes, Begins, Records, Elapses
    <3>3. SumFunctionOnSet(charge, before) < MaxTokensPerDay
      BY <1>2, <2>2, <3>2 DEF DailyTokens
    <3>4. before \subseteq Runs
      BY DEF StartedBefore
    <3> HIDE DEF before
    <3>5. IsFiniteSet(before) /\ \A q \in before : charge[q] \in Nat
      BY <2>1, <3>4, FS_Subset
    <3>6. SumFunctionOnSet(charge', before) = SumFunctionOnSet(charge, before)
      BY <3>1, <3>5, SumSame
    <3>7. SumFunctionOnSet(charge', before') < MaxTokensPerDay
      BY <3>1, <3>3, <3>6
    <3> QED
      BY <3>7 DEF before
  <2>3. CASE startedAt[s] = Never
    <3>1. Begins(s)
      <4>1. PICK r \in Runs : Begins(r)
        BY <1>2, <2>3, BudgetSteps DEF Passes, Records
      <4>2. r = s
        BY <1>2, <2>3, <4>1, BudgetTypes DEF Begins, Inv
      <4> QED
        BY <4>1, <4>2
    <3> DEFINE recent == Recent(tokenTimestamps[tenantOf[s]], now, MsPerDay)
               before == StartedBefore(s, MsPerDay)'
    <3>2. tenantOf' = tenantOf /\ charge' = charge /\ WithinBudget(tenantOf[s])
      BY <3>1 DEF Begins
    <3>3. SumFunctionOnSet(charge, recent) < MaxTokensPerDay
      BY <3>2 DEF WithinBudget
    <3>4. before \cap Charged \subseteq recent
      BY <1>2, <3>1, <3>2, StarterFinds
    <3>5. recent \subseteq Runs
      BY <1>2, <3>2, BudgetTypes DEF Recent, Inv
    <3>6. before \subseteq Runs
      BY DEF StartedBefore
    <3> HIDE DEF recent, before
    <3>7. IsFiniteSet(recent) /\ IsFiniteSet(before)
      BY <2>1, <3>5, <3>6, FS_Subset
    <3>8. \A q \in before : charge[q] > 0 => q \in recent
      BY <3>4, <3>6 DEF Charged
    <3>9. \A q \in before \cup recent : charge[q] \in Nat
      BY <2>1, <3>5, <3>6
    <3>10. /\ SumFunctionOnSet(charge, before) \in Nat /\ SumFunctionOnSet(charge, recent) \in Nat
           /\ SumFunctionOnSet(charge, before) <= SumFunctionOnSet(charge, recent)
      BY <3>7, <3>8, <3>9, SumGrows
    <3>11. SumFunctionOnSet(charge, before) < MaxTokensPerDay
      BY <3>3, <3>10, NumbersAssumption
    <3> QED
      BY <3>2, <3>11 DEF before
  <2> QED
    BY <2>2, <2>3
<1>3. Inv /\ StartsInv /\ InTurn /\ TokensInv /\ DailyTokens /\ [Next]_vars
        => StartsInv' /\ InTurn' /\ TokensInv' /\ DailyTokens'
  BY <1>2, StartsStep, NextInTurn, LoggedStep
<1> QED
  BY <1>1, <1>3, Invariance, PTL DEF Spec
-----------------------------------------------------------------------------
(* The breaker *)

\* The verdicts the breaker counts, and the runs of tenant t that have one.
Judgements == {"success", "failure"}
Judged(t)  == {q \in Runs : tenantOf[q] = t /\ verdict[q] \in Judgements}

\* A run has no verdict before its turn; one that is judged has started and is no longer in
\* the race with its timeout; the runs of a tenant start in the order of their numbers.
JudgedInv ==
  /\ \A q \in Runs : phase[q] \in {"absent", "waiting"} => verdict[q] = "none"
  /\ \A q \in Runs : verdict[q] \in Judgements => startedAt[q] # Never /\ phase[q] # "running"
  /\ \A q, r \in Runs : q < r /\ SameTenant(q, r) /\ startedAt[q] # Never /\ startedAt[r] # Never
                          => startedAt[q] <= startedAt[r]

\* No run of q's tenant followed q within IdleTtl: neither one from n on, nor one to come.
Forgotten(q, n) ==
  /\ IdleTtl > 0
  /\ now - startedAt[q] > IdleTtl
  /\ \A p \in Runs : p >= n /\ SameTenant(p, q) /\ startedAt[p] # Never
                       => startedAt[p] - startedAt[q] > IdleTtl

\* consecutiveFailures counts the judged runs of t from n on, all of them failures; those
\* before n are behind a success or were forgotten, and whoever is judged next comes after.
CountedSince(t, n) ==
  /\ \A q \in Judged(t) : q >= n => verdict[q] = "failure"
  /\ consecutiveFailures[t] = Cardinality({q \in Judged(t) : q >= n})
  /\ \A p \in Runs : tenantOf[p] = t /\ phase[p] \in Unreleased => p >= n
  /\ \A q \in Judged(t) : q < n =>
       \/ \E s \in Judged(t) : q <= s /\ s < n /\ verdict[s] = "success"
       \/ Forgotten(q, n)
FailuresInv == \A t \in Tenants : \E n \in 1..nextRun : CountedSince(t, n)

\* The breaker of t is closed while a run is on trial; then it is open after too many
\* failures, since the latest judged run started, and closed otherwise.
OnTrial(t) == \E r \in Runs : tenantOf[r] = t /\ phase[r] = "running"
Few(n) == n = 0 \/ n < FailureThreshold
OpenOrClosed(t) ==
  IF OnTrial(t) \/ Few(consecutiveFailures[t])
    THEN circuitOpenedAt[t] = Never
    ELSE \E m \in Judged(t) : /\ \A q \in Judged(t) : q <= m
                              /\ circuitOpenedAt[t] = startedAt[m]
OpenInv == \A t \in Breakers : OpenOrClosed(t)

\* The tenants in gone may be forgotten: none has a call in flight, and none has started a
\* run for longer than IdleTtl.
MayForget(gone) ==
  \A q \in Runs : tenantOf[q] \in gone =>
    /\ phase[q] \notin Unreleased
    /\ startedAt[q] # Never => IdleTtl > 0 /\ now - startedAt[q] > IdleTtl

\* Steps that start no run and judge none, that start r, and that judge r.
Leaves(gone) ==
  /\ MayForget(gone) /\ KeepBreakers(gone)
  /\ now <= now' /\ nextRun <= nextRun'
  /\ UNCHANGED startedAt
  /\ \A q \in Runs :
       /\ phase[q] # "absent" => tenantOf'[q] = tenantOf[q]
       /\ phase'[q] = "running" <=> phase[q] = "running"
       /\ phase'[q] \in Unreleased => phase[q] \in Unreleased \cup {"absent"}
       /\ phase'[q] \in {"absent", "waiting"} => phase[q] \in {"absent", "waiting"}
       /\ \/ verdict'[q] = verdict[q]
          \/ phase[q] = "waiting" /\ phase'[q] = "released" /\ verdict'[q] \notin Judgements
Tries(r, gone) ==
  /\ MayForget(gone) /\ tenantOf[r] \notin gone
  /\ HasLock(r)
  /\ startedAt' = [startedAt EXCEPT ![r] = now]
  /\ phase' = [phase EXCEPT ![r] = "running"]
  /\ consecutiveFailures' = Without(consecutiveFailures, gone, 0)
  /\ circuitOpenedAt' = [Without(circuitOpenedAt, gone, Never) EXCEPT
                           ![tenantOf[r]] = IF tenantOf[r] \in Breakers THEN Never ELSE @]
  /\ UNCHANGED <<now, tenantOf, nextRun, verdict>>
Judges(r, ok, gone) ==
  /\ MayForget(gone) /\ tenantOf[r] \notin gone
  /\ phase[r] = "running"
  /\ \E p \in {"released", "grace"} : /\ ok => p = "released"
                                      /\ phase' = [phase EXCEPT ![r] = p]
  /\ verdict' = [verdict EXCEPT ![r] = IF ok THEN "success" ELSE "failure"]
  /\ IF ok THEN RecordSuccess(r, gone) ELSE RecordFailure(r, gone)
  /\ UNCHANGED <<now, tenantOf, nextRun, startedAt>>

LEMMA IdleMayBeForgotten ==
  ASSUME Inv, StartsInv, NEW t, NEW gone, gone = IdleTenants(t) \/ gone = {}
  PROVE  MayForget(gone) /\ gone \in SUBSET Tenants /\ t \notin gone
<1>1. CASE gone = {}
  BY <1>1 DEF MayForget
<1>2. CASE gone = IdleTenants(t)
  <2>1. gone \in SUBSET Tenants /\ t \notin gone
    BY <1>2 DEF IdleTenants
  <2> SUFFICES ASSUME NEW q \in Runs, tenantOf[q] \in gone
               PROVE  /\ phase[q] \notin Unreleased
                      /\ startedAt[q] # Never => IdleTtl > 0 /\ now - startedAt[q] > IdleTtl
    BY <2>1 DEF MayForget
  <2>2. phase[q] \notin Unreleased
    <3>1. Cardinality(Calls(tenantOf[q])) = 0
      BY <1>2, IdleTenantsAreIdle DEF Inv, QueueInv, Counted
    <3>2. Calls(tenantOf[q]) = {}
      BY <3>1, CallsFinite, FS_EmptySet
    <3> QED
      BY <3>2 DEF Calls, InFlight
  <2>3. ASSUME startedAt[q] # Never
        PROVE  IdleTtl > 0 /\ now - startedAt[q] > IdleTtl
    <3>1. IdleTtl > 0 /\ IdleTtl \in Nat /\ now \in Int /\ startedAt[q] \in Int
      BY <1>2, BudgetTypes DEF IdleTenants, Inv
    <3>2. IdleOutlasts(IdleTtl + 1)
      BY <3>1 DEF IdleOutlasts
    <3>3. startedAt[q] <= now - (IdleTtl + 1)
      BY <1>2, <2>3, <3>1, <3>2, EvictedAreOld DEF Inv
    <3> QED
      BY <3>1, <3>3
  <2> QED
    BY <2>2, <2>3
<1> QED
  BY <1>1, <1>2

\* Steps that leave the breakers and the verdicts alone.
LEMMA UnjudgedLeaves ==
  ASSUME Inv, UNCHANGED <<consecutiveFailures, circuitOpenedAt, startedAt, verdict>>,
         now' \in {now, now + 1}, nextRun' \in {nextRun, nextRun + 1},
         \A q \in Runs : \/ phase'[q] = phase[q] /\ (phase[q] # "absent" => tenantOf'[q] = tenantOf[q])
                         \/ phase[q] = "absent" /\ phase'[q] = "waiting"
                         \/ /\ phase[q] \in {"hold", "released", "returned"}
                            /\ phase'[q] \in {"released", "returned", "done"}
                            /\ tenantOf'[q] = tenantOf[q]
  PROVE  \E gone \in SUBSET Tenants : Leaves(gone)
<1>1. MayForget({})
  BY DEF MayForget
<1>2. KeepBreakers({})
  BY DEF KeepBreakers, Without, Inv, TypeOK, LimitTypes
<1>3. now <= now' /\ nextRun <= nextRun'
  BY DEF Inv, TypeOK, RuntimeTypes, RunTypes
<1>4. Leaves({})
  BY <1>1, <1>2, <1>3 DEF Leaves, Unreleased, Holding
<1> QED
  BY <1>4

LEMMA BreakerSteps ==
  ASSUME Inv, StartsInv, [Next]_vars
  PROVE  \/ \E gone \in SUBSET Tenants : Leaves(gone)
         \/ \E r \in Runs, gone \in SUBSET Tenants :
              Tries(r, gone) \/ \E ok \in BOOLEAN : Judges(r, ok, gone)
<1> DEFINE Kinds == \/ \E gone \in SUBSET Tenants : Leaves(gone)
                    \/ \E r \in Runs, gone \in SUBSET Tenants :
                         Tries(r, gone) \/ \E ok \in BOOLEAN : Judges(r, ok, gone)
<1> SUFFICES Kinds
  OBVIOUS
<1> USE DEF limitVars, workVars, callVars, lockVars
<1>t. phase \in [Runs -> Phases] /\ verdict \in [Runs -> Verdicts] /\ now \in Int /\ nextRun \in Int
  BY DEF Inv, TypeOK, RuntimeTypes, RunTypes, WorkTypes
<1>1. ASSUME NEW t \in Tenants, EmitEvent(t) PROVE Kinds
  <2>1. CASE processingEvents
    BY <1>1, <2>1, UnjudgedLeaves DEF EmitEvent
  <2>2. CASE ~processingEvents
    <3>1. PICK u \in Tenants : ExecuteRun(u, "event", phase)
      BY <1>1, <2>2, Arrivals
    <3>2. AllBut(phase) /\ nextRun' = nextRun + 1
      BY <3>1, AllButType DEF ExecuteRun
    <3> QED
      BY <1>1, <3>1, <3>2, NewCallPasses, UnjudgedLeaves DEF EmitEvent
  <2> QED
    BY <2>1, <2>2
<1>2. ASSUME NEW t \in Tenants, ScheduleRun(t) PROVE Kinds
  <2>1. AllBut(phase) /\ ExecuteRun(t, "heartbeat", phase) /\ nextRun' = nextRun + 1
    BY <1>2, AllButType DEF ScheduleRun, ExecuteRun
  <2> QED
    BY <1>2, <2>1, NewCallPasses, UnjudgedLeaves DEF ScheduleRun
<1>3. CASE Control
  BY <1>3, UnjudgedLeaves DEF Control, Tick, Stop, ToggleKillSwitch, Start
<1>4. ASSUME NEW r \in Runs, NEW why \in {"killed", "budget", "circuit"}, phase[r] = "waiting",
             Block(r, why), NEW gone \in SUBSET Tenants, MayForget(gone), KeepBreakers(gone)
      PROVE  Kinds
  <2>1. /\ phase'[r] = "released" /\ \A q \in Runs : q # r => phase'[q] = phase[q]
        /\ verdict'[r] = why /\ \A q \in Runs : q # r => verdict'[q] = verdict[q]
        /\ UNCHANGED <<startedAt, now, nextRun, tenantOf>>
    BY <1>t, <1>4 DEF Block, MoveTo
  <2>2. Leaves(gone)
    BY <1>t, <1>4, <2>1 DEF Leaves, Judgements, Unreleased, Holding
  <2> QED
    BY <2>2
<1>5. ASSUME NEW r \in Runs, Admit(r) PROVE Kinds
  <2>1. HasLock(r) /\ phase[r] = "waiting"
    BY <1>5 DEF Admit, BlockedByKillSwitch, BlockedByLimit, StartRun, HasLock
  <2>2. CASE BlockedByKillSwitch(r)
    <3>1. KeepBreakers({})
      BY <2>2 DEF BlockedByKillSwitch, KeepBreakers, Without, Inv, TypeOK, LimitTypes
    <3>2. MayForget({})
      BY DEF MayForget
    <3> QED
      BY <1>4, <2>1, <2>2, <3>1, <3>2 DEF BlockedByKillSwitch
  <2>3. CASE BlockedByLimit(r)
    <3> DEFINE gone == IdleTenants(tenantOf[r])
    <3>1. MayForget(gone) /\ gone \in SUBSET Tenants
      BY IdleMayBeForgotten
    <3>2. KeepBreakers(gone) /\ \E why \in {"budget", "circuit"} : Block(r, why)
      BY <2>3 DEF BlockedByLimit
    <3> HIDE DEF gone
    <3> QED
      BY <1>4, <2>1, <3>1, <3>2
  <2>4. CASE StartRun(r)
    <3> DEFINE t    == tenantOf[r]
               gone == IF t \in Budgeted \cup Breakers THEN IdleTenants(t) ELSE {}
    <3>1. MayForget(gone) /\ gone \in SUBSET Tenants /\ t \notin gone
      BY IdleMayBeForgotten
    <3>2. Tries(r, gone)
      BY <2>1, <2>4, <3>1 DEF StartRun, MoveTo, Tries
    <3> QED
      BY <3>1, <3>2
  <2> QED
    BY <1>5, <2>2, <2>3, <2>4 DEF Admit
<1>6. ASSUME NEW r \in Runs, RunTimesOut(r) PROVE Kinds
  <2>1. MayForget(IdleTenants(tenantOf[r])) /\ IdleTenants(tenantOf[r]) \in SUBSET Tenants
        /\ tenantOf[r] \notin IdleTenants(tenantOf[r])
    BY IdleMayBeForgotten
  <2>2. Judges(r, FALSE, IdleTenants(tenantOf[r]))
    BY <1>6, <2>1 DEF RunTimesOut, MoveTo, Frame, Judges
  <2> QED
    BY <2>1, <2>2
<1>7. ASSUME NEW r \in Runs, NEW ok \in BOOLEAN, NEW n, RunCompletes(r, ok, n) PROVE Kinds
  <2>1. MayForget(IdleTenants(tenantOf[r])) /\ IdleTenants(tenantOf[r]) \in SUBSET Tenants
        /\ tenantOf[r] \notin IdleTenants(tenantOf[r])
    BY IdleMayBeForgotten
  <2>2. Judges(r, ok, IdleTenants(tenantOf[r]))
    BY <1>7, <2>1 DEF RunCompletes, MoveTo, Frame, Judges
  <2> QED
    BY <2>1, <2>2
<1>8. ASSUME NEW r \in Runs, NEW n, NEW p \in {"released", "hold"}, phase[r] = "grace",
             ChargeAfterTimeout(r, n), MoveTo(r, p)
      PROVE  Kinds
  <2> DEFINE gone == IF tenantOf[r] \in Budgeted THEN IdleTenants(tenantOf[r]) ELSE {}
  <2>1. MayForget(gone) /\ gone \in SUBSET Tenants
    BY IdleMayBeForgotten
  <2>2. KeepBreakers(gone) /\ UNCHANGED <<verdict, startedAt, now, nextRun, tenantOf>>
    BY <1>8 DEF ChargeAfterTimeout, Frame
  <2>3. phase'[r] = p /\ \A q \in Runs : q # r => phase'[q] = phase[q]
    BY <1>t, <1>8 DEF MoveTo
  <2> HIDE DEF gone
  <2>4. Leaves(gone)
    BY <1>t, <1>8, <2>1, <2>2, <2>3 DEF Leaves, Unreleased, Holding
  <2> QED
    BY <2>1, <2>4
<1>9. ASSUME NEW r \in Runs, NEW p, LeaveHold(r, p) PROVE Kinds
  BY <1>t, <1>9, UnjudgedLeaves DEF LeaveHold, MoveTo
<1>10. ASSUME NEW r \in Runs, Provider(r) PROVE Kinds
  <2>1. CASE ProviderSettlesLate(r)
    BY <2>1, UnjudgedLeaves DEF ProviderSettlesLate
  <2> QED
    BY <1>7, <1>8, <1>9, <1>10, <2>1
       DEF Provider, RunRejects, ProviderSettlesInGrace, ProviderSettlesInHold
<1>11. ASSUME NEW r \in Runs, Timer(r) PROVE Kinds
  BY <1>6, <1>8, <1>9, <1>11 DEF Timer, GraceExpires, MaxHoldExpires
<1>12. ASSUME NEW r \in Runs, Finish(r) PROVE Kinds
  <2>1. CASE Return(r) \/ HeartbeatRunSettles(r)
    BY <1>t, <2>1, UnjudgedLeaves DEF Return, HeartbeatRunSettles, MoveTo
  <2>2. CASE ProcessNextEvent(r) /\ MoreEvents
    <3>1. PICK u \in Tenants : ExecuteRun(u, "event", [phase EXCEPT ![r] = "done"])
      BY <2>2, Arrivals
    <3>2. AllBut([phase EXCEPT ![r] = "done"]) /\ nextRun' = nextRun + 1
      BY <2>2, <3>1, AllButType DEF ProcessNextEvent, ExecuteRun
    <3> QED
      BY <2>2, <3>1, <3>2, NewCallPasses, UnjudgedLeaves DEF ProcessNextEvent
  <2>3. CASE ProcessNextEvent(r) /\ ~MoreEvents
    BY <1>t, <2>3, UnjudgedLeaves DEF ProcessNextEvent, MoveTo
  <2> QED
    BY <1>12, <2>1, <2>2, <2>3 DEF Finish
<1>13. CASE UNCHANGED vars
  BY <1>13, UnjudgedLeaves DEF vars
<1> QED
  BY <1>1, <1>2, <1>3, <1>5, <1>10, <1>11, <1>12, <1>13 DEF Next, Request

LEMMA JudgedStep ==
  ASSUME Inv, StartsInv, InTurn, JudgedInv, [Next]_vars
  PROVE  JudgedInv'
<1>t. /\ now \in Int /\ startedAt \in [Runs -> Int] /\ phase \in [Runs -> Phases]
      /\ verdict \in [Runs -> Verdicts]
  BY BudgetTypes DEF Inv, TypeOK, WorkTypes
<1>1. ASSUME NEW gone, Leaves(gone) PROVE JudgedInv'
  <2>1. \A q \in Runs : startedAt[q] # Never => tenantOf'[q] = tenantOf[q]
    BY <1>1 DEF Leaves, StartsInv
  <2>2. \A q \in Runs : verdict'[q] \in Judgements => startedAt'[q] # Never /\ phase'[q] # "running"
    BY <1>1 DEF Leaves, JudgedInv
  <2>3. \A q \in Runs : phase'[q] \in {"absent", "waiting"} => verdict'[q] = "none"
    BY <1>1 DEF Leaves, JudgedInv
  <2>4. startedAt' = startedAt
    BY <1>1 DEF Leaves
  <2> QED
    BY <2>1, <2>2, <2>3, <2>4 DEF JudgedInv, SameTenant
<1>2. ASSUME NEW r \in Runs, NEW gone, Tries(r, gone) PROVE JudgedInv'
  <2>1. /\ phase[r] = "waiting"
        /\ phase'[r] = "running" /\ \A q \in Runs : q # r => phase'[q] = phase[q]
        /\ startedAt'[r] = now /\ \A q \in Runs : q # r => startedAt'[q] = startedAt[q]
        /\ tenantOf' = tenantOf /\ verdict' = verdict
    BY <1>t, <1>2 DEF Tries, HasLock
  <2>2. ASSUME NEW q \in Runs, r < q, SameTenant(r, q) PROVE startedAt[q] = Never
    BY <2>1, <2>2 DEF StartsInv, InTurn, Unreleased
  <2>3. \A q \in Runs : startedAt[q] # Never => startedAt[q] <= now
    BY DEF StartsInv
  <2>4. verdict[r] = "none"
    BY <2>1 DEF JudgedInv
  <2>5. ASSUME NEW q \in Runs, NEW s \in Runs, q < s, SameTenant(q, s),
               startedAt'[q] # Never, startedAt'[s] # Never
        PROVE  startedAt'[q] <= startedAt'[s]
    BY <1>t, <2>1, <2>2, <2>3, <2>5 DEF JudgedInv
  <2> QED
    BY <2>1, <2>4, <2>5 DEF JudgedInv, SameTenant, Judgements
<1>3. ASSUME NEW r \in Runs, NEW ok \in BOOLEAN, NEW gone, Judges(r, ok, gone) PROVE JudgedInv'
  <2>1. /\ phase[r] = "running"
        /\ phase'[r] \in {"released", "grace"} /\ \A q \in Runs : q # r => phase'[q] = phase[q]
        /\ \A q \in Runs : q # r => verdict'[q] = verdict[q]
        /\ tenantOf' = tenantOf /\ startedAt' = startedAt
    BY <1>t, <1>3 DEF Judges
  <2>2. startedAt[r] # Never
    BY <2>1 DEF StartsInv, Holding
  <2> QED
    BY <2>1, <2>2 DEF JudgedInv, SameTenant
<1> QED
  BY <1>1, <1>2, <1>3, BreakerSteps

\* A run that has, or had, the lock is not before any of its tenant that started.
LEMMA StartedInOrder ==
  ASSUME StartsInv, InTurn, NEW r \in Runs, phase[r] \in Unreleased,
         NEW q \in Judged(tenantOf[r]), JudgedInv
  PROVE  q <= r
<1>1. q \in Runs /\ startedAt[q] # Never /\ tenantOf[q] = tenantOf[r]
  BY DEF Judged, JudgedInv
<1>2. phase[q] \notin {"absent", "waiting"}
  BY <1>1 DEF StartsInv
<1>3. ~(r < q)
  BY <1>1, <1>2 DEF InTurn, SameTenant
<1> QED
  BY <1>1, <1>3

\* A step that judges no run of t keeps the count of its failures, or forgets t.
LEMMA CountKept ==
  ASSUME Inv, StartsInv, JudgedInv, NEW t \in Tenants, NEW gone, MayForget(gone),
         consecutiveFailures'[t] = IF t \in gone THEN 0 ELSE consecutiveFailures[t],
         Judged(t)' = Judged(t),
         \A q \in Judged(t) : verdict'[q] = verdict[q] /\ startedAt'[q] = startedAt[q],
         \A p \in Runs : tenantOf'[p] = t /\ phase'[p] \in Unreleased
                           => (tenantOf[p] = t /\ phase[p] \in Unreleased) \/ p >= nextRun,
         \A p \in Runs : tenantOf'[p] = t /\ startedAt'[p] # Never
                           => /\ phase[p] # "absent" /\ tenantOf[p] = t
                              /\ startedAt'[p] # startedAt[p] => startedAt'[p] = now,
         now' \in Int, now <= now', nextRun' \in Int, nextRun <= nextRun',
         NEW n \in 1..nextRun, CountedSince(t, n)
  PROVE  \E m \in 1..nextRun' : CountedSince(t, m)'
<1>t. /\ now \in Int /\ startedAt \in [Runs -> Int] /\ nextRun \in Int
  BY BudgetTypes DEF Inv, TypeOK, RunTypes
<1>0. \A q \in Judged(t) : q \in Runs /\ tenantOf[q] = t /\ tenantOf'[q] = t /\ startedAt[q] # Never
  BY DEF Judged, JudgedInv
<1>1. CASE t \in gone
  <2>0. PICK m \in 1..nextRun : m = nextRun
    BY DEF Inv, TypeOK, RunTypes
  <2>1. \A q \in Runs : phase[q] = "absent" <=> q >= m
    BY <2>0 DEF Inv, QueueInv, Numbered
  <2>2. \A q \in Judged(t) : q \in Nat /\ q < m
    BY <1>0, <2>0, <2>1 DEF StartsInv
  <2>3. {q \in Judged(t) : q >= m} = {}
    BY <2>0, <2>2
  <2>4. consecutiveFailures'[t] = Cardinality({q \in Judged(t) : q >= m})
    BY <1>1, <2>3, FS_EmptySet
  <2>5. \A p \in Runs : tenantOf'[p] = t /\ phase'[p] \in Unreleased => p >= m
    BY <1>1, <2>0 DEF MayForget
  <2>6. ASSUME NEW q \in Judged(t) PROVE Forgotten(q, m)'
    <3>1. IdleTtl > 0 /\ now - startedAt[q] > IdleTtl /\ IdleTtl \in Nat
      BY <1>0, <1>1, NumbersType DEF MayForget
    <3>2. now' - startedAt'[q] > IdleTtl
      BY <1>t, <1>0, <3>1
    <3>3. \A p \in Runs : tenantOf'[p] = t /\ startedAt'[p] # Never => ~(p >= m)
      BY <2>1
    <3> QED
      BY <1>0, <3>1, <3>2, <3>3 DEF Forgotten, SameTenant
  <2>7. /\ \A q \in Judged(t)' : q >= m => verdict'[q] = "failure"
        /\ consecutiveFailures'[t] = Cardinality({q \in Judged(t)' : q >= m})
    BY <2>0, <2>2, <2>4
  <2>8. CountedSince(t, m)'
    BY <2>5, <2>6, <2>7 DEF CountedSince
  <2> QED
    BY <2>0, <2>8
<1>2. CASE t \notin gone
  <2>1. ASSUME NEW q \in Judged(t), Forgotten(q, n) PROVE Forgotten(q, n)'
    <3>1. IdleTtl > 0 /\ now - startedAt[q] > IdleTtl /\ IdleTtl \in Nat
      BY <2>1, NumbersType DEF Forgotten
    <3>2. now' - startedAt'[q] > IdleTtl
      BY <1>t, <1>0, <3>1
    <3>3. ASSUME NEW p \in Runs, p >= n, SameTenant(p, q)', startedAt'[p] # Never
          PROVE  startedAt'[p] - startedAt'[q] > IdleTtl
      <4>1. p # q /\ tenantOf'[p] = t /\ tenantOf[p] = t
        BY <1>0, <3>3 DEF SameTenant
      <4>2. CASE startedAt'[p] = startedAt[p]
        BY <1>0, <2>1, <3>3, <4>1, <4>2 DEF Forgotten, SameTenant
      <4>3. CASE startedAt'[p] # startedAt[p]
        BY <1>0, <3>1, <3>3, <4>1, <4>3
      <4> QED
        BY <4>2, <4>3
    <3> QED
      BY <3>1, <3>2, <3>3 DEF Forgotten
  <2>2. consecutiveFailures'[t] = Cardinality({q \in Judged(t)' : q >= n})
    BY <1>2 DEF CountedSince
  <2>3. \A p \in Runs : tenantOf'[p] = t /\ phase'[p] \in Unreleased => p >= n
    BY <1>t DEF CountedSince
  <2>4. \A q \in Judged(t)' : q >= n => verdict'[q] = "failure"
    BY DEF CountedSince
  <2>5. ASSUME NEW q \in Judged(t)', q < n
        PROVE  \/ \E s \in Judged(t)' : q <= s /\ s < n /\ verdict'[s] = "success"
               \/ Forgotten(q, n)'
    BY <2>1, <2>5 DEF CountedSince
  <2>6. CountedSince(t, n)'
    BY <2>2, <2>3, <2>4, <2>5 DEF CountedSince
  <2> QED
    BY <1>t, <2>6
<1> QED
  BY <1>1, <1>2

\* A verdict on r is the latest of its tenant's.
LEMMA JudgedNow ==
  ASSUME Inv, StartsInv, InTurn, JudgedInv, NEW r \in Runs, NEW ok \in BOOLEAN, NEW gone,
         Judges(r, ok, gone), NEW t \in Tenants
  PROVE  /\ t = tenantOf[r] =>
              /\ Judged(t)' = Judged(t) \cup {r} /\ r \notin Judged(t)
              /\ verdict'[r] = IF ok THEN "success" ELSE "failure"
              /\ \A q \in Judged(t) : q \in Runs /\ q < r
         /\ t # tenantOf[r] => Judged(t)' = Judged(t)
         /\ \A q \in Judged(t) : verdict'[q] = verdict[q]
<1>t. verdict \in [Runs -> Verdicts]
  BY DEF Inv, TypeOK, WorkTypes
<1>1. /\ phase[r] = "running" /\ tenantOf' = tenantOf
      /\ verdict'[r] = (IF ok THEN "success" ELSE "failure")
      /\ \A q \in Runs : q # r => verdict'[q] = verdict[q]
  BY <1>t DEF Judges
<1>2. verdict[r] \notin Judgements /\ verdict'[r] \in Judgements
  BY <1>1 DEF JudgedInv, Judgements
<1>3. \A q \in Judged(t) : q \in Runs /\ q # r /\ verdict'[q] = verdict[q]
  BY <1>1, <1>2 DEF Judged
<1>4. ASSUME t = tenantOf[r]
      PROVE  Judged(t)' = Judged(t) \cup {r} /\ \A q \in Judged(t) : q < r
  <2>1. Judged(t)' = Judged(t) \cup {r}
    BY <1>1, <1>2, <1>4 DEF Judged
  <2>2. \A q \in Judged(t) : q <= r
    BY <1>1, <1>4, StartedInOrder DEF Unreleased, Holding
  <2> QED
    BY <1>3, <2>1, <2>2
<1>5. ASSUME t # tenantOf[r] PROVE Judged(t)' = Judged(t)
  BY <1>1, <1>5 DEF Judged
<1> QED
  BY <1>1, <1>3, <1>4, <1>5

LEMMA FailuresStep ==
  ASSUME Inv, StartsInv, InTurn, JudgedInv, FailuresInv, [Next]_vars
  PROVE  FailuresInv'
<1>t. /\ now \in Int /\ startedAt \in [Runs -> Int] /\ phase \in [Runs -> Phases]
      /\ verdict \in [Runs -> Verdicts] /\ nextRun \in Int
      /\ consecutiveFailures \in [Tenants -> Nat]
  BY BudgetTypes DEF Inv, TypeOK, RunTypes, LimitTypes, WorkTypes
<1>u. now' \in Int /\ nextRun' \in Int
  <2>1. Inv'
    BY NextInv
  <2> QED
    BY <2>1 DEF Inv, TypeOK, RuntimeTypes, RunTypes
<1> SUFFICES ASSUME NEW t \in Tenants
             PROVE  \E m \in 1..nextRun' : CountedSince(t, m)'
  BY DEF FailuresInv
<1>n. PICK n \in 1..nextRun : CountedSince(t, n)
  BY DEF FailuresInv
<1>0. \A q \in Judged(t) : q \in Runs /\ tenantOf[q] = t /\ startedAt[q] # Never
  BY DEF Judged, JudgedInv
<1>a. \A q \in Runs : startedAt[q] # Never => phase[q] \notin {"absent", "waiting"}
  BY DEF StartsInv
<1>b. \A q \in Runs : phase[q] = "absent" => q >= nextRun
  BY DEF Inv, QueueInv, Numbered
<1>1. ASSUME NEW gone, Leaves(gone) PROVE \E m \in 1..nextRun' : CountedSince(t, m)'
  <2>1. /\ MayForget(gone) /\ now <= now' /\ nextRun <= nextRun' /\ startedAt' = startedAt
        /\ consecutiveFailures'[t] = IF t \in gone THEN 0 ELSE consecutiveFailures[t]
    BY <1>1 DEF Leaves, KeepBreakers, Without
  <2>2. \A q \in Runs :
          /\ phase[q] # "absent" => tenantOf'[q] = tenantOf[q]
          /\ phase'[q] \in Unreleased => phase[q] \in Unreleased \cup {"absent"}
          /\ verdict[q] \in Judgements \/ verdict'[q] \in Judgements =>
               verdict'[q] = verdict[q] /\ phase[q] # "absent"
    BY <1>1 DEF Leaves, JudgedInv, Judgements
  <2>3. Judged(t)' = Judged(t) /\ \A q \in Judged(t) : verdict'[q] = verdict[q]
    BY <2>2 DEF Judged
  <2>4. \A p \in Runs : tenantOf'[p] = t /\ phase'[p] \in Unreleased
                          => (tenantOf[p] = t /\ phase[p] \in Unreleased) \/ p >= nextRun
    BY <1>b, <2>2
  <2>5. \A p \in Runs : tenantOf'[p] = t /\ startedAt'[p] # Never
                          => /\ phase[p] # "absent" /\ tenantOf[p] = t
                             /\ startedAt'[p] # startedAt[p] => startedAt'[p] = now
    BY <1>a, <2>1, <2>2
  <2> QED
    BY <1>u, <1>n, <2>1, <2>3, <2>4, <2>5, CountKept
<1>2. ASSUME NEW r \in Runs, NEW gone, Tries(r, gone) PROVE \E m \in 1..nextRun' : CountedSince(t, m)'
  <2>1. /\ MayForget(gone) /\ now' = now /\ nextRun' = nextRun /\ tenantOf' = tenantOf
        /\ verdict' = verdict /\ phase[r] = "waiting"
        /\ startedAt'[r] = now /\ \A q \in Runs : q # r => startedAt'[q] = startedAt[q]
        /\ phase'[r] = "running" /\ \A q \in Runs : q # r => phase'[q] = phase[q]
        /\ consecutiveFailures'[t] = IF t \in gone THEN 0 ELSE consecutiveFailures[t]
    BY <1>t, <1>2 DEF Tries, HasLock, Without
  <2>2. Judged(t)' = Judged(t) /\ \A q \in Judged(t) : verdict'[q] = verdict[q] /\ startedAt'[q] = startedAt[q]
    BY <1>0, <1>a, <2>1 DEF Judged
  <2>3. \A p \in Runs : tenantOf'[p] = t /\ phase'[p] \in Unreleased
                          => (tenantOf[p] = t /\ phase[p] \in Unreleased) \/ p >= nextRun
    BY <2>1 DEF Unreleased
  <2>4. \A p \in Runs : tenantOf'[p] = t /\ startedAt'[p] # Never
                          => /\ phase[p] # "absent" /\ tenantOf[p] = t
                             /\ startedAt'[p] # startedAt[p] => startedAt'[p] = now
    BY <1>a, <2>1
  <2> QED
    BY <1>t, <1>u, <1>n, <2>1, <2>2, <2>3, <2>4, CountKept
<1>3. ASSUME NEW r \in Runs, NEW ok \in BOOLEAN, NEW gone, Judges(r, ok, gone)
      PROVE  \E m \in 1..nextRun' : CountedSince(t, m)'
  <2>1. /\ MayForget(gone) /\ tenantOf[r] \notin gone
        /\ now' = now /\ nextRun' = nextRun /\ tenantOf' = tenantOf
        /\ startedAt' = startedAt /\ phase[r] = "running"
    BY <1>t, <1>3 DEF Judges
  <2>a. /\ phase'[r] \in {"released", "grace"}
        /\ ok => phase'[r] = "released"
        /\ \A q \in Runs : phase'[q] \in Unreleased => phase[q] \in Unreleased
    BY <1>t, <1>3 DEF Judges, Unreleased, Holding
  <2>2. CASE t # tenantOf[r]
    <3>1. Judged(t)' = Judged(t) /\ \A q \in Judged(t) : verdict'[q] = verdict[q]
      BY <1>3, <2>2, JudgedNow
    <3>2. consecutiveFailures'[t] = IF t \in gone THEN 0 ELSE consecutiveFailures[t]
      <4> DEFINE cf == Without(consecutiveFailures, gone, 0)
      <4>1. cf[t] = IF t \in gone THEN 0 ELSE consecutiveFailures[t]
        BY DEF Without
      <4>2. \E k : consecutiveFailures' = [cf EXCEPT ![tenantOf[r]] = k]
        BY <1>3 DEF Judges, RecordSuccess, RecordFailure
      <4>3. DOMAIN cf = Tenants
        BY DEF Without
      <4> HIDE DEF cf
      <4> QED
        BY <2>2, <4>1, <4>2, <4>3
    <3>3. \A p \in Runs : tenantOf'[p] = t /\ phase'[p] \in Unreleased
                            => (tenantOf[p] = t /\ phase[p] \in Unreleased) \/ p >= nextRun
      BY <2>1, <2>a
    <3>4. \A p \in Runs : tenantOf'[p] = t /\ startedAt'[p] # Never
                            => /\ phase[p] # "absent" /\ tenantOf[p] = t
                               /\ startedAt'[p] # startedAt[p] => startedAt'[p] = now
      BY <1>a, <2>1
    <3> QED
      BY <1>t, <1>u, <1>n, <2>1, <3>1, <3>2, <3>3, <3>4, CountKept
  <2>3. CASE t = tenantOf[r] /\ ok
    <3>1. PICK m \in 1..nextRun : m = r + 1
      <4>1. r < nextRun
        BY <2>1 DEF Inv, QueueInv, Numbered, TypeOK, RunTypes
      <4> QED
        BY <1>t, <4>1
    <3>2. /\ \A q \in Judged(t)' : q \in Runs /\ ~(q >= m)
          /\ r \in Judged(t)' /\ verdict'[r] = "success"
      <4>1. /\ Judged(t)' = Judged(t) \cup {r} /\ verdict'[r] = "success"
            /\ \A q \in Judged(t) : q \in Runs /\ q < r
        BY <1>3, <2>3, JudgedNow
      <4>2. \A q \in Judged(t) : ~(q >= m)
        BY <3>1, <4>1
      <4>3. ~(r >= m)
        BY <3>1
      <4> QED
        BY <4>1, <4>2, <4>3
    <3>3. consecutiveFailures'[t] = 0
      BY <1>3, <2>3 DEF Judges, RecordSuccess, Without
    <3>4. {q \in Judged(t)' : q >= m} = {}
      BY <3>2
    <3>5. consecutiveFailures'[t] = Cardinality({q \in Judged(t)' : q >= m})
      BY <3>3, <3>4, FS_EmptySet
    <3>6. ASSUME NEW p \in Runs, tenantOf'[p] = t, phase'[p] \in Unreleased PROVE p >= m
      <4>1. p # r /\ phase[p] \in Unreleased /\ tenantOf[p] = tenantOf[r]
        BY <2>1, <2>3, <2>a, <3>6 DEF Unreleased, Holding
      <4>2. ~(p < r)
        BY <2>1, <4>1 DEF Inv, QueueInv, HolderFirst, SameTenant, Holding
      <4> QED
        BY <3>1, <4>1, <4>2
    <3>7. CountedSince(t, m)'
      BY <3>1, <3>2, <3>5, <3>6 DEF CountedSince
    <3> QED
      BY <2>1, <3>1, <3>7
  <2>4. CASE t = tenantOf[r] /\ ~ok
    <3> DEFINE since == {q \in Judged(t) : q >= n}
    <3>1. r >= n
      BY <1>n, <2>1, <2>4 DEF CountedSince, Unreleased, Holding
    <3>2. /\ Judged(t)' = Judged(t) \cup {r} /\ r \notin Judged(t)
          /\ \A q \in Judged(t) : verdict'[q] = verdict[q]
          /\ verdict'[r] = "failure"
      BY <1>3, <2>4, JudgedNow
    <3>3. {q \in Judged(t)' : q >= n} = since \cup {r} /\ r \notin since
      BY <3>1, <3>2
    <3>4. IsFiniteSet(since)
      <4>1. since \subseteq Runs /\ IsFiniteSet(Runs)
        BY <1>0, FS_Interval, NumbersType
      <4> QED
        BY <4>1, FS_Subset
    <3>5. Cardinality(since \cup {r}) = Cardinality(since) + 1
      BY <3>3, <3>4, FS_AddElement
    <3>6. consecutiveFailures'[t] = consecutiveFailures[t] + 1
      <4> DEFINE cf == Without(consecutiveFailures, gone, 0)
      <4>1. consecutiveFailures' = [cf EXCEPT ![t] = consecutiveFailures[t] + 1]
        BY <1>3, <2>4 DEF Judges, RecordFailure
      <4>2. DOMAIN cf = Tenants
        BY DEF Without
      <4> HIDE DEF cf
      <4> QED
        BY <4>1, <4>2
    <3>7. consecutiveFailures[t] = Cardinality(since)
      BY <1>n DEF CountedSince
    <3>8. consecutiveFailures'[t] = Cardinality({q \in Judged(t)' : q >= n})
      BY <3>3, <3>5, <3>6, <3>7
    <3>9. \A q \in Judged(t)' : q >= n => verdict'[q] = "failure"
      BY <1>n, <3>2 DEF CountedSince
    <3>10. \A p \in Runs : tenantOf'[p] = t /\ phase'[p] \in Unreleased => p >= n
      BY <1>n, <2>1, <2>a DEF CountedSince
    <3>11. ASSUME NEW q \in Judged(t)', q < n
           PROVE  \/ \E s \in Judged(t)' : q <= s /\ s < n /\ verdict'[s] = "success"
                  \/ Forgotten(q, n)'
      <4>1. q \in Judged(t)
        BY <3>1, <3>2, <3>11
      <4>2. CASE \E s \in Judged(t) : q <= s /\ s < n /\ verdict[s] = "success"
        BY <3>2, <4>2
      <4>3. CASE Forgotten(q, n)
        BY <2>1, <4>3 DEF Forgotten, SameTenant
      <4> QED
        BY <1>n, <3>11, <4>1, <4>2, <4>3 DEF CountedSince
    <3>12. CountedSince(t, n)'
      BY <3>8, <3>9, <3>10, <3>11 DEF CountedSince
    <3> QED
      BY <2>1, <3>12
  <2> QED
    BY <2>2, <2>3, <2>4
<1> QED
  BY <1>1, <1>2, <1>3, BreakerSteps

\* A step that tries and judges no run of t keeps its breaker, or forgets t.
LEMMA OpenKept ==
  ASSUME NEW t \in Breakers, OpenOrClosed(t), NEW gone,
         consecutiveFailures'[t] = IF t \in gone THEN 0 ELSE consecutiveFailures[t],
         circuitOpenedAt'[t] = IF t \in gone THEN Never ELSE circuitOpenedAt[t],
         Judged(t)' = Judged(t), \A q \in Judged(t) : startedAt'[q] = startedAt[q],
         OnTrial(t)' <=> OnTrial(t)
  PROVE  OpenOrClosed(t)'
<1>1. CASE t \in gone
  <2>1. Few(consecutiveFailures[t])' /\ circuitOpenedAt'[t] = Never
    BY <1>1 DEF Few
  <2> QED
    BY <2>1 DEF OpenOrClosed
<1>2. CASE t \notin gone
  <2>1. consecutiveFailures'[t] = consecutiveFailures[t] /\ circuitOpenedAt'[t] = circuitOpenedAt[t]
    BY <1>2
  <2>f. Few(consecutiveFailures[t])' <=> Few(consecutiveFailures[t])
    BY <2>1 DEF Few
  <2>2. CASE OnTrial(t) \/ Few(consecutiveFailures[t])
    BY <2>1, <2>f, <2>2 DEF OpenOrClosed
  <2>3. CASE ~(OnTrial(t) \/ Few(consecutiveFailures[t]))
    <3>1. PICK m \in Judged(t) : /\ \A q \in Judged(t) : q <= m
                                 /\ circuitOpenedAt[t] = startedAt[m]
      BY <2>3 DEF OpenOrClosed
    <3> QED
      BY <2>1, <2>f, <2>3, <3>1 DEF OpenOrClosed
  <2> QED
    BY <2>2, <2>3
<1> QED
  BY <1>1, <1>2

LEMMA OpenStep ==
  ASSUME Inv, StartsInv, InTurn, JudgedInv, OpenInv, [Next]_vars
  PROVE  OpenInv'
<1>t. /\ startedAt \in [Runs -> Int] /\ phase \in [Runs -> Phases]
      /\ consecutiveFailures \in [Tenants -> Nat] /\ Breakers \subseteq Tenants
      /\ FailureThreshold \in Nat
  BY BudgetTypes, TenantsAssumption, NumbersAssumption DEF Inv, TypeOK, LimitTypes
<1> SUFFICES ASSUME NEW t \in Breakers PROVE OpenOrClosed(t)'
  BY DEF OpenInv
<1>i. OpenOrClosed(t) /\ t \in Tenants
  BY <1>t DEF OpenInv
<1>1. ASSUME NEW gone, Leaves(gone) PROVE OpenOrClosed(t)'
  <2>1. /\ consecutiveFailures'[t] = IF t \in gone THEN 0 ELSE consecutiveFailures[t]
        /\ circuitOpenedAt'[t] = IF t \in gone THEN Never ELSE circuitOpenedAt[t]
        /\ startedAt' = startedAt
    BY <1>i, <1>1 DEF Leaves, KeepBreakers, Without
  <2>2. \A q \in Runs : verdict[q] \in Judgements \/ verdict'[q] \in Judgements =>
          verdict'[q] = verdict[q] /\ tenantOf'[q] = tenantOf[q]
    BY <1>1 DEF Leaves, JudgedInv, Judgements
  <2>3. Judged(t)' = Judged(t)
    BY <2>2 DEF Judged
  <2>4. OnTrial(t)' <=> OnTrial(t)
    BY <1>1 DEF Leaves, OnTrial
  <2> QED
    BY <1>t, <1>i, <2>1, <2>3, <2>4, OpenKept
<1>2. ASSUME NEW r \in Runs, NEW gone, Tries(r, gone) PROVE OpenOrClosed(t)'
  <2> DEFINE opened == Without(circuitOpenedAt, gone, Never)
  <2>1. /\ phase[r] = "waiting" /\ tenantOf[r] \notin gone
        /\ phase'[r] = "running" /\ \A q \in Runs : q # r => phase'[q] = phase[q]
        /\ \A q \in Runs : q # r => startedAt'[q] = startedAt[q]
        /\ tenantOf' = tenantOf /\ verdict' = verdict
        /\ consecutiveFailures'[t] = IF t \in gone THEN 0 ELSE consecutiveFailures[t]
    BY <1>t, <1>i, <1>2 DEF Tries, HasLock, Without
  <2>2. /\ circuitOpenedAt' = [opened EXCEPT ![tenantOf[r]] = IF tenantOf[r] \in Breakers THEN Never ELSE @]
        /\ DOMAIN opened = Tenants
        /\ opened[t] = IF t \in gone THEN Never ELSE circuitOpenedAt[t]
    BY <1>i, <1>2 DEF Tries, Without
  <2> HIDE DEF opened
  <2>3. CASE t = tenantOf[r]
    <3>1. circuitOpenedAt'[t] = Never
      BY <1>i, <2>2, <2>3
    <3>2. OnTrial(t)'
      BY <2>1, <2>3 DEF OnTrial
    <3> QED
      BY <3>1, <3>2 DEF OpenOrClosed
  <2>4. CASE t # tenantOf[r]
    <3>1. circuitOpenedAt'[t] = IF t \in gone THEN Never ELSE circuitOpenedAt[t]
      BY <1>i, <2>2, <2>4
    <3>2. Judged(t)' = Judged(t) /\ \A q \in Judged(t) : startedAt'[q] = startedAt[q]
      BY <2>1, <2>4 DEF Judged
    <3>3. OnTrial(t)' <=> OnTrial(t)
      BY <2>1, <2>4 DEF OnTrial
    <3> QED
      BY <1>t, <1>i, <2>1, <3>1, <3>2, <3>3, OpenKept
  <2> QED
    BY <2>3, <2>4
<1>3. ASSUME NEW r \in Runs, NEW ok \in BOOLEAN, NEW gone, Judges(r, ok, gone) PROVE OpenOrClosed(t)'
  <2> DEFINE failures == Without(consecutiveFailures, gone, 0)
             opened   == Without(circuitOpenedAt, gone, Never)
  <2>1. /\ phase[r] = "running" /\ tenantOf[r] \notin gone
        /\ phase'[r] # "running" /\ \A q \in Runs : q # r => phase'[q] = phase[q]
        /\ startedAt' = startedAt /\ tenantOf' = tenantOf
    BY <1>t, <1>3 DEF Judges
  <2>2. /\ DOMAIN failures = Tenants /\ DOMAIN opened = Tenants
        /\ failures[t] = IF t \in gone THEN 0 ELSE consecutiveFailures[t]
        /\ opened[t] = IF t \in gone THEN Never ELSE circuitOpenedAt[t]
    BY <1>i DEF Without
  <2>3. ok => /\ consecutiveFailures' = [failures EXCEPT ![tenantOf[r]] = 0]
              /\ circuitOpenedAt' = opened
    BY <1>3 DEF Judges, RecordSuccess
  <2>4. ~ok => /\ consecutiveFailures' = [failures EXCEPT ![tenantOf[r]] = consecutiveFailures[tenantOf[r]] + 1]
               /\ circuitOpenedAt' =
                    [opened EXCEPT ![tenantOf[r]] =
                       IF tenantOf[r] \in Breakers /\ consecutiveFailures[tenantOf[r]] + 1 >= FailureThreshold
                         THEN startedAt[r] ELSE @]
    BY <1>3 DEF Judges, RecordFailure
  <2> HIDE DEF failures, opened
  <2>5. CASE t = tenantOf[r]
    <3>1. OnTrial(t) /\ circuitOpenedAt[t] = Never
      <4>1. OnTrial(t)
        BY <2>1, <2>5 DEF OnTrial
      <4> QED
        BY <1>i, <4>1 DEF OpenOrClosed
    <3>2. ~OnTrial(t)'
      <4> SUFFICES ASSUME NEW q \in Runs, tenantOf'[q] = t, phase'[q] = "running" PROVE FALSE
        BY DEF OnTrial
      <4>1. q # r /\ phase[q] = "running" /\ tenantOf[q] = tenantOf[r]
        BY <2>1, <2>5
      <4>2. q < r \/ r < q
        BY <4>1
      <4> QED
        BY <2>1, <4>1, <4>2 DEF Inv, QueueInv, HolderFirst, SameTenant, Unreleased, Holding
    <3>3. CASE ok
      <4>1. consecutiveFailures'[t] = 0 /\ circuitOpenedAt'[t] = Never
        BY <1>i, <2>1, <2>2, <2>3, <2>5, <3>1, <3>3
      <4>2. Few(consecutiveFailures[t])'
        BY <4>1 DEF Few
      <4> QED
        BY <4>1, <4>2 DEF OpenOrClosed
    <3>4. CASE ~ok
      <4>1. /\ consecutiveFailures'[t] = consecutiveFailures[t] + 1
            /\ circuitOpenedAt'[t] = IF consecutiveFailures[t] + 1 >= FailureThreshold
                                       THEN startedAt[r] ELSE Never
        BY <1>i, <2>1, <2>2, <2>4, <2>5, <3>1, <3>4
      <4>2. CASE consecutiveFailures[t] + 1 < FailureThreshold
        BY <1>t, <1>i, <4>1, <4>2 DEF OpenOrClosed, Few
      <4>3. CASE ~(consecutiveFailures[t] + 1 < FailureThreshold)
        <5>1. circuitOpenedAt'[t] = startedAt'[r] /\ ~Few(consecutiveFailures[t])'
          BY <1>t, <1>i, <2>1, <4>1, <4>3 DEF Few
        <5>2. r \in Judged(t)' /\ \A q \in Judged(t)' : q <= r
          BY <1>3, <1>i, <2>5, JudgedNow
        <5> QED
          BY <3>2, <5>1, <5>2 DEF OpenOrClosed
      <4> QED
        BY <4>2, <4>3
    <3> QED
      BY <3>3, <3>4
  <2>6. CASE t # tenantOf[r]
    <3>1. /\ consecutiveFailures'[t] = IF t \in gone THEN 0 ELSE consecutiveFailures[t]
          /\ circuitOpenedAt'[t] = IF t \in gone THEN Never ELSE circuitOpenedAt[t]
      BY <1>i, <2>2, <2>3, <2>4, <2>6
    <3>2. Judged(t)' = Judged(t)
      BY <1>3, <1>i, <2>6, JudgedNow
    <3>3. OnTrial(t)' <=> OnTrial(t)
      BY <2>1, <2>6 DEF OnTrial
    <3> QED
      BY <1>t, <1>i, <2>1, <3>1, <3>2, <3>3, OpenKept
  <2> QED
    BY <2>5, <2>6
<1> QED
  BY <1>1, <1>2, <1>3, BreakerSteps

\* Whoever is blocked by the breaker has the failures that opened it behind it.
LEMMA OpenAfterFailures ==
  ASSUME Inv, StartsInv, JudgedInv, FailuresInv, OpenInv,
         NEW r \in Runs, HasLock(r), IsCircuitOpen(tenantOf[r])
  PROVE  \E n \in Runs : TooManyFailures(n, r)
<1> DEFINE t == tenantOf[r]
<1>1. /\ t \in Breakers /\ t \in Tenants /\ circuitOpenedAt[t] # Never
      /\ now - circuitOpenedAt[t] < Cooldown
  BY TenantsAssumption DEF IsCircuitOpen
<1>2. /\ consecutiveFailures[t] \in Nat /\ FailureThreshold \in Nat
      /\ consecutiveFailures[t] >= FailureThreshold /\ consecutiveFailures[t] # 0
  BY <1>1, NumbersAssumption DEF OpenInv, OpenOrClosed, Few, Inv, TypeOK, LimitTypes
<1>3. PICK m \in Judged(t) : (\A q \in Judged(t) : q <= m) /\ circuitOpenedAt[t] = startedAt[m]
  BY <1>1 DEF OpenInv, OpenOrClosed
<1>4. PICK n \in 1..nextRun : CountedSince(t, n)
  BY <1>1 DEF FailuresInv
<1> DEFINE since == {q \in Judged(t) : q >= n}
<1>5. Cardinality(since) >= FailureThreshold /\ Cardinality(since) # 0
  BY <1>2, <1>4 DEF CountedSince
<1>6. \E q \in Judged(t) : q \in Runs /\ q >= n
  <2>1. since # {}
    BY <1>2, <1>5, FS_EmptySet
  <2> QED
    BY <2>1 DEF Judged
<1>7. n \in Runs /\ m >= n /\ m \in Runs
  <2>1. PICK q \in Judged(t) : q \in Runs /\ q >= n
    BY <1>6
  <2>2. m \in Runs /\ q <= m
    BY <1>3, <2>1 DEF Judged
  <2>3. n \in Nat \ {0}
    BY DEF Inv, TypeOK, RunTypes
  <2> QED
    BY <2>1, <2>2, <2>3, NumbersType
<1>8. verdict[r] = "none"
  BY DEF HasLock, JudgedInv
<1>9. JudgedSince(n, r) = since
  BY <1>8 DEF JudgedSince, SameTenant, Judged, Judgements
<1>10. \A q \in since : verdict[q] = "failure"
  BY <1>4 DEF CountedSince
<1>11. m \in since /\ now - startedAt[m] < Cooldown
  BY <1>1, <1>3, <1>7
<1> HIDE DEF since
<1> QED
  BY <1>1, <1>5, <1>7, <1>9, <1>10, <1>11 DEF TooManyFailures

\* Failures that no eviction can have forgotten have opened the breaker.
LEMMA FailuresOpen ==
  ASSUME Inv, StartsInv, JudgedInv, FailuresInv, OpenInv,
         NEW r \in Runs, HasLock(r), NEW n \in Runs, TooManyFailures(n, r), Remembered(n, r)
  PROVE  IsCircuitOpen(tenantOf[r])
<1> DEFINE t    == tenantOf[r]
           last == JudgedSince(n, r)
<1>t. now \in Int /\ startedAt \in [Runs -> Int] /\ IdleTtl \in Nat /\ Cooldown \in Nat
  BY BudgetTypes, NumbersAssumption DEF Inv
<1>1. /\ t \in Breakers /\ t \in Tenants
      /\ Cardinality(last) >= FailureThreshold
      /\ \A q \in last : verdict[q] = "failure"
  BY TenantsAssumption DEF TooManyFailures
<1>2. last = {q \in Judged(t) : q >= n} /\ last \subseteq Runs
  <2>1. verdict[r] = "none"
    BY DEF HasLock, JudgedInv
  <2> QED
    BY <2>1 DEF JudgedSince, SameTenant, Judged, Judgements
<1>3. PICK q \in last : now - startedAt[q] < Cooldown
  BY DEF TooManyFailures
<1>4. PICK b \in 1..nextRun : CountedSince(t, b)
  BY <1>1 DEF FailuresInv
<1>b. b \in Int
  BY DEF Inv, TypeOK, RunTypes
<1> DEFINE since == {p \in Judged(t) : p >= b}
<1>5. last \subseteq since
  <2> SUFFICES ASSUME NEW low \in last, ~(low >= b) PROVE FALSE
    BY <1>2
  <2> DEFINE lower == {p \in last : p < b}
             depths == {MaxRuns - p : p \in lower}
  <2>1. depths \in SUBSET Nat /\ depths # {}
    BY <1>b, <1>2, NumbersType
  <2>2. PICK d \in depths : \A e \in depths : d <= e
    BY <2>1, Least
  <2>3. PICK g \in lower : d = MaxRuns - g
    BY <2>2
  <2>4. \A p \in lower : p <= g
    BY <1>2, <2>2, <2>3, NumbersType
  <2>5. g \in Judged(t) /\ g \in Runs /\ g >= n /\ g < b /\ g \in last
    BY <1>2, <2>3
  <2>6. ~ \E s \in Judged(t) : g <= s /\ s < b /\ verdict[s] = "success"
    <3> SUFFICES ASSUME NEW s \in Judged(t), g <= s, verdict[s] = "success" PROVE FALSE
      OBVIOUS
    <3>1. s \in last
      BY <1>2, <2>5 DEF Judged
    <3> QED
      BY <1>1, <3>1
  <2>7. Forgotten(g, b)
    BY <1>4, <2>5, <2>6 DEF CountedSince
  <2>8. \E p \in last : p > g /\ startedAt[p] - startedAt[g] <= IdleTtl
    <3>1. ~(now - startedAt[g] <= IdleTtl) /\ IdleTtl > 0
      BY <1>t, <2>5, <2>7 DEF Forgotten
    <3> QED
      BY <2>5, <3>1 DEF Remembered
  <2>9. PICK p \in last : p > g /\ startedAt[p] - startedAt[g] <= IdleTtl
    BY <2>8
  <2>10. p \in Runs /\ p >= b
    BY <1>b, <1>2, <2>4, <2>5, <2>9
  <2>11. SameTenant(p, g) /\ startedAt[p] # Never
    BY <1>2, <2>5, <2>9 DEF SameTenant, Judged, JudgedInv
  <2>12. startedAt[p] - startedAt[g] > IdleTtl
    BY <2>7, <2>10, <2>11 DEF Forgotten
  <2> QED
    BY <1>t, <2>5, <2>9, <2>10, <2>12
<1>6. consecutiveFailures[t] >= FailureThreshold /\ consecutiveFailures[t] # 0
  <2>1. IsFiniteSet(since)
    <3>1. IsFiniteSet(Runs)
      BY FS_Interval, NumbersType
    <3>2. since \subseteq Runs
      BY DEF Judged
    <3> QED
      BY <3>1, <3>2, FS_Subset
  <2> HIDE DEF since
  <2>2. IsFiniteSet(last) /\ Cardinality(last) <= Cardinality(since)
    BY <1>5, <2>1, FS_Subset
  <2>3. Cardinality(last) \in Nat /\ Cardinality(since) \in Nat
    BY <2>1, <2>2, FS_CardinalityType
  <2>4. consecutiveFailures[t] = Cardinality(since)
    BY <1>4 DEF CountedSince, since
  <2>5. Cardinality(since) # 0
    BY <1>3, <1>5, <2>1, FS_EmptySet
  <2> QED
    BY <1>1, <2>2, <2>3, <2>4, <2>5, NumbersAssumption
<1>7. ~OnTrial(t)
  <2> SUFFICES ASSUME NEW s \in Runs, tenantOf[s] = t, phase[s] = "running" PROVE FALSE
    BY DEF OnTrial
  <2>1. phase[r] = "waiting"
    BY DEF HasLock
  <2>2. s < r \/ r < s
    BY <2>1
  <2>3. CASE s < r
    BY <2>1, <2>3, HolderHasTurn DEF Inv, SameTenant, Unreleased, Holding
  <2>4. CASE r < s
    BY <2>1, <2>4 DEF Inv, QueueInv, HolderFirst, SameTenant, Unreleased, Holding
  <2> QED
    BY <2>2, <2>3, <2>4
<1>8. PICK m \in Judged(t) : (\A p \in Judged(t) : p <= m) /\ circuitOpenedAt[t] = startedAt[m]
  <2>1. consecutiveFailures[t] \in Nat /\ FailureThreshold \in Nat
    BY <1>1, NumbersAssumption DEF Inv, TypeOK, LimitTypes
  <2> QED
    BY <1>1, <1>6, <1>7, <2>1 DEF OpenInv, OpenOrClosed, Few
<1>9. /\ m \in Runs /\ q \in Runs /\ startedAt[m] # Never /\ startedAt[q] # Never
      /\ q <= m
      /\ q # m => SameTenant(q, m)
  BY <1>2, <1>3, <1>8 DEF Judged, JudgedInv, SameTenant
<1>10. startedAt[q] <= startedAt[m]
  <2>1. CASE q = m
    BY <1>t, <1>9, <2>1
  <2>2. CASE q # m
    <3>1. q < m
      BY <1>9, <2>2
    <3> QED
      BY <1>9, <2>2, <3>1 DEF JudgedInv
  <2> QED
    BY <2>1, <2>2
<1>11. now - circuitOpenedAt[t] < Cooldown
  <2>1. startedAt[m] \in Int /\ startedAt[q] \in Int
    BY <1>t, <1>9
  <2>2. now - startedAt[m] < Cooldown
    BY <1>t, <1>3, <1>10, <2>1
  <2> QED
    BY <1>8, <2>2
<1> QED
  BY <1>1, <1>8, <1>9, <1>11 DEF IsCircuitOpen

\* A waiting run leaves only by its own admission.
LEMMA LeavesAdmitted ==
  ASSUME Inv, NEW r \in Runs, phase[r] = "waiting", phase'[r] # "waiting", [Next]_vars
  PROVE  Admit(r)
<1>t. phase \in [Runs -> Phases]
  BY DEF Inv, TypeOK, RunTypes
<1>1. ASSUME NEW t, NEW kind, NEW ph, AllBut(ph), ExecuteRun(t, kind, ph) PROVE FALSE
  BY <1>1 DEF AllBut, ExecuteRun
<1>2. CASE Request
  <2>1. ASSUME NEW t \in Tenants, ScheduleRun(t) PROVE FALSE
    BY <1>1, <2>1, AllButType DEF ScheduleRun
  <2>2. ASSUME NEW t \in Tenants, EmitEvent(t) PROVE FALSE
    BY <1>1, <2>2, AllButType DEF EmitEvent
  <2> QED
    BY <1>2, <2>1, <2>2 DEF Request
<1>3. CASE Control
  BY <1>3 DEF Control, Stop, ToggleKillSwitch, Tick, Start
<1>4. ASSUME NEW q \in Runs, Timer(q) PROVE FALSE
  BY <1>t, <1>4 DEF Timer, RunTimesOut, GraceExpires, MaxHoldExpires, LeaveHold, MoveTo
<1>5. ASSUME NEW q \in Runs, Provider(q) PROVE FALSE
  BY <1>t, <1>5 DEF Provider, RunRejects, RunCompletes, ProviderSettlesInGrace,
                    ProviderSettlesInHold, LeaveHold, ProviderSettlesLate, MoveTo
<1>6. ASSUME NEW q \in Runs, Finish(q) PROVE FALSE
  <2>1. CASE ProcessNextEvent(q) /\ MoreEvents
    BY <1>1, <2>1, AllButType DEF ProcessNextEvent
  <2> QED
    BY <1>t, <1>6, <2>1 DEF Finish, Return, HeartbeatRunSettles, ProcessNextEvent, MoveTo
<1>7. ASSUME NEW q \in Runs, Admit(q) PROVE q = r
  BY <1>t, <1>7 DEF Admit, BlockedByKillSwitch, BlockedByLimit, StartRun, Block, MoveTo
<1>8. CASE UNCHANGED vars
  BY <1>8 DEF vars
<1> QED
  BY <1>2, <1>3, <1>4, <1>5, <1>6, <1>7, <1>8 DEF Next

\* The breaker blocks no run but after FailureThreshold failures in a row, one of
\* them started within the cooldown; and it blocks every run after failures that were
\* not forgotten with an idle tenant.
THEOREM BreakerObeysHistory == Spec => BreakerDecides
<1> DEFINE Past == StartsInv /\ InTurn /\ JudgedInv /\ FailuresInv /\ OpenInv
<1>1. Init => Past
  <2> HAVE Init
  <2>1. /\ \A r \in Runs : startedAt[r] = Never /\ phase[r] = "absent" /\ verdict[r] = "none"
        /\ \A t \in Tenants : consecutiveFailures[t] = 0 /\ circuitOpenedAt[t] = Never
        /\ nextRun = 1 /\ FailureThreshold \in Nat /\ Breakers \subseteq Tenants
    BY NumbersAssumption, TenantsAssumption DEF Init
  <2>2. StartsInv /\ InTurn /\ JudgedInv
    BY <2>1 DEF StartsInv, InTurn, JudgedInv, Judgements, Holding
  <2>3. \A t : Judged(t) = {} /\ {q \in Judged(t) : q >= 1} = {}
    BY <2>1 DEF Judged, Judgements
  <2>4. \A t \in Tenants : CountedSince(t, 1)
    BY <2>1, <2>3, FS_EmptySet DEF CountedSince
  <2>5. FailuresInv
    BY <2>1, <2>4 DEF FailuresInv
  <2>6. OpenInv
    BY <2>1 DEF OpenInv, OpenOrClosed, Few
  <2> QED
    BY <2>2, <2>5, <2>6
<1>2. Inv /\ Past /\ [Next]_vars => Past'
  BY StartsStep, NextInTurn, JudgedStep, FailuresStep, OpenStep
<1>3. ASSUME Inv, Past, [Next]_vars, NEW r \in Runs, phase[r] = "waiting", phase'[r] # "waiting",
             verdict'[r] \notin {"killed", "budget"}
      PROVE  /\ verdict'[r] = "circuit" => \E n \in Runs : TooManyFailures(n, r)
             /\ (\E n \in Runs : TooManyFailures(n, r) /\ Remembered(n, r)) => verdict'[r] = "circuit"
  <2>t. verdict \in [Runs -> Verdicts]
    BY <1>3 DEF Inv, TypeOK, WorkTypes
  <2>1. CASE BlockedByKillSwitch(r)
    BY <1>3, <2>t, <2>1 DEF BlockedByKillSwitch, Block
  <2>2. CASE BlockedByLimit(r)
    <3>1. HasLock(r) /\ IsCircuitOpen(tenantOf[r]) /\ verdict'[r] = "circuit"
      BY <1>3, <2>t, <2>2 DEF BlockedByLimit, Block
    <3> QED
      BY <1>3, <3>1, OpenAfterFailures
  <2>3. CASE StartRun(r)
    <3>1. HasLock(r) /\ ~IsCircuitOpen(tenantOf[r]) /\ verdict' = verdict
      BY <2>3 DEF StartRun
    <3>2. verdict[r] = "none"
      BY <1>3 DEF JudgedInv
    <3> QED
      BY <1>3, <3>1, <3>2, FailuresOpen
  <2> QED
    BY <1>3, <2>1, <2>2, <2>3, LeavesAdmitted DEF Admit
<1>4. Inv /\ Past /\ [Next]_vars =>
        [\A r \in Runs :
           phase[r] = "waiting" /\ phase'[r] # "waiting" /\ verdict'[r] \notin {"killed", "budget"}
             => /\ verdict'[r] = "circuit" => \E n \in Runs : TooManyFailures(n, r)
                /\ (\E n \in Runs : TooManyFailures(n, r) /\ Remembered(n, r))
                     => verdict'[r] = "circuit"]_vars
  BY <1>3
<1> QED
  BY <1>1, <1>2, <1>4, Invariance, PTL DEF Spec, BreakerDecides
=============================================================================
