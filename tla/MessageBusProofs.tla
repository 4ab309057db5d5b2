-------------------------- MODULE MessageBusProofs --------------------------
(***************************************************************************)
(* Whom a message of MessageBus reaches and when its publish rejects, for  *)
(* every number of agents, handlers, subscriptions and nested publishes.   *)
(***************************************************************************)
EXTENDS MessageBus, SequenceTheorems, FiniteSetTheorems, FunctionTheorems,
        WellFoundedInduction, TLAPS

Last(f) == f.called[Len(f.called)]

Ascending(q) == \A i, j \in DOMAIN q : i < j => q[i] < q[j]

\* The tickets of an agent are taken by its subscriptions, one each, and those handed out
\* later are larger.
TicketsInv ==
  \A a \in Agents :
    /\ \A s \in listeners[a] : s.ticket <= tickets
    /\ \A s, u \in listeners[a] : s.ticket = u.ticket => s = u

\* A publish under way has called every subscription of its receiver up to the one it is at,
\* in their order, and counted failures of called ones only.
Progressing(f) ==
  /\ f \in Frames
  /\ Len(f.called) > 0 /\ Last(f) <= tickets
  /\ Ascending(f.called)
  /\ \A t \in TicketsOf(f.to) : t <= Last(f) => t \in Members(f.called)
  /\ f.errors \subseteq Members(f.called)

StackInv == \A k \in DOMAIN stack : Progressing(stack[k])

Inv == TypeOK /\ TicketsInv /\ StackInv /\ EveryoneServed /\ FailureSignalled
-----------------------------------------------------------------------------
(* Lemmas *)

LEMMA Bounds == MaxTickets \in Nat /\ MaxMessages \in Nat
  BY BusAssumption

LEMMA Least ==
  ASSUME NEW T \in SUBSET Nat, T # {}
  PROVE  First(T) \in T /\ \A t \in T : First(T) <= t
<1>1. PICK n \in T : \A m \in T : ~ (<<m, n>> \in OpToRel(<, Nat))
  BY NatLessThanWellFounded, WFMin
<1>2. \A m \in T : ~ (m < n)
  BY <1>1 DEF OpToRel
<1>3. \A m \in T : n <= m
  BY <1>2
<1> QED  BY <1>3 DEF First

LEMMA TicketsType ==
  ASSUME TypeOK, NEW a \in Agents
  PROVE  TicketsOf(a) \subseteq 1..MaxTickets
<1>1. listeners[a] \subseteq Subscriptions
  BY DEF TypeOK
<1> QED  BY <1>1 DEF TicketsOf, Subscriptions

LEMMA TicketsBounded ==
  ASSUME TicketsInv, NEW a \in Agents, NEW t \in TicketsOf(a)
  PROVE  t <= tickets
BY DEF TicketsInv, TicketsOf

\* There are as many subscriptions as tickets.
LEMMA AsManyTickets ==
  ASSUME TypeOK, TicketsInv, NEW a \in Agents
  PROVE  /\ IsFiniteSet(TicketsOf(a)) /\ IsFiniteSet(listeners[a])
         /\ Cardinality(listeners[a]) = Cardinality(TicketsOf(a))
<1> DEFINE number == [s \in listeners[a] |-> s.ticket]
<1>1. number \in Bijection(listeners[a], TicketsOf(a))
  BY DEF Bijection, Injection, Surjection, IsInjective, TicketsInv, TicketsOf
<1>2. ExistsBijection(TicketsOf(a), listeners[a])
  BY <1>1, Fun_BijInverse DEF ExistsBijection
<1>3. IsFiniteSet(TicketsOf(a))
  <2>1. IsFiniteSet(1..MaxTickets)
    BY Bounds, FS_Interval
  <2> QED  BY <2>1, TicketsType, FS_Subset
<1> QED  BY <1>2, <1>3, FS_Bijection

LEMMA LastCalled ==
  ASSUME NEW f \in Frames, Len(f.called) > 0
  PROVE  /\ f.to \in Agents /\ f.errors \in SUBSET (1..MaxTickets)
         /\ f.called \in Seq(1..MaxTickets) /\ DOMAIN f.called = 1..Len(f.called)
         /\ Len(f.called) \in 1..Len(f.called)
         /\ Last(f) \in 1..MaxTickets /\ Last(f) \in Members(f.called)
<1>1. /\ f.to \in Agents /\ f.errors \in SUBSET (1..MaxTickets)
      /\ f.called \in Seq(1..MaxTickets)
  BY DEF Frames
<1> DEFINE q == f.called
<1>2. q \in Seq(1..MaxTickets) /\ Len(q) > 0
  BY <1>1
<1> HIDE DEF q
<1>3. DOMAIN q = 1..Len(q) /\ Len(q) \in 1..Len(q)
  BY <1>2
<1>4. q[Len(q)] \in 1..MaxTickets
  BY <1>2, <1>3, ElementOfSeq
<1>5. q[Len(q)] \in Members(q)
  BY <1>3 DEF Members
<1> QED  BY <1>1, <1>3, <1>4, <1>5 DEF q, Last

LEMMA CalledAppended ==
  ASSUME NEW f \in Frames, NEW t \in 1..MaxTickets
  PROVE  LET g == [f EXCEPT !.called = Append(@, t)]
         IN /\ g \in Frames /\ g.to = f.to /\ g.there = f.there /\ g.errors = f.errors
            /\ Len(g.called) = Len(f.called) + 1 /\ Last(g) = t
            /\ \A i \in DOMAIN f.called : g.called[i] = f.called[i]
            /\ DOMAIN f.called = 1..Len(f.called) /\ DOMAIN g.called = 1..(Len(f.called) + 1)
            /\ Members(g.called) = Members(f.called) \cup {t}
<1> DEFINE q == f.called
           g == [f EXCEPT !.called = Append(@, t)]
<1>1. q \in Seq(1..MaxTickets) /\ g = [f EXCEPT !.called = Append(q, t)]
  BY DEF Frames
<1>2. /\ Append(q, t) \in Seq(1..MaxTickets) /\ Len(Append(q, t)) = Len(q) + 1
      /\ \A i \in 1..Len(q) : Append(q, t)[i] = q[i]
      /\ Append(q, t)[Len(q) + 1] = t
      /\ DOMAIN q = 1..Len(q) /\ DOMAIN Append(q, t) = 1..(Len(q) + 1) /\ Len(q) \in Nat
  BY <1>1, AppendProperties
<1>3. /\ g \in Frames /\ g.to = f.to /\ g.there = f.there /\ g.errors = f.errors
      /\ g.called = Append(q, t)
  BY <1>1, <1>2 DEF Frames
<1>4. Members(Append(q, t)) = Members(q) \cup {t}
  BY <1>2 DEF Members
<1> HIDE DEF g, q
<1>5. Last(g) = t
  BY <1>2, <1>3 DEF Last
<1> QED  BY <1>2, <1>3, <1>4, <1>5 DEF g, q

LEMMA InitInv == Init => Inv
<1> SUFFICES ASSUME Init PROVE Inv
  OBVIOUS
<1>1. stack = <<>> /\ stack \in Seq(Frames) /\ DOMAIN stack = {}
  BY DEF Init
<1>2. TypeOK
  BY <1>1, Bounds DEF Init, TypeOK, Reports
<1> QED  BY <1>1, <1>2 DEF Init, Inv, TicketsInv, StackInv, EveryoneServed, FailureSignalled
-----------------------------------------------------------------------------
(* Registry and subscriptions *)

LEMMA RegisterInv ==
  ASSUME Inv, NEW a \in Agents, NEW scopes \in SUBSET Scopes, Register(a, scopes)
  PROVE  Inv'
<1>1. TypeOK'
  BY DEF Inv, TypeOK, Register
<1> QED  BY <1>1 DEF Inv, TicketsInv, StackInv, Progressing, EveryoneServed, FailureSignalled,
                     Register, TicketsOf

LEMMA SubscribeInv ==
  ASSUME Inv, NEW a \in Agents, NEW h \in Handlers, Subscribe(a, h)
  PROVE  Inv'
<1> DEFINE new == [handler |-> h, ticket |-> tickets + 1]
<1> USE DEF Inv
<1>1. /\ tickets \in 0..MaxTickets /\ tickets + 1 \in 1..MaxTickets /\ tickets' = tickets + 1
      /\ listeners \in [Agents -> SUBSET Subscriptions]
      /\ listeners' = [listeners EXCEPT ![a] = @ \cup {new}]
      /\ UNCHANGED <<registered, published, stack, returned>>
  BY Bounds DEF Subscribe, TypeOK
<1>2. new \in Subscriptions /\ new.ticket = tickets + 1
  BY <1>1 DEF Subscriptions
<1> HIDE DEF new
<1>3. TypeOK'
  BY <1>1, <1>2 DEF TypeOK
<1>4. \A b \in Agents : listeners'[b] = IF b = a THEN listeners[a] \cup {new} ELSE listeners[b]
  BY <1>1
<1>5. \A b \in Agents : \A s \in listeners[b] : s.ticket <= tickets /\ s.ticket \in Nat
  BY <1>1 DEF TicketsInv, Subscriptions
<1>6. TicketsInv'
  <2>1. \A b \in Agents : \A s \in listeners'[b] : s.ticket <= tickets'
    BY <1>1, <1>2, <1>4, <1>5
  <2>2. \A b \in Agents : \A s, u \in listeners'[b] : s.ticket = u.ticket => s = u
    BY <1>1, <1>2, <1>4, <1>5 DEF TicketsInv
  <2> QED  BY <2>1, <2>2 DEF TicketsInv
<1>7. \A b \in Agents : TicketsOf(b)' \subseteq TicketsOf(b) \cup {tickets + 1}
  BY <1>2, <1>4 DEF TicketsOf
<1>8. StackInv'
  <2> SUFFICES ASSUME NEW k \in DOMAIN stack PROVE Progressing(stack[k])'
    BY <1>1 DEF StackInv
  <2>1. Progressing(stack[k]) /\ stack' = stack
    BY <1>1 DEF StackInv
  <2> DEFINE f == stack[k]
  <2>2. f \in Frames /\ f.to \in Agents /\ Last(f) <= tickets /\ Last(f) \in Nat
    <3>1. f \in Frames /\ Last(f) <= tickets /\ Len(f.called) > 0
      BY <2>1 DEF Progressing
    <3> QED  BY <3>1, LastCalled
  <2>3. \A t \in TicketsOf(f.to)' : t <= Last(f) => t \in TicketsOf(f.to)
    BY <1>1, <1>7, <2>2
  <2> HIDE DEF f
  <2>4. Progressing(f)'
    BY <1>1, <2>1, <2>2, <2>3 DEF Progressing, f, Last
  <2> QED  BY <2>1, <2>4 DEF f
<1> QED  BY <1>1, <1>3, <1>6, <1>8 DEF EveryoneServed, FailureSignalled

LEMMA UnsubscribeInv ==
  ASSUME Inv, NEW a \in Agents, NEW h \in Handlers, Unsubscribe(a, h)
  PROVE  Inv'
<1> USE DEF Inv
<1>1. /\ listeners \in [Agents -> SUBSET Subscriptions]
      /\ listeners' = [listeners EXCEPT ![a] = {s \in listeners[a] : s.handler # h}]
      /\ UNCHANGED <<registered, tickets, published, stack, returned>>
  BY DEF Unsubscribe, TypeOK
<1>2. TypeOK'
  BY <1>1 DEF TypeOK
<1>3. \A b \in Agents : listeners'[b] \subseteq listeners[b]
  BY <1>1
<1>4. TicketsInv'
  BY <1>1, <1>3 DEF TicketsInv
<1>5. \A b \in Agents : TicketsOf(b)' \subseteq TicketsOf(b)
  BY <1>3 DEF TicketsOf
<1>6. StackInv'
  <2> SUFFICES ASSUME NEW k \in DOMAIN stack PROVE Progressing(stack[k])'
    BY <1>1 DEF StackInv
  <2>1. Progressing(stack[k]) /\ stack' = stack
    BY <1>1 DEF StackInv
  <2>2. stack[k].to \in Agents
    BY <2>1 DEF Progressing, Frames
  <2> QED  BY <1>1, <1>5, <2>1, <2>2 DEF Progressing, Last
<1> QED  BY <1>1, <1>2, <1>4, <1>6 DEF EveryoneServed, FailureSignalled
-----------------------------------------------------------------------------
(* Publishing *)

LEMMA PublishInv ==
  ASSUME Inv, NEW to \in Agents, Publish(to)
  PROVE  Inv'
<1> USE DEF Inv
<1> DEFINE f == [to |-> to, there |-> TicketsOf(to), called |-> <<First(TicketsOf(to))>>,
                 errors |-> {}]
<1>1. /\ stack \in Seq(Frames) /\ stack' = Append(stack, f) /\ published' = published + 1
      /\ published < MaxMessages /\ published \in 0..MaxMessages
      /\ UNCHANGED <<registered, listeners, tickets, returned>>
  BY DEF Publish, TypeOK
<1>2. TicketsOf(to) \subseteq 1..MaxTickets /\ TicketsOf(to) # {}
  BY TicketsType DEF Publish, TicketsOf
<1>3. /\ First(TicketsOf(to)) \in TicketsOf(to)
      /\ \A t \in TicketsOf(to) : First(TicketsOf(to)) <= t
  BY <1>2, Least
<1>4. First(TicketsOf(to)) \in 1..MaxTickets /\ First(TicketsOf(to)) <= tickets
  BY <1>2, <1>3, TicketsBounded
<1>5. f \in Frames
  BY <1>2, <1>4 DEF Frames
<1>6. Progressing(f)
  <2>1. /\ Len(f.called) = 1 /\ DOMAIN f.called = {1} /\ Last(f) = First(TicketsOf(to))
        /\ Members(f.called) = {First(TicketsOf(to))}
    BY DEF Last, Members
  <2>2. \A t \in TicketsOf(to) : t <= First(TicketsOf(to)) => t = First(TicketsOf(to))
    BY <1>2, <1>3, <1>4
  <2>3. f.to = to /\ f.errors = {}
    OBVIOUS
  <2> HIDE DEF f
  <2> QED  BY <1>4, <1>5, <2>1, <2>2, <2>3 DEF Progressing, Ascending
<1> HIDE DEF f
<1>7. TypeOK'
  BY <1>1, <1>5, Bounds DEF TypeOK
<1>8. \A k \in DOMAIN stack' : stack'[k] = f \/ (k \in DOMAIN stack /\ stack'[k] = stack[k])
  BY <1>1, <1>5, AppendProperties
<1>9. \A g : Progressing(g) => Progressing(g)'
  BY <1>1 DEF Progressing, TicketsOf
<1>10. StackInv'
  BY <1>6, <1>8, <1>9 DEF StackInv
<1> QED  BY <1>1, <1>7, <1>10 DEF TicketsInv, EveryoneServed, FailureSignalled

\* The handler that ends has been counted.
LEMMA CountedProgresses ==
  ASSUME NEW f, Progressing(f), NEW failed \in BOOLEAN
  PROVE  Progressing(Counted(f, failed))
<1>1. /\ f \in Frames /\ f.called \in Seq(1..MaxTickets) /\ Len(f.called) \in 1..Len(f.called)
      /\ f.errors \in SUBSET (1..MaxTickets) /\ DOMAIN f.called = 1..Len(f.called)
  BY LastCalled DEF Progressing
<1>2. Last(f) \in 1..MaxTickets /\ Last(f) \in Members(f.called)
  BY LastCalled DEF Progressing
<1> DEFINE g == [f EXCEPT !.errors = f.errors \cup {Last(f)}]
<1>3. /\ g \in Frames /\ g.to = f.to /\ g.there = f.there /\ g.called = f.called
      /\ g.errors = f.errors \cup {Last(f)}
  BY <1>1, <1>2 DEF Frames
<1>4. Counted(f, failed) = IF failed THEN g ELSE f
  BY DEF Counted, Last
<1> HIDE DEF g
<1>5. Progressing(g)
  BY <1>2, <1>3 DEF Progressing, Last
<1> QED  BY <1>4, <1>5

LEMMA HandlerEndsInv ==
  ASSUME Inv, NEW failed \in BOOLEAN, HandlerEnds(failed)
  PROVE  Inv'
<1> USE DEF Inv
<1> DEFINE n     == Len(stack)
           f     == Counted(stack[n], failed)
           rest  == Following(f.to, Last(f))
           lower == SubSeq(stack, 1, n - 1)
<1>1. /\ stack \in Seq(Frames) /\ n \in Nat \ {0} /\ n \in DOMAIN stack
      /\ UNCHANGED <<registered, listeners, tickets, published>>
  BY DEF HandlerEnds, TypeOK
<1>2. Progressing(f)
  BY <1>1, CountedProgresses DEF StackInv
<1>3. IF rest # {}
        THEN /\ stack' = Append(lower, [f EXCEPT !.called = Append(@, First(rest))])
             /\ UNCHANGED returned
        ELSE stack' = lower /\ returned' = {Report(f)}
  BY DEF HandlerEnds, CallNext, Last
<1>4. /\ lower \in Seq(Frames) /\ Len(lower) = n - 1 /\ DOMAIN lower = 1..(n - 1)
      /\ \A k \in 1..(n - 1) : lower[k] = stack[k]
  <2>1. /\ n - 1 \in Int /\ (n - 1) - 1 + 1 = n - 1
        /\ \A k \in 1..(n - 1) : stack[k] \in Frames /\ 1 + k - 1 = k
    BY <1>1
  <2> HIDE DEF n
  <2>2. /\ lower \in Seq(Frames) /\ Len(lower) = IF 1 <= n - 1 THEN (n - 1) - 1 + 1 ELSE 0
        /\ \A k \in 1..((n - 1) - 1 + 1) : lower[k] = stack[1 + k - 1]
    BY <2>1, SubSeqProperties
  <2> QED  BY <1>1, <2>1, <2>2
<1>5. \A k \in 1..(n - 1) : Progressing(lower[k])
  BY <1>1, <1>4 DEF StackInv
<1>6. \A g : Progressing(g) => Progressing(g)'
  BY <1>1 DEF Progressing, TicketsOf
<1>7. TicketsInv'
  BY <1>1 DEF TicketsInv
<1>8. /\ f \in Frames /\ f.to \in Agents /\ f.called \in Seq(1..MaxTickets)
      /\ Len(f.called) \in 1..Len(f.called) /\ Last(f) \in 1..MaxTickets /\ f.errors \subseteq 1..MaxTickets
      /\ DOMAIN f.called = 1..Len(f.called)
  <2> HIDE DEF f
  <2> QED  BY <1>2, LastCalled DEF Progressing
<1> HIDE DEF f, lower
<1>9. TicketsOf(f.to) \subseteq 1..MaxTickets
  BY <1>8, TicketsType
<1>10. CASE rest # {}
  <2> DEFINE t == First(rest)
             g == [f EXCEPT !.called = Append(@, t)]
  <2>1. t \in rest /\ \A u \in rest : t <= u
    BY <1>9, <1>10, Least DEF Following
  <2>2. /\ t \in TicketsOf(f.to) /\ t > Last(f) /\ t \in 1..MaxTickets /\ t <= tickets
    BY <1>8, <1>9, <2>1, TicketsBounded DEF Following
  <2>3. \A u \in TicketsOf(f.to) : u > Last(f) => t <= u
    BY <2>1 DEF Following
  <2> HIDE DEF t
  <2>4. /\ g \in Frames /\ g.to = f.to /\ g.there = f.there /\ g.errors = f.errors
        /\ Len(g.called) = Len(f.called) + 1 /\ Last(g) = t
        /\ \A i \in DOMAIN f.called : g.called[i] = f.called[i]
        /\ DOMAIN f.called = 1..Len(f.called) /\ DOMAIN g.called = 1..(Len(f.called) + 1)
        /\ Members(g.called) = Members(f.called) \cup {t}
    BY <1>8, <2>2, CalledAppended
  <2>5. stack' = Append(lower, g) /\ UNCHANGED returned
    BY <1>3, <1>10 DEF t
  <2> HIDE DEF g
  <2>6. Ascending(g.called)
    <3> SUFFICES ASSUME NEW i \in 1..(Len(f.called) + 1), NEW j \in 1..(Len(f.called) + 1), i < j
                 PROVE  g.called[i] < g.called[j]
      BY <2>4 DEF Ascending
    <3>1. i \in 1..Len(f.called) /\ g.called[i] = f.called[i]
      BY <1>8, <2>4
    <3>2. CASE j \in 1..Len(f.called)
      BY <1>2, <1>8, <2>4, <3>1, <3>2 DEF Progressing, Ascending
    <3>3. CASE j = Len(f.called) + 1
      <4>1. g.called[j] = t
        BY <2>4, <3>3 DEF Last
      <4>2. i = Len(f.called) \/ i < Len(f.called)
        BY <1>8, <3>1
      <4>3. f.called[i] <= Last(f)
        <5>1. CASE i = Len(f.called)
          BY <1>8, <5>1 DEF Last
        <5>2. CASE i < Len(f.called)
          <6>1. f.called[i] < f.called[Len(f.called)]
            BY <1>2, <1>8, <3>1, <5>2 DEF Progressing, Ascending
          <6>2. f.called[i] \in 1..MaxTickets
            BY <1>8, <3>1, ElementOfSeq
          <6> QED  BY <1>8, <6>1, <6>2 DEF Last
        <5> QED  BY <4>2, <5>1, <5>2
      <4>4. f.called[i] \in 1..MaxTickets
        BY <1>8, <3>1, ElementOfSeq
      <4> QED  BY <1>8, <2>2, <3>1, <4>1, <4>3, <4>4
    <3> QED  BY <1>8, <3>2, <3>3
  <2>7. Progressing(g)
    <3>1. \A u \in TicketsOf(f.to) : u <= t => u <= Last(f) \/ u = t
      BY <1>8, <1>9, <2>2, <2>3
    <3>2. \A u \in TicketsOf(g.to) : u <= Last(g) => u \in Members(g.called)
      BY <1>2, <2>4, <3>1 DEF Progressing
    <3>3. g.errors \subseteq Members(g.called)
      BY <1>2, <2>4 DEF Progressing
    <3> QED  BY <1>8, <2>2, <2>4, <2>6, <3>2, <3>3 DEF Progressing
  <2>8. \A k \in DOMAIN stack' : stack'[k] = g \/ (k \in 1..(n - 1) /\ stack'[k] = lower[k])
    BY <1>4, <2>4, <2>5, AppendProperties
  <2>9. StackInv'
    BY <1>5, <1>6, <2>7, <2>8 DEF StackInv
  <2>10. TypeOK'
    BY <1>1, <1>4, <2>4, <2>5 DEF TypeOK
  <2> QED  BY <1>7, <2>5, <2>9, <2>10 DEF EveryoneServed, FailureSignalled
<1>11. CASE rest = {}
  <2>1. stack' = lower /\ returned' = {Report(f)}
    BY <1>3, <1>11
  <2>2. StackInv'
    BY <1>4, <1>5, <1>6, <2>1 DEF StackInv
  <2>3. Report(f) \in Reports
    BY <1>8, <1>9 DEF Report, Reports, AllFailed
  <2>4. TypeOK'
    BY <1>1, <1>4, <2>1, <2>3 DEF TypeOK
  <2>5. TicketsOf(f.to) \subseteq Members(f.called)
    BY <1>2, <1>8, <1>9, <1>11 DEF Following, Progressing
  <2>6. /\ Report(f).publish = f /\ Report(f).left = TicketsOf(f.to)
        /\ Report(f).rejected = AllFailed(f)
    BY DEF Report
  <2>7. EveryoneServed'
    BY <1>2, <2>1, <2>5, <2>6 DEF EveryoneServed, Progressing, Ascending
  <2>8. ASSUME Members(f.called) = TicketsOf(f.to)
        PROVE  AllFailed(f) <=> f.errors = Members(f.called)
    <3>1. /\ IsFiniteSet(TicketsOf(f.to))
          /\ Cardinality(listeners[f.to]) = Cardinality(TicketsOf(f.to))
      BY <1>8, AsManyTickets
    <3>2. f.errors \subseteq TicketsOf(f.to)
      BY <1>2, <2>8 DEF Progressing
    <3>3. Cardinality(f.errors) = Cardinality(TicketsOf(f.to)) <=> f.errors = TicketsOf(f.to)
      BY <3>1, <3>2, FS_Subset
    <3>4. listeners[f.to] # {}
      <4>1. Last(f) \in Members(f.called)
        BY <1>8 DEF Last, Members
      <4> QED  BY <2>8, <4>1 DEF TicketsOf
    <3> QED  BY <2>8, <3>1, <3>3, <3>4 DEF AllFailed
  <2>9. FailureSignalled'
    BY <2>1, <2>6, <2>8 DEF FailureSignalled
  <2> QED  BY <1>7, <2>2, <2>4, <2>7, <2>9
<1> QED  BY <1>10, <1>11

LEMMA StepInv == Inv /\ [Next]_vars => Inv'
<1> SUFFICES ASSUME Inv, [Next]_vars PROVE Inv'
  OBVIOUS
<1>1. CASE Next
  BY <1>1, RegisterInv, SubscribeInv, UnsubscribeInv, PublishInv, HandlerEndsInv DEF Next, Send
<1>2. CASE UNCHANGED vars
  <2>1. TypeOK' /\ TicketsInv' /\ StackInv'
    BY <1>2 DEF vars, Inv, TypeOK, TicketsInv, StackInv, Progressing, TicketsOf
  <2> QED  BY <1>2, <2>1 DEF vars, Inv, EveryoneServed, FailureSignalled
<1> QED  BY <1>1, <1>2
-----------------------------------------------------------------------------
(* Theorems *)

THEOREM BusInvariance == Spec => []Inv
<1> QED  BY InitInv, StepInv, PTL DEF Spec

\* The registry, the bus and the publishes under way keep their types.
THEOREM BusTypeCorrect == Spec => []TypeOK
<1>1. Inv => TypeOK
  BY DEF Inv
<1> QED  BY <1>1, BusInvariance, PTL

\* Whatever the handlers throw, subscribe, unsubscribe and publish in their turn, a message
\* reaches every subscription that lasts as long as its publish, once and in order.
THEOREM MessagesServed == Spec => []EveryoneServed
<1>1. Inv => EveryoneServed
  BY DEF Inv
<1> QED  BY <1>1, BusInvariance, PTL

\* A publish that has called those that are subscribed when it returns rejects exactly if
\* all of them threw.
THEOREM FailuresSignalled == Spec => []FailureSignalled
<1>1. Inv => FailureSignalled
  BY DEF Inv
<1> QED  BY <1>1, BusInvariance, PTL
=============================================================================
