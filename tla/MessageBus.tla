----------------------------- MODULE MessageBus -----------------------------
(***************************************************************************)
(* agents/: the registry of agents, the coordinator that checks a message  *)
(* against it, and the bus that hands the message to the handlers of its   *)
(* receiver.  Code that has the bus may publish past the coordinator.      *)
(* publish calls the handlers one after the other on the caller's stack;   *)
(* while one runs it may subscribe, unsubscribe, register an agent, send   *)
(* or publish a message itself, whose delivery is nested in its own.       *)
(* Handlers are told apart by nothing but whether they throw; payloads are *)
(* cloned for each and left out, but for the memory scope they name.       *)
(***************************************************************************)
EXTENDS Naturals, Sequences, FiniteSets

CONSTANTS
  Agents,
  Handlers,
  Scopes,        \* memory scopes a message of type 'memory' may name
  NoScope,       \* the scope of every other message
  MaxTickets,    \* bound: subscriptions ever made
  MaxMessages    \* bound: messages ever published, and so the depth of nesting

ASSUME BusAssumption ==
  /\ NoScope \notin Scopes
  /\ MaxTickets \in Nat
  /\ MaxMessages \in Nat

VARIABLES
  registered,    \* the registry's map: the scopes each registered agent may read
  listeners,     \* the bus' map: subscriptions, numbered in order of insertion
  tickets,       \* subscriptions made so far
  published,     \* messages published so far
  stack,         \* the publishes under way, innermost last
  returned       \* history: the publish that returned last, and how it ended

vars == <<registered, listeners, tickets, published, stack, returned>>

Subscriptions == [handler : Handlers, ticket : 1..MaxTickets]

\* A publish: its message's receiver, the tickets there when it began, those it has called (the
\* last one runs), and the calls that threw.
Frames == [to : Agents, there : SUBSET (1..MaxTickets), called : Seq(1..MaxTickets),
           errors : SUBSET (1..MaxTickets)]

Reports == [publish : Frames, left : SUBSET (1..MaxTickets), rejected : BOOLEAN]

TypeOK ==
  /\ DOMAIN registered \subseteq Agents
  /\ \A a \in DOMAIN registered : registered[a] \subseteq Scopes
  /\ listeners \in [Agents -> SUBSET Subscriptions]
  /\ tickets \in 0..MaxTickets
  /\ published \in 0..MaxMessages
  /\ stack \in Seq(Frames)
  /\ returned \subseteq Reports

Init ==
  /\ registered = [a \in {} |-> {}]
  /\ listeners = [a \in Agents |-> {}]
  /\ tickets = 0
  /\ published = 0
  /\ stack = <<>>
  /\ returned = {}
-----------------------------------------------------------------------------
(* Registry and subscriptions: by a handler that runs, or by other code *)

\* An id that is registered already is refused.  The scopes are copied, so nothing
\* changes them afterwards.
Register(a, scopes) ==
  /\ a \notin DOMAIN registered
  /\ registered' = [b \in DOMAIN registered \cup {a} |->
                      IF b = a THEN scopes ELSE registered[b]]
  /\ UNCHANGED <<listeners, tickets, published, stack, returned>>

\* Set.add: a handler that is there already stays where it is.
Subscribe(a, h) ==
  /\ \A s \in listeners[a] : s.handler # h
  /\ tickets < MaxTickets
  /\ tickets' = tickets + 1
  /\ listeners' = [listeners EXCEPT ![a] = @ \cup {[handler |-> h, ticket |-> tickets + 1]}]
  /\ UNCHANGED <<registered, published, stack, returned>>

\* The function subscribe returned: Set.delete by the handler, whichever call of
\* subscribe it came from.
Unsubscribe(a, h) ==
  /\ \E s \in listeners[a] : s.handler = h
  /\ listeners' = [listeners EXCEPT ![a] = {s \in @ : s.handler # h}]
  /\ UNCHANGED <<registered, tickets, published, stack, returned>>
-----------------------------------------------------------------------------
(* Publishing *)

TicketsOf(a) == {s.ticket : s \in listeners[a]}

\* Set.forEach goes by order of insertion; it meets what was added since and misses
\* what was deleted.
Following(a, t) == {u \in TicketsOf(a) : u > t}
First(T)        == CHOOSE t \in T : \A u \in T : t <= u

\* canAccessMemory, asked about the receiver.
MayRead(to, scope) == scope = NoScope \/ scope \in registered[to]

\* publish rejects (and the mutant for which one failure is enough).
AnyFailed(f) == f.errors # {}
AllFailed(f) == Cardinality(f.errors) = Cardinality(listeners[f.to]) /\ listeners[f.to] # {}

Report(f) == [publish |-> f, left |-> TicketsOf(f.to), rejected |-> AllFailed(f)]

\* Without handlers publish returns at once.
Publish(to) ==
  /\ published < MaxMessages
  /\ published' = published + 1
  /\ listeners[to] # {}
  /\ stack' = Append(stack, [to |-> to, there |-> TicketsOf(to),
                             called |-> <<First(TicketsOf(to))>>, errors |-> {}])
  /\ UNCHANGED <<registered, listeners, tickets, returned>>

\* send: both are registered and the receiver may read the scope; a message that is
\* refused changes nothing.
Send(from, to, scope) ==
  /\ from \in DOMAIN registered /\ to \in DOMAIN registered
  /\ MayRead(to, scope)
  /\ Publish(to)

\* The publish under way, with the handler that ends counted.
Counted(f, failed) ==
  IF failed THEN [f EXCEPT !.errors = @ \cup {f.called[Len(f.called)]}] ELSE f

\* The next handler of f's receiver is called, or its publish returns.
CallNext(f) ==
  LET rest == Following(f.to, f.called[Len(f.called)])
      lower == SubSeq(stack, 1, Len(stack) - 1)
  IN IF rest # {}
       THEN /\ stack' = Append(lower, [f EXCEPT !.called = Append(@, First(rest))])
            /\ UNCHANGED returned
       ELSE /\ stack' = lower
            /\ returned' = {Report(f)}

\* Mutant: what a handler throws goes through to the caller of publish.
HandlerEndsUncaught(failed) ==
  /\ stack # <<>>
  /\ LET f == Counted(stack[Len(stack)], failed)
     IN IF failed
          THEN /\ stack' = SubSeq(stack, 1, Len(stack) - 1)
               /\ returned' = {[Report(f) EXCEPT !.rejected = TRUE]}
          ELSE CallNext(f)
  /\ UNCHANGED <<registered, listeners, tickets, published>>

\* The innermost handler returns or throws.
HandlerEnds(failed) ==
  /\ stack # <<>>
  /\ CallNext(Counted(stack[Len(stack)], failed))
  /\ UNCHANGED <<registered, listeners, tickets, published>>

Next ==
  \/ \E a \in Agents, scopes \in SUBSET Scopes : Register(a, scopes)
  \/ \E a \in Agents, h \in Handlers : Subscribe(a, h) \/ Unsubscribe(a, h)
  \/ \E from, to \in Agents, scope \in Scopes \cup {NoScope} : Send(from, to, scope)
  \/ \E to \in Agents : Publish(to)
  \/ \E failed \in BOOLEAN : HandlerEnds(failed)

Spec == Init /\ [][Next]_vars
-----------------------------------------------------------------------------
(* Properties *)

Members(q) == {q[i] : i \in DOMAIN q}

\* A message has reached every subscription that lasted as long as its publish, whatever
\* the handlers before threw, subscribed, unsubscribed or published themselves; and no
\* subscription got it twice.
EveryoneServed ==
  \A r \in returned :
    /\ r.publish.there \cap r.left \subseteq Members(r.publish.called)
    /\ \A i, j \in DOMAIN r.publish.called :
         i < j => r.publish.called[i] < r.publish.called[j]

\* "If all handlers failed, throw to signal publish failure": publish rejects exactly
\* when every handler it called threw, provided those it called are those that are
\* subscribed when it returns.  (Otherwise the comparison of the errors with the size
\* of the set misleads: see the README.)
FailureSignalled ==
  \A r \in returned :
    Members(r.publish.called) = r.left =>
      (r.rejected <=> r.publish.errors = Members(r.publish.called))
=============================================================================
