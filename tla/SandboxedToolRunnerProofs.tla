---------------------- MODULE SandboxedToolRunnerProofs ----------------------
(***************************************************************************)
(* When a tool's child cannot outlive its worker: whatever the clock,      *)
(* messages and timers do, provided the lags and the runner's timeouts     *)
(* leave the worker time enough to kill it.                                *)
(***************************************************************************)
EXTENDS SandboxedToolRunner, SequenceTheorems, TLAPS

\* A handler is called by then.
StartedBy(t) == t <= StartWithin \/ t <= Lag

\* Between the abort and the worker's end there is time for the child's SIGKILL, and
\* run_command has killed its child of its own accord before that.
KillsInTime ==
  /\ "cli" \in Tools => Lag + Lag < Extra /\ StartWithin + Lag < Timeout + Extra
  /\ "command" \in Tools =>
       \A start \in {StartWithin, Lag} :
         start + CommandTimeout + Lag + CommandGrace + Lag < Timeout + KillGrace + Extra

RunMsg     == [type |-> "run", at |-> 0]
AbortAt(t) == [type |-> "abort", at |-> t]

RequestFirst(q) == q # <<>> /\ Head(q) = RunMsg
HasAbort(q, t)  == q = <<AbortAt(t)>> \/ q = <<RunMsg, AbortAt(t)>>
Unread          == RequestFirst(toWorker)
AbortQueued(t)  == HasAbort(toWorker, t)

StartInv ==
  call = "idle" =>
    /\ now = 0 /\ worker = "none" /\ handler = "none" /\ child = "none"
    /\ toWorker = <<>> /\ toMain = <<>> /\ completed = FALSE
    /\ timeoutAt = Never /\ terminateAt = Never /\ termAt = Never /\ killAt = Never

\* On the main thread nothing is sent, and nothing terminated.
HomeInv ==
  inProcess => /\ worker \notin {"gone", "starting"}
               /\ toWorker = <<>> /\ toMain = <<>> /\ terminateAt = Never

\* A request, an abort, or both are on their way to the worker.
QueueInv ==
  /\ \/ toWorker = <<>> \/ toWorker = <<RunMsg>>
     \/ \E t \in Time : t <= now /\ AbortQueued(t)
  /\ \A t \in Time : AbortQueued(t) =>
       completed /\ timeoutAt = Never /\ terminateAt = t + TerminateAfter
  /\ toWorker = <<RunMsg>> => terminateAt = Never
  /\ worker \in {"none", "gone"} => toWorker = <<>>
  /\ worker = "starting" => Unread
  /\ Unread => /\ handler = "none" /\ child = "none" /\ toMain = <<>>
               /\ worker \in {"starting", "ready"} /\ StartedBy(now)

TimerInv ==
  /\ timeoutAt # Never /\ ~inProcess =>
       timeoutAt >= Timeout /\ terminateAt = Never /\ worker # "none"
  /\ terminateAt # Never => terminateAt >= Timeout + TerminateAfter /\ completed

\* Nothing but the worker's answer to an abort comes from it while its child lives.
AnswerInv ==
  /\ toMain # <<>> /\ child = "alive" => completed
  /\ \A i \in DOMAIN toMain : toMain[i].type = "exit" => worker = "gone"

ChildInv ==
  /\ tool = "pure" => child = "none"
  /\ tool # "command" => termAt = Never
  /\ child = "alive" => worker = "ready"

\* The child that lives will be killed before its worker is terminated.
DoomInv ==
  child = "alive" /\ ~inProcess =>
    /\ tool = "cli" =>
         \/ terminateAt = Never /\ handler = "busy"
         \/ handler = "busy" /\ \E t \in Time : /\ toWorker = <<AbortAt(t)>>
                                               /\ (now <= t + Lag \/ StartedBy(now))
         \/ /\ handler = "done" /\ terminateAt # Never
            /\ killAt # Never /\ now <= killAt + Lag /\ killAt + Lag < terminateAt
    /\ tool = "command" =>
         \/ termAt # Never /\ now <= termAt + Lag /\ StartedBy(termAt - CommandTimeout)
         \/ /\ termAt = Never /\ killAt # Never /\ now <= killAt + Lag
            /\ StartedBy(killAt - CommandGrace - Lag - CommandTimeout)

Inv == TypeOK /\ StartInv /\ HomeInv /\ QueueInv /\ TimerInv /\ AnswerInv /\ ChildInv /\ DoomInv
-----------------------------------------------------------------------------
(* Lemmas *)

LEMMA Numbers ==
  /\ Timeout \in Nat \ {0} /\ KillGrace \in Nat /\ Extra \in Nat
  /\ CommandTimeout \in Nat \ {0} /\ CommandGrace \in Nat
  /\ StartWithin \in Nat /\ Lag \in Nat /\ MaxTime \in Nat
  /\ TerminateAfter \in Nat /\ TerminateAfter = KillGrace + Extra
  BY ToolAssumption DEF TerminateAfter

LEMMA Instants == Time \subseteq Nat /\ 0 \in Time /\ \A t \in Nat : t # Never
  BY Numbers DEF Time, Never

\* Short queues, taken apart and put together.
LEMMA Pairs ==
  ASSUME NEW x, NEW y
  PROVE  /\ <<x>> # <<>> /\ Len(<<x>>) = 1 /\ Head(<<x>>) = x /\ Tail(<<x>>) = <<>>
         /\ <<x, y>> # <<>> /\ Len(<<x, y>>) = 2 /\ Head(<<x, y>>) = x /\ Tail(<<x, y>>) = <<y>>
         /\ Append(<<>>, x) = <<x>> /\ Append(<<x>>, y) = <<x, y>>
<1>1. <<x>> # <<>> /\ Len(<<x>>) = 1 /\ Head(<<x>>) = x
  OBVIOUS
<1>2. <<x, y>> # <<>> /\ Len(<<x, y>>) = 2 /\ Head(<<x, y>>) = x
  OBVIOUS
<1>3. Tail(<<x>>) = <<>>
  OBVIOUS
<1>4. Tail(<<x, y>>) = <<y>>
  OBVIOUS
<1>5. Append(<<>>, x) = <<x>>
  OBVIOUS
<1>6. Append(<<x>>, y) = <<x, y>>
  <2>1. <<x>> \in Seq({x, y}) /\ <<x, y>> \in Seq({x, y}) /\ y \in {x, y}
    OBVIOUS
  <2>2. /\ Append(<<x>>, y) \in Seq({x, y}) /\ Len(Append(<<x>>, y)) = 2
        /\ Append(<<x>>, y)[1] = x /\ Append(<<x>>, y)[2] = y
    BY <2>1
  <2>3. Len(<<x, y>>) = 2 /\ <<x, y>>[1] = x /\ <<x, y>>[2] = y /\ 1..2 = {1, 2}
    OBVIOUS
  <2> QED  BY <2>1, <2>2, <2>3, SeqEqual
<1> QED  BY <1>1, <1>2, <1>3, <1>4, <1>5, <1>6

LEMMA Shapes ==
  /\ <<RunMsg>> # <<>> /\ Head(<<RunMsg>>) = RunMsg /\ Tail(<<RunMsg>>) = <<>>
  /\ Len(<<RunMsg>>) = 1
  /\ \A t : /\ <<AbortAt(t)>> # <<>> /\ Head(<<AbortAt(t)>>) = AbortAt(t)
            /\ Tail(<<AbortAt(t)>>) = <<>> /\ Len(<<AbortAt(t)>>) = 1
            /\ <<RunMsg, AbortAt(t)>> # <<>> /\ Head(<<RunMsg, AbortAt(t)>>) = RunMsg
            /\ Tail(<<RunMsg, AbortAt(t)>>) = <<AbortAt(t)>> /\ Len(<<RunMsg, AbortAt(t)>>) = 2
            /\ Append(<<>>, AbortAt(t)) = <<AbortAt(t)>>
            /\ Append(<<RunMsg>>, AbortAt(t)) = <<RunMsg, AbortAt(t)>>
  BY Pairs

LEMMA MessageFacts ==
  /\ RunMsg.type = "run" /\ RunMsg.at = 0
  /\ \A t : AbortAt(t).type = "abort" /\ AbortAt(t).at = t
  /\ \A t : RunMsg # AbortAt(t)
<1>1. RunMsg.type = "run" /\ RunMsg.at = 0 /\ \A t : AbortAt(t).type = "abort" /\ AbortAt(t).at = t
  BY DEF RunMsg, AbortAt
<1> QED  BY <1>1

\* Whether the request is unread, and an abort's time, can be read off a queue.
LEMMA Distinct ==
  ASSUME NEW q
  PROVE  /\ q = <<>> => ~RequestFirst(q) /\ \A t : ~HasAbort(q, t)
         /\ q = <<RunMsg>> => RequestFirst(q) /\ \A t : ~HasAbort(q, t)
         /\ \A t : q = <<AbortAt(t)>> => ~RequestFirst(q) /\ \A u : HasAbort(q, u) => u = t
         /\ \A t : q = <<RunMsg, AbortAt(t)>> => RequestFirst(q) /\ \A u : HasAbort(q, u) => u = t
<1>1. q = <<>> => ~RequestFirst(q) /\ \A t : ~HasAbort(q, t)
  BY Shapes DEF RequestFirst, HasAbort
<1>2. q = <<RunMsg>> => RequestFirst(q) /\ \A t : ~HasAbort(q, t)
  <2>1. ASSUME q = <<RunMsg>>, NEW t, HasAbort(q, t) PROVE FALSE
    <3>1. Len(q) = 1 /\ Head(q) = RunMsg
      BY <2>1, Shapes
    <3>2. q = <<AbortAt(t)>>
      BY <2>1, <3>1, Shapes DEF HasAbort
    <3> QED  BY <3>1, <3>2, Shapes, MessageFacts
  <2>2. q = <<RunMsg>> => RequestFirst(q)
    BY Shapes DEF RequestFirst
  <2> QED  BY <2>1, <2>2
<1>3. ASSUME NEW t, q = <<AbortAt(t)>>
      PROVE  ~RequestFirst(q) /\ \A u : HasAbort(q, u) => u = t
  <2>1. Head(q) = AbortAt(t) /\ Len(q) = 1
    BY <1>3, Shapes
  <2>2. \A u : HasAbort(q, u) => u = t
    <3> SUFFICES ASSUME NEW u, HasAbort(q, u) PROVE u = t
      OBVIOUS
    <3>1. q = <<AbortAt(u)>>
      BY <2>1, Shapes, MessageFacts DEF HasAbort
    <3> QED  BY <2>1, <3>1, Shapes, MessageFacts
  <2> QED  BY <2>1, <2>2, MessageFacts DEF RequestFirst
<1>4. ASSUME NEW t, q = <<RunMsg, AbortAt(t)>>
      PROVE  RequestFirst(q) /\ \A u : HasAbort(q, u) => u = t
  <2>1. Head(q) = RunMsg /\ Tail(q) = <<AbortAt(t)>> /\ q # <<>>
    BY <1>4, Shapes
  <2>2. ASSUME NEW u, HasAbort(q, u) PROVE u = t
    <3>1. q = <<RunMsg, AbortAt(u)>>
      BY <2>1, <2>2, Shapes, MessageFacts DEF HasAbort
    <3>2. <<AbortAt(u)>> = <<AbortAt(t)>>
      BY <2>1, <3>1, Shapes
    <3> QED  BY <3>2, Shapes, MessageFacts
  <2> QED  BY <2>1, <2>2 DEF RequestFirst
<1> QED  BY <1>1, <1>2, <1>3, <1>4

LEMMA QueueTypes ==
  ASSUME NEW t \in Time
  PROVE  /\ <<>> \in Messages({"run", "abort"}) /\ <<RunMsg>> \in Messages({"run", "abort"})
         /\ <<AbortAt(t)>> \in Messages({"run", "abort"})
         /\ <<RunMsg, AbortAt(t)>> \in Messages({"run", "abort"})
         /\ Len(<<>>) <= 2 /\ Len(<<RunMsg>>) <= 2
         /\ Len(<<AbortAt(t)>>) <= 2 /\ Len(<<RunMsg, AbortAt(t)>>) <= 2
<1>1. RunMsg \in [type : {"run", "abort"}, at : Time] /\ AbortAt(t) \in [type : {"run", "abort"}, at : Time]
  BY Instants DEF RunMsg, AbortAt
<1>2. \A S, x, y : x \in S /\ y \in S =>
        <<>> \in Seq(S) /\ <<x>> \in Seq(S) /\ <<y>> \in Seq(S) /\ <<x, y>> \in Seq(S)
  OBVIOUS
<1>3. /\ <<>> \in Messages({"run", "abort"}) /\ <<RunMsg>> \in Messages({"run", "abort"})
      /\ <<AbortAt(t)>> \in Messages({"run", "abort"})
      /\ <<RunMsg, AbortAt(t)>> \in Messages({"run", "abort"})
  BY <1>1, <1>2 DEF Messages
<1>4. Len(<<>>) = 0
  OBVIOUS
<1> QED  BY <1>3, <1>4, Shapes

Mails == [type : Events, at : Time]

LEMMA MailTypes == Messages(Events) = Seq(Mails)
  BY DEF Messages, Mails

\* A message more for the runner, or one less.
LEMMA Posted ==
  ASSUME now \in Time, toMain \in Messages(Events), NEW a \in Events, Post(<<a>>)
  PROVE  /\ toMain' \in Messages(Events)
         /\ \A i \in DOMAIN toMain' :
              (i \in DOMAIN toMain /\ toMain'[i] = toMain[i]) \/ toMain'[i].type = a
<1> DEFINE m == [i \in DOMAIN <<a>> |-> Message(<<a>>[i])]
<1>1. toMain \in Seq(Mails) /\ Message(a) \in Mails /\ Message(a).type = a
  BY MailTypes DEF Mails, Message
<1>2. m = <<Message(a)>>
  OBVIOUS
<1>3. toMain' = toMain \o m
  BY DEF Post
<1> HIDE DEF m
<1>4. toMain' \in Seq(Mails) /\ DOMAIN toMain' = 1..(Len(toMain) + 1)
      /\ \A i \in 1..(Len(toMain) + 1) :
           toMain'[i] = IF i <= Len(toMain) THEN toMain[i] ELSE Message(a)
  BY <1>1, <1>2, <1>3
<1> QED  BY <1>1, <1>4, MailTypes

LEMMA PostedFailure ==
  ASSUME now \in Time, toMain \in Messages(Events), Post(<<"error", "exit">>)
  PROVE  toMain' \in Messages(Events)
<1> DEFINE m == [i \in DOMAIN <<"error", "exit">> |-> Message(<<"error", "exit">>[i])]
<1>1. /\ toMain \in Seq(Mails)
      /\ Message("error") \in Mails /\ Message("exit") \in Mails
  BY MailTypes DEF Mails, Message, Events
<1>2. m = <<Message("error"), Message("exit")>>
  OBVIOUS
<1>3. toMain' = toMain \o m
  BY DEF Post
<1> HIDE DEF m
<1> QED  BY <1>1, <1>2, <1>3, MailTypes

LEMMA Taken ==
  ASSUME toMain \in Messages(Events), toMain # <<>>
  PROVE  /\ Tail(toMain) \in Messages(Events)
         /\ Head(toMain) \in Mails
         /\ \A i \in DOMAIN Tail(toMain) : i + 1 \in DOMAIN toMain /\ Tail(toMain)[i] = toMain[i + 1]
         /\ 1 \in DOMAIN toMain /\ Head(toMain) = toMain[1]
  BY MailTypes

LEMMA ExitMessage ==
  ASSUME now \in Time
  PROVE  <<Message("exit")>> \in Messages(Events)
<1>1. Message("exit") \in Mails
  BY DEF Mails, Message, Events
<1> QED  BY <1>1, MailTypes
-----------------------------------------------------------------------------
(* The steps *)

LEMMA InitInv == Init => Inv
<1> SUFFICES ASSUME Init PROVE Inv
  OBVIOUS
<1>1. /\ toWorker \in Messages({"run", "abort"}) /\ Len(toWorker) <= 2
      /\ toMain \in Messages(Events) /\ DOMAIN toMain = {}
  <2>1. <<>> \in Messages({"run", "abort"}) /\ Len(<<>>) <= 2
    BY Instants, QueueTypes
  <2>2. <<>> \in Messages(Events) /\ DOMAIN <<>> = {}
    BY MailTypes
  <2> QED  BY <2>1, <2>2 DEF Init
<1>2. TypeOK
  BY <1>1, Instants DEF Init, TypeOK, Deadlines
<1>3. StartInv /\ HomeInv /\ TimerInv /\ AnswerInv /\ ChildInv /\ DoomInv
  BY <1>1 DEF Init, StartInv, HomeInv, TimerInv, AnswerInv, ChildInv, DoomInv
<1>4. QueueInv
  <2>1. toWorker = <<>> /\ ~Unread /\ \A t : ~AbortQueued(t)
    BY Distinct DEF Init, Unread, AbortQueued
  <2>2. toWorker # <<RunMsg>>
    BY <2>1, Shapes
  <2> QED  BY <2>1, <2>2 DEF Init, QueueInv
<1> QED  BY <1>2, <1>3, <1>4 DEF Inv

\* What a queue of the worker that is empty, or has the request alone, says of QueueInv.
LEMMA EmptyQueue ==
  ASSUME toWorker' = <<>>, worker' # "starting"
  PROVE  QueueInv'
<1>1. ~Unread' /\ (\A t : ~AbortQueued(t)') /\ toWorker' # <<RunMsg>>
  BY Distinct, Shapes DEF Unread, AbortQueued
<1> QED  BY <1>1 DEF QueueInv

LEMMA NotPermittedInv ==
  ASSUME Inv, NotPermitted
  PROVE  Inv'
<1> USE DEF Inv
<1>1. /\ UNCHANGED <<now, given, completed, timeoutAt, terminateAt, toWorker, toMain, workerVars>>
      /\ call' = "rejected" /\ call = "idle" /\ toWorker' = <<>> /\ worker' = "none" /\ child' = "none"
  BY DEF NotPermitted, StartInv, workerVars
<1>2. TypeOK'
  BY <1>1 DEF TypeOK, given, workerVars
<1>3. QueueInv'
  BY <1>1, EmptyQueue
<1>4. StartInv' /\ HomeInv' /\ TimerInv' /\ AnswerInv' /\ ChildInv' /\ DoomInv'
  BY <1>1 DEF StartInv, HomeInv, TimerInv, AnswerInv, ChildInv, DoomInv, given, workerVars
<1> QED  BY <1>2, <1>3, <1>4

LEMMA RunInv ==
  ASSUME Inv, Run
  PROVE  Inv'
<1> USE DEF Inv
<1>1. /\ now = 0 /\ worker = "none" /\ handler = "none" /\ child = "none" /\ toMain = <<>>
      /\ completed = FALSE /\ terminateAt = Never /\ termAt = Never /\ killAt = Never
      /\ ~inProcess
  BY DEF Run, StartInv
<1>2. /\ UNCHANGED <<now, given, completed, terminateAt, toMain, handler, child, termAt, killAt>>
      /\ call' = "running" /\ timeoutAt' = Timeout /\ worker' = "starting" /\ toWorker' = <<RunMsg>>
  BY <1>1, Numbers DEF Run, Message, RunMsg
<1>3. TypeOK'
  <2>1. toWorker' \in Messages({"run", "abort"}) /\ Len(toWorker') <= 2
    BY <1>2, Instants, QueueTypes
  <2> QED  BY <1>2, <2>1, Numbers DEF TypeOK, given, Deadlines
<1>4. QueueInv'
  <2>1. Unread' /\ (\A t : ~AbortQueued(t)')
    BY <1>2, Distinct DEF Unread, AbortQueued
  <2>2. toWorker' # <<>>
    BY <1>2, Shapes
  <2>3. StartedBy(now')
    BY <1>1, <1>2, Numbers DEF StartedBy
  <2> QED  BY <1>1, <1>2, <2>1, <2>2, <2>3 DEF QueueInv
<1>5. TimerInv'
  BY <1>1, <1>2, Numbers DEF TimerInv
<1>6. StartInv' /\ HomeInv' /\ AnswerInv' /\ ChildInv' /\ DoomInv'
  BY <1>1, <1>2 DEF StartInv, HomeInv, AnswerInv, ChildInv, DoomInv, given
<1> QED  BY <1>3, <1>4, <1>5, <1>6

LEMMA RefuseInputInv ==
  ASSUME Inv, RefuseInput
  PROVE  Inv'
<1> USE DEF Inv
<1>1. /\ handler = "none" /\ child = "none" /\ toWorker = <<>> /\ terminateAt = Never
      /\ timeoutAt = Never /\ ~inProcess
  BY DEF RefuseInput, StartInv
<1>2. /\ UNCHANGED <<now, given, timeoutAt, terminateAt, toWorker, handler, child, termAt, killAt>>
      /\ call' = "rejected" /\ completed' = TRUE /\ worker' = "gone" /\ toMain' = <<Message("exit")>>
  BY DEF RefuseInput
<1>3. TypeOK'
  <2>1. toMain' \in Messages(Events)
    BY <1>2, ExitMessage DEF TypeOK
  <2> QED  BY <1>2, <2>1 DEF TypeOK, given
<1>4. QueueInv'
  BY <1>1, <1>2, EmptyQueue
<1>5. StartInv' /\ HomeInv' /\ TimerInv' /\ AnswerInv' /\ ChildInv' /\ DoomInv'
  BY <1>1, <1>2 DEF StartInv, HomeInv, TimerInv, AnswerInv, ChildInv, DoomInv, given
<1> QED  BY <1>3, <1>4, <1>5

\* The abort goes after a request that is unread, or alone.
LEMMA TimesOutInv ==
  ASSUME Inv, TimesOut
  PROVE  Inv'
<1> USE DEF Inv
<1>1. /\ now \in Time /\ now \in Nat /\ timeoutAt # Never /\ timeoutAt \in Nat /\ now >= timeoutAt
      /\ ~inProcess /\ timeoutAt >= Timeout /\ terminateAt = Never
  BY Instants DEF TimesOut, Due, TypeOK, Deadlines, TimerInv
<1>2. /\ UNCHANGED <<now, given, toMain, workerVars>>
      /\ completed' = TRUE /\ timeoutAt' = Never /\ call' = "rejected"
      /\ terminateAt' = now + TerminateAfter
  BY DEF TimesOut
<1>3. toWorker' = IF worker = "gone" THEN toWorker ELSE Append(toWorker, AbortAt(now))
  BY DEF TimesOut, Message, AbortAt
<1>4. toWorker = <<>> \/ toWorker = <<RunMsg>>
  BY <1>1 DEF QueueInv
<1>5. \/ worker = "gone" /\ toWorker' = <<>>
      \/ worker # "gone" /\ toWorker = <<>> /\ toWorker' = <<AbortAt(now)>>
      \/ worker # "gone" /\ toWorker = <<RunMsg>> /\ toWorker' = <<RunMsg, AbortAt(now)>>
  BY <1>3, <1>4, Shapes DEF QueueInv
<1>6. TypeOK'
  <2>1. toWorker' \in Messages({"run", "abort"}) /\ Len(toWorker') <= 2
    BY <1>1, <1>5, QueueTypes
  <2>2. terminateAt' \in Nat
    BY <1>1, <1>2, Numbers
  <2> QED  BY <1>2, <2>1, <2>2 DEF TypeOK, given, workerVars, Deadlines
<1>7. QueueInv'
  <2>1. CASE worker = "gone"
    BY <1>2, <1>5, <2>1, EmptyQueue DEF workerVars
  <2>2. CASE worker # "gone" /\ toWorker = <<>>
    <3>1. toWorker' = <<AbortAt(now)>> /\ toWorker' # <<RunMsg>> /\ toWorker' # <<>>
      BY <1>5, <2>2, Shapes, MessageFacts
    <3>2. ~Unread' /\ \A u : AbortQueued(u)' => u = now
      BY <3>1, Distinct DEF Unread, AbortQueued
    <3>3. worker # "starting" /\ worker # "none"
      BY <1>1, <2>2, Distinct DEF QueueInv, TimerInv, Unread
    <3>4. AbortQueued(now)'
      BY <1>2, <3>1 DEF AbortQueued, HasAbort
    <3> QED  BY <1>1, <1>2, <2>2, <3>1, <3>2, <3>3, <3>4 DEF QueueInv, workerVars
  <2>3. CASE worker # "gone" /\ toWorker = <<RunMsg>>
    <3>1. toWorker' = <<RunMsg, AbortAt(now)>> /\ toWorker' # <<>> /\ toWorker' # <<RunMsg>>
      BY <1>5, <2>3, Shapes
    <3>2. Unread' /\ \A u : AbortQueued(u)' => u = now
      BY <3>1, Distinct DEF Unread, AbortQueued
    <3>3. Unread
      BY <2>3, Distinct DEF Unread
    <3>4. AbortQueued(now)'
      BY <1>2, <3>1 DEF AbortQueued, HasAbort
    <3> QED  BY <1>1, <1>2, <2>3, <3>1, <3>2, <3>3, <3>4 DEF QueueInv, workerVars
  <2> QED  BY <1>4, <2>1, <2>2, <2>3
<1>8. TimerInv'
  BY <1>1, <1>2, Numbers DEF TimerInv
<1>9. StartInv' /\ HomeInv' /\ AnswerInv' /\ ChildInv'
  BY <1>1, <1>2 DEF StartInv, HomeInv, AnswerInv, ChildInv, given, workerVars
<1>10. DoomInv'
  <2> SUFFICES ASSUME child = "alive"
               PROVE  /\ tool = "cli" =>
                           handler = "busy" /\ \E t \in Time : toWorker' = <<AbortAt(t)>> /\ now <= t + Lag
                      /\ tool = "command" =>
                           \/ termAt # Never /\ now <= termAt + Lag /\ StartedBy(termAt - CommandTimeout)
                           \/ /\ termAt = Never /\ killAt # Never /\ now <= killAt + Lag
                              /\ StartedBy(killAt - CommandGrace - Lag - CommandTimeout)
    BY <1>2 DEF DoomInv, given, workerVars, StartedBy
  <2>1. worker = "ready" /\ ~Unread
    BY DEF ChildInv, QueueInv
  <2>2. toWorker' = <<AbortAt(now)>>
    BY <1>5, <2>1, Distinct DEF Unread
  <2>3. now <= now + Lag
    BY <1>1, Numbers
  <2> QED  BY <1>1, <2>2, <2>3 DEF DoomInv
<1> QED  BY <1>6, <1>7, <1>8, <1>9, <1>10

\* When the worker is terminated after a timeout, its child is dead.
LEMMA DeadByThen ==
  ASSUME Inv, KillsInTime, ~inProcess, Due(terminateAt)
  PROVE  child # "alive"
<1> SUFFICES ASSUME child = "alive" PROVE FALSE
  OBVIOUS
<1>1. /\ now \in Nat /\ terminateAt \in Nat /\ terminateAt # Never /\ now >= terminateAt
      /\ terminateAt >= Timeout + TerminateAfter /\ tool \in Tools
  BY Instants DEF Inv, Due, TypeOK, Deadlines, TimerInv
<1>2. tool \in {"cli", "command"}
  BY ToolAssumption, <1>1 DEF Inv, ChildInv
<1>3. CASE tool = "cli"
  <2>1. Lag + Lag < Extra /\ StartWithin + Lag < Timeout + Extra
    BY <1>1, <1>3 DEF KillsInTime
  <2>2. CASE \E t \in Time : toWorker = <<AbortAt(t)>> /\ (now <= t + Lag \/ StartedBy(now))
    <3>1. PICK t \in Time : toWorker = <<AbortAt(t)>> /\ (now <= t + Lag \/ StartedBy(now))
      BY <2>2
    <3>2. terminateAt = t + TerminateAfter
      BY <3>1 DEF Inv, QueueInv, AbortQueued, HasAbort
    <3>3. t \in Nat
      BY Instants
    <3> QED  BY <1>1, <2>1, <3>1, <3>2, <3>3, Numbers DEF StartedBy
  <2>3. CASE killAt # Never /\ now <= killAt + Lag /\ killAt + Lag < terminateAt
    <3>1. killAt \in Nat
      BY <2>3 DEF Inv, TypeOK, Deadlines
    <3> QED  BY <1>1, <2>3, <3>1, Numbers
  <2> QED  BY <1>1, <1>3, <2>2, <2>3 DEF Inv, DoomInv
<1>4. CASE tool = "command"
  <2>1. /\ StartWithin + CommandTimeout + Lag + CommandGrace + Lag < Timeout + KillGrace + Extra
        /\ Lag + CommandTimeout + Lag + CommandGrace + Lag < Timeout + KillGrace + Extra
    BY <1>1, <1>4 DEF KillsInTime
  <2>2. CASE termAt # Never /\ now <= termAt + Lag /\ StartedBy(termAt - CommandTimeout)
    <3>1. termAt \in Nat
      BY <2>2 DEF Inv, TypeOK, Deadlines
    <3> QED  BY <1>1, <2>1, <2>2, <3>1, Numbers DEF StartedBy
  <2>3. CASE killAt # Never /\ now <= killAt + Lag
             /\ StartedBy(killAt - CommandGrace - Lag - CommandTimeout)
    <3>1. killAt \in Nat
      BY <2>3 DEF Inv, TypeOK, Deadlines
    <3> QED  BY <1>1, <2>1, <2>3, <3>1, Numbers DEF StartedBy
  <2> QED  BY <1>4, <2>2, <2>3 DEF Inv, DoomInv
<1> QED  BY <1>2, <1>3, <1>4

\* The worker goes, and with it the messages to it and its timers; its child is dead.
LEMMA Terminated ==
  ASSUME Inv, Terminate, ~inProcess, child # "alive", call # "idle", call' # "idle",
         UNCHANGED <<now, given>>, completed', timeoutAt' \in {timeoutAt, Never}, terminateAt' = Never,
         worker = "gone" => toMain # <<>>,
         call' \in {"running", "resolved", "rejected", "crashed"}
  PROVE  Inv'
<1> USE DEF Inv
<1>1. /\ worker' = "gone" /\ toWorker' = <<>> /\ termAt' = Never /\ killAt' = Never
      /\ UNCHANGED <<handler, child>>
      /\ toMain' = IF worker = "gone" THEN Tail(toMain) ELSE <<Message("exit")>>
  BY DEF Terminate
<1>2. TypeOK'
  <2>1. toMain' \in Messages(Events)
    BY <1>1, Taken, ExitMessage DEF TypeOK
  <2>2. toWorker' \in Messages({"run", "abort"}) /\ Len(toWorker') <= 2
    BY <1>1, Instants, QueueTypes
  <2>3. completed' \in BOOLEAN /\ timeoutAt' \in Deadlines
    BY DEF TypeOK, Deadlines
  <2> QED  BY <1>1, <2>1, <2>2, <2>3 DEF TypeOK, given, Deadlines
<1>3. QueueInv'
  BY <1>1, EmptyQueue
<1>4. TimerInv'
  BY <1>1 DEF TimerInv, given
<1>5. StartInv' /\ HomeInv' /\ AnswerInv' /\ ChildInv' /\ DoomInv'
  BY <1>1 DEF StartInv, HomeInv, AnswerInv, ChildInv, DoomInv, given
<1> QED  BY <1>2, <1>3, <1>4, <1>5

LEMMA TerminateTimerInv ==
  ASSUME Inv, KillsInTime, TerminateTimer
  PROVE  Inv'
<1> USE DEF Inv
<1>1. /\ Due(terminateAt) /\ terminateAt # Never /\ terminateAt' = Never
      /\ UNCHANGED <<now, given, call, completed, timeoutAt>>
  BY DEF TerminateTimer, Due
<1>2. ~inProcess /\ completed /\ call # "idle"
  BY <1>1 DEF HomeInv, TimerInv, StartInv
<1>3. CASE worker # "gone"
  <2>1. Terminate
    BY <1>3 DEF TerminateTimer
  <2>2. child # "alive"
    BY <1>1, <1>2, DeadByThen
  <2>3. call \in {"running", "resolved", "rejected", "crashed"}
    BY <1>2 DEF TypeOK
  <2> QED  BY <1>1, <1>2, <1>3, <2>1, <2>2, <2>3, Terminated
<1>4. CASE worker = "gone"
  <2>1. UNCHANGED <<toWorker, toMain, workerVars>>
    BY <1>4 DEF TerminateTimer
  <2>2. TypeOK'
    BY <1>1, <2>1 DEF TypeOK, given, workerVars, Deadlines
  <2>3. QueueInv'
    BY <1>4, <2>1, EmptyQueue DEF QueueInv, workerVars
  <2>4. StartInv' /\ HomeInv' /\ TimerInv' /\ AnswerInv' /\ ChildInv' /\ DoomInv'
    BY <1>1, <1>2, <1>4, <2>1 DEF StartInv, HomeInv, TimerInv, AnswerInv, ChildInv, DoomInv, given, workerVars
  <2> QED  BY <2>2, <2>3, <2>4
<1> QED  BY <1>3, <1>4

LEMMA ReceiveInv ==
  ASSUME Inv, Receive
  PROVE  Inv'
<1> USE DEF Inv
<1>1. /\ toMain # <<>> /\ call # "idle" /\ ~inProcess /\ UNCHANGED <<now, given>>
  BY DEF Receive, StartInv, HomeInv
<1>2. /\ Tail(toMain) \in Messages(Events) /\ Head(toMain) \in Mails
      /\ \A i \in DOMAIN Tail(toMain) : i + 1 \in DOMAIN toMain /\ Tail(toMain)[i] = toMain[i + 1]
      /\ 1 \in DOMAIN toMain /\ Head(toMain) = toMain[1]
  BY <1>1, Taken DEF TypeOK
<1>3. ~Unread
  BY <1>1 DEF QueueInv
<1>4. CASE Head(toMain).type = "exit" /\ OnExit
  <2>1. worker = "gone" /\ child # "alive" /\ toWorker = <<>>
    BY <1>2, <1>4 DEF AnswerInv, ChildInv, QueueInv
  <2>2. /\ terminateAt' = Never /\ timeoutAt' \in {timeoutAt, Never} /\ completed' = TRUE
        /\ call' \in {call, "rejected"} /\ toMain' = Tail(toMain)
        /\ UNCHANGED <<toWorker, workerVars>>
    BY <1>4 DEF OnExit
  <2>3. TypeOK'
    BY <1>1, <1>2, <2>2 DEF TypeOK, given, workerVars, Deadlines
  <2>4. QueueInv'
    BY <2>1, <2>2, EmptyQueue DEF workerVars
  <2>5. StartInv' /\ HomeInv' /\ TimerInv' /\ AnswerInv' /\ ChildInv' /\ DoomInv'
    BY <1>1, <2>1, <2>2 DEF StartInv, HomeInv, TimerInv, AnswerInv, ChildInv, DoomInv, given, workerVars
  <2> QED  BY <2>3, <2>4, <2>5
<1>5. CASE completed /\ Ignore
  <2>1. toMain' = Tail(toMain) /\ UNCHANGED <<mainVars, toWorker, workerVars>>
    BY <1>5 DEF Ignore
  <2>2. TypeOK'
    BY <1>1, <1>2, <2>1 DEF TypeOK, given, mainVars, workerVars
  <2>3. QueueInv'
    BY <1>1, <1>3, <2>1 DEF QueueInv, Unread, AbortQueued, given, mainVars, workerVars
  <2>4. AnswerInv'
    BY <1>2, <1>5, <2>1 DEF AnswerInv, mainVars, workerVars
  <2>5. StartInv' /\ HomeInv' /\ TimerInv' /\ ChildInv' /\ DoomInv'
    BY <1>1, <2>1 DEF StartInv, HomeInv, TimerInv, ChildInv, DoomInv, given, mainVars, workerVars
  <2> QED  BY <2>2, <2>3, <2>4, <2>5
<1>6. CASE ~completed /\ Settle(Head(toMain))
  <2>1. Terminate /\ completed' = TRUE /\ timeoutAt' = Never /\ terminateAt' = Never
        /\ call' \in {"resolved", "crashed", "rejected"}
    BY <1>6 DEF Settle
  <2>2. child # "alive"
    BY <1>1, <1>6 DEF AnswerInv
  <2> QED  BY <1>1, <2>1, <2>2, Terminated
<1> QED  BY <1>4, <1>5, <1>6 DEF Receive

\* On the main thread the invariant says little: nothing is ever terminated.
LEMMA InProcessInv ==
  ASSUME Inv, inProcess, UNCHANGED <<now, given, toWorker, toMain, terminateAt>>,
         call' # "idle", worker' \in {"none", "ready", "blocked"},
         tool = "pure" => child' = "none", tool # "command" => termAt' = Never,
         child' = "alive" => worker' = "ready", TypeOK'
  PROVE  Inv'
<1> USE DEF Inv
<1>1. toWorker = <<>> /\ toMain = <<>> /\ terminateAt = Never
  BY DEF HomeInv
<1>2. QueueInv'
  BY <1>1, EmptyQueue
<1>3. StartInv' /\ HomeInv' /\ TimerInv' /\ AnswerInv' /\ ChildInv' /\ DoomInv'
  BY <1>1 DEF StartInv, HomeInv, TimerInv, AnswerInv, ChildInv, DoomInv, given
<1> QED  BY <1>2, <1>3

LEMMA RunInProcessInv ==
  ASSUME Inv, RunInProcess
  PROVE  Inv'
<1> USE DEF Inv
<1>1. /\ inProcess /\ child = "none" /\ termAt = Never /\ now \in Nat
      /\ UNCHANGED <<now, given, completed, terminateAt, toWorker, toMain, killAt>>
      /\ timeoutAt' \in {timeoutAt, now + Timeout} /\ call' \in {"running", "resolved"}
  BY Instants DEF RunInProcess, StartInv, TypeOK
<1>2. /\ worker' \in {"ready", "blocked"} /\ handler' \in {"busy", "done"}
      /\ child' \in {child, "alive"} /\ termAt' \in {termAt, now + CommandTimeout, Never}
      /\ tool = "pure" => child' = "none"
      /\ tool # "command" => termAt' = Never
      /\ child' = "alive" => worker' = "ready"
  BY <1>1 DEF RunInProcess, Starts, Spawns, CannotSpawn
<1>3. TypeOK'
  <2>1. termAt' \in Deadlines /\ timeoutAt' \in Deadlines
    BY <1>1, <1>2, Numbers DEF TypeOK, Deadlines
  <2> QED  BY <1>1, <1>2, <2>1 DEF TypeOK, given
<1> QED  BY <1>1, <1>2, <1>3, InProcessInv

LEMMA TimesOutInProcessInv ==
  ASSUME Inv, TimesOutInProcess
  PROVE  Inv'
<1> USE DEF Inv
<1>1. /\ inProcess /\ worker = "ready" /\ timeoutAt' = Never /\ call' = "rejected" /\ now \in Nat
      /\ UNCHANGED <<now, given, completed, terminateAt, toWorker, toMain, worker, child, termAt>>
      /\ killAt' \in {killAt, now + KillGrace} /\ handler' \in {handler, "done"}
  BY Instants DEF TimesOutInProcess, Aborted, TypeOK
<1>2. TypeOK'
  <2>1. killAt' \in Deadlines
    BY <1>1, Numbers DEF TypeOK, Deadlines
  <2> QED  BY <1>1, <2>1 DEF TypeOK, given, Deadlines
<1> QED  BY <1>1, <1>2, InProcessInv DEF ChildInv

LEMMA WorkerStartsInv ==
  ASSUME Inv, WorkerStarts
  PROVE  Inv'
<1> USE DEF Inv
<1>1. /\ worker = "starting" /\ worker' = "ready" /\ Unread /\ call # "idle" /\ ~inProcess
      /\ UNCHANGED <<now, given, mainVars, toWorker, toMain, handler, child, termAt, killAt>>
  BY DEF WorkerStarts, QueueInv, StartInv, HomeInv
<1>2. child = "none" /\ toMain = <<>>
  BY <1>1 DEF QueueInv
<1>3. TypeOK'
  BY <1>1 DEF TypeOK, given, mainVars
<1>4. QueueInv'
  BY <1>1 DEF QueueInv, Unread, AbortQueued, mainVars
<1>5. StartInv' /\ HomeInv' /\ TimerInv' /\ AnswerInv' /\ ChildInv' /\ DoomInv'
  BY <1>1, <1>2 DEF StartInv, HomeInv, TimerInv, AnswerInv, ChildInv, DoomInv, given, mainVars
<1> QED  BY <1>3, <1>4, <1>5

LEMMA WorkerFailsInv ==
  ASSUME Inv, WorkerFails
  PROVE  Inv'
<1> USE DEF Inv
<1>1. /\ ~inProcess /\ child = "none" /\ worker \in {"starting", "ready", "blocked"}
      /\ worker' = "gone" /\ toWorker' = <<>> /\ call # "idle" /\ Post(<<"error", "exit">>)
      /\ UNCHANGED <<now, given, mainVars, handler, child, termAt, killAt>>
  BY DEF WorkerFails, StartInv
<1>2. TypeOK'
  <2>1. toMain' \in Messages(Events)
    BY <1>1, PostedFailure DEF TypeOK
  <2>2. toWorker' \in Messages({"run", "abort"}) /\ Len(toWorker') <= 2
    BY <1>1, Instants, QueueTypes
  <2> QED  BY <1>1, <2>1, <2>2 DEF TypeOK, given, mainVars
<1>3. QueueInv'
  BY <1>1, EmptyQueue
<1>4. StartInv' /\ HomeInv' /\ TimerInv' /\ AnswerInv' /\ ChildInv' /\ DoomInv'
  BY <1>1 DEF StartInv, HomeInv, TimerInv, AnswerInv, ChildInv, DoomInv, given, mainVars
<1> QED  BY <1>2, <1>3, <1>4

\* The worker reads the request.
LEMMA RequestReadInv ==
  ASSUME Inv, WorkerReceives, Head(toWorker).type = "run"
  PROVE  Inv'
<1> USE DEF Inv
<1>1. /\ worker = "ready" /\ toWorker # <<>> /\ toWorker' = Tail(toWorker) /\ OnRun
      /\ UNCHANGED <<now, given, mainVars>> /\ call # "idle" /\ ~inProcess /\ now \in Time /\ now \in Nat
  BY Instants DEF WorkerReceives, StartInv, HomeInv, TypeOK
<1>2. \/ toWorker = <<RunMsg>> /\ toWorker' = <<>>
      \/ \E t \in Time : toWorker = <<RunMsg, AbortAt(t)>> /\ toWorker' = <<AbortAt(t)>>
  <2>1. CASE toWorker = <<RunMsg>>
    BY <1>1, <2>1, Shapes
  <2>2. ASSUME NEW t \in Time, AbortQueued(t)
        PROVE  toWorker = <<RunMsg, AbortAt(t)>> /\ toWorker' = <<AbortAt(t)>>
    <3>1. toWorker # <<AbortAt(t)>>
      BY Shapes, MessageFacts
    <3>2. toWorker = <<RunMsg, AbortAt(t)>>
      BY <2>2, <3>1 DEF AbortQueued, HasAbort
    <3> QED  BY <1>1, <3>2, Shapes
  <2> QED  BY <1>1, <2>1, <2>2 DEF QueueInv
<1>3. Unread
  BY <1>2, Distinct DEF Unread
<1>4. handler = "none" /\ child = "none" /\ toMain = <<>> /\ StartedBy(now)
  BY <1>3 DEF QueueInv
<1>5. killAt' = killAt /\ (Starts \/ Spawns \/ CannotSpawn)
  BY <1>1 DEF OnRun
<1>6. toMain' = toMain \/ (child' = "none" /\ Post(<<"success">>))
  BY <1>1, <1>4 DEF OnRun, CannotSpawn
<1>7. /\ worker' \in {"ready", "blocked"} /\ handler' \in {"busy", "done"} /\ child' \in {"none", "alive"}
      /\ child' = "alive" => worker' = "ready" /\ handler' = "busy" /\ tool # "pure"
      /\ tool # "command" => termAt' = Never
      /\ tool = "command" /\ child' = "alive" => termAt' = now + CommandTimeout
      /\ child' # "alive" => termAt' = termAt
  <2>1. CASE Starts
    BY <1>4, <2>1 DEF Starts, ChildInv
  <2>2. CASE Spawns
    BY <1>4, <2>2 DEF Spawns
  <2>3. CASE CannotSpawn
    BY <1>4, <2>3 DEF CannotSpawn, ChildInv
  <2> QED  BY <1>5, <2>1, <2>2, <2>3
<1>8. toMain' \in Messages(Events) /\ (child' = "alive" => toMain' = <<>>)
      /\ \A i \in DOMAIN toMain' : toMain'[i].type # "exit"
  <2>1. toMain \in Messages(Events) /\ DOMAIN toMain = {}
    BY <1>4 DEF TypeOK
  <2>2. CASE toMain' = toMain
    BY <1>4, <2>1, <2>2
  <2>3. CASE child' = "none" /\ Post(<<"success">>)
    <3>1. "success" \in Events
      BY DEF Events, Answers
    <3>2. /\ toMain' \in Messages(Events)
          /\ \A i \in DOMAIN toMain' :
               (i \in DOMAIN toMain /\ toMain'[i] = toMain[i]) \/ toMain'[i].type = "success"
      BY <1>1, <2>1, <2>3, <3>1, Posted
    <3> QED  BY <2>1, <2>3, <3>2
  <2> QED  BY <1>6, <2>2, <2>3
<1>9. /\ toWorker' \in Messages({"run", "abort"}) /\ Len(toWorker') <= 2
      /\ ~Unread' /\ toWorker' # <<RunMsg>>
      /\ \/ toWorker' = <<>> /\ toWorker = <<RunMsg>> /\ \A u : ~AbortQueued(u)'
         \/ \E t \in Time : /\ toWorker' = <<AbortAt(t)>> /\ AbortQueued(t) /\ AbortQueued(t)'
                            /\ \A u : AbortQueued(u)' => u = t
  <2>1. CASE toWorker = <<RunMsg>> /\ toWorker' = <<>>
    BY <1>1, <2>1, QueueTypes, Distinct, Shapes DEF Unread, AbortQueued
  <2>2. ASSUME NEW t \in Time, toWorker = <<RunMsg, AbortAt(t)>>, toWorker' = <<AbortAt(t)>>
        PROVE  /\ toWorker' \in Messages({"run", "abort"}) /\ Len(toWorker') <= 2
               /\ ~Unread' /\ toWorker' # <<RunMsg>>
               /\ AbortQueued(t) /\ AbortQueued(t)' /\ \A u : AbortQueued(u)' => u = t
    <3>1. toWorker' \in Messages({"run", "abort"}) /\ Len(toWorker') <= 2
      BY <2>2, QueueTypes
    <3>2. ~Unread' /\ \A u : AbortQueued(u)' => u = t
      BY <2>2, Distinct DEF Unread, AbortQueued
    <3>3. toWorker' # <<RunMsg>>
      BY <2>2, Shapes, MessageFacts
    <3>4. AbortQueued(t) /\ AbortQueued(t)'
      BY <2>2 DEF AbortQueued, HasAbort
    <3> QED  BY <3>1, <3>2, <3>3, <3>4
  <2> QED  BY <1>2, <2>1, <2>2
<1>10. TypeOK'
  <2>1. termAt' \in Deadlines
    BY <1>1, <1>4, <1>7, Numbers DEF TypeOK, Deadlines
  <2> QED  BY <1>1, <1>5, <1>7, <1>8, <1>9, <2>1 DEF TypeOK, given, mainVars
<1>11. QueueInv'
  <2>1. worker' \notin {"none", "gone", "starting"} /\ ~Unread' /\ toWorker' # <<RunMsg>>
    BY <1>7, <1>9
  <2>2. CASE toWorker' = <<>> /\ \A u : ~AbortQueued(u)'
    BY <2>1, <2>2 DEF QueueInv
  <2>3. ASSUME NEW t \in Time, AbortQueued(t), AbortQueued(t)', \A u : AbortQueued(u)' => u = t
        PROVE  QueueInv'
    <3>1. completed /\ timeoutAt = Never /\ terminateAt = t + TerminateAfter /\ t <= now
      <4>1. completed /\ timeoutAt = Never /\ terminateAt = t + TerminateAfter
        BY <2>3 DEF QueueInv
      <4>2. t <= now
        <5>1. ASSUME NEW u \in Time, u <= now, AbortQueued(u) PROVE u = t
          <6>1. terminateAt = u + TerminateAfter /\ u \in Nat /\ t \in Nat
            BY <5>1, Instants DEF QueueInv
          <6> QED  BY <4>1, <6>1, Numbers
        <5>2. toWorker # <<>> /\ toWorker # <<RunMsg>>
          BY <2>3, Shapes, Distinct DEF AbortQueued
        <5> QED  BY <5>1, <5>2 DEF QueueInv
      <4> QED  BY <4>1, <4>2
    <3> QED  BY <1>1, <2>1, <2>3, <3>1 DEF QueueInv, mainVars
  <2> QED  BY <1>9, <2>2, <2>3
<1>12. DoomInv'
  <2> SUFFICES ASSUME child' = "alive"
               PROVE  /\ tool = "cli" =>
                           \/ terminateAt = Never /\ handler' = "busy"
                           \/ handler' = "busy" /\ \E t \in Time : /\ toWorker' = <<AbortAt(t)>>
                                                                  /\ (now <= t + Lag \/ StartedBy(now))
                      /\ tool = "command" =>
                           termAt' # Never /\ now <= termAt' + Lag /\ StartedBy(termAt' - CommandTimeout)
    BY <1>1 DEF DoomInv, given, mainVars
  <2>1. handler' = "busy"
    BY <1>7
  <2>2. CASE tool = "cli"
    <3>1. toWorker' = <<>> => terminateAt = Never
      BY <1>9, Shapes DEF QueueInv
    <3> QED  BY <1>4, <1>9, <2>1, <2>2, <3>1
  <2>3. CASE tool = "command"
    <3>1. termAt' = now + CommandTimeout
      BY <1>7, <2>3
    <3>2. termAt' - CommandTimeout = now /\ now <= termAt' + Lag /\ termAt' # Never
      BY <1>1, <3>1, Numbers, Instants DEF Never
    <3> QED  BY <1>4, <2>3, <3>2
  <2> QED  BY <2>2, <2>3
<1>13. StartInv' /\ HomeInv' /\ TimerInv' /\ AnswerInv' /\ ChildInv'
  BY <1>1, <1>7, <1>8 DEF StartInv, HomeInv, TimerInv, AnswerInv, ChildInv, given, mainVars
<1> QED  BY <1>10, <1>11, <1>12, <1>13

\* The worker reads the abort, soon enough for SIGKILL to come before it is terminated.
LEMMA AbortReadInv ==
  ASSUME Inv, KillsInTime, WorkerReceives, Head(toWorker).type # "run"
  PROVE  Inv'
<1> USE DEF Inv
<1>1. /\ worker = "ready" /\ toWorker # <<>> /\ toWorker' = Tail(toWorker) /\ OnAbort
      /\ UNCHANGED <<now, given, mainVars>> /\ call # "idle" /\ ~inProcess /\ now \in Time /\ now \in Nat
  BY Instants DEF WorkerReceives, StartInv, HomeInv, TypeOK
<1>2. PICK t \in Time : toWorker = <<AbortAt(t)>>
  BY <1>1, Shapes, MessageFacts DEF QueueInv, AbortQueued, HasAbort
<1>3. toWorker' = <<>> /\ AbortQueued(t) /\ t \in Nat
  BY <1>1, <1>2, Shapes, Instants DEF AbortQueued, HasAbort
<1>4. completed /\ terminateAt = t + TerminateAfter
  BY <1>3 DEF QueueInv
<1>5. /\ UNCHANGED <<worker, child, termAt>> /\ killAt' \in {killAt, now + KillGrace}
      /\ handler' \in {handler, "done"}
      /\ toMain' = toMain \/ Post(<<"success">>)
      /\ tool = "cli" /\ handler = "busy" /\ child = "alive" =>
           handler' = "done" /\ killAt' = now + KillGrace
      /\ ~(tool = "cli" /\ handler = "busy") => handler' = handler /\ killAt' = killAt
  BY <1>1 DEF OnAbort, Aborted, AnswersAbort, Kills
<1>6. toMain' \in Messages(Events) /\ \A i \in DOMAIN toMain' : toMain'[i].type # "exit"
  <2>1. toMain \in Messages(Events) /\ \A i \in DOMAIN toMain : toMain[i].type # "exit"
    BY <1>1 DEF TypeOK, AnswerInv
  <2>2. CASE Post(<<"success">>)
    <3>1. "success" \in Events
      BY DEF Events, Answers
    <3>2. /\ toMain' \in Messages(Events)
          /\ \A i \in DOMAIN toMain' :
               (i \in DOMAIN toMain /\ toMain'[i] = toMain[i]) \/ toMain'[i].type = "success"
      BY <1>1, <2>1, <2>2, <3>1, Posted
    <3> QED  BY <2>1, <3>2
  <2> QED  BY <1>5, <2>1, <2>2
<1>7. TypeOK'
  <2>1. killAt' \in Deadlines
    BY <1>1, <1>5, Numbers DEF TypeOK, Deadlines
  <2>2. toWorker' \in Messages({"run", "abort"}) /\ Len(toWorker') <= 2
    BY <1>3, QueueTypes
  <2> QED  BY <1>1, <1>5, <1>6, <2>1, <2>2 DEF TypeOK, given, mainVars
<1>8. QueueInv'
  BY <1>1, <1>3, <1>5, EmptyQueue
<1>9. DoomInv'
  <2>1. CASE tool = "cli" /\ handler = "busy" /\ child = "alive"
    <3>1. Lag + Lag < Extra /\ StartWithin + Lag < Timeout + Extra
      BY <2>1 DEF KillsInTime, TypeOK
    <3>2. terminateAt # Never /\ terminateAt >= Timeout + TerminateAfter
      BY <1>3, <1>4, Numbers DEF TimerInv, Never
    <3>3. now <= t + Lag \/ StartedBy(now)
      <4>1. PICK u \in Time : toWorker = <<AbortAt(u)>> /\ (now <= u + Lag \/ StartedBy(now))
        BY <1>1, <2>1, <3>2 DEF DoomInv
      <4>2. AbortQueued(u)
        BY <4>1 DEF AbortQueued, HasAbort
      <4>3. u = t
        BY <1>2, <4>2, Distinct DEF AbortQueued
      <4> QED  BY <4>1, <4>3
    <3>4. killAt' = now + KillGrace /\ handler' = "done"
      BY <1>5, <2>1
    <3>5. killAt' # Never /\ now <= killAt' + Lag
      BY <1>1, <3>4, Numbers DEF Never
    <3>6. killAt' + Lag < terminateAt
      BY <1>1, <1>3, <1>4, <3>1, <3>2, <3>3, <3>4, Numbers DEF StartedBy
    <3> QED  BY <1>1, <2>1, <3>2, <3>4, <3>5, <3>6 DEF DoomInv, given, mainVars
  <2>2. CASE ~(tool = "cli" /\ handler = "busy") /\ child = "alive"
    <3>1. handler' = handler /\ killAt' = killAt
      BY <1>5, <2>2
    <3> QED  BY <1>1, <1>5, <2>2, <3>1 DEF DoomInv, given, mainVars
  <2>3. CASE child # "alive"
    BY <1>5, <2>3 DEF DoomInv
  <2> QED  BY <2>1, <2>2, <2>3
<1>10. StartInv' /\ HomeInv' /\ TimerInv' /\ AnswerInv' /\ ChildInv'
  BY <1>1, <1>4, <1>5, <1>6 DEF StartInv, HomeInv, TimerInv, AnswerInv, ChildInv, given, mainVars
<1> QED  BY <1>7, <1>8, <1>9, <1>10

LEMMA HandlerYieldsInv ==
  ASSUME Inv, HandlerYields
  PROVE  Inv'
<1> USE DEF Inv
<1>1. /\ worker = "blocked" /\ worker' = "ready" /\ ~Unread /\ call # "idle" /\ child # "alive"
      /\ UNCHANGED <<now, given, mainVars, toWorker, toMain, handler, child, termAt, killAt>>
  BY DEF HandlerYields, QueueInv, StartInv, ChildInv
<1>2. TypeOK'
  BY <1>1 DEF TypeOK, given, mainVars
<1>3. QueueInv'
  BY <1>1 DEF QueueInv, Unread, AbortQueued, mainVars
<1>4. StartInv' /\ HomeInv' /\ TimerInv' /\ AnswerInv' /\ ChildInv' /\ DoomInv'
  BY <1>1 DEF StartInv, HomeInv, TimerInv, AnswerInv, ChildInv, DoomInv, given, mainVars
<1> QED  BY <1>2, <1>3, <1>4

\* The handler's promise settles, without a child or when that is gone.
LEMMA GivenInv ==
  ASSUME Inv, NEW a \in Answers, Gives(a) \/ UNCHANGED <<mainVars, toMain>>,
         worker \in {"ready", "blocked"}, ~Unread, UNCHANGED <<now, given, toWorker>>,
         worker' = "ready", handler' = "done", child' \in {"none", "closed"},
         tool = "pure" => child' = "none", termAt' \in {termAt, Never}, killAt' \in {killAt, Never}
  PROVE  Inv'
<1> USE DEF Inv
<1>1. call # "idle" /\ worker # "gone"
  BY DEF StartInv
<1>2. /\ termAt' \in Deadlines /\ killAt' \in Deadlines
      /\ tool # "command" => termAt' = Never
  BY DEF TypeOK, Deadlines, ChildInv
<1>3. CASE inProcess
  <2>1. /\ call' \in {call, "resolved", "rejected"} /\ timeoutAt' \in {timeoutAt, Never}
        /\ UNCHANGED <<completed, terminateAt, toMain>>
    BY <1>3 DEF Gives, mainVars
  <2>2. TypeOK'
    BY <1>2, <2>1 DEF TypeOK, given, Deadlines
  <2> QED  BY <1>1, <1>2, <1>3, <2>1, <2>2, InProcessInv
<1>4. CASE ~inProcess
  <2>1. UNCHANGED mainVars /\ (Post(<<a>>) \/ toMain' = toMain)
    BY <1>4 DEF Gives
  <2>2. toMain' \in Messages(Events) /\ \A i \in DOMAIN toMain' : toMain'[i].type # "exit"
    <3>1. toMain \in Messages(Events) /\ now \in Time /\ \A i \in DOMAIN toMain : toMain[i].type # "exit"
      BY <1>1 DEF TypeOK, AnswerInv
    <3>2. CASE Post(<<a>>)
      <4>1. a \in Events /\ a # "exit"
        BY DEF Events, Answers
      <4>2. /\ toMain' \in Messages(Events)
            /\ \A i \in DOMAIN toMain' :
                 (i \in DOMAIN toMain /\ toMain'[i] = toMain[i]) \/ toMain'[i].type = a
        BY <3>1, <3>2, <4>1, Posted
      <4> QED  BY <3>1, <4>1, <4>2
    <3> QED  BY <2>1, <3>1, <3>2
  <2>3. TypeOK'
    BY <1>2, <2>1, <2>2 DEF TypeOK, given, mainVars
  <2>4. QueueInv'
    BY <2>1 DEF QueueInv, Unread, AbortQueued, mainVars
  <2>5. StartInv' /\ HomeInv' /\ TimerInv' /\ AnswerInv' /\ ChildInv' /\ DoomInv'
    BY <1>1, <1>2, <1>4, <2>1, <2>2 DEF StartInv, HomeInv, TimerInv, AnswerInv, ChildInv, DoomInv, given, mainVars
  <2> QED  BY <2>3, <2>4, <2>5
<1> QED  BY <1>3, <1>4

LEMMA HandlerSettlesInv ==
  ASSUME Inv, HandlerSettles
  PROVE  Inv'
<1>1. PICK a \in Answers : Gives(a)
  BY DEF HandlerSettles
<1>2. /\ worker \in {"ready", "blocked"} /\ handler = "busy" /\ handler' = "done" /\ worker' = "ready"
      /\ UNCHANGED <<now, given, toWorker, child, termAt, killAt>> /\ child = "none"
  BY DEF HandlerSettles, Inv, ChildInv
<1>3. ~Unread
  BY <1>2 DEF Inv, QueueInv
<1> QED  BY <1>1, <1>2, <1>3, GivenInv

LEMMA ChildClosesInv ==
  ASSUME Inv, ChildCloses
  PROVE  Inv'
<1>1. /\ worker = "ready" /\ worker' = "ready" /\ handler' = "done" /\ child' = "closed" /\ termAt' = Never
      /\ Gives("success") \/ UNCHANGED <<mainVars, toMain>>
      /\ killAt' \in {killAt, Never} /\ child = "exited" /\ UNCHANGED <<now, given, toWorker>>
  BY DEF ChildCloses
<1>2. ~Unread /\ tool # "pure" /\ "success" \in Answers
  BY <1>1 DEF Inv, QueueInv, ChildInv, Answers
<1> QED  BY <1>1, <1>2, GivenInv

\* The child goes, by itself or by a signal; nobody has heard of it yet.
LEMMA ChildGoesInv ==
  ASSUME Inv, child' = IF child = "alive" THEN "exited" ELSE child, killAt' \in {killAt, Never},
         child = "alive" \/ worker = "ready",
         UNCHANGED <<now, given, mainVars, toWorker, toMain, worker, handler, termAt>>
  PROVE  Inv'
<1> USE DEF Inv
<1>1. /\ child' # "alive" /\ child' \in {"none", "exited", "closed"} /\ (child = "none" => child' = "none")
      /\ (tool = "pure" => child' = "none") /\ worker = "ready" /\ call # "idle"
  BY DEF TypeOK, ChildInv, StartInv
<1>2. TypeOK'
  BY <1>1 DEF TypeOK, given, mainVars, Deadlines
<1>3. QueueInv'
  BY <1>1 DEF QueueInv, Unread, AbortQueued, mainVars
<1>4. StartInv' /\ HomeInv' /\ TimerInv' /\ AnswerInv' /\ ChildInv' /\ DoomInv'
  BY <1>1 DEF StartInv, HomeInv, TimerInv, AnswerInv, ChildInv, DoomInv, given, mainVars
<1> QED  BY <1>2, <1>3, <1>4

LEMMA ChildExitsInv ==
  ASSUME Inv, ChildExits
  PROVE  Inv'
BY ChildGoesInv DEF ChildExits

LEMMA KillTimerInv ==
  ASSUME Inv, KillTimer
  PROVE  Inv'
BY ChildGoesInv DEF KillTimer

\* run_command's own timer.
LEMMA CommandTimerInv ==
  ASSUME Inv, CommandTimer
  PROVE  Inv'
<1> USE DEF Inv
<1>1. /\ worker = "ready" /\ termAt # Never /\ now >= termAt /\ termAt' = Never
      /\ killAt' = now + CommandGrace /\ call # "idle" /\ tool = "command"
      /\ UNCHANGED <<now, given, mainVars, toWorker, toMain, worker, handler, child>>
  BY DEF CommandTimer, Due, StartInv, ChildInv
<1>2. now \in Nat /\ termAt \in Nat
  BY <1>1, Instants DEF TypeOK, Deadlines
<1>3. TypeOK'
  <2>1. killAt' \in Deadlines
    BY <1>1, <1>2, Numbers DEF Deadlines
  <2> QED  BY <1>1, <2>1 DEF TypeOK, given, mainVars, Deadlines
<1>4. QueueInv'
  BY <1>1 DEF QueueInv, Unread, AbortQueued, mainVars
<1>5. DoomInv'
  <2>1. CASE child = "alive" /\ ~inProcess
    <3>1. now <= termAt + Lag /\ StartedBy(termAt - CommandTimeout)
      BY <1>1, <2>1 DEF DoomInv
    <3>2. StartedBy(now - Lag - CommandTimeout)
      BY <1>2, <3>1, Numbers DEF StartedBy
    <3>3. killAt' - CommandGrace - Lag - CommandTimeout = now - Lag - CommandTimeout
          /\ now <= killAt' + Lag /\ killAt' # Never
      BY <1>1, <1>2, Numbers DEF Never
    <3> QED  BY <1>1, <3>2, <3>3 DEF DoomInv, given
  <2>2. CASE ~(child = "alive" /\ ~inProcess)
    BY <1>1, <2>2 DEF DoomInv, given
  <2> QED  BY <2>1, <2>2
<1>6. StartInv' /\ HomeInv' /\ TimerInv' /\ AnswerInv' /\ ChildInv'
  BY <1>1 DEF StartInv, HomeInv, TimerInv, AnswerInv, ChildInv, given, mainVars
<1> QED  BY <1>3, <1>4, <1>5, <1>6

\* The clock does not pass what a free thread has to do.
LEMMA TickInv ==
  ASSUME Inv, Tick
  PROVE  Inv'
<1> USE DEF Inv
<1>1. /\ now \in Nat /\ now < MaxTime /\ call # "idle" /\ now' = now + 1 /\ WorkerKeepsUp
      /\ UNCHANGED <<given, mainVars, toWorker, toMain, workerVars>>
  BY Instants DEF Tick, TypeOK
<1>2. now' \in Time /\ now' \in Nat
  BY <1>1, Numbers DEF Time
<1>3. TypeOK'
  BY <1>1, <1>2 DEF TypeOK, given, mainVars, workerVars
<1>4. worker = "ready" => /\ termAt # Never => now < termAt + Lag
                          /\ killAt # Never => now < killAt + Lag
                          /\ toWorker # <<>> => ~Overdue(Head(toWorker).at)
  <2>1. termAt \in Deadlines /\ killAt \in Deadlines
    BY DEF TypeOK
  <2> QED  BY <1>1, <2>1, Numbers DEF WorkerKeepsUp, Overdue, Deadlines
<1>5. QueueInv'
  <2>1. Unread => StartedBy(now')
    <3> SUFFICES ASSUME Unread PROVE StartedBy(now')
      OBVIOUS
    <3>1. worker \in {"starting", "ready"}
      BY DEF QueueInv
    <3>2. CASE worker = "starting"
      BY <1>1, <3>2, Numbers DEF WorkerKeepsUp, StartedBy
    <3>3. CASE worker = "ready"
      <4>1. ~Overdue(0)
        BY <1>4, <3>3, MessageFacts DEF Unread, RequestFirst
      <4> QED  BY <1>1, <4>1, Numbers DEF Overdue, Never, StartedBy
    <3> QED  BY <3>1, <3>2, <3>3
  <2>2. \A t \in Time : t <= now => t <= now'
    BY <1>1, Instants
  <2> QED  BY <1>1, <2>1, <2>2 DEF QueueInv, Unread, AbortQueued, mainVars, workerVars
<1>6. DoomInv'
  <2>1. CASE child = "alive" /\ ~inProcess /\ tool = "cli"
    <3>1. worker = "ready"
      BY <2>1 DEF ChildInv
    <3>2. ASSUME NEW t \in Time, toWorker = <<AbortAt(t)>>
          PROVE  now' <= t + Lag
      <4>1. ~Overdue(t) /\ t \in Nat /\ t # Never
        BY <1>4, <3>1, <3>2, Shapes, MessageFacts, Instants
      <4> QED  BY <1>1, <4>1, Numbers DEF Overdue
    <3>3. killAt # Never => now' <= killAt + Lag
      BY <1>1, <1>4, <3>1, Numbers DEF TypeOK, Deadlines
    <3> QED  BY <1>1, <2>1, <3>2, <3>3 DEF DoomInv, given, mainVars, workerVars
  <2>2. CASE child = "alive" /\ ~inProcess /\ tool = "command"
    <3>1. worker = "ready"
      BY <2>2 DEF ChildInv
    <3>2. /\ killAt # Never => now' <= killAt + Lag
          /\ termAt # Never => now' <= termAt + Lag
      BY <1>1, <1>4, <3>1, Numbers DEF TypeOK, Deadlines
    <3> QED  BY <1>1, <2>2, <3>2 DEF DoomInv, given, mainVars, workerVars
  <2>3. CASE ~(child = "alive" /\ ~inProcess /\ tool \in {"cli", "command"})
    BY <1>1, <2>3 DEF DoomInv, given, mainVars, workerVars
  <2> QED  BY <2>1, <2>2, <2>3
<1>7. StartInv' /\ HomeInv' /\ TimerInv' /\ AnswerInv' /\ ChildInv'
  BY <1>1 DEF StartInv, HomeInv, TimerInv, AnswerInv, ChildInv, given, mainVars, workerVars
<1> QED  BY <1>3, <1>5, <1>6, <1>7

LEMMA StepInv ==
  ASSUME Inv, KillsInTime, [Next]_vars
  PROVE  Inv'
<1>1. CASE Main
  BY <1>1, NotPermittedInv, RunInv, RefuseInputInv, TimesOutInv, TerminateTimerInv, ReceiveInv,
     RunInProcessInv, TimesOutInProcessInv DEF Main
<1>2. CASE Worker
  <2>1. WorkerReceives => Inv'
    BY RequestReadInv, AbortReadInv
  <2> QED  BY <1>2, <2>1, WorkerStartsInv, WorkerFailsInv, HandlerYieldsInv, HandlerSettlesInv,
              ChildClosesInv, CommandTimerInv, KillTimerInv DEF Worker
<1>3. CASE UNCHANGED vars
  <2> USE <1>3 DEF vars, given, mainVars, workerVars
  <2>1. TypeOK' /\ StartInv' /\ HomeInv'
    BY DEF Inv, TypeOK, StartInv, HomeInv
  <2>2. QueueInv'
    BY DEF Inv, QueueInv, Unread, AbortQueued
  <2>3. TimerInv' /\ AnswerInv' /\ ChildInv' /\ DoomInv'
    BY DEF Inv, TimerInv, AnswerInv, ChildInv, DoomInv
  <2> QED  BY <2>1, <2>2, <2>3 DEF Inv
<1> QED  BY <1>1, <1>2, <1>3, ChildExitsInv, TickInv DEF Next
-----------------------------------------------------------------------------
(* The theorems *)

\* The invariant that says how each child that lives will end before its worker.
THEOREM ToolInvariant ==
  ASSUME KillsInTime
  PROVE  Spec => []Inv
<1>1. Inv /\ [Next]_vars => Inv'
  BY StepInv
<1> QED  BY <1>1, InitInv, PTL DEF Spec

\* Every variable of a call keeps its type: a worker has at most the request and the abort
\* under way to it, and no timer is set in the past of the clock's first instant.
THEOREM ToolTypeCorrect ==
  ASSUME KillsInTime
  PROVE  Spec => []TypeOK
<1>1. Inv => TypeOK
  BY DEF Inv
<1> QED  BY <1>1, ToolInvariant, PTL

\* The comment at security/sandboxed-tool-runner.ts:287, for every timeout and every lag that
\* leave time for it: no child outlives the worker that is to kill it.
THEOREM NoOrphanAlways ==
  ASSUME KillsInTime
  PROVE  Spec => []NoOrphan
<1>1. Inv => NoOrphan
  BY DEF Inv, ChildInv, NoOrphan
<1> QED  BY <1>1, ToolInvariant, PTL
=============================================================================
