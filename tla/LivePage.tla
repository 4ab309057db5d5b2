------------------------------ MODULE LivePage ------------------------------
(***************************************************************************)
(* ui/src/App.tsx in a browser, over server/observability-routes.ts and    *)
(* the store: a page that asks for the runs and for the runs in progress,  *)
(* and merges the answers with what the event stream tells it.  Answers    *)
(* come on connections of their own, so they overtake each other and the   *)
(* stream.  The stream breaks and is opened again, and then begins with    *)
(* the events that the store has kept; what ended meanwhile it does not    *)
(* tell.  Of an event only the run it belongs to matters; the lists of     *)
(* events and documents, and what is drawn, are left out.  The process of  *)
(* the server stays up; two equal answers under way count as one.          *)
(***************************************************************************)
EXTENDS ObservabilityStore, FiniteSets

CONSTANTS
  PageRuns,    \* runs that the page keeps (100)
  MaxUpsets,   \* bound: how often the stream breaks or the store is cleared
  MaxInFlight  \* bound: requests and answers under way when a button is pressed

ASSUME PageAssumption == PageRuns \in Nat \ {0} /\ MaxUpsets \in Nat /\ MaxInFlight \in Nat

VARIABLES
  course,        \* of each request: not begun, under way, over
  listening,     \* the event stream: subscribed on one side, open on the other
  stream,        \* what is under way on it
  asked,         \* requests of the page that the server has not answered
  answers,       \* answers under way
  tab,           \* the tab in front
  shownRuns, shownActive,
  upsets,        \* breaks and clears so far
  unseen         \* history: entries that the page has missed, or has been made to forget

pageVars == <<course, listening, stream, asked, answers, tab, shownRuns, shownActive, upsets, unseen>>
liveVars == <<storeVars, pageVars>>

\* What fetchRuns and fetchActiveRuns make of a request that fails.
Refusals == {[to |-> "runs", runs |-> <<>>], [to |-> "active", active |-> {}]}
Kinds    == {"runs", "active", "clear"}
Answers  == [to : {"runs"}, runs : Seq(Entries)] \cup [to : {"active"}, active : SUBSET Requests]
            \cup [to : {"clear"}]

PageTypeOK ==
  /\ TypeOK
  /\ course \in [Requests -> {"new", "going", "over"}]
  /\ listening \in BOOLEAN
  /\ asked \subseteq Kinds
  /\ \A a \in answers : a \in Answers
  /\ tab \in {"runs", "other"}
  /\ shownRuns \in Seq(Entries) /\ Len(shownRuns) <= (IF MaxRuns > PageRuns THEN MaxRuns ELSE PageRuns)
  /\ shownActive \subseteq Requests
  /\ upsets \in 0..MaxUpsets
  /\ unseen \subseteq 1..MaxAdded

\* The page is loaded, with the Runs tab in front: both lists are asked for.
PageInit ==
  /\ Init
  /\ course = [r \in Requests |-> "new"]
  /\ listening = FALSE
  /\ stream = <<>>
  /\ asked = {"runs", "active"}
  /\ answers = {}
  /\ tab = "runs"
  /\ shownRuns = <<>>
  /\ shownActive = {}
  /\ upsets = 0
  /\ unseen = {}
-----------------------------------------------------------------------------
(* The server *)

\* run_start and run_progress, which do the same to the page's set of runs; run_complete;
\* and onopen, which comes before them all.
Goes(r)      == [type |-> "goes", request |-> r]
Completed(e) == [type |-> "complete", entry |-> e]
Opened       == [type |-> "open"]

Numbers(q)  == {q[i].at : i \in DOMAIN q}
OnTheWay    == {stream[i].entry.at : i \in {i \in DOMAIN stream : stream[i].type = "complete"}}

\* A listener writes to the stream.
Tell(m) == stream' = IF listening THEN Append(stream, m) ELSE stream

page == <<tab, shownRuns, shownActive, upsets>>

RunBegins(r) ==
  /\ course[r] = "new"
  /\ AddRunStart(r)
  /\ course' = [course EXCEPT ![r] = "going"]
  /\ Tell(Goes(r))
  /\ UNCHANGED <<listening, asked, answers, page, unseen>>

RunProgresses(r) ==
  /\ course[r] = "going"
  /\ AddEvent(r)
  /\ Tell(Goes(r))
  /\ UNCHANGED <<course, listening, asked, answers, page, unseen>>

\* Also of a run that never began, since its observation was refused.
RunCompletes(r) ==
  /\ course[r] # "over"
  /\ AddRun(r)
  /\ course' = [course EXCEPT ![r] = "over"]
  /\ Tell(Completed(Entry(r)))
  /\ unseen' = IF listening THEN unseen ELSE unseen \cup {added + 1}
  /\ UNCHANGED <<listening, asked, answers, page>>

\* GET /ui/events: the events kept, newest first, and then the listener.
Connect ==
  /\ Free
  /\ ~listening
  /\ listening' = TRUE
  /\ stream' = <<Opened>> \o [i \in DOMAIN events |-> Goes(events[i].request)]
  /\ UNCHANGED <<storeVars, course, asked, answers, page, unseen>>

\* GET /ui/runs and GET /ui/active-runs, of the moment when the server comes to them.
AnswerRuns ==
  /\ Free
  /\ "runs" \in asked
  /\ asked' = asked \ {"runs"}
  /\ answers' = answers \cup {[to |-> "runs", runs |-> runs]}
  /\ UNCHANGED <<storeVars, course, listening, stream, page, unseen>>

AnswerActive ==
  /\ Free
  /\ "active" \in asked
  /\ asked' = asked \ {"active"}
  /\ answers' = answers \cup {[to |-> "active", active |-> activeRuns]}
  /\ UNCHANGED <<storeVars, course, listening, stream, page, unseen>>

\* POST /ui/clear, from this page or from another client.
ServerClears ==
  /\ Clear
  /\ upsets < MaxUpsets
  /\ upsets' = upsets + 1
  /\ asked' = asked \ {"clear"}
  /\ answers' = IF "clear" \in asked THEN answers \cup {[to |-> "clear"]} ELSE answers
  /\ UNCHANGED <<course, listening, stream, tab, shownRuns, shownActive, unseen>>

\* Nobody answers: the list that was asked for is emptied; of a clear() nothing comes.
RequestFails ==
  /\ asked # {}
  /\ \E k \in asked :
       /\ asked' = asked \ {k}
       /\ answers' = answers \cup {a \in Refusals : a.to = k}
  /\ UNCHANGED <<storeVars, course, listening, stream, page, unseen>>

\* clear() saves at once; what the timer saves the page does not see.
ClearGoesOn == (RunsWritten \/ EventsTruncated \/ EventsWritten) /\ UNCHANGED pageVars

\* The stream breaks, and what is under way on it is lost.
Breaks ==
  /\ listening
  /\ upsets < MaxUpsets
  /\ upsets' = upsets + 1
  /\ listening' = FALSE
  /\ stream' = <<>>
  /\ unseen' = unseen \cup OnTheWay
  /\ UNCHANGED <<storeVars, course, asked, answers, tab, shownRuns, shownActive>>
-----------------------------------------------------------------------------
(* The page *)

\* slice(0, 100) of the run in front of the others (and a mutant that puts it behind).
WithRunBehind(e) ==
  IF Len(shownRuns) < PageRuns THEN Append(shownRuns, e) ELSE shownRuns

\* The runs shown but that of request r, in their order.
OtherRuns(r) ==
  LET others == {k \in DOMAIN shownRuns : shownRuns[k].request # r}
      Nth(n) == CHOOSE k \in others : Cardinality(others \cap 1..k) = n
  IN [n \in 1..Cardinality(others) |-> shownRuns[Nth(n)]]

WithRun(e) ==
  LET q == <<e>> \o OtherRuns(e.request)
  IN SubSeq(q, 1, IF Len(q) < PageRuns THEN Len(q) ELSE PageRuns)

Receive ==
  /\ stream # <<>>
  /\ stream' = Tail(stream)
  /\ LET m == Head(stream)
     IN \/ /\ m.type = "open"
           /\ asked' = asked \cup {"active"}
           /\ UNCHANGED <<shownRuns, shownActive>>
        \/ /\ m.type = "goes"
           /\ shownActive' = shownActive \cup {m.request}
           /\ UNCHANGED <<shownRuns, asked>>
        \/ /\ m.type = "complete"
           /\ shownActive' = shownActive \ {m.entry.request}
           /\ shownRuns' = WithRun(m.entry)
           /\ UNCHANGED asked
  /\ UNCHANGED <<storeVars, course, listening, answers, tab, upsets, unseen>>

\* The page takes an answer's word for all that there is.
Forgets == unseen' = 1..added \ (Numbers(shownRuns') \cup OnTheWay)

RunsArrive(a) ==
  /\ a.to = "runs"
  /\ shownRuns' = a.runs
  /\ Forgets
  /\ UNCHANGED shownActive

ActiveArrive(a) ==
  /\ a.to = "active"
  /\ shownActive' = a.active
  /\ UNCHANGED <<shownRuns, unseen>>

Cleared(a) ==
  /\ a.to = "clear"
  /\ shownRuns' = <<>>
  /\ shownActive' = {}
  /\ Forgets

Arrives(a) ==
  /\ answers' = answers \ {a}
  /\ RunsArrive(a) \/ ActiveArrive(a) \/ Cleared(a)
  /\ UNCHANGED <<storeVars, course, listening, stream, asked, tab, upsets>>

Ask(K) ==
  /\ asked' = asked \cup K
  /\ UNCHANGED <<storeVars, course, listening, stream, answers, shownRuns, shownActive, upsets, unseen>>

\* Every two seconds (and the mutant that asks only while the stream is down).
PollsWhenDown == tab = "runs" /\ shownActive # {} /\ ~listening
Polls         == tab = "runs" /\ shownActive # {}

Quiet == Cardinality(asked) + Cardinality(answers) < MaxInFlight

Poll == Polls /\ Ask({"active"}) /\ UNCHANGED tab

PressRefresh == Quiet /\ tab = "runs" /\ Ask({"runs"}) /\ UNCHANGED tab
PressClear   == Quiet /\ upsets < MaxUpsets /\ Ask({"clear"}) /\ UNCHANGED tab

ChangeTab ==
  \/ tab = "runs" /\ tab' = "other" /\ Ask({})
  \/ Quiet /\ tab = "other" /\ tab' = "runs" /\ Ask({"runs", "active"})

Server ==
  \/ \E r \in Requests : RunBegins(r) \/ RunProgresses(r) \/ RunCompletes(r)
  \/ Connect \/ AnswerRuns \/ AnswerActive \/ ServerClears \/ RequestFails
  \/ ClearGoesOn

Page ==
  \/ Receive \/ Breaks \/ \E a \in answers : Arrives(a)
  \/ Poll \/ PressRefresh \/ PressClear \/ ChangeTab

PageNext == Server \/ Page

PageSpec == PageInit /\ [][PageNext]_liveVars

\* The server comes to what it is asked, however often it saves between, and what is sent
\* arrives.  The stream need not be opened again, and nobody need press anything.
PageFairSpec ==
  /\ PageSpec
  /\ WF_liveVars(Poll) /\ WF_liveVars(Receive) /\ WF_liveVars(\E a \in answers : Arrives(a))
  /\ SF_liveVars(AnswerRuns) /\ SF_liveVars(AnswerActive) /\ SF_liveVars(ServerClears)
  /\ WF_liveVars(ClearGoesOn)
-----------------------------------------------------------------------------
(* Properties *)

\* README.md:114, "SSE events include run_complete for live run updates": with the stream
\* open and read to its end, the page shows each of the store's runs below the newer ones,
\* as far as it has room, unless the run ended while the stream was broken or an answer
\* older than its end came in after it.
RunsShown ==
  listening /\ stream = <<>> =>
    \A e \in {runs[i] : i \in DOMAIN runs} :
      \/ e.at \in unseen
      \/ \E j \in DOMAIN shownRuns :
           /\ shownRuns[j] = e
           /\ \A k \in DOMAIN shownRuns : k < j => shownRuns[k].at > e.at
           /\ \A k \in DOMAIN shownRuns : k > j => shownRuns[k].request # e.request
      \/ Cardinality({k \in DOMAIN shownRuns : shownRuns[k].at > e.at}) = PageRuns

\* A run that the page shows in progress and that is not goes away while the Runs tab is
\* in front, also when the stream told of it again, or is broken.
GhostsGo ==
  \A r \in Requests :
    r \in shownActive \ activeRuns ~>
      (r \notin shownActive \/ r \in activeRuns \/ tab # "runs")
=============================================================================
