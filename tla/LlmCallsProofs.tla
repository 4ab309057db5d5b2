--------------------------- MODULE LlmCallsProofs ---------------------------
(***************************************************************************)
(* The hosts that requests go to were looked up lately, for every number   *)
(* of calls under way and every time to live.                              *)
(***************************************************************************)
EXTENDS LlmCalls, TLAPS

CallTypes ==
  [op : Ops \cup {"none"}, phase : {"idle", "lookup", "fetch", "body", "child", "killing"},
   age : Ages, timer : Timers \cup {Off}]

\* No entry of a cache is younger than the latest lookup that said safe.
EntriesVouched == \A a \in Hosted : \A u \in Urls : vouched[u] <= validated[a][u]

\* Timers have not run for longer than their limit allows.
TimersBounded ==
  \A c \in Calls : calls[c].timer # Off => calls[c].timer <= Limit(calls[c].phase) + Lag

\* What looks its host up is a call of a hosted adapter.
LookupsHosted ==
  \A c \in Calls : calls[c].phase \in {"lookup", "fetch"} =>
    calls[c].op \in Ops /\ Adapter(calls[c].op) \in Hosted

Inv == TypeOK /\ EntriesVouched /\ TimersBounded /\ LookupsHosted

LEMMA Numbers ==
  /\ Ttl \in Nat /\ Timeout \in Nat \ {0} /\ CodexTimeout \in Nat \ {0}
  /\ KillGrace \in Nat /\ Lag \in Nat
  /\ Ages \subseteq Nat /\ Expired \in Ages /\ 0 \in Ages
  /\ Timers \subseteq Nat /\ 0 \in Timers /\ Off = -1
BY LlmAssumption DEF LlmAssumption, Ages, Expired, Timers, Off

\* What the invariant says of one entry.
LEMMA EntryTypes ==
  ASSUME Inv, NEW a \in Hosted, NEW u \in Urls
  PROVE  /\ vouched[u] \in Ages /\ validated[a][u] \in Ages
         /\ vouched[u] \in Nat /\ validated[a][u] \in Nat
         /\ vouched[u] <= validated[a][u]
<1>1. vouched \in [Urls -> Ages] /\ validated \in [Hosted -> [Urls -> Ages]] /\ EntriesVouched
  BY DEF Inv, TypeOK
<1>2. vouched[u] \in Ages
  BY <1>1
<1>3. validated[a] \in [Urls -> Ages]
  BY <1>1
<1>4. validated[a][u] \in Ages
  BY <1>3
<1>5. vouched[u] <= validated[a][u]
  BY <1>1 DEF EntriesVouched
<1> QED BY <1>2, <1>4, <1>5, Numbers

LEMMA YoungerType ==
  ASSUME NEW a \in Ages, NEW b \in Ages
  PROVE  /\ Younger(a, b) \in Ages /\ Younger(a, b) \in Nat
         /\ Younger(a, b) <= a /\ Younger(a, b) <= b
<1>1. a \in Nat /\ b \in Nat
  BY Numbers
<1> QED BY <1>1 DEF Younger

LEMMA TargetsAreUrls ==
  ASSUME NEW op \in Ops, Adapter(op) \in Hosted
  PROVE  Target(op) \in Urls
<1>1. EmbeddingUrl("anthropic") \in Urls /\ EmbeddingUrl("local") \in Urls
  BY DEF EmbeddingUrl, Urls
<1>2. config.embedding = "local" /\ op = "embed" => Adapter(op) = "local"
  BY DEF Adapter
<1>3. Adapter(op) \in Urls
  BY DEF Hosted, Urls
<1> QED BY <1>1, <1>2, <1>3 DEF Target

\* What create() looks up are URLs.
LEMMA CreateType ==
  ASSUME config \in Configs, NEW provider \in Providers, NEW embeds \in BOOLEAN,
         NEW url \in {"local", EmbeddingUrl("local")}
  PROVE  Create(provider, embeds, url) \in Seq(Urls)
<1>1. OpenAICreate \in Seq(Urls) /\ LocalCreate(url) \in Seq(Urls) /\ <<>> \in Seq(Urls)
  <2>1. "openai" \in Urls /\ url \in Urls
    BY DEF Urls, EmbeddingUrl
  <2> HIDE DEF Urls
  <2> QED BY <2>1 DEF OpenAICreate, LocalCreate
<1>2. AnthropicCreate(embeds) \in Seq(Urls)
  <2>1. EmbeddingUrl("anthropic") \in Urls /\ "anthropic" \in Urls
    BY DEF EmbeddingUrl, Urls
  <2> HIDE DEF Urls
  <2> QED BY <2>1 DEF AnthropicCreate
<1>3. provider \in {"openai", "anthropic", "local", "codex"}
  BY DEF Providers, Hosted
<1>4. Create("openai", embeds, url) = OpenAICreate /\ Create("local", embeds, url) = LocalCreate(url)
  BY DEF Create
<1>5. Create("anthropic", embeds, url) = AnthropicCreate(embeds) /\ Create("codex", embeds, url) = <<>>
  BY DEF Create
<1> HIDE DEF Urls
<1> QED BY <1>1, <1>2, <1>3, <1>4, <1>5

LEMMA InitInv == LlmInit => Inv
<1> SUFFICES ASSUME LlmInit PROVE Inv
  OBVIOUS
<1>1. Idle \in CallTypes
  BY Numbers DEF Idle, CallTypes
<1>2. TypeOK
  BY <1>1, Numbers DEF LlmInit, TypeOK, CallTypes
<1>3. EntriesVouched /\ TimersBounded /\ LookupsHosted
  BY Numbers DEF LlmInit, EntriesVouched, TimersBounded, LookupsHosted, Idle, Ages
<1> QED BY <1>2, <1>3 DEF Inv
-----------------------------------------------------------------------------
(* Steps that change one call *)

\* A call that turns into r, which its timer and its adapter allow, keeps the invariant.
LEMMA CallKeeps ==
  ASSUME Inv, NEW c \in Calls, NEW r \in CallTypes,
         calls' = [calls EXCEPT ![c] = r],
         r.timer # Off => r.timer <= Limit(r.phase) + Lag,
         r.phase \in {"lookup", "fetch"} => r.op \in Ops /\ Adapter(r.op) \in Hosted,
         UNCHANGED <<config, startup, toCheck>>,
         validated' \in [Hosted -> [Urls -> Ages]], vouched' \in [Urls -> Ages],
         EntriesVouched'
  PROVE  Inv'
<1>1. calls' \in [Calls -> CallTypes]
  BY DEF Inv, TypeOK, CallTypes
<1>2. TypeOK'
  BY <1>1 DEF Inv, TypeOK, CallTypes
<1>3. \A d \in Calls : calls'[d] = IF d = c THEN r ELSE calls[d]
  BY DEF Inv, TypeOK
<1>4. TimersBounded'
  BY <1>3 DEF Inv, TimersBounded, Limit
<1>5. LookupsHosted'
  BY <1>3 DEF Inv, LookupsHosted, Adapter
<1> QED BY <1>2, <1>4, <1>5 DEF Inv

LEMMA LeaveKeeps ==
  ASSUME Inv, NEW c \in Calls, Leave(c)
  PROVE  Inv' /\ calls'[c].phase = "idle"
<1>1. Idle \in CallTypes /\ Idle.timer = Off /\ Idle.phase = "idle"
  BY Numbers DEF Idle, CallTypes
<1>2. calls' = [calls EXCEPT ![c] = Idle] /\ UNCHANGED <<config, startup, toCheck, validated, vouched>>
  BY DEF Leave
<1>3. EntriesVouched' /\ validated' \in [Hosted -> [Urls -> Ages]] /\ vouched' \in [Urls -> Ages]
  BY <1>2 DEF Inv, TypeOK, EntriesVouched
<1>4. Inv'
  BY <1>1, <1>2, <1>3, CallKeeps
<1>5. calls'[c] = Idle
  BY <1>2 DEF Inv, TypeOK
<1> QED BY <1>1, <1>4, <1>5

\* A request that is posted without a lookup was vouched for lately, if it need be.
LEMMA RequestKeeps ==
  ASSUME Inv, NEW c \in Calls, NEW op \in Ops, Adapter(op) \in Hosted, Request(c, op)
  PROVE  /\ Inv' /\ calls'[c].op = op
         /\ (calls'[c].phase = "fetch" /\ ~Unchecked(Adapter(op))) => vouched'[Target(op)] <= Ttl
<1> DEFINE asked == [op |-> op, phase |-> "lookup", age |-> 0, timer |-> Off]
           fresh == Unchecked(Adapter(op)) \/ validated[Adapter(op)][Checked(op)] <= Ttl
           r == IF fresh THEN Sent(op) ELSE asked
<1>1. Sent(op) \in CallTypes /\ asked \in CallTypes /\ Sent(op).op = op /\ Sent(op).timer = 0
      /\ Sent(op).phase = "fetch"
  BY Numbers DEF Sent, CallTypes, Ops
<1>2. calls' = [calls EXCEPT ![c] = r]
      /\ UNCHANGED <<config, startup, toCheck, validated, vouched>>
  BY DEF Request
<1>3. r \in CallTypes /\ r.op = op /\ (r.timer # Off => r.timer <= Limit(r.phase) + Lag)
  BY <1>1, Numbers DEF Limit
<1>4. EntriesVouched' /\ validated' \in [Hosted -> [Urls -> Ages]] /\ vouched' \in [Urls -> Ages]
  BY <1>2 DEF Inv, TypeOK, EntriesVouched
<1>5. calls'[c] = r
  BY <1>2 DEF Inv, TypeOK
<1>6. Inv'
  <2> HIDE DEF r
  <2> QED BY <1>2, <1>3, <1>4, CallKeeps
<1>7. ASSUME calls'[c].phase = "fetch", ~Unchecked(Adapter(op))
      PROVE  vouched[Target(op)] <= Ttl
  <2>1. fresh
    BY <1>5, <1>7
  <2>2. validated[Adapter(op)][Target(op)] <= Ttl
    BY <2>1, <1>7 DEF Checked
  <2>3. vouched[Target(op)] <= validated[Adapter(op)][Target(op)]
        /\ vouched[Target(op)] \in Nat /\ validated[Adapter(op)][Target(op)] \in Nat
    BY TargetsAreUrls, EntryTypes
  <2> QED BY <2>2, <2>3, Numbers
<1>8. calls'[c].op = op
  BY <1>3, <1>5
<1> QED BY <1>2, <1>6, <1>7, <1>8

\* A lookup that says safe vouches for the request that follows it.
LEMMA LookupKeeps ==
  ASSUME Inv, NEW c \in Calls, LookupSafe(c)
  PROVE  /\ Inv' /\ calls'[c].op = calls[c].op /\ calls[c].phase = "lookup"
         /\ vouched'[Target(calls[c].op)] <= calls[c].age
<1> DEFINE op == calls[c].op
           u == Checked(op)
           age == calls[c].age
<1>1. op \in Ops /\ Adapter(op) \in Hosted /\ calls[c].phase = "lookup"
  BY DEF LookupSafe, Inv, LookupsHosted
<1>2. u \in Urls /\ u = Target(op)
  BY <1>1, TargetsAreUrls DEF Checked
<1>3. age \in Ages /\ vouched \in [Urls -> Ages] /\ validated \in [Hosted -> [Urls -> Ages]]
  BY DEF Inv, TypeOK
<1>4. /\ validated' = [validated EXCEPT ![Adapter(op)][u] = age]
      /\ vouched' = [vouched EXCEPT ![u] = Younger(@, age)]
      /\ calls' = [calls EXCEPT ![c] = Sent(op)]
      /\ UNCHANGED <<config, startup, toCheck>>
  BY DEF LookupSafe
<1>5. Sent(op) \in CallTypes /\ Sent(op).op = op /\ Sent(op).timer = 0 /\ Sent(op).phase = "fetch"
  BY <1>1, Numbers DEF Sent, CallTypes
<1> HIDE DEF op, u, age
<1>6. Younger(vouched[u], age) \in Ages /\ Younger(vouched[u], age) <= age
      /\ Younger(vouched[u], age) <= vouched[u]
  <2>1. vouched[u] \in Ages
    BY <1>2, <1>3
  <2> QED BY <2>1, <1>3, YoungerType
<1>7. /\ vouched'[u] <= age /\ vouched' \in [Urls -> Ages]
      /\ \A v \in Urls : vouched'[v] <= vouched[v]
  <2> DEFINE y == Younger(vouched[u], age)
  <2>1. vouched' = [vouched EXCEPT ![u] = y]
    BY <1>4
  <2>2. y \in Ages /\ y <= age /\ y <= vouched[u]
    BY <1>6
  <2> HIDE DEF y
  <2>3. vouched' \in [Urls -> Ages] /\ vouched'[u] = y
    BY <1>2, <1>3, <2>1, <2>2
  <2>4. ASSUME NEW v \in Urls PROVE vouched'[v] <= vouched[v]
    <3>1. CASE v = u
      BY <2>2, <2>3, <3>1
    <3>2. CASE v # u
      <4>1. vouched'[v] = vouched[v] /\ vouched[v] \in Ages
        BY <1>3, <2>1, <3>2
      <4>2. vouched[v] \in Nat
        BY <4>1, Numbers
      <4> QED BY <4>1, <4>2
    <3> QED BY <3>1, <3>2
  <2> QED BY <2>2, <2>3, <2>4
<1>8. validated' \in [Hosted -> [Urls -> Ages]]
  BY <1>1, <1>2, <1>3, <1>4
<1>9. EntriesVouched'
  <2> SUFFICES ASSUME NEW a \in Hosted, NEW v \in Urls PROVE vouched'[v] <= validated'[a][v]
    BY DEF EntriesVouched
  <2>1. CASE a = Adapter(op) /\ v = u
    BY <2>1, <1>1, <1>2, <1>3, <1>4, <1>7
  <2>2. CASE ~(a = Adapter(op) /\ v = u)
    <3>1. validated'[a][v] = validated[a][v]
      BY <2>2, <1>1, <1>2, <1>3, <1>4
    <3>2. vouched[v] <= validated[a][v] /\ vouched[v] \in Nat /\ validated[a][v] \in Nat
      BY EntryTypes
    <3>3. vouched'[v] \in Nat /\ vouched'[v] <= vouched[v]
      BY <1>7, Numbers
    <3> QED BY <3>1, <3>2, <3>3
  <2> QED BY <2>1, <2>2
<1>10. Limit("fetch") + Lag >= 0
  BY Numbers DEF Limit
<1>11. Inv'
  BY <1>1, <1>4, <1>5, <1>7, <1>8, <1>9, <1>10, CallKeeps
<1>12. calls'[c] = Sent(op)
  BY <1>4 DEF Inv, TypeOK
<1> QED BY <1>1, <1>2, <1>5, <1>7, <1>11, <1>12 DEF op, age

\* The steps that move a call otherwise.
LEMMA MovesKeep ==
  ASSUME Inv, NEW c \in Calls,
         Headers(c) \/ CodexGenerate(c) \/ CodexTimesOut(c)
  PROVE  Inv' /\ calls'[c].phase # "fetch"
<1>1. PICK r \in CallTypes :
        /\ calls' = [calls EXCEPT ![c] = r]
        /\ r.phase \in {"body", "child", "killing"} /\ r.timer \in {Off, 0}
  <2>1. calls[c] \in CallTypes
    BY DEF Inv, TypeOK, CallTypes
  <2>2. CASE Headers(c)
    <3>1. [calls[c] EXCEPT !.phase = "body", !.timer = Off] \in CallTypes
      BY <2>1 DEF CallTypes
    <3> QED BY <2>1, <2>2, <3>1 DEF Headers, CallTypes
  <2>3. CASE CodexGenerate(c)
    <3>1. [op |-> "generate", phase |-> "child", age |-> 0, timer |-> 0] \in CallTypes
      BY Numbers DEF CallTypes, Ops
    <3> QED BY <2>3, <3>1 DEF CodexGenerate
  <2>4. CASE CodexTimesOut(c)
    <3>1. [calls[c] EXCEPT !.phase = "killing", !.timer = 0] \in CallTypes
      BY <2>1, Numbers DEF CallTypes
    <3> QED BY <2>1, <2>4, <3>1 DEF CodexTimesOut, CallTypes
  <2> QED BY <2>2, <2>3, <2>4
<1>2. UNCHANGED <<config, startup, toCheck, validated, vouched>>
  BY DEF Headers, CodexGenerate, CodexTimesOut
<1>3. EntriesVouched' /\ validated' \in [Hosted -> [Urls -> Ages]] /\ vouched' \in [Urls -> Ages]
  BY <1>2 DEF Inv, TypeOK, EntriesVouched
<1>4. r.timer # Off => r.timer <= Limit(r.phase) + Lag
  BY <1>1, Numbers DEF Limit
<1>5. Inv'
  BY <1>1, <1>2, <1>3, <1>4, CallKeeps
<1>6. calls'[c] = r
  BY <1>1 DEF Inv, TypeOK
<1> QED BY <1>1, <1>5, <1>6
-----------------------------------------------------------------------------
(* Steps that change none *)

LEMMA StartupKeeps ==
  ASSUME Inv, BuildLlmAdapter \/ BuildEmbeddingProvider \/ BuildFails \/ CreateLookup
  PROVE  Inv' /\ calls' = calls
<1>1. UNCHANGED <<config, validated, vouched, calls>>
  BY DEF BuildLlmAdapter, BuildEmbeddingProvider, BuildFails, CreateLookup
<1>2. startup' \in {"none", "llm", "ready", "failed"} /\ toCheck' \in Seq(Urls)
  <2>1. config \in Configs /\ toCheck \in Seq(Urls) /\ startup \in {"none", "llm", "ready", "failed"}
    BY DEF Inv, TypeOK
  <2>2. CASE BuildLlmAdapter
    BY <2>1, <2>2, CreateType DEF BuildLlmAdapter, Configs
  <2>3. CASE BuildEmbeddingProvider
    <3>1. CASE config.embedding = "llm"
      BY <2>3, <3>1 DEF BuildEmbeddingProvider
    <3>2. CASE config.embedding # "llm"
      <4>1. config.embedding \in Providers
        BY <2>1, <3>2 DEF Configs
      <4>2. Create(config.embedding, TRUE, EmbeddingUrl("local")) \in Seq(Urls)
        BY <2>1, <4>1, CreateType
      <4> QED BY <2>3, <3>2, <4>2 DEF BuildEmbeddingProvider
    <3> QED BY <3>1, <3>2
  <2>4. CASE CreateLookup
    <3>1. CASE toCheck' = Tail(toCheck) /\ UNCHANGED startup
      <4>1. Tail(toCheck) \in Seq(Urls)
        BY <2>1, <2>4 DEF CreateLookup
      <4> QED BY <2>1, <3>1, <4>1
    <3>2. CASE toCheck' = <<>> /\ startup' = "failed"
      BY <3>2
    <3> QED BY <2>4, <3>1, <3>2 DEF CreateLookup
  <2>5. CASE BuildFails
    BY <2>1, <2>5 DEF BuildFails
  <2> QED BY <2>2, <2>3, <2>4, <2>5
<1> QED BY <1>1, <1>2
    DEF Inv, TypeOK, EntriesVouched, TimersBounded, LookupsHosted, Limit, Adapter

LEMMA TickKeeps ==
  ASSUME Inv, Tick
  PROVE  Inv' /\ \A c \in Calls : calls'[c].phase = calls[c].phase
<1>1. \A x \in Ages : Aged(x) \in Ages
  BY Numbers DEF Aged, Younger, Ages, Expired
<1>2. \A x \in Ages, y \in Ages : x <= y => Aged(x) <= Aged(y)
  BY Numbers DEF Aged, Younger, Ages, Expired
<1>3. /\ validated \in [Hosted -> [Urls -> Ages]] /\ vouched \in [Urls -> Ages]
      /\ calls \in [Calls -> CallTypes]
  BY DEF Inv, TypeOK, CallTypes
<1>4. /\ validated' = [a \in Hosted |-> [u \in Urls |-> Aged(validated[a][u])]]
      /\ vouched' = [u \in Urls |-> Aged(vouched[u])]
      /\ UNCHANGED <<config, startup, toCheck>>
  BY DEF Tick
<1>5. validated' \in [Hosted -> [Urls -> Ages]] /\ vouched' \in [Urls -> Ages]
  BY <1>1, <1>3, <1>4
<1>6. EntriesVouched'
  <2> SUFFICES ASSUME NEW a \in Hosted, NEW u \in Urls PROVE vouched'[u] <= validated'[a][u]
    BY DEF EntriesVouched
  <2>1. vouched[u] <= validated[a][u] /\ vouched[u] \in Ages /\ validated[a][u] \in Ages
    BY EntryTypes
  <2> QED BY <2>1, <1>2, <1>4
<1>7. ASSUME NEW c \in Calls
      PROVE  /\ calls'[c] \in CallTypes /\ calls'[c].phase = calls[c].phase
             /\ calls'[c].op = calls[c].op
             /\ calls'[c].timer # Off => calls'[c].timer <= Limit(calls[c].phase) + Lag
  <2> DEFINE aged == IF calls[c].phase = "lookup" THEN Aged(calls[c].age) ELSE calls[c].age
             timer == IF calls[c].timer = Off THEN Off ELSE calls[c].timer + 1
  <2>1. calls'[c] = [calls[c] EXCEPT !.age = aged, !.timer = timer]
    BY DEF Tick
  <2>2. calls[c] \in CallTypes /\ calls[c].age \in Ages /\ calls[c].timer \in Timers \cup {Off}
    BY <1>3 DEF CallTypes
  <2>3. aged \in Ages
    BY <1>1, <2>2
  <2>4. ~(calls[c].timer # Off /\ calls[c].timer >= Limit(calls[c].phase) + Lag)
    BY DEF Tick, Due
  <2>5. Limit(calls[c].phase) \in {Timeout, CodexTimeout, KillGrace}
    BY DEF Limit
  <2>6. timer \in Timers \cup {Off} /\ (timer # Off => timer <= Limit(calls[c].phase) + Lag)
    <3>1. CASE calls[c].timer = Off
      BY <3>1
    <3>2. CASE calls[c].timer # Off
      BY <3>2, <2>2, <2>4, <2>5, Numbers DEF Timers
    <3> QED BY <3>1, <3>2
  <2> HIDE DEF aged, timer
  <2>7. [calls[c] EXCEPT !.age = aged, !.timer = timer] \in CallTypes
    BY <2>2, <2>3, <2>6 DEF CallTypes
  <2>8. /\ [calls[c] EXCEPT !.age = aged, !.timer = timer].phase = calls[c].phase
        /\ [calls[c] EXCEPT !.age = aged, !.timer = timer].op = calls[c].op
        /\ [calls[c] EXCEPT !.age = aged, !.timer = timer].timer = timer
    BY <2>2 DEF CallTypes
  <2> QED BY <2>1, <2>6, <2>7, <2>8
<1>8. calls' \in [Calls -> CallTypes]
  <2>1. DOMAIN calls' = Calls /\ calls' = [c \in Calls |-> calls'[c]]
    BY DEF Tick
  <2> QED BY <2>1, <1>7
<1>9. TypeOK'
  BY <1>4, <1>5, <1>8 DEF Inv, TypeOK, CallTypes
<1>10. TimersBounded'
  BY <1>7 DEF TimersBounded, Limit
<1>11. LookupsHosted'
  BY <1>4, <1>7 DEF Inv, LookupsHosted, Adapter
<1> QED BY <1>6, <1>7, <1>9, <1>10, <1>11 DEF Inv
-----------------------------------------------------------------------------
(* The results *)

Vouched(c) ==
  (Sends(c) /\ ~Unchecked(Adapter(calls'[c].op))) =>
    \/ vouched'[Target(calls'[c].op)] <= Ttl
    \/ calls[c].phase = "lookup" /\ vouched'[Target(calls'[c].op)] <= calls[c].age

\* What a step of one call does to it and to the others.
LEMMA CallStep ==
  ASSUME Inv, NEW c \in Calls, Hosts(c) \/ Codex(c)
  PROVE  Inv' /\ Vouched(c)
<1>1. ASSUME NEW op \in Ops, Adapter(op) \in Hosted, Request(c, op)
      PROVE  Inv' /\ Vouched(c)
  BY <1>1, RequestKeeps DEF Vouched, Sends
<1>2. CASE LookupSafe(c)
  BY <1>2, LookupKeeps DEF Vouched
<1>3. CASE Headers(c) \/ CodexGenerate(c) \/ CodexTimesOut(c)
  BY <1>3, MovesKeep DEF Vouched, Sends
<1>4. CASE Leave(c)
  BY <1>4, LeaveKeeps DEF Vouched, Sends
<1> QED BY <1>1, <1>2, <1>3, <1>4
    DEF Hosts, Codex, OpenAIGenerate, OpenAIEmbed, AnthropicGenerate, AnthropicEmbed, LocalGenerate,
        LocalEmbed, Ops, Hosted, LookupFails, RequestTimesOut, RequestFails, Body, CodexCloses,
        CodexKilled

\* Only the call that takes the step changes.
LEMMA OthersStay ==
  ASSUME Inv, NEW c \in Calls, Hosts(c) \/ Codex(c), NEW d \in Calls, d # c
  PROVE  calls'[d] = calls[d]
<1>1. \E r : calls' = [calls EXCEPT ![c] = r]
  BY DEF Hosts, Codex, OpenAIGenerate, OpenAIEmbed, AnthropicGenerate, AnthropicEmbed, LocalGenerate,
         LocalEmbed, LookupFails, RequestTimesOut, RequestFails, Body, CodexCloses, CodexKilled,
         Request, LookupSafe, Headers, Leave, CodexGenerate, CodexTimesOut
<1> QED BY <1>1 DEF Inv, TypeOK

LEMMA NextInv ==
  ASSUME Inv, [Next]_vars
  PROVE  Inv' /\ \A c \in Calls : Vouched(c)
<1>1. CASE UNCHANGED vars
  BY <1>1 DEF vars, Inv, TypeOK, EntriesVouched, TimersBounded, LookupsHosted, Limit, Adapter,
              Vouched, Sends
<1>2. CASE BuildLlmAdapter \/ BuildEmbeddingProvider \/ BuildFails \/ CreateLookup
  BY <1>2, StartupKeeps DEF Vouched, Sends
<1>3. CASE Tick
  BY <1>3, TickKeeps DEF Vouched, Sends
<1>4. ASSUME NEW c \in Calls, Hosts(c) \/ Codex(c)
      PROVE  Inv' /\ \A d \in Calls : Vouched(d)
  <2>1. Inv' /\ Vouched(c)
    BY <1>4, CallStep
  <2>2. ASSUME NEW d \in Calls, d # c PROVE Vouched(d)
    BY <1>4, <2>2, OthersStay DEF Vouched, Sends
  <2> QED BY <2>1, <2>2
<1> QED BY <1>1, <1>2, <1>3, <1>4 DEF Next

LEMMA InvHolds == Spec => []Inv
<1>1. Inv /\ [Next]_vars => Inv'
  BY NextInv
<1> QED BY InitInv, <1>1, PTL DEF Spec

\* Every variable keeps its type, ages their cap and timers their limits, for every
\* number of calls under way.
THEOREM LlmTypeCorrect == Spec => []TypeOK
<1>1. Inv => TypeOK
  BY DEF Inv
<1> QED BY <1>1, InvHolds, PTL

\* generate and embed post a request only to a host that a lookup found safe lately,
\* however lookups overlap.
THEOREM RequestsValidated == Spec => FreshlyValidated
<1>1. Inv /\ [Next]_vars => \A c \in Calls : Vouched(c)
  BY NextInv
<1>2. Inv /\ [Next]_vars =>
        [\A c \in Calls :
           (Sends(c) /\ ~Unchecked(Adapter(calls'[c].op))) =>
             \/ vouched'[Target(calls'[c].op)] <= Ttl
             \/ calls[c].phase = "lookup" /\ vouched'[Target(calls'[c].op)] <= calls[c].age]_vars
  BY <1>1 DEF Vouched
<1> QED BY <1>2, InvHolds, PTL DEF Spec, FreshlyValidated
=============================================================================
