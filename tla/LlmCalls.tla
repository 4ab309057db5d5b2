------------------------------ MODULE LlmCalls ------------------------------
(***************************************************************************)
(* The calls of the language model and of the embeddings: the adapters of  *)
(* llm/adapters/, chosen and created by server/container.ts. The hosted    *)
(* ones look their host name up, remember for a while that it was safe,    *)
(* and post a request with a timeout. The codex adapter runs a child.      *)
(*                                                                         *)
(* Only ages matter: timestamps are counted back from the present, up to   *)
(* Expired, and timers from when they were set, so time needs no bound.    *)
(***************************************************************************)
EXTENDS Integers, Sequences

CONSTANTS
  Calls,          \* slots for calls under way at once
  Ttl,            \* DNS_CACHE_TTL_MS
  Timeout,        \* timeoutMs of a request
  CodexTimeout,   \* timeoutMs of the codex adapter
  KillGrace,      \* KILL_GRACE_MS
  Lag             \* how late a timer may fire

ASSUME LlmAssumption ==
  /\ Ttl \in Nat /\ Timeout \in Nat \ {0} /\ CodexTimeout \in Nat \ {0}
  /\ KillGrace \in Nat /\ Lag \in Nat

VARIABLES
  config,      \* the environment variables
  startup,     \* what of buildContainer is under way
  toCheck,     \* the lookups that its adapter's create() still makes
  validated,   \* dnsValidationCache of each adapter: age of the entry by URL
  vouched,     \* history: age of the latest request for a lookup that said safe
  calls

vars == <<config, startup, toCheck, validated, vouched, calls>>

Hosted    == {"openai", "anthropic", "local"}
Providers == Hosted \cup {"codex"}
Ops       == {"generate", "embed"}

\* URLs by what they are for.
Urls == {"openai", "anthropic", "anthropicEmbedding", "local", "localEmbedding"}

\* The providers, but for the mock; whether anthropic's model has embeddings beside it,
\* and whether embeddings go to a URL of their own.
Configs ==
  [llm : Providers, embedding : Providers \cup {"llm"}, resolveDns : BOOLEAN,
   allowlist : BOOLEAN, anthropicEmbeds : BOOLEAN, ownUrl : BOOLEAN]

Expired == Ttl + 1       \* also: no entry
Ages    == 0..Expired
Off     == -1
Timers  == 0..(Timeout + CodexTimeout + KillGrace + Lag)

Idle == [op |-> "none", phase |-> "idle", age |-> 0, timer |-> Off]

LlmInit ==
  /\ config \in Configs
  /\ startup = "none"
  /\ toCheck = <<>>
  /\ validated = [a \in Hosted |-> [u \in Urls |-> Expired]]
  /\ vouched = [u \in Urls |-> Expired]
  /\ calls = [c \in Calls |-> Idle]
-----------------------------------------------------------------------------
(* Start-up *)

EmbeddingUrl(provider) ==
  IF config.ownUrl THEN [anthropic |-> "anthropicEmbedding", local |-> "localEmbedding"][provider]
  ELSE provider

\* An adapter's create() looks up the URLs it was given, unless told not to.
OpenAICreate == IF config.resolveDns THEN <<"openai">> ELSE <<>>

AnthropicCreate(embeds) ==
  IF ~config.resolveDns THEN <<>>
  ELSE IF embeds THEN <<"anthropic", EmbeddingUrl("anthropic")>> ELSE <<"anthropic">>

LocalCreate(url) == IF config.resolveDns /\ ~config.allowlist THEN <<url>> ELSE <<>>

Create(provider, embeds, url) ==
  [openai |-> OpenAICreate, anthropic |-> AnthropicCreate(embeds),
   local |-> LocalCreate(url), codex |-> <<>>][provider]

BuildLlmAdapter ==
  /\ startup = "none"
  /\ startup' = "llm"
  /\ toCheck' = Create(config.llm, config.anthropicEmbeds, "local")
  /\ UNCHANGED <<config, validated, vouched, calls>>

\* The model's adapter embeds too, if it can, unless another is asked for.
BuildEmbeddingProvider ==
  /\ startup = "llm" /\ toCheck = <<>>
  /\ IF config.embedding = "llm"
     THEN /\ startup' = IF config.llm = "anthropic" /\ ~config.anthropicEmbeds
                        THEN "failed" ELSE "ready"
          /\ toCheck' = <<>>
     ELSE /\ startup' = "ready"
          /\ toCheck' = Create(config.embedding, TRUE, EmbeddingUrl("local"))
  /\ UNCHANGED <<config, validated, vouched, calls>>

\* A variable is missing, or a URL is not safe by its look.
BuildFails ==
  /\ startup \in {"none", "llm"} /\ toCheck = <<>>
  /\ startup' = "failed"
  /\ UNCHANGED <<config, toCheck, validated, vouched, calls>>

\* A lookup of create(): it finds the host safe, or it rejects or finds it is not.
CreateLookup ==
  /\ toCheck # <<>>
  /\ \/ toCheck' = Tail(toCheck) /\ UNCHANGED startup
     \/ toCheck' = <<>> /\ startup' = "failed"
  /\ UNCHANGED <<config, validated, vouched, calls>>
-----------------------------------------------------------------------------
(* Calls of the hosted adapters *)

Adapter(op) == IF op = "embed" /\ config.embedding # "llm" THEN config.embedding ELSE config.llm

\* Local models on an allowlist are not looked up.
Unchecked(adapter) == ~config.resolveDns \/ (adapter = "local" /\ config.allowlist)

\* What an adapter posts to: the URL of its embeddings may be another.
Target(op) ==
  IF op = "embed" /\ (Adapter(op) = "anthropic" \/ config.embedding = "local")
  THEN EmbeddingUrl(Adapter(op))
  ELSE Adapter(op)

\* Mutant of Checked: embed looks up the base URL.
BaseUrl(op) == Adapter(op)

\* The URL that is looked up before.
Checked(op) == Target(op)

\* Mutant of Sent: the timer is cleared when fetch has returned its promise.
SentUntimed(op) == [op |-> op, phase |-> "fetch", age |-> 0, timer |-> Off]

\* fetchWithTimeout sets the timer and fetches.
Sent(op) == [op |-> op, phase |-> "fetch", age |-> 0, timer |-> 0]

\* A call looks its host up unless that need not be or was done lately. Calls with an
\* empty input reject at once.
Request(c, op) ==
  /\ startup = "ready" /\ toCheck = <<>> /\ calls[c] = Idle
  /\ calls' = [calls EXCEPT ![c] =
       IF Unchecked(Adapter(op)) \/ validated[Adapter(op)][Checked(op)] <= Ttl
       THEN Sent(op)
       ELSE [op |-> op, phase |-> "lookup", age |-> 0, timer |-> Off]]
  /\ UNCHANGED <<config, startup, toCheck, validated, vouched>>

OpenAIGenerate(c)    == Adapter("generate") = "openai" /\ Request(c, "generate")
OpenAIEmbed(c)       == Adapter("embed") = "openai" /\ Request(c, "embed")
AnthropicGenerate(c) == Adapter("generate") = "anthropic" /\ Request(c, "generate")
AnthropicEmbed(c)    == Adapter("embed") = "anthropic" /\ Request(c, "embed")
LocalGenerate(c)     == Adapter("generate") = "local" /\ Request(c, "generate")
LocalEmbed(c)        == Adapter("embed") = "local" /\ Request(c, "embed")

Younger(a, b) == IF a < b THEN a ELSE b

\* The lookup says safe: the entry is set anew, dated when the call began, even if that
\* makes it older than it was.
LookupSafe(c) ==
  LET op == calls[c].op
      u == Checked(op)
  IN /\ calls[c].phase = "lookup"
     /\ validated' = [validated EXCEPT ![Adapter(op)][u] = calls[c].age]
     /\ vouched' = [vouched EXCEPT ![u] = Younger(@, calls[c].age)]
     /\ calls' = [calls EXCEPT ![c] = Sent(op)]
     /\ UNCHANGED <<config, startup, toCheck>>

Leave(c) ==
  /\ calls' = [calls EXCEPT ![c] = Idle]
  /\ UNCHANGED <<config, startup, toCheck, validated, vouched>>

\* The lookup rejects, or an address is not safe: the call rejects, nothing is cached.
LookupFails(c) == calls[c].phase = "lookup" /\ Leave(c)

Due(c, limit) == calls[c].timer # Off /\ calls[c].timer >= limit

\* The timer aborts the request.
RequestTimesOut(c) == calls[c].phase \in {"fetch", "body"} /\ Due(c, Timeout) /\ Leave(c)

\* fetch resolves when the headers are there, and the timer is cleared.
Headers(c) ==
  /\ calls[c].phase = "fetch"
  /\ calls' = [calls EXCEPT ![c] = [@ EXCEPT !.phase = "body", !.timer = Off]]
  /\ UNCHANGED <<config, startup, toCheck, validated, vouched>>

\* The request fails, or its answer is not ok.
RequestFails(c) == calls[c].phase = "fetch" /\ Leave(c)

\* The body is there, with or without what was asked for, or it breaks off.
Body(c) == calls[c].phase = "body" /\ Leave(c)
-----------------------------------------------------------------------------
(* Calls of the codex adapter, whose embed computes its answer *)

\* The prompt is written to a file, the child spawned, unless either fails.
CodexGenerate(c) ==
  /\ Adapter("generate") = "codex"
  /\ startup = "ready" /\ toCheck = <<>> /\ calls[c] = Idle
  /\ calls' = [calls EXCEPT ![c] = [op |-> "generate", phase |-> "child", age |-> 0, timer |-> 0]]
  /\ UNCHANGED <<config, startup, toCheck, validated, vouched>>

\* The abort has spawn send SIGTERM and emit the error that settles the call, and
\* killOnAbort send SIGTERM and set its timer.
CodexTimesOut(c) ==
  /\ calls[c].phase = "child" /\ Due(c, CodexTimeout)
  /\ calls' = [calls EXCEPT ![c] = [@ EXCEPT !.phase = "killing", !.timer = 0]]
  /\ UNCHANGED <<config, startup, toCheck, validated, vouched>>

\* The child closes: the call settles if it has not, the timers are cleared.
CodexCloses(c) == calls[c].phase \in {"child", "killing"} /\ Leave(c)

\* SIGKILL.
CodexKilled(c) == calls[c].phase = "killing" /\ Due(c, KillGrace) /\ Leave(c)
-----------------------------------------------------------------------------
Limit(phase) ==
  IF phase = "child" THEN CodexTimeout ELSE IF phase = "killing" THEN KillGrace ELSE Timeout

Aged(age) == Younger(age + 1, Expired)

\* Time passes, unless a timer is overdue.
Tick ==
  /\ \A c \in Calls : ~Due(c, Limit(calls[c].phase) + Lag)
  /\ validated' = [a \in Hosted |-> [u \in Urls |-> Aged(validated[a][u])]]
  /\ vouched' = [u \in Urls |-> Aged(vouched[u])]
  /\ calls' = [c \in Calls |->
       [calls[c] EXCEPT !.age = IF calls[c].phase = "lookup" THEN Aged(@) ELSE @,
                        !.timer = IF @ = Off THEN Off ELSE @ + 1]]
  /\ UNCHANGED <<config, startup, toCheck>>

Hosts(c) ==
  \/ OpenAIGenerate(c) \/ OpenAIEmbed(c) \/ AnthropicGenerate(c) \/ AnthropicEmbed(c)
  \/ LocalGenerate(c) \/ LocalEmbed(c)
  \/ LookupSafe(c) \/ LookupFails(c)
  \/ Headers(c) \/ RequestTimesOut(c) \/ RequestFails(c) \/ Body(c)

Codex(c) == CodexGenerate(c) \/ CodexTimesOut(c) \/ CodexCloses(c) \/ CodexKilled(c)

Next ==
  \/ BuildLlmAdapter \/ BuildEmbeddingProvider \/ BuildFails \/ CreateLookup
  \/ \E c \in Calls : Hosts(c) \/ Codex(c)
  \/ Tick

Spec == LlmInit /\ [][Next]_vars

\* Timers fire; a lookup gives up by itself, as does fetch on a body that comes no further.
FairSpec ==
  /\ Spec /\ WF_vars(Tick)
  /\ \A c \in Calls :
       /\ WF_vars(RequestTimesOut(c)) /\ WF_vars(CodexTimesOut(c)) /\ WF_vars(CodexKilled(c))
       /\ WF_vars(LookupSafe(c) \/ LookupFails(c)) /\ WF_vars(Body(c))
-----------------------------------------------------------------------------
(* Properties *)

TypeOK ==
  /\ config \in Configs
  /\ startup \in {"none", "llm", "ready", "failed"}
  /\ toCheck \in Seq(Urls)
  /\ validated \in [Hosted -> [Urls -> Ages]]
  /\ vouched \in [Urls -> Ages]
  /\ calls \in [Calls -> [op : Ops \cup {"none"},
                          phase : {"idle", "lookup", "fetch", "body", "child", "killing"},
                          age : Ages, timer : Timers \cup {Off}]]

Sends(c) == calls[c].phase # "fetch" /\ calls'[c].phase = "fetch"

\* docs/security.md:36, "outbound requests use DNS validation": whatever lookups overlap
\* and however long they take, a request is sent only if a lookup of the very host it
\* goes to, asked for within the TTL before the call began or by the call itself, said
\* that it is safe.
FreshlyValidated ==
  [][\A c \in Calls :
       (Sends(c) /\ ~Unchecked(Adapter(calls'[c].op))) =>
         \/ vouched'[Target(calls'[c].op)] <= Ttl
         \/ calls[c].phase = "lookup" /\ vouched'[Target(calls'[c].op)] <= calls[c].age]_vars

\* The timeouts hold: a call settles and its child is gone, also if the server never
\* answers or the child never exits by itself.
CallsSettle == \A c \in Calls : calls[c].phase # "idle" ~> calls[c].phase = "idle"
=============================================================================
