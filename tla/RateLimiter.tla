---------------------------- MODULE RateLimiter ----------------------------
(***************************************************************************)
(* security/rate-limiter.ts: token buckets by key (server/server.ts makes  *)
(* the requester's address the key). A bucket is refilled lazily, when its *)
(* key asks again, and forgotten when it is older than a time to live or   *)
(* when there are too many.                                                *)
(*                                                                         *)
(* Time is counted in units of which one refills a whole number of tokens. *)
(***************************************************************************)
EXTENDS Integers, FiniteSets

CONSTANTS
  Keys,             \* who asks: addresses
  Watched,          \* the keys whose history is kept
  Costs,            \* the numbers of tokens asked for
  Capacity,         \* of a bucket
  Refill,           \* refillPerSecond, per unit of time
  MaxBuckets,       \* maxBuckets
  BucketTtl,        \* bucketTtlMs
  CleanupInterval,  \* cleanupIntervalMs
  MaxTime,          \* bound: the instants of a behaviour
  MaxCrowding       \* bound: how often a watched key's bucket makes room

ASSUME LimiterAssumption ==
  /\ Watched \subseteq Keys /\ Costs \subseteq Nat \ {0} /\ Capacity \in Nat \ {0} /\ Refill \in Nat
  /\ MaxBuckets \in Nat \ {0} /\ BucketTtl \in Nat
  /\ CleanupInterval \in Nat \ {0} /\ MaxTime \in Nat /\ MaxCrowding \in Nat

VARIABLES
  now,          \* Date.now(): the process starts long after the epoch, 0
  buckets,      \* a function on the keys that have one
  lastCleanup,  \* lastCleanupTime
  answer,       \* the answer to the call made in this instant, or none
  granted,      \* history: per key, what it was granted and when
  spent,        \* history: per key, the tokens it was granted
  born,         \* history: per key, what it had spent when its bucket was made
  crowdedOut    \* history: per key, how often its bucket made room for another's

vars == <<now, buckets, lastCleanup, answer, granted, spent, born, crowdedOut>>

NoAnswer == [key |-> "none"]
Instants == 0..(CleanupInterval + MaxTime)

Full == [tokens |-> Capacity, lastRefill |-> now, createdAt |-> now]

LimiterInit ==
  /\ now = CleanupInterval
  /\ buckets = [k \in {} |-> Full]
  /\ lastCleanup = 0
  /\ answer = NoAnswer
  /\ granted = [k \in Watched |-> {}]
  /\ spent = [k \in Watched |-> 0]
  /\ born = [k \in Watched |-> 0]
  /\ crowdedOut = [k \in Watched |-> 0]
-----------------------------------------------------------------------------
(* The steps of a call *)

Smaller(a, b) == IF a < b THEN a ELSE b

Only(bs, S) == [k \in S |-> bs[k]]

CleanupIsDue == now - lastCleanup >= CleanupInterval

\* Mutants of EvictOldBuckets: one keeps what it should drop, one goes by use.
EvictNewBuckets ==
  IF CleanupIsDue
  THEN Only(buckets, {k \in DOMAIN buckets : now - buckets[k].createdAt > BucketTtl})
  ELSE buckets

EvictUnusedBuckets ==
  IF CleanupIsDue
  THEN Only(buckets, {k \in DOMAIN buckets : ~(now - buckets[k].lastRefill > BucketTtl)})
  ELSE buckets

\* Too old are the buckets made more than the time to live ago, however used.
EvictOldBuckets ==
  IF CleanupIsDue
  THEN Only(buckets, {k \in DOMAIN buckets : ~(now - buckets[k].createdAt > BucketTtl)})
  ELSE buckets

\* By age rather than by use: any of the oldest, their order within an instant aside.
Oldest(bs) ==
  {k \in DOMAIN bs : \A o \in DOMAIN bs : bs[k].createdAt <= bs[o].createdAt}

MustMakeRoom(bs, key) == Cardinality(DOMAIN bs) >= MaxBuckets /\ key \notin DOMAIN bs

GetBucket(bs, key) == IF key \in DOMAIN bs THEN bs[key] ELSE Full

\* What is refilled from one instant to another.
Added(from, to) == (to - from) * Refill

\* Mutant of Refilled: forgets to note the time.
RefilledAgain(b) ==
  [b EXCEPT !.tokens = Smaller(Capacity, b.tokens + Added(b.lastRefill, now))]

\* Nothing is added within the instant of the last refill, nothing above capacity.
Refilled(b) ==
  [b EXCEPT !.tokens = Smaller(Capacity, b.tokens + Added(b.lastRefill, now)),
            !.lastRefill = now]

\* Mutant of Enough: never gives the last token.
MoreThanEnough(b, tokens) == tokens < b.tokens

Enough(b, tokens) == tokens <= b.tokens

\* The rest of a call, once there is room for its bucket.
Take(bs, key, tokens) ==
  LET b == Refilled(GetBucket(bs, key))
      yes == Enough(b, tokens)
      kept == IF yes THEN [b EXCEPT !.tokens = @ - tokens] ELSE b
  IN /\ buckets' = [k \in DOMAIN bs \cup {key} |-> IF k = key THEN kept ELSE bs[k]]
     /\ answer' = [key |-> key, tokens |-> tokens, granted |-> yes]
     /\ IF yes
        THEN /\ granted' = [k \in Watched |->
                              IF k = key THEN granted[k] \cup {[at |-> now, before |-> spent[k]]}
                                         ELSE granted[k]]
             /\ spent' = [k \in Watched |-> IF k = key THEN spent[k] + tokens ELSE spent[k]]
        ELSE UNCHANGED <<granted, spent>>
     /\ born' = [k \in Watched |-> IF k = key /\ k \notin DOMAIN bs THEN spent[k] ELSE born[k]]

Consume(key, tokens) ==
  /\ lastCleanup' = IF CleanupIsDue THEN now ELSE lastCleanup
  /\ \/ /\ ~MustMakeRoom(EvictOldBuckets, key)
        /\ Take(EvictOldBuckets, key, tokens)
        /\ UNCHANGED crowdedOut
     \/ /\ MustMakeRoom(EvictOldBuckets, key)
        /\ \E o \in Oldest(EvictOldBuckets) :
             /\ o \in Watched => crowdedOut[o] < MaxCrowding
             /\ Take(Only(EvictOldBuckets, DOMAIN EvictOldBuckets \ {o}), key, tokens)
             /\ crowdedOut' = [k \in Watched |-> IF k = o THEN crowdedOut[k] + 1 ELSE crowdedOut[k]]
  /\ UNCHANGED now

Tick ==
  /\ now < CleanupInterval + MaxTime
  /\ now' = now + 1
  /\ answer' = NoAnswer
  /\ UNCHANGED <<buckets, lastCleanup, granted, spent, born, crowdedOut>>

Next == Tick \/ \E k \in Keys, c \in Costs : Consume(k, c)

Spec == LimiterInit /\ [][Next]_vars
-----------------------------------------------------------------------------
(* Properties *)

TypeOK ==
  /\ now \in Instants
  /\ DOMAIN buckets \subseteq Keys
  /\ \A k \in DOMAIN buckets :
       buckets[k] \in [tokens : 0..Capacity, lastRefill : Instants, createdAt : Instants]
  /\ lastCleanup \in Instants
  /\ answer \in {NoAnswer} \cup [key : Keys, tokens : Costs, granted : BOOLEAN]
  /\ granted \in [Watched -> SUBSET [at : Instants, before : Nat]]
  /\ spent \in [Watched -> Nat] /\ born \in [Watched -> Nat]
  /\ crowdedOut \in [Watched -> 0..MaxCrowding]

\* The tokens k was granted from e on.
SpentSince(k, e) == spent[k] - e.before

\* The grants from the bucket that k has now.
GrantsOfBucket(k) == {e \in granted[k] : e.before >= born[k]}

\* What a bucket may give in the time since e: it is full at most when e is granted.
RateSince(e) == Capacity + Added(e.at, now)

\* Lazy refills lose no time twice: from any grant on, a bucket has given no more
\* than its capacity and what was refilled since.
RateKept ==
  \A k \in Watched \cap DOMAIN buckets : \A e \in GrantsOfBucket(k) : SpentSince(k, e) <= RateSince(e)

\* ... and they lose none: a call is refused only if, counted from some grant of the
\* bucket or on its own, it would go over that rate.
RefusedOverRate ==
  (answer # NoAnswer /\ answer.key \in Watched /\ ~answer.granted) =>
    LET k == answer.key
    IN \/ answer.tokens > Capacity
       \/ \E e \in GrantsOfBucket(k) : SpentSince(k, e) + answer.tokens > RateSince(e)

\* A bucket that is too old is replaced by a full one, however used it was; still, a
\* key that was never crowded out gets no more than two capacities and the refill in
\* any time no longer than the time to live.
TwoBucketsRate ==
  \A k \in Watched : \A e \in granted[k] :
    crowdedOut[k] = 0 /\ now - e.at <= BucketTtl => SpentSince(k, e) <= Capacity + RateSince(e)

\* The table never has more buckets than maxBuckets, whoever asks.
BucketsBounded == Cardinality(DOMAIN buckets) <= MaxBuckets

\* Although the clean-up runs only now and then: after a call no bucket is older than
\* the time to live and the interval of the clean-up.
StaleBucketsGo ==
  answer # NoAnswer =>
    \A k \in DOMAIN buckets : now - buckets[k].createdAt < BucketTtl + CleanupInterval
=============================================================================
