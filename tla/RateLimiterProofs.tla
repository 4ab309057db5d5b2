------------------------- MODULE RateLimiterProofs -------------------------
(***************************************************************************)
(* The rate that RateLimiter keeps, for every number of keys, capacity,    *)
(* refill, table size and time to live.                                    *)
(***************************************************************************)
EXTENDS RateLimiter, FiniteSetTheorems, TLAPS

Buckets == [tokens : 0..Capacity, lastRefill : Instants, createdAt : Instants]
Grants == [at : Instants, before : Nat]

\* A table of buckets that were made and refilled in the past.
Table(bs) ==
  /\ DOMAIN bs \subseteq Keys /\ IsFiniteSet(DOMAIN bs)
  /\ \A k \in DOMAIN bs : /\ bs[k] \in Buckets
                          /\ bs[k].createdAt <= bs[k].lastRefill /\ bs[k].lastRefill <= now

\* How a bucket b accounts for the grants g, s tokens in all, of which n were spent
\* before it: the tokens it has left and those it gave make up what it had and what
\* was refilled, from its creation and from each of its grants on, exactly so for one
\* of them unless it is full.
Accounts(b, g, s, n) ==
  /\ n <= s
  /\ (s - n) + b.tokens <= Capacity + Added(b.createdAt, b.lastRefill)
  /\ \A e \in g : e.before >= n =>
       /\ e.at <= b.lastRefill
       /\ (s - e.before) + b.tokens <= Capacity + Added(e.at, b.lastRefill)
  /\ \A e \in g : e.before < n => e.at <= b.createdAt
  /\ \/ b.tokens = Capacity
     \/ \E e \in g : /\ e.before >= n
                     /\ (s - e.before) + b.tokens = Capacity + Added(e.at, b.lastRefill)

Accounted(bs) ==
  \A k \in Watched \cap DOMAIN bs : Accounts(bs[k], granted[k], spent[k], born[k])

GrantsArePast == \A k \in Watched : \A e \in granted[k] : e.before < spent[k] /\ e.at <= now

\* What a key that was not crowded out was granted before its bucket, or while it has
\* none, in a time no longer than the time to live.
FormerBucket(bs, crowded) ==
  \A k \in Watched : \A e \in granted[k] : crowded[k] = 0 =>
    IF k \in DOMAIN bs
    THEN (e.before < born[k] /\ bs[k].createdAt - e.at <= BucketTtl) =>
           born[k] - e.before <= Capacity + Added(e.at, bs[k].createdAt)
    ELSE now - e.at <= BucketTtl => spent[k] - e.before <= Capacity + Added(e.at, now)

\* Whom the last clean-up left, and when it was.
CleanSince(bs, cleaned) == \A k \in DOMAIN bs : cleaned - bs[k].createdAt <= BucketTtl

AnswerInv ==
  answer # NoAnswer =>
    /\ now - lastCleanup < CleanupInterval
    /\ ~answer.granted => /\ answer.key \in DOMAIN buckets
                          /\ buckets[answer.key].lastRefill = now
                          /\ buckets[answer.key].tokens < answer.tokens

Inv ==
  /\ TypeOK /\ Table(buckets) /\ lastCleanup <= now
  /\ BucketsBounded
  /\ Accounted(buckets) /\ GrantsArePast /\ FormerBucket(buckets, crowdedOut)
  /\ CleanSince(buckets, lastCleanup) /\ AnswerInv
-----------------------------------------------------------------------------
(* Lemmas *)

LEMMA Constants ==
  /\ Watched \subseteq Keys /\ Costs \subseteq Nat \ {0}
  /\ Capacity \in Nat \ {0} /\ Refill \in Nat /\ MaxBuckets \in Nat \ {0}
  /\ BucketTtl \in Nat /\ CleanupInterval \in Nat \ {0} /\ MaxTime \in Nat
  /\ MaxCrowding \in Nat /\ Instants \subseteq Nat
BY LimiterAssumption DEF LimiterAssumption, Instants

\* The fields of buckets and grants are numbers.
LEMMA Fields ==
  /\ \A b \in Buckets : /\ b.tokens \in 0..Capacity /\ b.tokens \in Int
                         /\ b.lastRefill \in Nat /\ b.lastRefill \in Int
                         /\ b.createdAt \in Nat /\ b.createdAt \in Int
  /\ \A e \in Grants : e.at \in Nat /\ e.at \in Int /\ e.before \in Nat
  /\ \A t \in Instants : t \in Nat /\ t \in Int /\ t <= t
<1>1. \A b \in Buckets : /\ b.tokens \in 0..Capacity
                         /\ b.lastRefill \in Nat /\ b.createdAt \in Nat
  BY Constants DEF Buckets
<1>2. \A e \in Grants : e.at \in Nat /\ e.before \in Nat
  BY Constants DEF Grants
<1>3. \A t \in Instants : t \in Nat
  BY Constants
<1> QED BY <1>1, <1>2, <1>3, Constants

\* The refill of a time is that of its parts.
LEMMA AddedAdds ==
  ASSUME NEW x \in Int, NEW y \in Int, NEW z \in Int, x <= y, y <= z
  PROVE  /\ Added(x, z) = Added(x, y) + Added(y, z)
         /\ Added(x, y) \in Nat /\ Added(y, z) \in Nat /\ Added(x, z) \in Nat
BY Constants DEF Added

LEMMA AddedType ==
  ASSUME NEW x \in Int, NEW y \in Int
  PROVE  Added(x, y) \in Int /\ Added(x, x) = 0
BY Constants DEF Added

\* A table that lost buckets is a table.
LEMMA Fewer ==
  ASSUME NEW bs, Table(bs), NEW S \in SUBSET DOMAIN bs
  PROVE  /\ Table(Only(bs, S)) /\ DOMAIN Only(bs, S) = S
         /\ \A k \in S : Only(bs, S)[k] = bs[k]
         /\ Cardinality(S) <= Cardinality(DOMAIN bs)
<1>1. IsFiniteSet(S) /\ Cardinality(S) <= Cardinality(DOMAIN bs)
  BY FS_Subset DEF Table
<1> QED BY <1>1 DEF Table, Only

LEMMA InitInv == LimiterInit => Inv
<1> SUFFICES ASSUME LimiterInit PROVE Inv
  OBVIOUS
<1>1. DOMAIN buckets = {} /\ IsFiniteSet({}) /\ Cardinality({}) = 0
  BY FS_EmptySet DEF LimiterInit
<1>2. TypeOK /\ lastCleanup <= now
  BY <1>1, Constants DEF LimiterInit, TypeOK, Instants, NoAnswer
<1>3. Table(buckets) /\ Accounted(buckets) /\ CleanSince(buckets, lastCleanup)
  BY <1>1 DEF Table, Accounted, CleanSince
<1>4. GrantsArePast /\ FormerBucket(buckets, crowdedOut)
  BY DEF LimiterInit, GrantsArePast, FormerBucket
<1>5. BucketsBounded
  BY <1>1, Constants DEF BucketsBounded
<1>6. AnswerInv
  BY DEF LimiterInit, AnswerInv
<1> QED BY <1>2, <1>3, <1>4, <1>5, <1>6 DEF Inv

\* A refill adds what the time since the last one gives, up to the capacity.
LEMMA RefillType ==
  ASSUME NEW b \in Buckets, b.createdAt <= b.lastRefill, b.lastRefill <= now, now \in Instants
  PROVE  LET c == Refilled(b)
             added == Added(b.lastRefill, now)
         IN /\ c \in Buckets /\ c.lastRefill = now /\ c.createdAt = b.createdAt
            /\ c.tokens <= b.tokens + added
            /\ c.tokens = Capacity \/ c.tokens = b.tokens + added
<1> DEFINE added == Added(b.lastRefill, now)
           c == Refilled(b)
<1>1. /\ b.tokens \in 0..Capacity /\ b.lastRefill \in Nat /\ b.createdAt \in Nat /\ now \in Nat
      /\ b.createdAt \in Int /\ b.lastRefill \in Int /\ now \in Int /\ now <= now
  BY Fields
<1>2. added \in Nat /\ added = Added(b.lastRefill, now)
  BY <1>1, AddedAdds, Zenon
<1>3. c = [tokens |-> Smaller(Capacity, b.tokens + added), lastRefill |-> now,
           createdAt |-> b.createdAt]
  <2>1. DOMAIN b = {"tokens", "lastRefill", "createdAt"}
    BY DEF Buckets
  <2>2. DOMAIN c = DOMAIN b
    BY DEF Refilled
  <2>3. /\ c["tokens"] = Smaller(Capacity, b.tokens + added) /\ c["lastRefill"] = now
        /\ c["createdAt"] = b["createdAt"]
    BY <2>1 DEF Refilled
  <2>4. c = [f \in DOMAIN c |-> c[f]]
    BY DEF Refilled
  <2> QED BY <2>1, <2>2, <2>3, <2>4
<1> HIDE DEF added, c
<1>4. /\ Smaller(Capacity, b.tokens + added) \in 0..Capacity
      /\ Smaller(Capacity, b.tokens + added) <= b.tokens + added
      /\ Smaller(Capacity, b.tokens + added) \in {Capacity, b.tokens + added}
  BY <1>1, <1>2, Constants DEF Smaller
<1>5. c \in Buckets /\ c.lastRefill = now /\ c.createdAt = b.createdAt
  BY <1>1, <1>3, <1>4 DEF Buckets
<1> QED BY <1>2, <1>3, <1>4, <1>5 DEF c

\* A refill keeps the accounts.
LEMMA RefillKeeps ==
  ASSUME NEW b \in Buckets, b.createdAt <= b.lastRefill, b.lastRefill <= now, now \in Instants,
         NEW g \in SUBSET Grants, NEW s \in Nat, NEW n \in Nat, Accounts(b, g, s, n)
  PROVE  Accounts(Refilled(b), g, s, n)
<1> DEFINE added == Added(b.lastRefill, now)
           c == Refilled(b)
<1>1. /\ b.tokens \in 0..Capacity /\ b.lastRefill \in Nat /\ b.createdAt \in Nat /\ now \in Nat
      /\ b.createdAt \in Int /\ b.lastRefill \in Int /\ now \in Int /\ now <= now
  BY Fields
<1>2. added \in Nat /\ added = Added(b.lastRefill, now)
  BY <1>1, AddedAdds, Zenon
<1>5. c \in Buckets /\ c.lastRefill = now /\ c.createdAt = b.createdAt
  BY RefillType
<1>6. /\ c.tokens \in 0..Capacity /\ c.tokens <= b.tokens + added
      /\ c.tokens = Capacity \/ c.tokens = b.tokens + added
  BY RefillType DEF Buckets
<1> HIDE DEF added, c
<1>7. (s - n) + c.tokens <= Capacity + Added(c.createdAt, c.lastRefill)
  <2>1. Added(b.createdAt, now) = Added(b.createdAt, b.lastRefill) + Added(b.lastRefill, now)
    BY <1>1, AddedAdds, Zenon
  <2>2. (s - n) + b.tokens <= Capacity + Added(b.createdAt, b.lastRefill)
    BY DEF Accounts
  <2>3. Added(b.createdAt, b.lastRefill) \in Int
    BY <1>1, AddedType, Zenon
  <2> QED BY <1>1, <1>2, <1>5, <1>6, <2>1, <2>2, <2>3, Constants
<1>8. ASSUME NEW e \in g, e.before >= n
      PROVE  /\ e.at <= c.lastRefill
             /\ (s - e.before) + c.tokens <= Capacity + Added(e.at, c.lastRefill)
             /\ (c.tokens = b.tokens + added
                 /\ (s - e.before) + b.tokens = Capacity + Added(e.at, b.lastRefill)) =>
                  (s - e.before) + c.tokens = Capacity + Added(e.at, c.lastRefill)
  <2>1. e.at \in Nat /\ e.before \in Nat /\ e.at \in Int
    BY Fields
  <2>2. /\ e.at <= b.lastRefill
        /\ (s - e.before) + b.tokens <= Capacity + Added(e.at, b.lastRefill)
    BY <1>8 DEF Accounts
  <2>3. Added(e.at, now) = Added(e.at, b.lastRefill) + Added(b.lastRefill, now)
    BY <1>1, <2>1, <2>2, AddedAdds, Zenon
  <2>4. Added(e.at, b.lastRefill) \in Int
    BY <1>1, <2>1, AddedType, Zenon
  <2>5. Added(e.at, c.lastRefill) = added + Added(e.at, b.lastRefill)
    BY <1>2, <1>5, <2>3, <2>4
  <2>6. (s - e.before) \in Int /\ Capacity \in Int /\ c.tokens \in Int /\ b.tokens \in Int
    BY <1>1, <1>6, <2>1, Constants
  <2>7. e.at <= c.lastRefill
    BY <1>1, <1>5, <2>1, <2>2
  <2> QED BY <1>2, <1>6, <2>2, <2>4, <2>5, <2>6, <2>7
<1>9. \A e \in g : e.before < n => e.at <= c.createdAt
  BY <1>5 DEF Accounts
<1>10. CASE c.tokens = Capacity
  BY <1>7, <1>8, <1>9, <1>10, <1>5 DEF Accounts, c
<1>11. CASE c.tokens # Capacity
  <2>1. c.tokens = b.tokens + added /\ b.tokens # Capacity
    BY <1>1, <1>2, <1>6, <1>11, Constants
  <2>2. PICK e \in g : /\ e.before >= n
                       /\ (s - e.before) + b.tokens = Capacity + Added(e.at, b.lastRefill)
    BY <2>1 DEF Accounts
  <2>3. (s - e.before) + c.tokens = Capacity + Added(e.at, c.lastRefill)
    BY <1>8, <2>1, <2>2
  <2> QED BY <1>7, <1>8, <1>9, <1>5, <2>2, <2>3 DEF Accounts, c
<1> QED BY <1>10, <1>11, <1>5 DEF c

\* A grant takes its tokens.
LEMMA GrantType ==
  ASSUME NEW b \in Buckets, NEW tokens \in Costs, Enough(b, tokens)
  PROVE  LET c == [b EXCEPT !.tokens = @ - tokens]
         IN /\ c \in Buckets /\ c.lastRefill = b.lastRefill /\ c.createdAt = b.createdAt
            /\ c.tokens = b.tokens - tokens
<1>1. /\ b.tokens \in 0..Capacity /\ tokens \in Nat /\ tokens <= b.tokens
  BY Constants DEF Buckets, Enough
<1>2. b.tokens - tokens \in 0..Capacity
  BY <1>1, Constants
<1> QED BY <1>1, <1>2 DEF Buckets

\* A grant keeps the accounts.
LEMMA GrantKeeps ==
  ASSUME NEW b \in Buckets, b.lastRefill = now, now \in Instants, NEW tokens \in Costs,
         Enough(b, tokens),
         NEW g \in SUBSET Grants, NEW s \in Nat, NEW n \in Nat, Accounts(b, g, s, n)
  PROVE  Accounts([b EXCEPT !.tokens = @ - tokens],
                  g \cup {[at |-> now, before |-> s]}, s + tokens, n)
<1> DEFINE c == [b EXCEPT !.tokens = @ - tokens]
           new == [at |-> now, before |-> s]
<1>1. /\ b.tokens \in 0..Capacity /\ b.lastRefill \in Nat /\ b.createdAt \in Nat
      /\ now \in Nat /\ tokens \in Nat /\ tokens <= b.tokens
  BY Constants DEF Buckets, Enough
<1>4. c \in Buckets /\ c.lastRefill = now /\ c.createdAt = b.createdAt
      /\ c.tokens = b.tokens - tokens
  BY GrantType
<1>5. new.at = now /\ new.before = s
  OBVIOUS
<1> HIDE DEF c, new
<1>6. n <= s + tokens
      /\ ((s + tokens) - n) + c.tokens <= Capacity + Added(c.createdAt, c.lastRefill)
  <2>1. n <= s /\ (s - n) + b.tokens <= Capacity + Added(b.createdAt, b.lastRefill)
    BY DEF Accounts
  <2>2. ((s + tokens) - n) + c.tokens = (s - n) + b.tokens
    BY <1>1, <1>4
  <2> QED BY <1>1, <1>4, <2>1, <2>2
<1>7. ASSUME NEW e \in g, e.before >= n
      PROVE  /\ e.at <= c.lastRefill
             /\ ((s + tokens) - e.before) + c.tokens <= Capacity + Added(e.at, c.lastRefill)
             /\ (s - e.before) + b.tokens = Capacity + Added(e.at, b.lastRefill) =>
                  ((s + tokens) - e.before) + c.tokens = Capacity + Added(e.at, c.lastRefill)
  <2>1. e.at \in Nat /\ e.before \in Nat
    BY Constants DEF Grants
  <2>2. /\ e.at <= b.lastRefill
        /\ (s - e.before) + b.tokens <= Capacity + Added(e.at, b.lastRefill)
    BY <1>7 DEF Accounts
  <2>3. ((s + tokens) - e.before) + c.tokens = (s - e.before) + b.tokens
    BY <1>1, <1>4, <2>1
  <2> QED BY <1>4, <2>2, <2>3
<1>8. ((s + tokens) - new.before) + c.tokens = b.tokens
  BY <1>1, <1>4, <1>5
<1>9. Added(new.at, c.lastRefill) = 0 /\ n <= new.before /\ new.at <= c.lastRefill
  BY <1>1, <1>4, <1>5, AddedType DEF Accounts
<1>10. \A e \in g \cup {new} : e.before >= n =>
         /\ e.at <= c.lastRefill
         /\ ((s + tokens) - e.before) + c.tokens <= Capacity + Added(e.at, c.lastRefill)
  <2> TAKE e \in g \cup {new}
  <2>1. CASE e \in g
    BY <2>1, <1>7
  <2>2. CASE e = new
    <3>1. b.tokens <= Capacity + 0
      BY <1>1, Constants
    <3> QED BY <2>2, <3>1, <1>8, <1>9
  <2> QED BY <2>1, <2>2
<1>11. \A e \in g \cup {new} : e.before < n => e.at <= c.createdAt
  <2>1. ~(new.before < n)
    BY <1>9, <1>5
  <2> QED BY <1>4, <2>1 DEF Accounts
<1>12. \E e \in g \cup {new} :
         /\ e.before >= n
         /\ ((s + tokens) - e.before) + c.tokens = Capacity + Added(e.at, c.lastRefill)
  <2>1. CASE b.tokens = Capacity
    <3>1. Capacity = Capacity + 0
      BY Constants
    <3>2. new.before >= n
      BY <1>9, <1>5
    <3> QED BY <2>1, <3>1, <3>2, <1>8, <1>9
  <2>2. CASE \E e \in g : /\ e.before >= n
                          /\ (s - e.before) + b.tokens = Capacity + Added(e.at, b.lastRefill)
    BY <2>2, <1>7
  <2> QED BY <2>1, <2>2 DEF Accounts
<1>13. Accounts(c, g \cup {new}, s + tokens, n)
  BY <1>6, <1>10, <1>11, <1>12 DEF Accounts
<1> QED BY <1>13 DEF c, new

LEMMA FullType ==
  ASSUME now \in Instants
  PROVE  /\ Full \in Buckets /\ Full.lastRefill = now /\ Full.createdAt = now
         /\ Full.tokens = Capacity
BY Constants DEF Full, Buckets

\* A bucket made now has nothing to account for yet.
LEMMA NewAccounts ==
  ASSUME now \in Instants, NEW g \in SUBSET Grants, NEW s \in Nat,
         \A e \in g : e.before < s /\ e.at <= now
  PROVE  /\ Full \in Buckets /\ Full.lastRefill = now /\ Full.createdAt = now
         /\ Accounts(Full, g, s, s)
<1>1. Full \in Buckets /\ Full.lastRefill = now /\ Full.createdAt = now /\ Full.tokens = Capacity
  BY FullType
<1>2. \A e \in g : ~(e.before >= s)
  BY DEF Grants
<1>3. (s - s) + Full.tokens <= Capacity + Added(Full.createdAt, Full.lastRefill)
  BY <1>1, Constants, AddedType
<1> QED BY <1>1, <1>2, <1>3 DEF Accounts

-----------------------------------------------------------------------------
(* A call, step by step *)

\* What holds of the table within a call.
TableInv(bs, crowded, cleaned) ==
  /\ Table(bs) /\ Cardinality(DOMAIN bs) <= MaxBuckets
  /\ Accounted(bs) /\ FormerBucket(bs, crowded) /\ CleanSince(bs, cleaned)

Cleaned == IF CleanupIsDue THEN now ELSE lastCleanup

\* The clean-up takes only buckets so old that all their keys were granted lately comes
\* from them.
LEMMA EvictKeeps ==
  ASSUME Inv
  PROVE  TableInv(EvictOldBuckets, crowdedOut, Cleaned)
<1>1. CASE ~CleanupIsDue
  BY <1>1 DEF EvictOldBuckets, Cleaned, TableInv, Inv, BucketsBounded
<1>2. CASE CleanupIsDue
  <2> DEFINE S == {k \in DOMAIN buckets : ~(now - buckets[k].createdAt > BucketTtl)}
             bs == Only(buckets, S)
  <2>1. /\ EvictOldBuckets = bs /\ Cleaned = now
        /\ S \in SUBSET DOMAIN buckets /\ Table(buckets)
    BY <1>2 DEF EvictOldBuckets, Cleaned, Inv
  <2>2. /\ Table(bs) /\ DOMAIN bs = S /\ \A k \in S : bs[k] = buckets[k]
        /\ Cardinality(S) <= Cardinality(DOMAIN buckets)
    BY <2>1, Fewer
  <2>3. now \in Nat /\ now \in Int /\ now <= now /\ \A k \in DOMAIN buckets : buckets[k].createdAt \in Nat
    BY Fields DEF Inv, TypeOK, Table
  <2> HIDE DEF bs
  <2>4. Cardinality(DOMAIN bs) <= MaxBuckets
    <3>1. Cardinality(DOMAIN buckets) <= MaxBuckets /\ Cardinality(DOMAIN buckets) \in Nat
          /\ Cardinality(S) \in Nat
      BY <2>1, FS_CardinalityType, FS_Subset DEF Inv, BucketsBounded, Table
    <3> QED BY <2>2, <3>1, Constants
  <2>5. Accounted(bs)
    BY <2>2 DEF Accounted, Inv
  <2>6. CleanSince(bs, now)
    BY <2>2, <2>3, Constants DEF CleanSince
  <2>7. ASSUME NEW k \in Watched, NEW e \in granted[k], crowdedOut[k] = 0
        PROVE  IF k \in DOMAIN bs
               THEN (e.before < born[k] /\ bs[k].createdAt - e.at <= BucketTtl) =>
                      born[k] - e.before <= Capacity + Added(e.at, bs[k].createdAt)
               ELSE now - e.at <= BucketTtl =>
                      spent[k] - e.before <= Capacity + Added(e.at, now)
    <3>1. CASE k \in S
      BY <3>1, <2>2, <2>7 DEF Inv, FormerBucket
    <3>2. CASE k \notin DOMAIN buckets
      BY <3>2, <2>2, <2>7 DEF Inv, FormerBucket
    <3>3. CASE k \in DOMAIN buckets /\ k \notin S
      <4> DEFINE b == buckets[k]
      <4> SUFFICES ASSUME now - e.at <= BucketTtl
                   PROVE  spent[k] - e.before <= Capacity + Added(e.at, now)
        BY <3>3, <2>2
      <4>1. /\ e.at \in Nat /\ e.at \in Int /\ b.lastRefill \in Int /\ e.before \in Nat /\ spent[k] \in Nat /\ born[k] \in Nat
            /\ b.lastRefill \in Nat /\ b.createdAt \in Nat /\ b.tokens \in Nat
            /\ b.lastRefill <= now
        <5>1. e \in Grants /\ spent[k] \in Nat /\ born[k] \in Nat
          BY DEF Inv, TypeOK, Grants
        <5>2. b \in Buckets /\ b.lastRefill <= now
          BY <3>3 DEF Inv, Table
        <5> QED BY <5>1, <5>2, Fields
      <4>2. now - b.createdAt > BucketTtl
        BY <3>3
      <4>3. Accounts(b, granted[k], spent[k], born[k])
        BY <3>3 DEF Inv, Accounted
      <4> HIDE DEF b
      <4>4. ~(e.before < born[k])
        BY <4>1, <4>2, <4>3, <2>3, Constants DEF Accounts
      <4>5. /\ e.at <= b.lastRefill
            /\ (spent[k] - e.before) + b.tokens <= Capacity + Added(e.at, b.lastRefill)
        BY <4>1, <4>3, <4>4 DEF Accounts
      <4>6. /\ Added(e.at, now) = Added(e.at, b.lastRefill) + Added(b.lastRefill, now)
            /\ Added(b.lastRefill, now) \in Nat /\ Added(e.at, b.lastRefill) \in Nat
        BY <4>1, <4>5, <2>3, AddedAdds, Zenon
      <4> QED BY <4>1, <4>5, <4>6, Constants
    <3> QED BY <3>1, <3>2, <3>3
  <2> QED BY <2>1, <2>2, <2>4, <2>5, <2>6, <2>7 DEF TableInv, FormerBucket
<1> QED BY <1>1, <1>2

\* A bucket that makes room takes nothing with it that is still counted.
LEMMA CrowdKeeps ==
  ASSUME Inv, NEW bs, NEW cleaned, TableInv(bs, crowdedOut, cleaned), NEW o \in DOMAIN bs,
         NEW crowded,
         crowded = [k \in Watched |-> IF k = o THEN crowdedOut[k] + 1 ELSE crowdedOut[k]]
  PROVE  LET fewer == Only(bs, DOMAIN bs \ {o})
         IN TableInv(fewer, crowded, cleaned) /\ Cardinality(DOMAIN fewer) < MaxBuckets
<1> DEFINE S == DOMAIN bs \ {o}
           fewer == Only(bs, S)
<1>1. Table(bs) /\ S \in SUBSET DOMAIN bs
  BY DEF TableInv
<1>2. /\ Table(fewer) /\ DOMAIN fewer = S /\ \A k \in S : fewer[k] = bs[k]
  BY <1>1, Fewer
<1> HIDE DEF fewer
<1>3. Cardinality(DOMAIN fewer) < MaxBuckets
  <2>1. /\ Cardinality(S) = Cardinality(DOMAIN bs) - 1
        /\ Cardinality(DOMAIN bs) \in Nat
    BY <1>1, FS_RemoveElement, FS_CardinalityType DEF Table
  <2> QED BY <1>2, <2>1, Constants DEF TableInv
<1>4. Accounted(fewer) /\ CleanSince(fewer, cleaned)
  BY <1>2 DEF TableInv, Accounted, CleanSince
<1>5. \A k \in Watched : crowded[k] = 0 => k # o /\ crowdedOut[k] = 0
  BY DEF Inv, TypeOK
<1>6. FormerBucket(fewer, crowded)
  BY <1>2, <1>5 DEF TableInv, FormerBucket
<1> QED
  <2>1. Cardinality(DOMAIN fewer) <= MaxBuckets
    BY <1>2, <1>3, FS_CardinalityType, Constants DEF Table
  <2> QED BY <1>2, <1>3, <1>4, <1>6, <2>1 DEF TableInv, fewer

\* The rest of a call keeps the invariant, once there is room for the bucket.
LEMMA TakeKeeps ==
  ASSUME TypeOK, GrantsArePast, NEW bs,
         NEW crowded \in [Watched -> 0..MaxCrowding], NEW cleaned \in Instants,
         TableInv(bs, crowded, cleaned), cleaned <= now, now - cleaned < CleanupInterval,
         NEW key \in Keys, NEW tokens \in Costs,
         key \in DOMAIN bs \/ Cardinality(DOMAIN bs) < MaxBuckets,
         Take(bs, key, tokens), now' = now, crowdedOut' = crowded, lastCleanup' = cleaned
  PROVE  Inv'
<1> DEFINE b0 == GetBucket(bs, key)
           b == Refilled(b0)
           less == [b EXCEPT !.tokens = @ - tokens]
           kept == IF Enough(b, tokens) THEN less ELSE b
           new == [at |-> now, before |-> spent[key]]
<1>1. now \in Instants /\ Table(bs)
  BY DEF TypeOK, TableInv
<1>2. /\ b0 \in Buckets /\ b0.createdAt <= b0.lastRefill /\ b0.lastRefill <= now
      /\ key \notin DOMAIN bs => b0 = Full /\ b0.createdAt = now
  <2>1. CASE key \in DOMAIN bs
    BY <1>1, <2>1 DEF Table, GetBucket
  <2>2. CASE key \notin DOMAIN bs
    <3>1. Full \in Buckets /\ Full.lastRefill = now /\ Full.createdAt = now
      BY <1>1, FullType
    <3> QED BY <1>1, <2>2, <3>1, Fields DEF GetBucket
  <2> QED BY <2>1, <2>2
<1>3. b \in Buckets /\ b.lastRefill = now /\ b.createdAt = b0.createdAt
  BY <1>1, <1>2, RefillType
<1>4. /\ kept \in Buckets /\ kept.lastRefill = now /\ kept.createdAt = b0.createdAt
  BY <1>3, GrantType
<1>5. /\ buckets' = [k \in DOMAIN bs \cup {key} |-> IF k = key THEN kept ELSE bs[k]]
      /\ answer' = [key |-> key, tokens |-> tokens, granted |-> Enough(b, tokens)]
      /\ born' = [k \in Watched |-> IF k = key /\ k \notin DOMAIN bs THEN spent[k] ELSE born[k]]
      /\ Enough(b, tokens) =>
           /\ granted' = [k \in Watched |->
                            IF k = key THEN granted[k] \cup {[at |-> now, before |-> spent[k]]}
                                       ELSE granted[k]]
           /\ spent' = [k \in Watched |-> IF k = key THEN spent[k] + tokens ELSE spent[k]]
      /\ ~Enough(b, tokens) => granted' = granted /\ spent' = spent
  BY DEF Take
<1>6. Enough(b, tokens) \in BOOLEAN /\ (Enough(b, tokens) => kept = less)
      /\ (~Enough(b, tokens) => kept = b)
  BY DEF Enough
<1> HIDE DEF b0, b, less, kept
<1>7. /\ DOMAIN buckets' = DOMAIN bs \cup {key} /\ buckets'[key] = kept
      /\ \A k \in DOMAIN bs : k # key => buckets'[k] = bs[k]
  BY <1>5
<1>8. /\ \A k \in Watched : k # key =>
           granted'[k] = granted[k] /\ spent'[k] = spent[k] /\ born'[k] = born[k]
      /\ key \in Watched =>
           /\ born'[key] = IF key \in DOMAIN bs THEN born[key] ELSE spent[key]
           /\ Enough(b, tokens) => /\ granted'[key] = granted[key] \cup {new}
                                   /\ spent'[key] = spent[key] + tokens
           /\ ~Enough(b, tokens) => granted'[key] = granted[key] /\ spent'[key] = spent[key]
  BY <1>5
<1>9. \A k \in Watched : /\ granted[k] \in SUBSET Grants /\ spent[k] \in Nat /\ born[k] \in Nat
  BY DEF TypeOK, Grants
<1>10. tokens \in Nat /\ tokens > 0
  BY Constants
<1>11. Table(buckets)'
  <2>1. DOMAIN buckets' \subseteq Keys /\ IsFiniteSet(DOMAIN buckets')
    BY <1>1, <1>7, FS_AddElement DEF Table
  <2>2. ASSUME NEW k \in DOMAIN buckets'
        PROVE  /\ buckets'[k] \in Buckets
               /\ buckets'[k].createdAt <= buckets'[k].lastRefill /\ buckets'[k].lastRefill <= now
    <3>1. CASE k = key
      <4>1. kept.createdAt <= kept.lastRefill /\ kept.lastRefill <= now
        BY <1>1, <1>2, <1>4, Fields
      <4> QED BY <3>1, <4>1, <1>4, <1>7
    <3>2. CASE k # key
      BY <3>2, <1>1, <1>7 DEF Table
    <3> QED BY <3>1, <3>2
  <2> QED BY <2>1, <2>2 DEF Table, Buckets, Instants
<1>12. BucketsBounded'
  <2>1. /\ IsFiniteSet(DOMAIN bs) /\ Cardinality(DOMAIN bs) \in Nat
        /\ Cardinality(DOMAIN bs) <= MaxBuckets
    BY <1>1, FS_CardinalityType DEF Table, TableInv
  <2>2. key \in DOMAIN bs => DOMAIN buckets' = DOMAIN bs
    BY <1>7
  <2>3. key \notin DOMAIN bs => Cardinality(DOMAIN buckets') = Cardinality(DOMAIN bs) + 1
    BY <1>7, <2>1, FS_AddElement
  <2> QED BY <2>1, <2>2, <2>3, Constants DEF BucketsBounded
<1>13. TypeOK'
  <2>1. answer' \in [key : Keys, tokens : Costs, granted : BOOLEAN]
    BY <1>5, <1>6
  <2>2. \A k \in DOMAIN buckets' : buckets'[k] \in Buckets
    BY <1>11 DEF Table, Buckets, Instants
  <2>3. /\ granted' \in [Watched -> SUBSET Grants]
        /\ spent' \in [Watched -> Nat]
    <3>1. \A k \in Watched : [at |-> now, before |-> spent[k]] \in Grants
      BY <1>1, <1>9 DEF Grants
    <3>2. granted \in [Watched -> SUBSET Grants] /\ spent \in [Watched -> Nat]
      BY DEF TypeOK, Grants
    <3>3. CASE Enough(b, tokens)
      BY <3>3, <3>1, <1>5, <1>9, <1>10
    <3>4. CASE ~Enough(b, tokens)
      BY <3>4, <3>2, <1>5
    <3> QED BY <3>3, <3>4
  <2>4. born' \in [Watched -> Nat]
    BY <1>5, <1>9
  <2>5. DOMAIN buckets' \subseteq Keys /\ now' \in Instants /\ lastCleanup' \in Instants
        /\ crowdedOut' \in [Watched -> 0..MaxCrowding]
    BY <1>1, <1>11 DEF Table
  <2> QED BY <2>1, <2>2, <2>3, <2>4, <2>5 DEF TypeOK, Grants, Buckets, Instants, NoAnswer
<1>14. Accounted(buckets)'
  <2> SUFFICES ASSUME NEW k \in Watched, k \in DOMAIN buckets'
               PROVE  Accounts(buckets'[k], granted'[k], spent'[k], born'[k])
    BY DEF Accounted, Accounts, Added
  <2>1. CASE k # key
    <3>1. Accounts(bs[k], granted[k], spent[k], born[k])
      BY <1>7, <2>1 DEF TableInv, Accounted
    <3> QED BY <2>1, <3>1, <1>7, <1>8
  <2>2. CASE k = key
    <3>1. Accounts(b0, granted[key], spent[key], born'[key]) /\ born'[key] \in Nat
      <4>1. CASE key \in DOMAIN bs
        <5>1. Accounts(bs[key], granted[key], spent[key], born[key]) /\ b0 = bs[key]
          BY <2>2, <4>1 DEF TableInv, Accounted, b0, GetBucket
        <5> QED BY <5>1, <2>2, <4>1, <1>8, <1>9
      <4>2. CASE key \notin DOMAIN bs
        <5>1. \A e \in granted[key] : e.before < spent[key] /\ e.at <= now
          BY <2>2 DEF GrantsArePast
        <5>2. Accounts(Full, granted[key], spent[key], spent[key])
          BY <5>1, <2>2, <1>1, <1>9, NewAccounts
        <5> QED BY <5>2, <2>2, <4>2, <1>2, <1>8, <1>9
      <4> QED BY <4>1, <4>2
    <3>2. Accounts(b, granted[key], spent[key], born'[key])
      BY <3>1, <2>2, <1>1, <1>2, <1>9, RefillKeeps DEF b
    <3>3. CASE ~Enough(b, tokens)
      BY <3>2, <3>3, <2>2, <1>6, <1>7, <1>8
    <3>4. CASE Enough(b, tokens)
      <4>1. Accounts(less, granted[key] \cup {new}, spent[key] + tokens, born'[key])
        BY <3>1, <3>2, <3>4, <2>2, <1>1, <1>3, <1>9, GrantKeeps DEF less
      <4> QED BY <4>1, <3>4, <2>2, <1>6, <1>7, <1>8
    <3> QED BY <3>3, <3>4
  <2> QED BY <2>1, <2>2
<1>15. GrantsArePast'
  <2> SUFFICES ASSUME NEW k \in Watched, NEW e \in granted'[k]
               PROVE  e.before < spent'[k] /\ e.at <= now
    BY DEF GrantsArePast
  <2>1. CASE e \in granted[k]
    <3>1. e.before < spent[k] /\ e.at <= now /\ e.before \in Nat
      BY <2>1, <1>9, Fields DEF GrantsArePast
    <3>2. spent[k] <= spent'[k] /\ spent'[k] \in Nat
      BY <1>8, <1>9, <1>10
    <3> QED BY <3>1, <3>2, <1>9
  <2>2. CASE e \notin granted[k]
    <3>1. k = key /\ Enough(b, tokens) /\ e = new
      BY <2>2, <1>6, <1>8
    <3>2. e.before = spent[k] /\ e.at = now /\ spent'[k] = spent[k] + tokens
      BY <3>1, <1>8
    <3> QED BY <3>2, <1>1, <1>9, <1>10, Fields
  <2> QED BY <2>1, <2>2
<1>16. FormerBucket(buckets, crowdedOut)'
  <2> SUFFICES ASSUME NEW k \in Watched, NEW e \in granted'[k], crowded[k] = 0
               PROVE  IF k \in DOMAIN buckets'
                      THEN (e.before < born'[k] /\ buckets'[k].createdAt - e.at <= BucketTtl) =>
                             born'[k] - e.before <= Capacity + Added(e.at, buckets'[k].createdAt)
                      ELSE now - e.at <= BucketTtl =>
                             spent'[k] - e.before <= Capacity + Added(e.at, now)
    BY DEF FormerBucket, Added
  <2>1. CASE k # key
    BY <2>1, <1>7, <1>8 DEF TableInv, FormerBucket
  <2>2. CASE k = key /\ key \in DOMAIN bs
    <3>1. buckets'[k].createdAt = bs[k].createdAt /\ k \in DOMAIN buckets'
      BY <2>2, <1>4, <1>7 DEF b0, GetBucket
    <3>2. born'[k] = born[k] /\ born[k] <= spent[k]
      BY <2>2, <1>8 DEF TableInv, Accounted, Accounts
    <3>3. CASE e \in granted[k]
      BY <3>1, <3>2, <3>3, <2>2 DEF TableInv, FormerBucket
    <3>4. CASE e \notin granted[k]
      <4>1. e.before = spent[k]
        BY <3>4, <2>2, <1>6, <1>8
      <4>2. ~(e.before < born'[k])
        BY <4>1, <3>2, <1>9
      <4> QED BY <4>2, <3>1
    <3> QED BY <3>3, <3>4
  <2>3. CASE k = key /\ key \notin DOMAIN bs
    <3>1. buckets'[k].createdAt = now /\ k \in DOMAIN buckets' /\ born'[k] = spent[k]
      BY <2>3, <1>2, <1>4, <1>7, <1>8
    <3>2. CASE e \in granted[k]
      BY <3>1, <3>2, <2>3 DEF TableInv, FormerBucket
    <3>3. CASE e \notin granted[k]
      <4>1. e.before = spent[k]
        BY <3>3, <2>3, <1>6, <1>8
      <4>2. ~(e.before < born'[k])
        BY <4>1, <3>1, <1>9
      <4> QED BY <4>2, <3>1
    <3> QED BY <3>2, <3>3
  <2> QED BY <2>1, <2>2, <2>3
<1>17. CleanSince(buckets, lastCleanup)'
  <2> SUFFICES ASSUME NEW k \in DOMAIN buckets'
               PROVE  cleaned - buckets'[k].createdAt <= BucketTtl
    BY DEF CleanSince
  <2>1. CASE k \in DOMAIN bs
    <3>1. buckets'[k].createdAt = bs[k].createdAt
      BY <2>1, <1>4, <1>7 DEF b0, GetBucket
    <3> QED BY <2>1, <3>1 DEF TableInv, CleanSince
  <2>2. CASE k \notin DOMAIN bs
    <3>1. buckets'[k].createdAt = now
      BY <2>2, <1>2, <1>4, <1>7
    <3> QED BY <3>1, <1>1, Fields, Constants
  <2> QED BY <2>1, <2>2
<1>18. AnswerInv'
  <2>1. /\ answer'.key = key /\ answer'.tokens = tokens /\ answer'.granted = Enough(b, tokens)
    BY <1>5
  <2>2. ~Enough(b, tokens) => /\ buckets'[key].lastRefill = now
                             /\ buckets'[key].tokens < tokens
    <3>1. b.tokens \in Int
      BY <1>3, Fields
    <3> QED BY <3>1, <1>3, <1>6, <1>7, <1>10 DEF Enough
  <2> QED BY <2>1, <2>2, <1>7 DEF AnswerInv
<1> QED BY <1>11, <1>12, <1>13, <1>14, <1>15, <1>16, <1>17, <1>18 DEF Inv

LEMMA ConsumeInv ==
  ASSUME Inv, NEW key \in Keys, NEW tokens \in Costs, Consume(key, tokens)
  PROVE  Inv'
<1> DEFINE bs == EvictOldBuckets
<1>1. TableInv(bs, crowdedOut, Cleaned)
  BY EvictKeeps
<1>2. /\ TypeOK /\ GrantsArePast /\ lastCleanup <= now
      /\ now \in Instants /\ lastCleanup \in Instants /\ crowdedOut \in [Watched -> 0..MaxCrowding]
  BY DEF Inv, TypeOK
<1>3. /\ Cleaned \in Instants /\ Cleaned <= now /\ now - Cleaned < CleanupInterval
      /\ lastCleanup' = Cleaned /\ now' = now
  BY <1>2, Fields, Constants DEF Consume, Cleaned, CleanupIsDue
<1> HIDE DEF bs
<1>4. CASE ~MustMakeRoom(bs, key) /\ Take(bs, key, tokens) /\ crowdedOut' = crowdedOut
  <2>1. key \in DOMAIN bs \/ Cardinality(DOMAIN bs) < MaxBuckets
    <3>1. Cardinality(DOMAIN bs) \in Nat
      BY <1>1, FS_CardinalityType DEF TableInv, Table
    <3> QED BY <1>4, <3>1, Constants DEF MustMakeRoom
  <2> QED BY <1>1, <1>2, <1>3, <1>4, <2>1, TakeKeeps
<1>5. ASSUME NEW o \in Oldest(bs),
             o \in Watched => crowdedOut[o] < MaxCrowding,
             Take(Only(bs, DOMAIN bs \ {o}), key, tokens),
             crowdedOut' = [k \in Watched |-> IF k = o THEN crowdedOut[k] + 1 ELSE crowdedOut[k]]
      PROVE  Inv'
  <2> DEFINE fewer == Only(bs, DOMAIN bs \ {o})
             crowded == [k \in Watched |-> IF k = o THEN crowdedOut[k] + 1 ELSE crowdedOut[k]]
  <2>1. o \in DOMAIN bs
    BY DEF Oldest
  <2>2. TableInv(fewer, crowded, Cleaned) /\ Cardinality(DOMAIN fewer) < MaxBuckets
    BY <1>1, <2>1, CrowdKeeps
  <2>3. crowded \in [Watched -> 0..MaxCrowding]
    <3>1. \A k \in Watched : crowdedOut[k] \in 0..MaxCrowding
      BY <1>2
    <3>2. \A k \in Watched : crowded[k] \in 0..MaxCrowding
      BY <3>1, <1>5, Constants
    <3> QED BY <3>2
  <2> HIDE DEF fewer, crowded
  <2>4. Take(fewer, key, tokens) /\ crowdedOut' = crowded
    BY <1>5 DEF fewer, crowded
  <2> QED BY <1>2, <1>3, <2>2, <2>3, <2>4, TakeKeeps
<1> QED BY <1>4, <1>5 DEF Consume, bs

LEMMA TickInv == Inv /\ Tick => Inv'
<1> SUFFICES ASSUME Inv, Tick PROVE Inv'
  OBVIOUS
<1>1. /\ now \in Nat /\ now \in Int /\ now' = now + 1 /\ now' \in Int /\ now <= now'
      /\ now' \in Instants
  BY Constants DEF Inv, TypeOK, Tick, Instants
<1>2. /\ UNCHANGED <<buckets, lastCleanup, granted, spent, born, crowdedOut>>
      /\ answer' = NoAnswer
  BY DEF Tick
<1>3. TypeOK'
  BY <1>1, <1>2 DEF Inv, TypeOK, Instants
<1>4. Table(buckets)' /\ lastCleanup' <= now'
  <2>1. \A k \in DOMAIN buckets : buckets[k].lastRefill <= now /\ buckets[k].lastRefill \in Int
    BY Fields DEF Inv, Table
  <2>2. \A k \in DOMAIN buckets : buckets[k].lastRefill <= now'
    BY <2>1, <1>1
  <2>3. lastCleanup \in Int /\ lastCleanup <= now
    BY Fields DEF Inv, TypeOK
  <2> QED BY <2>2, <2>3, <1>1, <1>2 DEF Inv, Table, Buckets, Instants
<1>5. BucketsBounded' /\ CleanSince(buckets, lastCleanup)' /\ AnswerInv'
  BY <1>2 DEF Inv, BucketsBounded, CleanSince, AnswerInv
<1>6. Accounted(buckets)'
  BY <1>2 DEF Inv, Accounted, Accounts, Added
<1>7. \A k \in Watched : \A e \in granted[k] :
        e.at \in Int /\ e.before \in Nat /\ spent[k] \in Nat /\ e.at <= now /\ e.before < spent[k]
  <2>1. \A k \in Watched : granted[k] \in SUBSET Grants /\ spent[k] \in Nat
    BY DEF Inv, TypeOK, Grants
  <2> QED BY <2>1, Fields DEF Inv, GrantsArePast
<1>8. GrantsArePast'
  BY <1>1, <1>2, <1>7 DEF GrantsArePast
<1>9. FormerBucket(buckets, crowdedOut)'
  <2>1. ASSUME NEW k \in Watched, NEW e \in granted[k], crowdedOut[k] = 0, k \notin DOMAIN buckets,
               now' - e.at <= BucketTtl
        PROVE  spent[k] - e.before <= Capacity + Added(e.at, now')
    <3>1. now - e.at <= BucketTtl
      BY <2>1, <1>1, <1>7, Constants
    <3>2. spent[k] - e.before <= Capacity + Added(e.at, now)
      BY <2>1, <3>1 DEF Inv, FormerBucket
    <3>3. /\ Added(e.at, now') = Added(e.at, now) + Added(now, now')
          /\ Added(e.at, now) \in Nat /\ Added(now, now') \in Nat
      BY <1>1, <1>7, AddedAdds, Zenon
    <3> QED BY <3>2, <3>3, <1>7, Constants
  <2> QED BY <2>1, <1>2 DEF Inv, FormerBucket, Added
<1> QED BY <1>3, <1>4, <1>5, <1>6, <1>8, <1>9 DEF Inv

LEMMA NextInv == Inv /\ [Next]_vars => Inv'
<1> SUFFICES ASSUME Inv, [Next]_vars PROVE Inv'
  OBVIOUS
<1>1. CASE UNCHANGED vars
  BY <1>1 DEF vars, Inv, TypeOK, Table, BucketsBounded, Accounted, Accounts, GrantsArePast,
              FormerBucket, CleanSince, AnswerInv, Added, Buckets, Instants
<1>2. CASE Tick
  BY <1>2, TickInv
<1>3. ASSUME NEW k \in Keys, NEW c \in Costs, Consume(k, c)
      PROVE  Inv'
  BY <1>3, ConsumeInv
<1> QED BY <1>1, <1>2, <1>3 DEF Next
-----------------------------------------------------------------------------
(* The results *)

\* Every state that calls and the passing of time reach has the accounts, the age and
\* the size that Inv says.
THEOREM LimiterInvariance == Spec => []Inv
BY InitInv, NextInv, PTL DEF Spec

\* The table holds buckets of at most the capacity, for the keys that asked.
THEOREM LimiterTypeCorrect == Spec => []TypeOK
<1>1. Inv => TypeOK
  BY DEF Inv
<1> QED BY <1>1, LimiterInvariance, PTL

\* Lazy refills (consume, refill) never give more than the capacity and the rate since
\* any grant of the bucket.
THEOREM RateIsKept == Spec => []RateKept
<1>1. ASSUME Inv, NEW k \in Watched \cap DOMAIN buckets, NEW e \in GrantsOfBucket(k)
      PROVE  SpentSince(k, e) <= RateSince(e)
  <2> DEFINE b == buckets[k]
  <2>1. b \in Buckets /\ b.lastRefill <= now /\ e \in Grants /\ spent[k] \in Nat
        /\ now \in Instants /\ born[k] \in Nat
    BY <1>1 DEF Inv, TypeOK, Table, Grants, GrantsOfBucket
  <2>2. Accounts(b, granted[k], spent[k], born[k]) /\ e \in granted[k] /\ e.before >= born[k]
    BY <1>1 DEF Inv, Accounted, GrantsOfBucket
  <2> HIDE DEF b
  <2>3. /\ b.tokens \in 0..Capacity /\ b.lastRefill \in Int /\ now \in Int
        /\ e.at \in Int /\ e.before \in Nat
    BY <2>1, Fields
  <2>4. e.at <= b.lastRefill /\ (spent[k] - e.before) + b.tokens <= Capacity + Added(e.at, b.lastRefill)
    BY <2>2 DEF Accounts
  <2>5. /\ Added(e.at, now) = Added(e.at, b.lastRefill) + Added(b.lastRefill, now)
        /\ Added(e.at, b.lastRefill) \in Nat /\ Added(b.lastRefill, now) \in Nat
    BY <2>1, <2>3, <2>4, AddedAdds, Zenon
  <2> QED BY <2>1, <2>3, <2>4, <2>5, Constants DEF SpentSince, RateSince
<1>2. Inv => RateKept
  BY <1>1 DEF RateKept
<1> QED BY <1>2, LimiterInvariance, PTL

\* A call that consume refuses would have gone over the rate.
THEOREM RefusalsJustified == Spec => []RefusedOverRate
<1>1. ASSUME Inv, answer # NoAnswer, answer.key \in Watched, ~answer.granted,
             ~(answer.tokens > Capacity)
      PROVE  \E e \in GrantsOfBucket(answer.key) :
               SpentSince(answer.key, e) + answer.tokens > RateSince(e)
  <2> DEFINE k == answer.key
             b == buckets[k]
  <2>1. k \in DOMAIN buckets /\ b.lastRefill = now /\ b.tokens < answer.tokens
    BY <1>1 DEF Inv, AnswerInv
  <2>2. b \in Buckets /\ Accounts(b, granted[k], spent[k], born[k]) /\ spent[k] \in Nat
        /\ granted[k] \in SUBSET Grants /\ now \in Instants
    BY <1>1, <2>1 DEF Inv, TypeOK, Table, Accounted, Grants
  <2>3. answer.tokens \in Nat
    BY <1>1, Constants DEF Inv, TypeOK
  <2> HIDE DEF b, k
  <2>4. b.tokens \in 0..Capacity /\ now \in Int
    BY <2>2, Fields
  <2>5. b.tokens # Capacity
    BY <1>1, <2>1, <2>3, <2>4, Constants
  <2>6. PICK e \in granted[k] :
          /\ e.before >= born[k]
          /\ (spent[k] - e.before) + b.tokens = Capacity + Added(e.at, b.lastRefill)
    BY <2>2, <2>5 DEF Accounts
  <2>7. e.before \in Nat /\ e.at \in Int
    BY <2>2, Fields
  <2>8. Added(e.at, now) \in Int
    BY <2>4, <2>7, AddedType, Zenon
  <2>9. (spent[k] - e.before) + answer.tokens > Capacity + Added(e.at, now)
    BY <2>1, <2>2, <2>3, <2>4, <2>6, <2>7, <2>8, Constants
  <2>10. e \in GrantsOfBucket(k) /\ SpentSince(k, e) + answer.tokens > RateSince(e)
    BY <2>6, <2>9 DEF GrantsOfBucket, SpentSince, RateSince
  <2> QED BY <2>10 DEF k
<1>2. Inv => RefusedOverRate
  BY <1>1 DEF RefusedOverRate
<1> QED BY <1>2, LimiterInvariance, PTL

\* A key whose bucket evictOldBuckets replaced by a full one got one capacity more, not
\* more than that.
THEOREM TwoBuckets == Spec => []TwoBucketsRate
<1>1. ASSUME Inv, NEW k \in Watched, NEW e \in granted[k], crowdedOut[k] = 0,
             now - e.at <= BucketTtl
      PROVE  SpentSince(k, e) <= Capacity + RateSince(e)
  <2>1. e \in Grants /\ spent[k] \in Nat /\ born[k] \in Nat /\ now \in Instants /\ e.at <= now
    BY <1>1 DEF Inv, TypeOK, Grants, GrantsArePast
  <2>2. e.at \in Int /\ e.before \in Nat /\ now \in Int
    BY <2>1, Fields
  <2>3. Added(e.at, now) \in Int
    BY <2>2, AddedType, Zenon
  <2>4. CASE k \notin DOMAIN buckets
    <3>1. spent[k] - e.before <= Capacity + Added(e.at, now)
      BY <1>1, <2>4 DEF Inv, FormerBucket
    <3> QED BY <2>1, <2>2, <2>3, <3>1, Constants DEF SpentSince, RateSince
  <2>5. CASE k \in DOMAIN buckets
    <3> DEFINE b == buckets[k]
    <3>1. /\ b \in Buckets /\ b.createdAt <= b.lastRefill /\ b.lastRefill <= now
          /\ Accounts(b, granted[k], spent[k], born[k])
      BY <1>1, <2>5 DEF Inv, Table, Accounted
    <3>2. (e.before < born[k] /\ b.createdAt - e.at <= BucketTtl) =>
            born[k] - e.before <= Capacity + Added(e.at, b.createdAt)
      BY <1>1, <2>5 DEF Inv, FormerBucket
    <3> HIDE DEF b
    <3>3. b.tokens \in 0..Capacity /\ b.lastRefill \in Int /\ b.createdAt \in Int
      BY <3>1, Fields
    <3>4. CASE e.before >= born[k]
      <4>1. e.at <= b.lastRefill
            /\ (spent[k] - e.before) + b.tokens <= Capacity + Added(e.at, b.lastRefill)
        BY <3>1, <3>4 DEF Accounts
      <4>2. /\ Added(e.at, now) = Added(e.at, b.lastRefill) + Added(b.lastRefill, now)
            /\ Added(e.at, b.lastRefill) \in Nat /\ Added(b.lastRefill, now) \in Nat
        BY <2>2, <3>1, <3>3, <4>1, AddedAdds, Zenon
      <4> QED BY <2>1, <2>2, <3>3, <4>1, <4>2, Constants DEF SpentSince, RateSince
    <3>5. CASE e.before < born[k]
      <4>1. e.at <= b.createdAt
            /\ (spent[k] - born[k]) + b.tokens <= Capacity + Added(b.createdAt, b.lastRefill)
        BY <3>1, <3>5 DEF Accounts
      <4>2. b.createdAt - e.at <= BucketTtl
        BY <1>1, <2>2, <3>1, <3>3, Constants
      <4>3. born[k] - e.before <= Capacity + Added(e.at, b.createdAt)
        BY <3>2, <3>5, <4>2
      <4>4. b.createdAt <= now
        BY <2>2, <3>1, <3>3
      <4>5. Added(e.at, now) = Added(e.at, b.createdAt) + Added(b.createdAt, now)
        BY <2>2, <3>3, <4>1, <4>4, AddedAdds, Zenon
      <4>6. /\ Added(b.createdAt, now) = Added(b.createdAt, b.lastRefill) + Added(b.lastRefill, now)
            /\ Added(b.createdAt, b.lastRefill) \in Nat /\ Added(b.lastRefill, now) \in Nat
        BY <2>2, <3>1, <3>3, AddedAdds, Zenon
      <4>7. Added(e.at, b.createdAt) \in Int
        BY <2>2, <3>3, AddedType, Zenon
      <4>8. spent[k] - e.before = (spent[k] - born[k]) + (born[k] - e.before)
        BY <2>1, <2>2
      <4>9. spent[k] - born[k] <= Capacity + Added(b.createdAt, now)
        BY <2>1, <3>3, <4>1, <4>6, Constants
      <4> QED BY <2>1, <2>2, <4>3, <4>5, <4>6, <4>7, <4>8, <4>9, Constants
            DEF SpentSince, RateSince
    <3> QED BY <2>1, <2>2, <3>4, <3>5
  <2> QED BY <2>4, <2>5
<1>2. Inv => TwoBucketsRate
  BY <1>1 DEF TwoBucketsRate
<1> QED BY <1>2, LimiterInvariance, PTL

\* consume makes room before it adds a bucket: there are never more than maxBuckets.
THEOREM TableBounded == Spec => []BucketsBounded
<1>1. Inv => BucketsBounded
  BY DEF Inv
<1> QED BY <1>1, LimiterInvariance, PTL

\* After a call no bucket is older than the time to live and the interval of the
\* clean-up (evictOldBuckets, consume).
THEOREM StaleGone == Spec => []StaleBucketsGo
<1>1. ASSUME Inv, answer # NoAnswer, NEW k \in DOMAIN buckets
      PROVE  now - buckets[k].createdAt < BucketTtl + CleanupInterval
  <2>1. buckets[k] \in Buckets /\ now \in Instants /\ lastCleanup \in Instants
    BY <1>1 DEF Inv, TypeOK, Table
  <2>2. buckets[k].createdAt \in Int /\ now \in Int /\ lastCleanup \in Int
    BY <2>1, Fields
  <2>3. now - lastCleanup < CleanupInterval /\ lastCleanup - buckets[k].createdAt <= BucketTtl
    BY <1>1 DEF Inv, AnswerInv, CleanSince
  <2> QED BY <2>2, <2>3, Constants
<1>2. Inv => StaleBucketsGo
  BY <1>1 DEF StaleBucketsGo
<1> QED BY <1>2, LimiterInvariance, PTL
=============================================================================
