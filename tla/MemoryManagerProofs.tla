------------------------ MODULE MemoryManagerProofs ------------------------
(***************************************************************************)
(* What MemoryManager guarantees for every number of memories, tenants and *)
(* rows of a page: a vector always has its row or is about to, answers     *)
(* stay in their scope, and other tenants' memories do not dilute them.    *)
(***************************************************************************)
EXTENDS MemoryManager, FiniteSetTheorems, TLAPS

\* Both writers store a memory's own scope and type with its vector.
MetadataRight == \A m \in DOMAIN vectors : vectors[m] = Metadata(m)

\* What save() has committed is in the table.
CommittedInTable == \A m \in Memories : add[m] \in {"committed", "stored"} => m \in table

\* The candidates of a query fit it, and enough of them are, or will be, in the table.
CandidatesFit ==
  query.stage \in {"reading", "answered"} =>
    /\ Cardinality(query.candidates) <= query.limit
    /\ \A m \in query.candidates : /\ ScopeOf[m] = query.scope
                                   /\ query.types = {} \/ TypeOf[m] \in query.types
    /\ Cardinality(query.candidates \cap table) >= query.promised
    /\ query.stage = "answered" => query.candidates \subseteq table

Inv == TypeOK /\ MetadataRight /\ CommittedInTable /\ NoPhantomVectors /\ CandidatesFit

\* The next page starts where the pages read so far end, all of them full.
PagesRight ==
  /\ PagesBounded
  /\ stage = "reindexing" => offset = pages * PageSize /\ offset <= Cardinality(table)
-----------------------------------------------------------------------------
(* Lemmas *)

\* Sets of memories are finite.
LEMMA MemoriesFinite ==
  ASSUME NEW S \in SUBSET Memories
  PROVE  IsFiniteSet(S) /\ Cardinality(S) \in Nat
BY MemoryAssumption, FS_Subset, FS_CardinalityType

\* The records of a query and the fields they have.
LEMMA QueryShapes ==
  ASSUME TypeOK
  PROVE  /\ query = NoQuery \/ query \in Queries \/ query \in InDatabase
         /\ query.stage = "embedding" => query \in Queries
         /\ query.stage \in {"reading", "answered"} => query \in InDatabase
BY DEF TypeOK, NoQuery, Queries, InDatabase

\* The limit used is a natural number, whatever was asked for.
LEMMA LimitType ==
  ASSUME NEW halves \in RawLimits
  PROVE  RequestedLimit(halves) \in Nat
BY MemoryAssumption DEF RequestedLimit

\* Of the nearest C among the matching M, at least as many have a row in T as the limit
\* or T allow, less the matching ones without a row.
LEMMA PlacesKept ==
  ASSUME NEW M \in SUBSET Memories, NEW T \in SUBSET Memories, NEW C \in SUBSET M,
         NEW k \in Nat, Cardinality(C) = AtMost(k, Cardinality(M))
  PROVE  /\ Cardinality(C) <= k
         /\ Cardinality(C \cap T) >= AtMost(k, Cardinality(M \cap T)) - Cardinality(M \ T)
<1>1. /\ IsFiniteSet(M) /\ IsFiniteSet(C) /\ IsFiniteSet(M \cap T) /\ IsFiniteSet(M \ T)
      /\ Cardinality(M) \in Nat /\ Cardinality(C) \in Nat /\ Cardinality(C \cap T) \in Nat
      /\ Cardinality(M \cap T) \in Nat /\ Cardinality(M \ T) \in Nat /\ Cardinality(C \ T) \in Nat
  <2>1. /\ M \in SUBSET Memories /\ C \in SUBSET Memories /\ M \cap T \in SUBSET Memories
        /\ M \ T \in SUBSET Memories /\ C \cap T \in SUBSET Memories /\ C \ T \in SUBSET Memories
    OBVIOUS
  <2> QED  BY <2>1, MemoriesFinite
<1>2. Cardinality(C \ T) = Cardinality(C) - Cardinality(C \cap T)
  BY <1>1, FS_Difference
<1>3. Cardinality(C \ T) <= Cardinality(M \ T)
  <2>1. C \ T \subseteq M \ T
    OBVIOUS
  <2> QED  BY <1>1, <2>1, FS_Subset
<1>4. Cardinality(M \cap T) <= Cardinality(M)
  <2>1. M \cap T \subseteq M
    OBVIOUS
  <2> QED  BY <1>1, <2>1, FS_Subset
<1> QED  BY <1>1, <1>2, <1>3, <1>4 DEF AtMost

\* Storing and taking back vectors keeps the map of vectors well-formed.
LEMMA UpsertedType ==
  ASSUME TypeOK, MetadataRight, NEW S \in SUBSET Memories
  PROVE  /\ DOMAIN Upserted(S) = S \cup DOMAIN vectors
         /\ Upserted(S) \in [DOMAIN Upserted(S) -> [scope : Scopes, type : Types]]
         /\ \A m \in DOMAIN Upserted(S) : Upserted(S)[m] = Metadata(m)
<1>1. \A m \in Memories : Metadata(m) \in [scope : Scopes, type : Types]
  BY MemoryAssumption DEF Metadata
<1> QED  BY <1>1 DEF Upserted, TypeOK, MetadataRight

LEMMA DeletedType ==
  ASSUME TypeOK, MetadataRight, NEW m \in Memories
  PROVE  /\ DOMAIN Deleted(m) = DOMAIN vectors \ {m}
         /\ Deleted(m) \in [DOMAIN Deleted(m) -> [scope : Scopes, type : Types]]
         /\ \A n \in DOMAIN Deleted(m) : Deleted(m)[n] = Metadata(n)
BY DEF Deleted, TypeOK, MetadataRight

\* A query that does not move keeps its candidates while the table grows.
LEMMA TableGrows ==
  ASSUME TypeOK, CandidatesFit, query' = query, table \subseteq table', table' \subseteq Memories
  PROVE  CandidatesFit'
<1> SUFFICES ASSUME query.stage \in {"reading", "answered"}
             PROVE  CandidatesFit'
  BY DEF CandidatesFit
<1>1. query \in InDatabase
  BY QueryShapes
<1>2. query.candidates \cap table \subseteq query.candidates \cap table'
  OBVIOUS
<1>3. query.candidates \cap table' \in SUBSET Memories
  OBVIOUS
<1>4. Cardinality(query.candidates \cap table) <= Cardinality(query.candidates \cap table')
  BY <1>2, <1>3, MemoriesFinite, FS_Subset
<1>5. /\ Cardinality(query.candidates \cap table) \in Int
      /\ Cardinality(query.candidates \cap table') \in Int
      /\ query.promised \in Int
  <2>1. query.candidates \cap table \in SUBSET Memories
    BY DEF TypeOK
  <2> QED  BY <1>1, <1>3, <2>1, MemoriesFinite DEF InDatabase
<1> QED  BY <1>4, <1>5 DEF CandidatesFit
-----------------------------------------------------------------------------
(* The steps *)

LEMMA InitInv == Init => Inv
BY MemoryAssumption DEF Init, Inv, TypeOK, MetadataRight, CommittedInTable, NoPhantomVectors,
                        CandidatesFit, NoQuery

\* The calls that add a memory.
LEMMA StoreInv ==
  ASSUME Inv, NEW m \in Memories, Store(m)
  PROVE  Inv'
<1> USE DEF Inv, Goes, SameReindex
<1>1. CASE Add(m)
  <2>1. TypeOK'
    BY <1>1 DEF Add, TypeOK
  <2>2. MetadataRight' /\ CommittedInTable'
    BY <1>1 DEF Add, TypeOK, MetadataRight, CommittedInTable, Metadata
  <2>3. NoPhantomVectors'
    BY <1>1 DEF Add, TypeOK, NoPhantomVectors
  <2>4. CandidatesFit'
    BY <1>1, TableGrows DEF Add, TypeOK
  <2> QED  BY <2>1, <2>2, <2>3, <2>4
<1>2. CASE EmbeddingFails(m)
  <2>1. TypeOK'
    BY <1>2 DEF EmbeddingFails, TypeOK
  <2>2. MetadataRight' /\ CommittedInTable'
    BY <1>2 DEF EmbeddingFails, TypeOK, MetadataRight, CommittedInTable, Metadata
  <2>3. NoPhantomVectors'
    BY <1>2 DEF EmbeddingFails, TypeOK, NoPhantomVectors
  <2>4. CandidatesFit'
    BY <1>2, TableGrows DEF EmbeddingFails, TypeOK
  <2> QED  BY <2>1, <2>2, <2>3, <2>4
<1>3. CASE Embedded(m)
  <2>1. {m} \in SUBSET Memories
    OBVIOUS
  <2>2. TypeOK' /\ MetadataRight'
    BY <1>3, <2>1, UpsertedType DEF Embedded, TypeOK, MetadataRight, Metadata
  <2>3. CommittedInTable'
    BY <1>3 DEF Embedded, TypeOK, CommittedInTable
  <2>4. NoPhantomVectors'
    <3>1. DOMAIN vectors' = DOMAIN vectors \cup {m}
      BY <1>3, <2>1, UpsertedType DEF Embedded
    <3>2. table' = table /\ \A x \in Memories : add'[x] = IF x = m THEN "saving" ELSE add[x]
      BY <1>3 DEF Embedded, Goes, TypeOK
    <3>3. DOMAIN vectors \subseteq Memories
      BY DEF TypeOK
    <3> QED  BY <3>1, <3>2, <3>3 DEF NoPhantomVectors
  <2>5. CandidatesFit'
    BY <1>3, TableGrows DEF Embedded, TypeOK
  <2> QED  BY <2>2, <2>3, <2>4, <2>5
<1>4. CASE SaveCommits(m)
  <2>1. TypeOK'
    BY <1>4 DEF SaveCommits, TypeOK
  <2>2. MetadataRight' /\ CommittedInTable'
    BY <1>4 DEF SaveCommits, TypeOK, MetadataRight, CommittedInTable, Metadata
  <2>3. NoPhantomVectors'
    BY <1>4 DEF SaveCommits, TypeOK, NoPhantomVectors
  <2>4. CandidatesFit'
    BY <1>4, TableGrows DEF SaveCommits, TypeOK
  <2> QED  BY <2>1, <2>2, <2>3, <2>4
<1>5. CASE SaveAnswers(m)
  <2>1. TypeOK'
    BY <1>5 DEF SaveAnswers, TypeOK
  <2>2. MetadataRight' /\ CommittedInTable'
    BY <1>5 DEF SaveAnswers, TypeOK, MetadataRight, CommittedInTable, Metadata
  <2>3. NoPhantomVectors'
    BY <1>5 DEF SaveAnswers, TypeOK, NoPhantomVectors
  <2>4. CandidatesFit'
    BY <1>5, TableGrows DEF SaveAnswers, TypeOK
  <2> QED  BY <2>1, <2>2, <2>3, <2>4
<1>6. CASE SaveFails(m)
  <2>1. TypeOK' /\ MetadataRight'
    BY <1>6, DeletedType DEF SaveFails, TypeOK, MetadataRight, Metadata
  <2>2. CommittedInTable'
    BY <1>6 DEF SaveFails, TypeOK, CommittedInTable
  <2>3. NoPhantomVectors'
    <3>1. DOMAIN vectors' = DOMAIN vectors \ {m}
      BY <1>6, DeletedType DEF SaveFails
    <3>2. /\ DOMAIN vectors \subseteq Memories /\ table' = table
          /\ \A n \in Memories \ {m} : add'[n] = add[n]
      BY <1>6 DEF SaveFails, TypeOK
    <3> QED  BY <3>1, <3>2 DEF NoPhantomVectors
  <2>4. CandidatesFit'
    BY <1>6, TableGrows DEF SaveFails, TypeOK
  <2> QED  BY <2>1, <2>2, <2>3, <2>4
<1> QED  BY <1>1, <1>2, <1>3, <1>4, <1>5, <1>6 DEF Store

\* A search keeps its promise: see PlacesKept.
LEMMA SearchInv ==
  ASSUME Inv, Search
  PROVE  Inv'
<1> USE DEF Inv, SameReindex
<1>1. query \in Queries /\ query.stage = "embedding"
  BY QueryShapes DEF Search
<1>2. PICK C \in Nearest(query) :
        query' = [stage |-> "reading", scope |-> query.scope, types |-> query.types,
                  limit |-> query.limit, candidates |-> C,
                  promised |-> AtMost(query.limit, Cardinality(Matching(query) \cap table))
                               - Cardinality(Matching(query) \ table)]
  BY DEF Search
<1>3. /\ Matching(query) \in SUBSET Memories /\ table \in SUBSET Memories
      /\ C \in SUBSET Matching(query)
      /\ Cardinality(C) = AtMost(query.limit, Cardinality(Matching(query)))
      /\ query.limit \in Nat
  BY <1>1, <1>2 DEF Nearest, Matching, TypeOK, Queries
<1>4. /\ Cardinality(C) <= query.limit
      /\ Cardinality(C \cap table) >= AtMost(query.limit, Cardinality(Matching(query) \cap table))
                                      - Cardinality(Matching(query) \ table)
  BY <1>3, PlacesKept
<1>5. AtMost(query.limit, Cardinality(Matching(query) \cap table))
        - Cardinality(Matching(query) \ table) \in Int
  <2>1. /\ Matching(query) \cap table \in SUBSET Memories
        /\ Matching(query) \ table \in SUBSET Memories
    BY <1>3
  <2> QED  BY <1>3, <2>1, MemoriesFinite DEF AtMost
<1>6. TypeOK'
  <2>1. query' \in InDatabase
    BY <1>1, <1>2, <1>3, <1>5 DEF InDatabase, Queries
  <2> QED  BY <2>1 DEF Search, TypeOK
<1>7. \A m \in C : /\ ScopeOf[m] = query.scope
                   /\ query.types = {} \/ TypeOf[m] \in query.types
  BY <1>3 DEF Matching, Matches, MetadataRight, Metadata
<1>8. /\ query'.stage = "reading" /\ query'.candidates = C /\ query'.limit = query.limit
      /\ query'.scope = query.scope /\ query'.types = query.types
      /\ query'.promised = AtMost(query.limit, Cardinality(Matching(query) \cap table))
                             - Cardinality(Matching(query) \ table)
      /\ table' = table
  BY <1>2 DEF Search
<1>9. CandidatesFit'
  BY <1>4, <1>7, <1>8 DEF CandidatesFit
<1> QED  BY <1>6, <1>9 DEF Search, MetadataRight, Metadata, CommittedInTable, NoPhantomVectors

LEMMA QueryInv ==
  ASSUME Inv, Query
  PROVE  Inv'
<1> USE DEF Inv, SameReindex
<1>1. ASSUME NEW s \in Scopes, NEW types \in SUBSET Types, NEW halves \in RawLimits,
             Ask(s, types, halves)
      PROVE  Inv'
  <2>1. query' \in Queries /\ query'.stage = "embedding"
    BY <1>1, LimitType DEF Ask, Queries
  <2> QED  BY <1>1, <2>1 DEF Ask, TypeOK, MetadataRight, Metadata, CommittedInTable,
                             NoPhantomVectors, CandidatesFit
<1>2. CASE Search
  BY <1>2, SearchInv
<1>3. CASE Answer
  <2>1. query \in InDatabase /\ query.stage = "reading"
    BY <1>3, QueryShapes DEF Answer
  <2>2. query' = [query EXCEPT !.stage = "answered", !.candidates = query.candidates \cap table]
    BY <1>3 DEF Answer
  <2>3. query' \in InDatabase
    BY <2>1, <2>2 DEF InDatabase
  <2>4. TypeOK'
    BY <1>3, <2>3 DEF Answer, TypeOK
  <2>5. Cardinality(query.candidates \cap table) <= Cardinality(query.candidates)
    <3>1. query.candidates \in SUBSET Memories /\ query.candidates \cap table \subseteq query.candidates
      BY <2>1 DEF InDatabase
    <3> QED  BY <3>1, MemoriesFinite, FS_Subset
  <2>6. /\ Cardinality(query.candidates \cap table) \in Int
        /\ Cardinality(query.candidates) \in Int
        /\ query.limit \in Int
    <3>1. query.candidates \in SUBSET Memories /\ query.candidates \cap table \in SUBSET Memories
      BY <2>1 DEF InDatabase
    <3> QED  BY <2>1, <3>1, MemoriesFinite DEF InDatabase
  <2>7. (query.candidates \cap table) \cap table = query.candidates \cap table
    OBVIOUS
  <2>8. /\ query'.candidates = query.candidates \cap table /\ query'.limit = query.limit
        /\ query'.scope = query.scope /\ query'.types = query.types
        /\ query'.promised = query.promised /\ table' = table
    BY <1>3, <2>1, <2>2 DEF InDatabase, Answer
  <2>9. CandidatesFit'
    BY <2>1, <2>5, <2>6, <2>7, <2>8 DEF CandidatesFit
  <2> QED  BY <1>3, <2>4, <2>9 DEF Answer, MetadataRight, Metadata, CommittedInTable, NoPhantomVectors
<1>4. CASE QueryFails
  BY <1>4 DEF QueryFails, TypeOK, NoQuery, MetadataRight, Metadata, CommittedInTable,
              NoPhantomVectors, CandidatesFit
<1> QED  BY <1>1, <1>2, <1>3, <1>4 DEF Query

\* A page holds rows of the table.
LEMMA PageOfTable ==
  ASSUME TypeOK, NEW rows \in Listings, NEW i \in DOMAIN Page(rows)
  PROVE  Page(rows)[i] \in table
<1>1. Cardinality(table) \in Nat /\ offset \in Nat
  BY MemoriesFinite DEF TypeOK
<1>2. rows \in [1..Cardinality(table) -> table]
  BY DEF Listings, SetToSeqs
<1>3. rows \in Seq(table) /\ Len(rows) = Cardinality(table)
  BY <1>1, <1>2
<1>4. AtMost(offset + PageSize, Len(rows)) <= Len(rows) /\ AtMost(offset + PageSize, Len(rows)) \in Int
  BY <1>1, <1>3, MemoryAssumption DEF AtMost
<1>5. /\ i \in Nat /\ i >= 1
      /\ i <= AtMost(offset + PageSize, Len(rows)) - offset
      /\ Page(rows)[i] = rows[offset + i]
  BY <1>1, <1>3, <1>4 DEF Page
<1>6. offset + i \in 1..Cardinality(table)
  BY <1>1, <1>3, <1>4, <1>5
<1> QED  BY <1>2, <1>5, <1>6

LEMMA ReindexInv ==
  ASSUME Inv, Reindex
  PROVE  Inv'
<1> USE DEF Inv
<1>1. CASE ReindexPage
  <2>1. PICK rows \in Listings :
          \E outcome \in [DOMAIN Page(rows) -> {"vector", "refused", "fails"}] :
            LET refused == {i \in DOMAIN Page(rows) : outcome[i] = "refused"}
                stored  == {i \in DOMAIN Page(rows) : outcome[i] = "vector" /\ \A j \in refused : i < j}
            IN /\ vectors' = Upserted({Page(rows)[i] : i \in stored})
               /\ unembedded' = unembedded \cup
                                  {Page(rows)[i] : i \in {j \in DOMAIN Page(rows) : outcome[j] # "vector"}}
               /\ IF refused = {}
                  THEN Continues(Page(rows)) /\ UNCHANGED aborted
                  ELSE stage' = "serving" /\ aborted' = "vector" /\ UNCHANGED offset
               /\ split' = split \cup DividedBy(Page(rows))
    BY <1>1 DEF ReindexPage
  <2>2. PICK S \in SUBSET table : vectors' = Upserted(S)
    BY <2>1, PageOfTable
  <2>3. unembedded' \subseteq Memories
    BY <2>1, PageOfTable DEF TypeOK
  <2>4. /\ stage' \in {"reindexing", "serving"} /\ offset' \in Nat
        /\ aborted' \in {"no", "database", "vector"}
    BY <1>1, <2>1, MemoryAssumption DEF ReindexPage, Continues, TypeOK
  <2>5. S \in SUBSET Memories
    BY DEF TypeOK
  <2>6. UNCHANGED <<table, add, query>> /\ pages' \in Nat /\ split' \subseteq Memories
    BY <1>1 DEF ReindexPage, DividedBy, TypeOK
  <2>7. TypeOK' /\ MetadataRight'
    BY <2>2, <2>3, <2>4, <2>5, <2>6, UpsertedType DEF TypeOK, MetadataRight, Metadata
  <2>8. CommittedInTable' /\ NoPhantomVectors'
    BY <2>2, <2>5, <2>6, UpsertedType DEF CommittedInTable, NoPhantomVectors
  <2>9. CandidatesFit'
    BY <2>6, TableGrows DEF TypeOK
  <2> QED  BY <2>7, <2>8, <2>9
<1>2. CASE ReindexFails
  <2>1. CandidatesFit'
    BY <1>2, TableGrows DEF ReindexFails, TypeOK
  <2> QED  BY <1>2, <2>1 DEF ReindexFails, TypeOK, MetadataRight, Metadata, CommittedInTable, NoPhantomVectors
<1> QED  BY <1>1, <1>2 DEF Reindex

LEMMA CrashInv ==
  ASSUME Inv, Crash \/ Restart
  PROVE  Inv'
<1> USE DEF Inv
<1>1. CASE Crash
  <2>1. TypeOK'
    BY <1>1 DEF Crash, TypeOK, NoQuery
  <2>2. MetadataRight' /\ NoPhantomVectors'
    BY <1>1 DEF Crash, MetadataRight, NoPhantomVectors
  <2>3. CommittedInTable'
    BY <1>1 DEF Crash, TypeOK, CommittedInTable
  <2>4. CandidatesFit'
    BY <1>1 DEF Crash, NoQuery, CandidatesFit
  <2> QED  BY <2>1, <2>2, <2>3, <2>4
<1>2. CASE Restart
  <2>1. CandidatesFit'
    BY <1>2, TableGrows DEF Restart, TypeOK
  <2> QED  BY <1>2, <2>1 DEF Restart, TypeOK, MetadataRight, Metadata, CommittedInTable, NoPhantomVectors
<1> QED  BY <1>1, <1>2

LEMMA StepInv == Inv /\ [Next]_vars => Inv'
<1> SUFFICES ASSUME Inv, [Next]_vars
             PROVE  Inv'
  OBVIOUS
<1>1. CASE Next
  BY <1>1, StoreInv, QueryInv, ReindexInv, CrashInv DEF Next
<1>2. CASE UNCHANGED vars
  <2>1. CandidatesFit'
    BY <1>2, TableGrows DEF vars, Inv, TypeOK
  <2> QED  BY <1>2, <2>1 DEF vars, Inv, TypeOK, MetadataRight, Metadata, CommittedInTable, NoPhantomVectors
<1> QED  BY <1>1, <1>2
-----------------------------------------------------------------------------
(* Theorems *)

\* The inductive invariant holds of every execution.
THEOREM MemoryInvariance == Spec => []Inv
<1> QED  BY InitInv, StepInv, PTL DEF Spec

\* Every variable keeps its type; no limit asked for makes a query's limit anything
\* but a natural number.
THEOREM MemoryTypeCorrect == Spec => []TypeOK
<1>1. Inv => TypeOK
  BY DEF Inv
<1> QED  BY <1>1, MemoryInvariance, PTL

\* A memory whose row was not saved leaves no vector behind once its call has failed,
\* whatever fails and when.
THEOREM NoPhantoms == Spec => []NoPhantomVectors
<1>1. Inv => NoPhantomVectors
  BY DEF Inv
<1> QED  BY <1>1, MemoryInvariance, PTL

\* A query of one tenant returns no memory of another.
THEOREM ScopeIsolation == Spec => []AnswersInScope
<1>1. Inv => AnswersInScope
  BY DEF Inv, CandidatesFit, AnswersInScope
<1> QED  BY <1>1, MemoryInvariance, PTL

\* Memories of other tenants take no place in an answer, and those of the tenant itself
\* at most one each while they are being saved.
THEOREM RecallUndiluted == Spec => []NotDiluted
<1>1. Inv => NotDiluted
  <2> SUFFICES ASSUME Inv, query.stage = "answered"
               PROVE  Cardinality(query.candidates) >= query.promised
    BY DEF NotDiluted
  <2>1. query.candidates \cap table = query.candidates
    BY DEF Inv, CandidatesFit
  <2> QED  BY <2>1 DEF Inv, CandidatesFit
<1> QED  BY <1>1, MemoryInvariance, PTL
-----------------------------------------------------------------------------
(* The pages of a start *)

\* All but the reindexing of a page leaves the count alone or ends the start; the table
\* never shrinks.
LEMMA PagesKept ==
  ASSUME TypeOK, TypeOK', PagesRight, table \subseteq table', UNCHANGED <<offset, pages>>,
         stage' = stage \/ stage' # "reindexing"
  PROVE  PagesRight'
<1>1. Cardinality(table) <= Cardinality(table')
  BY MemoriesFinite, FS_Subset DEF TypeOK
<1>2. Cardinality(table) \in Nat /\ Cardinality(table') \in Nat
  BY MemoriesFinite DEF TypeOK
<1>3. (pages - 1) * PageSize \in Int /\ offset \in Nat
  BY MemoryAssumption DEF TypeOK
<1>4. PagesBounded'
  BY <1>1, <1>2, <1>3 DEF PagesRight, PagesBounded
<1> QED  BY <1>1, <1>2, <1>3, <1>4 DEF PagesRight

\* A page is at most what is left of the table; a full one leaves no gap.
LEMMA PageStep ==
  ASSUME Inv, PagesRight, ReindexPage
  PROVE  PagesRight'
<1> USE DEF Inv
<1>1. PICK rows \in Listings :
        \/ stage' = "serving"
        \/ ~(Len(Page(rows)) < PageSize) /\ offset' = offset + PageSize
  BY DEF ReindexPage, Continues
<1>2. /\ Cardinality(table) \in Nat /\ offset \in Nat /\ pages \in Nat /\ PageSize \in Nat \ {0}
      /\ offset = pages * PageSize /\ offset <= Cardinality(table)
      /\ pages' = pages + 1 /\ table' = table
  BY MemoriesFinite, MemoryAssumption DEF TypeOK, ReindexPage, PagesRight
<1>3. pages' - 1 = pages /\ pages' * PageSize = offset + PageSize
  BY <1>2
<1>4. PagesBounded'
  BY <1>2, <1>3 DEF PagesBounded
<1>5. CASE stage' = "serving"
  BY <1>4, <1>5 DEF PagesRight
<1>6. CASE ~(Len(Page(rows)) < PageSize) /\ offset' = offset + PageSize
  <2>1. rows \in [1..Cardinality(table) -> table]
    BY DEF Listings, SetToSeqs
  <2>2. rows \in Seq(table) /\ Len(rows) = Cardinality(table)
    BY <1>2, <2>1
  <2>3. offset' <= Cardinality(table)
    BY <1>2, <1>6, <2>2 DEF Page, AtMost
  <2> QED  BY <1>2, <1>3, <1>4, <1>6, <2>3 DEF PagesRight
<1> QED  BY <1>1, <1>5, <1>6

LEMMA StepPages ==
  ASSUME Inv, Inv', PagesRight, [Next]_vars
  PROVE  PagesRight'
<1> USE DEF Inv
<1>1. CASE ReindexPage
  BY <1>1, PageStep
<1>2. CASE Restart
  <2>1. /\ pages' = 0 /\ offset' = 0 /\ table' = table /\ PageSize \in Nat \ {0}
        /\ Cardinality(table) \in Nat
    BY <1>2, MemoriesFinite, MemoryAssumption DEF Restart, TypeOK
  <2> QED  BY <2>1 DEF PagesRight, PagesBounded
<1>3. CASE \/ ReindexFails \/ Query \/ Crash \/ UNCHANGED vars
           \/ \E m \in Memories : Store(m)
  <2>1. /\ table \subseteq table' /\ UNCHANGED <<offset, pages>>
        /\ stage' = stage \/ stage' # "reindexing"
    BY <1>3 DEF ReindexFails, Query, Ask, Search, Answer, QueryFails, Crash, vars, Store, Add,
                EmbeddingFails, Embedded, SaveCommits, SaveAnswers, SaveFails, SameReindex
  <2> QED  BY <2>1, PagesKept
<1> QED  BY <1>1, <1>2, <1>3 DEF Next, Reindex

\* The reindexing reads no page twice and at most one that is not full, however many
\* memories there are and however large a page is: every start reads finitely many.
THEOREM StartsBounded == Spec => []PagesBounded
<1>1. Init => PagesRight
  <2> SUFFICES ASSUME Init PROVE PagesRight
    OBVIOUS
  <2>1. pages = 0 /\ offset = 0 /\ Cardinality(table) = 0 /\ PageSize \in Nat \ {0}
    BY FS_EmptySet, MemoryAssumption DEF Init
  <2> QED  BY <2>1 DEF PagesRight, PagesBounded
<1>2. Inv /\ Inv' /\ PagesRight /\ [Next]_vars => PagesRight'
  BY StepPages
<1>3. PagesRight => PagesBounded
  BY DEF PagesRight
<1> QED  BY <1>1, <1>2, <1>3, MemoryInvariance, PTL DEF Spec
-----------------------------------------------------------------------------
(* What a start rebuilds *)

Newer(m) == {n \in table : CreatedAt[n] > CreatedAt[m]}

\* The reindexing has dealt with the memory, or its pages have divided it from a tie.
Rebuilt(m) == m \in DOMAIN vectors \cup unembedded \cup split

\* Calls under way end with their process; those that have stored a vector still have it.
\* The pages read so far have dealt with as many of the newest rows as the offset says,
\* and a process that serves has dealt with everything that was stored.
RecallInv ==
  /\ stage # "serving" => \A m \in Memories : add[m] \notin {"embedding", "saving", "committed"}
  /\ \A m \in Memories : add[m] \in {"saving", "committed"} => m \in DOMAIN vectors
  /\ stage = "reindexing" /\ aborted = "no" =>
       \A m \in table : Cardinality(Newer(m)) < offset => Rebuilt(m)
  /\ stage = "serving" /\ aborted = "no" =>
       \A m \in Memories : add[m] = "stored" => Rebuilt(m)

\* A listing of the table holds each row once.
LEMMA ListingType ==
  ASSUME TypeOK, NEW rows \in Listings
  PROVE  /\ Cardinality(table) \in Nat /\ IsFiniteSet(table)
         /\ rows \in [1..Cardinality(table) -> table]
         /\ rows \in Seq(table) /\ Len(rows) = Cardinality(table) /\ DOMAIN rows = 1..Cardinality(table)
         /\ \A i, j \in DOMAIN rows : i # j => rows[i] # rows[j]
         /\ \A i, j \in DOMAIN rows : i < j => CreatedAt[rows[i]] >= CreatedAt[rows[j]]
         /\ \A m \in table : \E i \in DOMAIN rows : rows[i] = m
<1>1. Cardinality(table) \in Nat /\ IsFiniteSet(table)
  BY MemoriesFinite DEF TypeOK
<1>2. /\ rows \in [1..Cardinality(table) -> table]
      /\ \A i, j \in 1..Cardinality(table) : i # j => rows[i] # rows[j]
      /\ \A i, j \in DOMAIN rows : i < j => CreatedAt[rows[i]] >= CreatedAt[rows[j]]
  BY DEF Listings, SetToSeqs
<1>3. rows \in Seq(table) /\ Len(rows) = Cardinality(table) /\ DOMAIN rows = 1..Cardinality(table)
  BY <1>1, <1>2
<1>4. \A m \in table : \E i \in 1..Cardinality(table) : rows[i] = m
  <2> DEFINE D == 1..Cardinality(table)
  <2>1. rows \in Injection(D, table)
    BY <1>2 DEF Injection, IsInjective
  <2>2. Cardinality(D) = Cardinality(table)
    <3>1. Cardinality(1..Cardinality(table)) = IF 1 > Cardinality(table) THEN 0
                                               ELSE Cardinality(table) - 1 + 1
      BY <1>1, FS_Interval
    <3> QED  BY <1>1, <3>1
  <2>3. rows \in Surjection(D, table)
    BY <1>1, <2>1, <2>2, FS_Injection
  <2> QED  BY <2>3 DEF Surjection
<1> QED  BY <1>1, <1>2, <1>3, <1>4

\* In a listing a row comes after all those that are newer, and at the first place after
\* them there is a row of its own created_at: the first of its tie.
LEMMA PlaceInListing ==
  ASSUME TypeOK, NEW rows \in Listings, NEW i \in DOMAIN rows, NEW k,
         k = Cardinality(Newer(rows[i]))
  PROVE  /\ k \in Nat /\ k < i /\ k + 1 \in DOMAIN rows
         /\ CreatedAt[rows[k + 1]] = CreatedAt[rows[i]]
<1> DEFINE m == rows[i]
<1>1. /\ Cardinality(table) \in Nat /\ DOMAIN rows = 1..Cardinality(table)
      /\ rows \in [DOMAIN rows -> table]
      /\ table \subseteq Memories /\ \A n \in Memories : CreatedAt[n] \in Nat
  BY ListingType, MemoryAssumption DEF TypeOK
<1>2. \A j, l \in DOMAIN rows : j < l => CreatedAt[rows[j]] >= CreatedAt[rows[l]]
  BY ListingType
<1>3. \A j, l \in DOMAIN rows : rows[j] = rows[l] => j = l
  BY ListingType
<1>4. \A n \in table : \E j \in DOMAIN rows : rows[j] = n
  BY ListingType
<1>5. /\ m \in table /\ Newer(m) \subseteq table /\ k = Cardinality(Newer(m))
      /\ IsFiniteSet(Newer(m)) /\ k \in Nat
  <2>1. m \in table /\ Newer(m) \subseteq table
    BY <1>1 DEF Newer
  <2>2. Newer(m) \in SUBSET Memories
    BY <1>1, <2>1
  <2> QED  BY <2>1, <2>2, MemoriesFinite
<1>6. ASSUME NEW j \in Nat
      PROVE  IsFiniteSet(1..j) /\ Cardinality(1..j) = j
  <2>1. IsFiniteSet(1..j) /\ Cardinality(1..j) = IF 1 > j THEN 0 ELSE j - 1 + 1
    BY FS_Interval
  <2> QED  BY <2>1
<1>7. ASSUME NEW j \in DOMAIN rows, rows[j] \in Newer(m)
      PROVE  j <= k
  <2> DEFINE f == [l \in 1..j |-> rows[l]]
  <2>1. j \in Nat /\ 1..j \subseteq DOMAIN rows
    BY <1>1
  <2>2. ASSUME NEW l \in 1..j
        PROVE  rows[l] \in Newer(m)
    <3>1. l \in DOMAIN rows /\ (l < j \/ l = j)
      BY <2>1
    <3>2. CreatedAt[rows[l]] >= CreatedAt[rows[j]]
      BY <1>1, <1>2, <3>1
    <3>3. CreatedAt[rows[j]] > CreatedAt[m]
      BY <1>7 DEF Newer
    <3> QED  BY <1>1, <1>5, <3>1, <3>2, <3>3 DEF Newer
  <2>3. f \in Injection(1..j, Newer(m))
    BY <1>3, <2>1, <2>2 DEF Injection, IsInjective
  <2>4. Cardinality(1..j) <= Cardinality(Newer(m))
    <3> HIDE DEF f
    <3> QED  BY <1>5, <2>3, FS_Injection
  <2> QED  BY <1>5, <1>6, <2>1, <2>4
<1>8. k < i
  <2> DEFINE S == 1..(i - 1)
             f == [j \in S |-> rows[j]]
             R == {rows[j] : j \in S}
  <2>1. i \in Nat \ {0} /\ i - 1 \in Nat /\ S \subseteq DOMAIN rows
    BY <1>1
  <2>2. Newer(m) \subseteq R
    <3> SUFFICES ASSUME NEW n \in Newer(m) PROVE n \in R
      OBVIOUS
    <3>1. n \in table /\ CreatedAt[n] > CreatedAt[m]
      BY DEF Newer
    <3>2. PICK j \in DOMAIN rows : rows[j] = n
      BY <1>4, <3>1
    <3>3. ~(i < j) /\ i # j
      BY <1>1, <1>2, <1>5, <3>1, <3>2
    <3>4. j \in S
      BY <1>1, <2>1, <3>3
    <3> QED  BY <3>2, <3>4
  <2>3. f \in Surjection(S, R)
    BY DEF Surjection
  <2>4. IsFiniteSet(S) /\ Cardinality(S) = i - 1
    BY <1>6, <2>1
  <2>5. IsFiniteSet(R) /\ Cardinality(R) <= i - 1
    <3> HIDE DEF f, S, R
    <3> QED  BY <2>3, <2>4, FS_Surjection
  <2>6. Cardinality(Newer(m)) <= Cardinality(R) /\ Cardinality(R) \in Nat
    <3> HIDE DEF R
    <3> QED  BY <2>2, <2>5, FS_Subset, FS_CardinalityType
  <2> QED  BY <1>5, <2>1, <2>5, <2>6
<1>9. k + 1 \in DOMAIN rows /\ (k + 1 < i \/ k + 1 = i)
  BY <1>1, <1>5, <1>8
<1>10. ~(CreatedAt[rows[k + 1]] > CreatedAt[m])
  <2>1. rows[k + 1] \notin Newer(m)
    <3>1. ~(k + 1 <= k)
      BY <1>5
    <3> QED  BY <1>7, <1>9, <3>1
  <2> QED  BY <1>1, <1>9, <2>1 DEF Newer
<1>11. CreatedAt[rows[k + 1]] >= CreatedAt[m]
  BY <1>1, <1>2, <1>5, <1>9
<1>12. CreatedAt[rows[k + 1]] \in Nat /\ CreatedAt[m] \in Nat
  BY <1>1, <1>5, <1>9
<1> QED  BY <1>5, <1>8, <1>9, <1>10, <1>11, <1>12

\* A memory of the table none of whose tie is left for a later page is on the pages so
\* far, or a border of this page divides it from one of its tie.
LEMMA PageDividesOrHolds ==
  ASSUME Inv, NEW rows \in Listings, NEW m \in table,
         offset <= Cardinality(Newer(m)), Cardinality(Newer(m)) < offset + PageSize
  PROVE  (\E j \in DOMAIN Page(rows) : Page(rows)[j] = m) \/ m \in DividedBy(Page(rows))
<1> USE DEF Inv
<1> DEFINE k == Cardinality(Newer(m))
<1>1. PICK i \in DOMAIN rows : rows[i] = m
  BY ListingType
<1>2. /\ k \in Nat /\ k < i /\ k + 1 \in DOMAIN rows
      /\ CreatedAt[rows[k + 1]] = CreatedAt[m]
  BY <1>1, PlaceInListing
<1>3. /\ offset \in Nat /\ PageSize \in Nat \ {0} /\ rows \in Seq(table)
      /\ Len(rows) \in Nat /\ DOMAIN rows = 1..Len(rows)
  BY ListingType, MemoryAssumption DEF TypeOK
<1>4. /\ (k + 1) - offset \in DOMAIN Page(rows)
      /\ Page(rows)[(k + 1) - offset] = rows[k + 1]
  <2> HIDE DEF k
  <2>1. offset <= k /\ k < offset + PageSize
    BY DEF k
  <2> QED  BY <1>2, <1>3, <2>1 DEF Page, AtMost
<1>5. Page(rows) \in Seq(table)
  <2>1. \A j \in DOMAIN Page(rows) : Page(rows)[j] \in table
    BY PageOfTable
  <2>2. Page(rows) \in Seq(table)
    BY <1>3 DEF Page, AtMost
  <2> QED  BY <2>2
<1> QED
  <2>1. CASE m \in ToSet(Page(rows))
    BY <2>1 DEF ToSet
  <2>2. CASE m \notin ToSet(Page(rows))
    BY <1>2, <1>4, <2>2 DEF DividedBy
  <2> QED  BY <2>1, <2>2

\* A page that is not abandoned deals with its rows; the last one leaves no row behind.
LEMMA PageRebuilds ==
  ASSUME Inv, RecallInv, ReindexPage
  PROVE  RecallInv'
<1> USE DEF Inv
<1>1. PICK rows \in Listings :
        \E outcome \in [DOMAIN Page(rows) -> {"vector", "refused", "fails"}] :
          LET refused == {i \in DOMAIN Page(rows) : outcome[i] = "refused"}
              stored  == {i \in DOMAIN Page(rows) : outcome[i] = "vector" /\ \A j \in refused : i < j}
          IN /\ vectors' = Upserted({Page(rows)[i] : i \in stored})
             /\ unembedded' = unembedded \cup
                                {Page(rows)[i] : i \in {j \in DOMAIN Page(rows) : outcome[j] # "vector"}}
             /\ IF refused = {}
                THEN Continues(Page(rows)) /\ UNCHANGED aborted
                ELSE stage' = "serving" /\ aborted' = "vector" /\ UNCHANGED offset
             /\ split' = split \cup DividedBy(Page(rows))
  BY DEF ReindexPage
<1>2. /\ DOMAIN vectors \subseteq DOMAIN vectors' /\ unembedded \subseteq unembedded'
      /\ split' = split \cup DividedBy(Page(rows))
      /\ aborted' = "no" =>
           /\ aborted = "no" /\ Continues(Page(rows))
           /\ \A i \in DOMAIN Page(rows) : Page(rows)[i] \in DOMAIN vectors' \cup unembedded'
  <2>1. PICK outcome \in [DOMAIN Page(rows) -> {"vector", "refused", "fails"}] :
          LET refused == {i \in DOMAIN Page(rows) : outcome[i] = "refused"}
              stored  == {i \in DOMAIN Page(rows) : outcome[i] = "vector" /\ \A j \in refused : i < j}
          IN /\ vectors' = Upserted({Page(rows)[i] : i \in stored})
             /\ unembedded' = unembedded \cup
                                {Page(rows)[i] : i \in {j \in DOMAIN Page(rows) : outcome[j] # "vector"}}
             /\ IF refused = {}
                THEN Continues(Page(rows)) /\ UNCHANGED aborted
                ELSE stage' = "serving" /\ aborted' = "vector" /\ UNCHANGED offset
             /\ split' = split \cup DividedBy(Page(rows))
    BY <1>1
  <2> DEFINE refused == {i \in DOMAIN Page(rows) : outcome[i] = "refused"}
             stored  == {i \in DOMAIN Page(rows) : outcome[i] = "vector" /\ \A j \in refused : i < j}
  <2>2. DOMAIN vectors' = {Page(rows)[i] : i \in stored} \cup DOMAIN vectors
    BY <2>1 DEF Upserted
  <2>3. ASSUME aborted' = "no"
        PROVE  refused = {} /\ aborted = "no" /\ Continues(Page(rows))
    BY <2>1, <2>3
  <2>4. ASSUME aborted' = "no", NEW i \in DOMAIN Page(rows)
        PROVE  Page(rows)[i] \in DOMAIN vectors' \cup unembedded'
    <3>1. CASE outcome[i] = "vector"
      <4>1. i \in stored
        BY <2>3, <2>4, <3>1
      <4> QED  BY <2>2, <4>1
    <3>2. CASE outcome[i] # "vector"
      BY <2>1, <3>2
    <3> QED  BY <3>1, <3>2
  <2>5. unembedded \subseteq unembedded' /\ split' = split \cup DividedBy(Page(rows))
    BY <2>1
  <2>6. DOMAIN vectors \subseteq DOMAIN vectors'
    BY <2>2
  <2> QED  BY <2>3, <2>4, <2>5, <2>6
<1>3. /\ stage = "reindexing" /\ UNCHANGED <<table, add>>
      /\ offset \in Nat /\ PageSize \in Nat \ {0}
  BY MemoryAssumption DEF ReindexPage, TypeOK
<1>4. ASSUME aborted' = "no", NEW m \in table, Cardinality(Newer(m)) < offset + PageSize
      PROVE  Rebuilt(m)'
  <2>1. Cardinality(Newer(m)) \in Nat
    BY MemoriesFinite DEF Newer, TypeOK
  <2>2. CASE Cardinality(Newer(m)) < offset
    <3>1. Rebuilt(m)
      BY <1>2, <1>3, <1>4, <2>2 DEF RecallInv
    <3> QED  BY <1>2, <3>1 DEF Rebuilt
  <2>3. CASE offset <= Cardinality(Newer(m))
    <3>1. (\E j \in DOMAIN Page(rows) : Page(rows)[j] = m) \/ m \in DividedBy(Page(rows))
      BY <1>4, <2>3, PageDividesOrHolds
    <3> QED  BY <1>2, <1>4, <3>1 DEF Rebuilt
  <2> QED  BY <1>3, <2>1, <2>2, <2>3
<1>5. ASSUME stage' = "reindexing", aborted' = "no", NEW m \in table', Cardinality(Newer(m)') < offset'
      PROVE  Rebuilt(m)'
  <2>1. offset' = offset + PageSize
    BY <1>2, <1>5 DEF Continues
  <2>2. Newer(m)' = Newer(m) /\ m \in table
    BY <1>3, <1>5 DEF Newer
  <2> QED  BY <1>4, <1>5, <2>1, <2>2
<1>6. ASSUME stage' = "serving", aborted' = "no", NEW m \in Memories, add[m] = "stored"
      PROVE  Rebuilt(m)'
  <2>1. Len(Page(rows)) < PageSize
    BY <1>2, <1>3, <1>6 DEF Continues
  <2>2. m \in table
    BY <1>6 DEF CommittedInTable
  <2>3. PICK i \in DOMAIN rows : rows[i] = m
    BY <2>2, ListingType
  <2>4. i \in Nat /\ Len(rows) \in Nat /\ i <= Len(rows) /\ rows \in Seq(table)
    BY ListingType
  <2>5. i <= offset + PageSize
    BY <1>3, <2>1, <2>4 DEF Page, AtMost
  <2>6. Cardinality(Newer(m)) \in Nat /\ Cardinality(Newer(m)) < i
    BY <2>3, PlaceInListing
  <2>7. Cardinality(Newer(m)) < offset + PageSize
    BY <1>3, <2>4, <2>5, <2>6
  <2> QED  BY <1>4, <1>6, <2>2, <2>7
<1>7. \A m \in Memories : add'[m] \notin {"embedding", "saving", "committed"}
  BY <1>3 DEF RecallInv
<1>8. stage' \in {"reindexing", "serving"}
  BY <1>1, <1>3 DEF Continues
<1> QED  BY <1>3, <1>5, <1>6, <1>7, <1>8 DEF RecallInv

LEMMA StepRecall ==
  ASSUME Inv, Inv', RecallInv, [Next]_vars
  PROVE  RecallInv'
<1> USE DEF Inv
<1>1. CASE ReindexPage
  BY <1>1, PageRebuilds
<1>2. CASE ReindexFails
  BY <1>2 DEF ReindexFails, RecallInv, Rebuilt
<1>3. CASE \E m \in Memories : Store(m)
  <2>1. PICK m \in Memories : Store(m)
    BY <1>3
  <2>2. stage = "serving" /\ SameReindex
    BY <2>1 DEF Store, Add, EmbeddingFails, Embedded, SaveCommits, SaveAnswers, SaveFails, RecallInv,
                SameReindex
  <2>3. add \in [Memories -> {"absent", "embedding", "saving", "committed", "stored", "rejected", "lost"}]
    BY DEF TypeOK
  <2>4. CASE Add(m) \/ EmbeddingFails(m)
    BY <2>2, <2>3, <2>4 DEF Add, EmbeddingFails, Goes, SameReindex, RecallInv, Rebuilt
  <2>5. CASE Embedded(m)
    <3>1. DOMAIN vectors' = {m} \cup DOMAIN vectors
      BY <2>5 DEF Embedded, Upserted
    <3> QED  BY <2>2, <2>3, <2>5, <3>1 DEF Embedded, Goes, SameReindex, RecallInv, Rebuilt
  <2>6. CASE SaveCommits(m)
    BY <2>2, <2>3, <2>6 DEF SaveCommits, Goes, SameReindex, RecallInv, Rebuilt
  <2>7. CASE SaveAnswers(m)
    BY <2>2, <2>3, <2>7 DEF SaveAnswers, Goes, SameReindex, RecallInv, Rebuilt
  <2>8. CASE SaveFails(m)
    <3>1. DOMAIN vectors' = DOMAIN vectors \ {m}
      BY <2>8 DEF SaveFails, Deleted
    <3> QED  BY <2>2, <2>3, <2>8, <3>1 DEF SaveFails, Goes, SameReindex, RecallInv, Rebuilt
  <2> QED  BY <2>1, <2>4, <2>5, <2>6, <2>7, <2>8 DEF Store
<1>4. CASE Query \/ UNCHANGED vars
  <2>1. UNCHANGED <<stage, table, vectors, add, offset, unembedded, aborted, split>>
    BY <1>4 DEF Query, Ask, Search, Answer, QueryFails, SameReindex, vars
  <2> QED  BY <2>1 DEF RecallInv, Rebuilt, Newer
<1>5. CASE Crash
  BY <1>5 DEF Crash, RecallInv, TypeOK
<1>6. CASE Restart
  <2>1. \A m \in table : Cardinality(Newer(m)) \in Nat
    BY MemoriesFinite DEF Newer, TypeOK
  <2>2. \A m \in table' : ~(Cardinality(Newer(m)') < offset')
    BY <1>6, <2>1 DEF Restart, Newer
  <2> QED  BY <1>6, <2>2 DEF Restart, RecallInv
<1> QED  BY <1>1, <1>2, <1>3, <1>4, <1>5, <1>6 DEF Next, Reindex

\* Every memory whose call resolved can be found by a query of its own scope and type,
\* also after crashes and starts, if the last start embedded it and was not abandoned and
\* no border of its pages divided the memory from one with the same created_at; however
\* many rows a page has, and however many rows are of one time.
THEOREM RecallsStored == Spec => []Recallable
<1>1. Init => RecallInv
  BY DEF Init, RecallInv
<1>2. Inv /\ Inv' /\ RecallInv /\ [Next]_vars => RecallInv'
  BY StepRecall
<1>3. Inv /\ RecallInv => Recallable
  <2> SUFFICES ASSUME Inv, RecallInv, NEW m \in Memories, stage = "serving", add[m] = "stored",
                      m \notin unembedded \cup split, aborted = "no"
               PROVE  m \in table /\ Found(m)
    BY DEF Recallable
  <2>1. m \in table /\ m \in DOMAIN vectors
    BY DEF Inv, CommittedInTable, RecallInv, Rebuilt
  <2>2. vectors[m] = Metadata(m)
    BY <2>1 DEF Inv, MetadataRight
  <2> QED  BY <2>1, <2>2 DEF Found, Matches, Metadata
<1> QED  BY <1>1, <1>2, <1>3, MemoryInvariance, PTL DEF Spec
=============================================================================
