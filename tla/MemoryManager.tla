--------------------------- MODULE MemoryManager ---------------------------
(***************************************************************************)
(* memory/: MemoryManager over PostgresMemoryRepository, whose table stays *)
(* when the process dies, and LocalVectorStore, whose vectors go with it   *)
(* and are rebuilt page by page when server/container.ts starts the next   *)
(* process.  Every memory has an id of its own (randomUUID, prefixed with  *)
(* its scope by ScopedMemoryManager) and is added once.  Texts, vectors    *)
(* and scores are left out: any matching record may be nearest to a query. *)
(* lastAccessedAt, which nothing reads, is left out with its updates, so   *)
(* queries change nothing and one at a time is enough.                     *)
(***************************************************************************)
EXTENDS Integers, FiniteSets, SequencesExt

CONSTANTS
  Memories,
  Scopes,         \* tenants
  Types,          \* types of memories
  ScopeOf,        \* scope that a memory's id is prefixed with
  TypeOf,
  CreatedAt,      \* a memory's created_at
  PageSize,       \* rows that the reindexing of the embeddings reads at a time
  DefaultLimit,   \* of a query without a valid limit
  MaxQueryLimit,
  RawLimits       \* limits asked for, in halves

ASSUME MemoryAssumption ==
  /\ IsFiniteSet(Memories)
  /\ ScopeOf \in [Memories -> Scopes]
  /\ TypeOf \in [Memories -> Types]
  /\ CreatedAt \in [Memories -> Nat]
  /\ PageSize \in Nat \ {0}
  /\ DefaultLimit \in Nat \ {0}
  /\ MaxQueryLimit \in Nat \ {0}
  /\ RawLimits \subseteq Int

VARIABLES
  stage,        \* of the process
  table,        \* the rows in Postgres
  vectors,      \* LocalVectorStore: the metadata of each id that has a vector
  add,          \* how far the call that adds a memory has got
  offset,       \* where the next page of the reindexing starts
  unembedded,   \* history: memories whose embedding failed in the reindexing
  aborted,      \* history: what the reindexing was abandoned for
  split,        \* history: memories kept off a page that held their created_at
  pages,        \* history: how many pages the reindexing has read
  query         \* the query in progress, or the last one

vars == <<stage, table, vectors, add, offset, unembedded, aborted, split, pages,
          query>>

NoQuery == [stage |-> "none"]
Queries == [stage : {"embedding"}, scope : Scopes, types : SUBSET Types, limit : Nat]
InDatabase == [stage : {"reading", "answered"}, scope : Scopes, types : SUBSET Types,
               limit : Nat, candidates : SUBSET Memories, promised : Int]

TypeOK ==
  /\ stage \in {"down", "reindexing", "serving"}
  /\ table \subseteq Memories
  /\ DOMAIN vectors \subseteq Memories
  /\ vectors \in [DOMAIN vectors -> [scope : Scopes, type : Types]]
  /\ add \in [Memories -> {"absent", "embedding", "saving", "committed", "stored", "rejected", "lost"}]
  /\ offset \in Nat
  /\ unembedded \subseteq Memories
  /\ aborted \in {"no", "database", "vector"}
  /\ split \subseteq Memories
  /\ pages \in Nat
  /\ query \in {NoQuery} \cup Queries \cup InDatabase

Init ==
  /\ stage = "reindexing"
  /\ table = {}
  /\ vectors = <<>>
  /\ add = [m \in Memories |-> "absent"]
  /\ offset = 0
  /\ unembedded = {}
  /\ aborted = "no"
  /\ split = {}
  /\ pages = 0
  /\ query = NoQuery

AtMost(i, j) == IF i < j THEN i ELSE j
-----------------------------------------------------------------------------
(* LocalVectorStore *)

\* What both writers store with a vector: the scope is read off the id.
Metadata(m) == [scope |-> ScopeOf[m], type |-> TypeOf[m]]

\* A record passes the filter of a query (and a mutant that leaves the scope out).
MatchesType(m, q) == q.types = {} \/ vectors[m].type \in q.types
Matches(m, q) == /\ vectors[m].scope = q.scope
                 /\ q.types = {} \/ vectors[m].type \in q.types

Matching(q) == {m \in DOMAIN vectors : Matches(m, q)}

\* The sets of nearest records that a query may find (and a mutant that filters
\* what it found).
NearestThenFiltered(q) ==
  {C \cap Matching(q) : C \in {D \in SUBSET DOMAIN vectors :
                               Cardinality(D) = AtMost(q.limit, Cardinality(DOMAIN vectors))}}
Nearest(q) ==
  {C \in SUBSET Matching(q) : Cardinality(C) = AtMost(q.limit, Cardinality(Matching(q)))}

Upserted(S) ==
  [m \in S \cup DOMAIN vectors |-> IF m \in S THEN Metadata(m) ELSE vectors[m]]
Deleted(m) == [n \in DOMAIN vectors \ {m} |-> vectors[n]]
-----------------------------------------------------------------------------
(* MemoryManager.store *)

Goes(m, phase) == add' = [add EXCEPT ![m] = phase]
SameReindex    == UNCHANGED <<stage, offset, unembedded, aborted, split, pages>>

\* A memory of the wrong type, without content or refused by the poisoning guard is
\* rejected at once; the others wait for their embedding.
Add(m) ==
  /\ stage = "serving"
  /\ add[m] = "absent"
  /\ \E phase \in {"rejected", "embedding"} : Goes(m, phase)
  /\ SameReindex
  /\ UNCHANGED <<table, vectors, query>>

\* No embedding, or one that LocalVectorStore refuses.
EmbeddingFails(m) ==
  /\ add[m] = "embedding"
  /\ Goes(m, "rejected")
  /\ SameReindex
  /\ UNCHANGED <<table, vectors, query>>

\* The vector is stored first, and the row sent to the database.
Embedded(m) ==
  /\ add[m] = "embedding"
  /\ vectors' = Upserted({m})
  /\ Goes(m, "saving")
  /\ SameReindex
  /\ UNCHANGED <<table, query>>

SaveCommits(m) ==
  /\ add[m] = "saving"
  /\ table' = table \cup {m}
  /\ Goes(m, "committed")
  /\ SameReindex
  /\ UNCHANGED <<vectors, query>>

SaveAnswers(m) ==
  /\ add[m] = "committed"
  /\ Goes(m, "stored")
  /\ SameReindex
  /\ UNCHANGED <<table, vectors, query>>

\* Mutant: the vector of a memory that was not saved stays.
SaveFailsOnly(m) ==
  /\ add[m] \in {"saving", "committed"}
  /\ Goes(m, "rejected")
  /\ SameReindex
  /\ UNCHANGED <<table, vectors, query>>

\* save() rejects, before the row is committed or, when the connection is lost,
\* after it: the vector is taken back.
SaveFails(m) ==
  /\ add[m] \in {"saving", "committed"}
  /\ vectors' = Deleted(m)
  /\ Goes(m, "rejected")
  /\ SameReindex
  /\ UNCHANGED <<table, query>>
-----------------------------------------------------------------------------
(* MemoryManager.query, as ScopedMemoryManager calls it *)

\* The limit used for the raw limit of so many halves.
RequestedLimit(halves) ==
  IF halves <= 0 THEN DefaultLimit
  ELSE IF halves > 2 * MaxQueryLimit THEN MaxQueryLimit
  ELSE IF halves < 2 THEN 1 ELSE halves \div 2

Ask(scope, types, halves) ==
  /\ stage = "serving"
  /\ query.stage \in {"none", "answered"}
  /\ query' = [stage |-> "embedding", scope |-> scope, types |-> types,
               limit |-> RequestedLimit(halves)]
  /\ SameReindex
  /\ UNCHANGED <<table, vectors, add>>

\* The query's embedding is there: the vector store is searched at once, and the rows
\* are asked for.  promised: the matching memories that can be read now, up to the
\* limit, less those whose row is still on its way and may take a place in vain.
Search ==
  /\ query.stage = "embedding"
  /\ \E C \in Nearest(query) :
       query' = [stage |-> "reading", scope |-> query.scope, types |-> query.types,
                 limit |-> query.limit, candidates |-> C,
                 promised |-> AtMost(query.limit, Cardinality(Matching(query) \cap table))
                              - Cardinality(Matching(query) \ table)]
  /\ SameReindex
  /\ UNCHANGED <<table, vectors, add>>

\* The rows that exist by now are read, their access times updated and the answer
\* is sorted.
Answer ==
  /\ query.stage = "reading"
  /\ query' = [query EXCEPT !.stage = "answered", !.candidates = @ \cap table]
  /\ SameReindex
  /\ UNCHANGED <<table, vectors, add>>

\* No embedding; or a statement of the database fails, and none is made when there
\* are no candidates.
QueryFails ==
  /\ query.stage = "embedding" \/ (query.stage = "reading" /\ query.candidates # {})
  /\ query' = NoQuery
  /\ SameReindex
  /\ UNCHANGED <<table, vectors, add>>
-----------------------------------------------------------------------------
(* Crash, and start of a process: server/container.ts *)

\* The process dies.  Of the rows on their way the database has committed some.
Crash ==
  /\ stage # "down"
  /\ stage' = "down"
  /\ \E C \in SUBSET {m \in Memories : add[m] = "saving"} : table' = table \cup C
  /\ vectors' = <<>>
  /\ add' = [m \in Memories |-> IF add[m] \in {"embedding", "saving", "committed"}
                                 THEN "lost" ELSE add[m]]
  /\ query' = NoQuery
  /\ UNCHANGED <<offset, unembedded, aborted, split, pages>>

Restart ==
  /\ stage = "down"
  /\ stage' = "reindexing"
  /\ offset' = 0
  /\ unembedded' = {}
  /\ aborted' = "no"
  /\ split' = {}
  /\ pages' = 0
  /\ UNCHANGED <<table, vectors, add, query>>

\* ORDER BY created_at DESC: rows of the same time come in any order, in each query
\* anew.
Listings ==
  {rows \in SetToSeqs(table) :
     \A i, j \in DOMAIN rows : i < j => CreatedAt[rows[i]] >= CreatedAt[rows[j]]}

\* LIMIT and OFFSET.
Page(rows) == SubSeq(rows, offset + 1, AtMost(offset + PageSize, Len(rows)))

\* The rows that a border of the page divides from one of the same created_at: as the
\* pages are ordered by queries of their own, they may be on no page at all.
DividedBy(page) ==
  {m \in table \ ToSet(page) : \E i \in DOMAIN page : CreatedAt[page[i]] = CreatedAt[m]}

\* The process begins to serve, or goes on with the next page (and a mutant that stops
\* after the first page).
StopsAtOnce(page) == stage' = "serving" /\ UNCHANGED offset
Continues(page) ==
  IF Len(page) < PageSize
  THEN stage' = "serving" /\ UNCHANGED offset
  ELSE offset' = offset + PageSize /\ UNCHANGED stage

\* One page: an embedding that fails, retries included, is logged and skipped; the
\* vectors are stored row by row until one is refused, which abandons the reindexing.
ReindexPage ==
  /\ stage = "reindexing"
  /\ \E rows \in Listings : LET page == Page(rows) IN
       \E outcome \in [DOMAIN page -> {"vector", "refused", "fails"}] :
         LET refused == {i \in DOMAIN page : outcome[i] = "refused"}
             stored  == {i \in DOMAIN page : outcome[i] = "vector" /\ \A j \in refused : i < j}
         IN /\ vectors' = Upserted({page[i] : i \in stored})
            /\ unembedded' = unembedded \cup {page[i] : i \in {j \in DOMAIN page : outcome[j] # "vector"}}
            /\ IF refused = {}
               THEN Continues(page) /\ UNCHANGED aborted
               ELSE stage' = "serving" /\ aborted' = "vector" /\ UNCHANGED offset
            /\ split' = split \cup DividedBy(page)
  /\ pages' = pages + 1
  /\ UNCHANGED <<table, add, query>>

\* A page cannot be read: the error is logged and the process serves.
ReindexFails ==
  /\ stage = "reindexing"
  /\ stage' = "serving"
  /\ aborted' = "database"
  /\ UNCHANGED <<table, vectors, add, offset, unembedded, split, pages, query>>

Reindex == ReindexPage \/ ReindexFails

Store(m) ==
  Add(m) \/ EmbeddingFails(m) \/ Embedded(m) \/ SaveCommits(m) \/ SaveAnswers(m) \/ SaveFails(m)

Query ==
  \/ \E s \in Scopes, types \in SUBSET Types, halves \in RawLimits : Ask(s, types, halves)
  \/ Search \/ Answer \/ QueryFails

Next == Reindex \/ (\E m \in Memories : Store(m)) \/ Query \/ Crash \/ Restart

Spec == Init /\ [][Next]_vars
-----------------------------------------------------------------------------
(* Properties *)

\* A memory can be found by a query of its own scope and type.
Found(m) == m \in DOMAIN vectors /\ Matches(m, [scope |-> ScopeOf[m], types |-> {TypeOf[m]}])

\* Every memory whose call resolved can be found, also after crashes and starts, if
\* the last start embedded it and was not abandoned, and no border of its pages
\* divided the memory from one with the same created_at.
Recallable ==
  \A m \in Memories :
    stage = "serving" /\ add[m] = "stored" /\ m \notin unembedded \cup split /\ aborted = "no"
      => m \in table /\ Found(m)

\* A vector has its row in the table, or the call that adds it is about to get the
\* answer of its save: a memory that was not saved leaves no vector behind.
NoPhantomVectors ==
  \A m \in DOMAIN vectors : m \in table \/ add[m] = "saving"

\* An answer holds saved memories of the scope and the types asked for, no more than
\* the limit, whatever was added, taken back and rebuilt meanwhile.
AnswersInScope ==
  query.stage = "answered" =>
    /\ query.candidates \subseteq table
    /\ Cardinality(query.candidates) <= query.limit
    /\ \A m \in query.candidates : /\ ScopeOf[m] = query.scope
                                   /\ query.types = {} \/ TypeOf[m] \in query.types

\* memory/scoped-memory-manager.ts: recall is not diluted by other tenants.  An answer
\* falls short of the limit only by what is not there, and by at most one place for
\* each memory of its own scope that was being saved while it searched.
NotDiluted ==
  query.stage = "answered" => Cardinality(query.candidates) >= query.promised

\* The reindexing of a start comes to an end, full last pages included: the pages
\* before the last one it reads are full, and none is read twice.
PagesBounded == (pages - 1) * PageSize <= Cardinality(table)
=============================================================================
