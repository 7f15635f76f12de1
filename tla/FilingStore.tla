----------------------------- MODULE FilingStore -----------------------------
(***************************************************************************)
(* The filing store of the default application and the requests that use   *)
(* it: src/storage/vector_store.py (vectors, structure graph, payload      *)
(* sidecar, parents, BM25, search cache), src/ingestion/ingest_service.py  *)
(* and context_generator.py (resumable ingest), and src/api/services.py    *)
(* (startup, readiness, the operation lock).                               *)
(*                                                                         *)
(* Each durable write is a step of its own, so a crash or a failure can    *)
(* fall between any two of them.  The operation lock serialises ingest and *)
(* query, so a query is one step, taken only while no ingest runs.         *)
(***************************************************************************)
EXTENDS Naturals, FiniteSets

CONSTANTS
  Report,          \* receipts that can be requested
  Chunk,           \* chunk uids the parser produces
  Source,          \* Source[c]: the report chunk c is parsed from
  Payload,         \* content ids of table payloads
  PayloadOf,       \* PayloadOf[c]: the payload c's node refers to, or NoPayload
  NoPayload,       \* a chunk that carries no table payload
  Query,           \* search cache keys
  BatchSize,       \* chunks per vector batch (64 in the code)
  AllowDegraded,   \* DART_ALLOW_DEGRADED_BM25_ONLY
  StartReports,    \* reports the store may already hold when first seen
  StartManifests,  \* manifest states it may be found in
  LostPayloads,    \* payload contents an earlier accident may have lost
  LostRows,        \* vector rows an earlier accident may have stripped
  LostNodes,       \* graph nodes an earlier accident may have lost
  FaultKinds,      \* which steps may fail
  MaxFaults        \* bound on failures and crashes together

(* The durable steps of an ingest, each named by what it is about to do. *)
Steps == {"scan", "parents", "repair", "context", "add", "progress",
          "payload", "graph", "reindex", "persist", "record"}

\* Steps that build BM25 anew once the graph is committed.
Indexing == {"reindex", "persist"}

ASSUME StoreConstants ==
  /\ IsFiniteSet(Chunk)
  /\ Source \in [Chunk -> Report]
  /\ NoPayload \notin Payload
  /\ PayloadOf \in [Chunk -> Payload \cup {NoPayload}]
  /\ BatchSize \in Nat \ {0}
  /\ AllowDegraded \in BOOLEAN
  /\ StartReports \subseteq Report
  /\ StartManifests \subseteq {"none", "match", "other"}
  /\ LostPayloads \subseteq Payload
  /\ LostRows \subseteq Chunk
  /\ LostNodes \subseteq Chunk
  /\ FaultKinds \subseteq Steps \cup {"crash"}
  /\ MaxFaults \in Nat

VARIABLES
  \* durable: survives a crash
  rows,          \* rows[c]: vector rows whose metadata identifies chunk c
  stripped,      \* chunks whose row has lost its metadata but kept its id
  payloadFile,   \* contents of table_payloads.json
  graphFile,     \* nodes of document_structure_graph.json
  parentFile,    \* reports whose sections are in parents.json
  manifest,      \* store_manifest.json: absent, expected identity, another one
  \* process memory
  proc,          \* "down", "refused" (services without a store), "serving"
  forced,        \* force_bm25_only
  graph, payloads, parents, bm25, cache,
  lagging,       \* history: a BM25 build was lost since BM25 was last built
  readiness,
  \* the ingest request that holds the operation lock
  pc,            \* "idle" when the lock is free, else the next durable step
  request,       \* the reports of the last request
  todo,          \* its reports not yet handled
  current,       \* {} or the report being ingested
  pending,       \* its chunks still to be embedded
  batch,         \* chunks being committed to the graph
  repairing,     \* the graph commit repairs indexed chunks, adding none
  recorded,      \* manifest_recorded
  outcome,       \* how the last ingest ended
  answer,        \* chunks the last served query could draw on
  faults         \* failures and crashes so far

disk    == <<rows, stripped, payloadFile, graphFile, parentFile, manifest>>
memory  == <<graph, payloads, parents, bm25, lagging, cache>>
service == <<proc, forced, readiness>>
work    == <<request, todo, current, pending, batch, repairing, recorded>>
vars    == <<disk, memory, service, work, pc, outcome, answer, faults>>

Modes == {"hybrid", "bm25_fallback", "bm25_only"}

-----------------------------------------------------------------------------
(* What the store can tell about its chunks.                               *)

ChunksOf(r) == {c \in Chunk : Source[c] = r}

PayloadsOf(C) == {PayloadOf[c] : c \in C} \ {NoPayload}

(* Rows a receipt filter finds: list_indexed_chunk_uids. *)
Identified == {c \in Chunk : rows[c] > 0}

Stored == Identified \cup stripped

(* Nodes of G whose payload reference resolves in P. *)
Resolved(G, P) == {c \in G : PayloadOf[c] \in P \cup {NoPayload}}

\* Mutant: a node counts as complete whether its payload survives or not.
Complete_IdIsEnough == graph

Complete == Resolved(graph, payloads)

\* Mutant: a report with vectors is skipped, complete nodes or not.
FullyIndexed_VectorsOnly(r) == ChunksOf(r) \subseteq Identified

(* A report is skipped only when every chunk has a vector and a complete   *)
(* node.                                                                   *)
FullyIndexed(r) == ChunksOf(r) \subseteq Identified \cap Complete

(* Committed provenance, read back from the files. *)
SourceIntegrity ==
  /\ Resolved(graphFile, payloadFile) = graphFile
  /\ Identified \subseteq graphFile
  /\ stripped = {}

Ready(status) == status \in {"compatible", "degraded"}

(* assess_store_readiness: the manifest alone, unless degraded mode. *)
StoreIdentity(bm25Only, index) ==
  CASE manifest = "match"         -> "compatible"
    [] bm25Only /\ index # {}     -> "degraded"
    [] manifest = "none"          -> "missing"
    [] OTHER                      -> "mismatch"

\* Mutant: readiness looks at the manifest only.
ReadinessFor_IdentityOnly(bm25Only, index) == StoreIdentity(bm25Only, index)

(* refresh_readiness: a ready identity still needs intact sources. *)
ReadinessFor(bm25Only, index) ==
  IF Ready(StoreIdentity(bm25Only, index)) /\ ~SourceIntegrity
  THEN "incomplete" ELSE StoreIdentity(bm25Only, index)

-----------------------------------------------------------------------------
(* Search results.  dense are the rows a vector search ranks, each         *)
(* hydrated from the graph; lexical are the documents BM25 ranks.          *)

ResultIn(mode) ==
  [mode    |-> mode,
   dense   |-> IF mode = "hybrid" THEN Identified ELSE {},
   lexical |-> bm25,
   nodes   |-> graph]

Miss == [mode |-> "miss", dense |-> {}, lexical |-> {}, nodes |-> {}]

EmptyCache == [q \in Query |-> Miss]

Entry == [mode : Modes \cup {"miss"}, dense : SUBSET Chunk,
          lexical : SUBSET Chunk, nodes : SUBSET Chunk]

(* Without the degraded setting a failed vector search raises instead of   *)
(* falling back.                                                           *)
SearchModes == IF forced THEN {"bm25_only"}
               ELSE IF AllowDegraded THEN Modes
               ELSE {"hybrid"}

TypeOK ==
  /\ rows \in [Chunk -> Nat]
  /\ stripped \subseteq Chunk
  /\ payloadFile \subseteq Payload
  /\ graphFile \subseteq Chunk
  /\ parentFile \subseteq Report
  /\ manifest \in {"none", "match", "other"}
  /\ proc \in {"down", "refused", "serving"}
  /\ forced \in BOOLEAN
  /\ graph \subseteq Chunk
  /\ payloads \subseteq Payload
  /\ parents \subseteq Report
  /\ bm25 \subseteq Chunk
  /\ lagging \in BOOLEAN
  /\ cache \in [Query -> Entry]
  /\ readiness \in {"compatible", "degraded", "missing", "mismatch", "incomplete"}
  /\ pc \in Steps \cup {"idle"}
  /\ request \subseteq Report
  /\ todo \subseteq Report
  /\ current \subseteq Report
  /\ pending \subseteq Chunk
  /\ batch \subseteq Chunk
  /\ repairing \in BOOLEAN
  /\ recorded \in BOOLEAN
  /\ outcome \in {"none", "ok", "failed", "refused", "blocked"}
  /\ answer \subseteq Chunk
  /\ faults \in Nat

-----------------------------------------------------------------------------
(* An existing store holds whole reports, but an earlier accident may have *)
(* emptied payloads, stripped rows or lost nodes.  No process runs.        *)
Init ==
  /\ \E held \in SUBSET StartReports, emptied \in SUBSET LostPayloads,
        bare \in SUBSET LostRows, lost \in SUBSET LostNodes :
       LET content == {c \in Chunk : Source[c] \in held}
       IN  /\ rows = [c \in Chunk |-> IF c \in content \ bare THEN 1 ELSE 0]
           /\ stripped = content \cap bare
           /\ payloadFile = PayloadsOf(content) \ emptied
           /\ graphFile = content \ lost
           /\ parentFile = held
  /\ manifest \in StartManifests
  /\ proc = "down" /\ forced = FALSE /\ readiness = "missing"
  /\ graph = {} /\ payloads = {} /\ parents = {} /\ bm25 = {}
  /\ lagging = FALSE /\ cache = EmptyCache
  /\ pc = "idle" /\ request = {} /\ todo = {} /\ current = {}
  /\ pending = {} /\ batch = {} /\ repairing = FALSE /\ recorded = FALSE
  /\ outcome = "none" /\ answer = {} /\ faults = 0

-----------------------------------------------------------------------------
(* Startup, shutdown and the operator.                                     *)

StoreMayInitialize ==
  \/ manifest = "match"
  \/ AllowDegraded
  \/ manifest = "none" /\ Stored = {}

(* build_app_services: load every file, index BM25 from the graph or, when *)
(* there is none, from the stored rows, then assess readiness.             *)
Startup ==
  /\ proc = "down"
  /\ StoreMayInitialize
  /\ proc' = "serving"
  /\ forced' = (/\ AllowDegraded
                /\ manifest # "match"
                /\ graphFile \cup Stored # {})
  /\ graph' = graphFile
  /\ payloads' = payloadFile
  /\ parents' = parentFile
  /\ bm25' = IF graphFile # {} THEN graphFile ELSE Stored
  /\ lagging' = FALSE /\ cache' = EmptyCache
  /\ readiness' = ReadinessFor(forced', bm25')
  /\ UNCHANGED <<disk, work, pc, outcome, answer, faults>>

(* An unapproved store keeps the services without a store or agent.        *)
StartupRefused ==
  /\ proc = "down"
  /\ ~StoreMayInitialize
  /\ proc' = "refused"
  /\ readiness' = ReadinessFor(FALSE, {})
  /\ UNCHANGED <<disk, memory, forced, work, pc, outcome, answer, faults>>

(* The process ends, and its memory with it. *)
EndProcess ==
  /\ proc' = "down" /\ forced' = FALSE /\ readiness' = "missing"
  /\ graph' = {} /\ payloads' = {} /\ parents' = {} /\ bm25' = {}
  /\ lagging' = FALSE /\ cache' = EmptyCache
  /\ pc' = "idle" /\ request' = {} /\ todo' = {} /\ current' = {}
  /\ pending' = {} /\ batch' = {} /\ repairing' = FALSE /\ recorded' = FALSE
  /\ outcome' = "none" /\ answer' = {}
  /\ UNCHANGED disk

Shutdown == /\ proc # "down" /\ pc = "idle"
            /\ EndProcess
            /\ UNCHANGED faults

(* The process dies between two durable steps of an ingest. *)
Crash == /\ pc # "idle"
         /\ "crash" \in FaultKinds /\ faults < MaxFaults
         /\ faults' = faults + 1
         /\ EndProcess

(* adopt_store_manifest: the operator approves a legacy store offline.     *)
AdoptManifest ==
  /\ proc # "serving"
  /\ manifest = "none"
  /\ Stored # {}
  /\ manifest' = "match"
  /\ UNCHANGED <<rows, stripped, payloadFile, graphFile, parentFile,
                 memory, service, work, pc, outcome, answer, faults>>

-----------------------------------------------------------------------------
(* Ingest, one durable step at a time.                                     *)

\* Mutant: a manifest of another identity is not refused.
BoundaryRefuses_AnyManifest == manifest = "none" /\ (bm25 # {} \/ Stored # {})

(* _assert_manifest_boundary: another identity, or documents nobody        *)
(* vouched for.                                                            *)
BoundaryRefuses ==
  \/ manifest = "other"
  \/ manifest = "none" /\ (bm25 # {} \/ Stored # {})

StartIngest(req) ==
  /\ proc = "serving" /\ pc = "idle"
  /\ ~BoundaryRefuses
  /\ pc' = "scan"
  /\ request' = req /\ todo' = req
  /\ recorded' = (manifest # "none")
  /\ outcome' = "none"
  /\ UNCHANGED <<disk, memory, service, current, pending, batch, repairing,
                 answer, faults>>

(* A request that ends, however it ends, refreshes readiness.  One that    *)
(* ends where BM25 was to be built leaves BM25 behind the graph.           *)
EndIngest(how) ==
  /\ pc' = "idle" /\ outcome' = how
  /\ lagging' = (lagging \/ pc \in Indexing)
  /\ readiness' = ReadinessFor(forced, bm25)
  /\ todo' = {} /\ current' = {} /\ pending' = {} /\ batch' = {}
  /\ repairing' = FALSE /\ recorded' = FALSE
  /\ UNCHANGED <<disk, graph, payloads, parents, bm25, cache, proc, forced,
                 request, answer>>

RefuseIngest(req) ==
  /\ proc = "serving" /\ pc = "idle"
  /\ BoundaryRefuses
  /\ pc' = pc
  /\ outcome' = "refused" /\ request' = req
  /\ readiness' = ReadinessFor(forced, bm25)
  /\ UNCHANGED <<disk, memory, proc, forced, todo, current, pending, batch,
                 repairing, recorded, answer, faults>>

(* Parse the next report and skip it when it is already complete. *)
SkipReport(r) ==
  /\ pc = "scan" /\ r \in todo
  /\ FullyIndexed(r)
  /\ todo' = todo \ {r}
  /\ UNCHANGED <<disk, memory, service, pc, request, current, pending, batch,
                 repairing, recorded, outcome, answer, faults>>

BeginReport(r) ==
  /\ pc = "scan" /\ r \in todo
  /\ ~FullyIndexed(r)
  /\ pc' = "parents"
  /\ current' = {r}
  /\ UNCHANGED <<disk, memory, service, request, todo, pending, batch,
                 repairing, recorded, outcome, answer, faults>>

\* Mutant: the sections of the current report replace all others.
MergedParents_Replace == current

MergedParents == parents \cup current

(* add_parents: merge, replace the file, publish. *)
AddParents ==
  /\ pc = "parents"
  /\ parentFile' = MergedParents
  /\ parents' = MergedParents
  /\ pc' = "repair"
  /\ UNCHANGED <<rows, stripped, payloadFile, graphFile, manifest, graph,
                 payloads, bm25, lagging, cache, service, work, outcome, answer,
                 faults>>

CurrentChunks == {c \in Chunk : Source[c] \in current}

\* Mutant: a chunk is new when the graph, not the collection, lacks it.
NewChunks_NotInGraph == CurrentChunks \ graph

(* Chunks that need a provider call and a vector. *)
NewChunks == CurrentChunks \ Stored

(* Chunks with a vector whose node is absent or lacks its payload. *)
NodesToRepair == (CurrentChunks \cap Stored) \ Complete

(* repair_indexed_sources: put back metadata that exact ids identify, then *)
(* commit the sidecars of indexed chunks whose node is not complete.       *)
RepairIndexed ==
  /\ pc = "repair"
  /\ stripped \subseteq CurrentChunks
  /\ rows' = [c \in Chunk |-> IF c \in stripped THEN rows[c] + 1 ELSE rows[c]]
  /\ stripped' = {}
  /\ batch' = NodesToRepair
  /\ pending' = NewChunks
  /\ repairing' = (batch' # {})
  /\ pc' = IF batch' # {} THEN "payload"
           ELSE IF pending' # {} THEN "context"
           ELSE "record"
  /\ UNCHANGED <<payloadFile, graphFile, parentFile, manifest, memory, service,
                 request, todo, current, recorded, outcome, answer, faults>>

(* A stripped row of any other report stops the ingest before any call.    *)
RepairBlocked ==
  /\ pc = "repair"
  /\ ~(stripped \subseteq CurrentChunks)
  /\ EndIngest("blocked")
  /\ UNCHANGED faults

(* Context generation calls the provider and stores nothing. *)
GenerateContexts ==
  /\ pc = "context"
  /\ pc' = "add"
  /\ UNCHANGED <<disk, memory, service, work, outcome, answer, faults>>

(* One vector batch.  Embedding comes before the upsert, so an attempt     *)
(* that fails leaves no row, and retrying it is a stuttering step.         *)
AddVectorBatch(b) ==
  /\ pc = "add"
  /\ b \subseteq pending
  /\ Cardinality(b) = IF Cardinality(pending) < BatchSize
                      THEN Cardinality(pending) ELSE BatchSize
  /\ rows' = [c \in Chunk |-> IF c \in b THEN rows[c] + 1 ELSE rows[c]]
  /\ batch' = b
  /\ pending' = pending \ b
  /\ pc' = "progress"
  /\ UNCHANGED <<stripped, payloadFile, graphFile, parentFile, manifest, memory,
                 service, request, todo, current, repairing, recorded, outcome,
                 answer, faults>>

(* on_progress: the first indexed batch records the manifest. *)
ProgressManifest == IF recorded THEN manifest ELSE "match"

RecordProgress ==
  /\ pc = "progress"
  /\ manifest' = ProgressManifest
  /\ recorded' = (recorded \/ manifest' = "match")
  /\ pc' = "payload"
  /\ UNCHANGED <<rows, stripped, payloadFile, graphFile, parentFile, memory,
                 service, request, todo, current, pending, batch, repairing,
                 outcome, answer, faults>>

\* Mutant: payloads no new node refers to are dropped.
PublishedPayloads_OnlyNew == PayloadsOf(batch)

(* The old contents and the new: readers of the old graph stay valid. *)
PublishedPayloads == payloads \cup PayloadsOf(batch)

(* Nodes outside the batch keep a reference, which has to resolve in the   *)
(* payloads already held in memory.                                        *)
CommitBlocked == ~(graph \ batch \subseteq Complete)

(* persist_structure_graph writes the old and the new payloads first.      *)
WritePayloads ==
  /\ pc = "payload"
  /\ ~CommitBlocked
  /\ payloadFile' = PublishedPayloads
  /\ pc' = "graph"
  /\ UNCHANGED <<rows, stripped, graphFile, parentFile, manifest, memory,
                 service, work, outcome, answer, faults>>

WritePayloadsBlocked ==
  /\ pc = "payload"
  /\ CommitBlocked
  /\ EndIngest("blocked")
  /\ UNCHANGED faults

\* Mutant: search results outlive the graph they were read from.
CacheAfterCommit_Kept == cache

CacheAfterCommit == EmptyCache

(* Replacing the graph file is the commit point: memory follows, and the   *)
(* search cache is emptied.  BM25 is built anew after a repair and after   *)
(* the last batch, never between batches.                                  *)
CommitGraph ==
  /\ pc = "graph"
  /\ graphFile' = graph \cup batch
  /\ graph' = graph \cup batch
  /\ payloads' = PublishedPayloads
  /\ cache' = CacheAfterCommit
  /\ batch' = {}
  /\ repairing' = FALSE
  /\ pc' = CASE repairing      -> "reindex"
             [] pending # {}   -> "add"
             [] OTHER          -> "persist"
  /\ UNCHANGED <<rows, stripped, payloadFile, parentFile, manifest, parents,
                 bm25, lagging, service, request, todo, current, pending,
                 recorded, outcome, answer, faults>>

(* repair_indexed_sources rebuilds BM25 once its nodes are committed.      *)
Reindex ==
  /\ pc = "reindex"
  /\ bm25' = graph
  /\ lagging' = FALSE
  /\ pc' = IF pending # {} THEN "context" ELSE "record"
  /\ UNCHANGED <<disk, graph, payloads, parents, cache, service, work, outcome,
                 answer, faults>>

(* add_documents persists the backend, then rebuilds BM25. *)
PersistAndIndex ==
  /\ pc = "persist"
  /\ bm25' = graph
  /\ lagging' = FALSE
  /\ pc' = "record"
  /\ UNCHANGED <<disk, graph, payloads, parents, cache, service, work, outcome,
                 answer, faults>>

(* The report is done; a manifest not yet recorded is written now. *)
FinishReport ==
  /\ pc = "record"
  /\ manifest' = IF recorded THEN manifest ELSE "match"
  /\ recorded' = TRUE
  /\ todo' = todo \ current
  /\ current' = {}
  /\ pc' = "scan"
  /\ UNCHANGED <<rows, stripped, payloadFile, graphFile, parentFile, memory,
                 service, request, pending, batch, repairing, outcome, answer,
                 faults>>

FinishIngest ==
  /\ pc = "scan" /\ todo = {}
  /\ EndIngest("ok")
  /\ UNCHANGED faults

(* Any step of an ingest may fail before its durable effect; the exception *)
(* leaves the request, and readiness is refreshed on the way out.          *)
IngestFails ==
  /\ pc # "idle"
  /\ pc \in FaultKinds
  /\ faults < MaxFaults
  /\ faults' = faults + 1
  /\ EndIngest("failed")

-----------------------------------------------------------------------------
(* A query under the operation lock.  A vector search that fails with no   *)
(* fallback allowed stores nothing.  The answer may still fail after the   *)
(* search has stored its result.                                           *)
Search(q, mode) ==
  /\ proc = "serving" /\ pc = "idle"
  /\ Ready(readiness)
  /\ LET found == IF cache[q].mode # "miss" THEN cache[q] ELSE ResultIn(mode)
     IN  /\ cache' = [cache EXCEPT ![q] = found]
         /\ answer' \in {answer, found.dense \cup found.lexical}
  /\ UNCHANGED <<disk, graph, payloads, parents, bm25, lagging, service, work,
                 pc, outcome, faults>>

ServeQuery == \E q \in Query, mode \in SearchModes : Search(q, mode)

-----------------------------------------------------------------------------
IngestStep ==
  \/ \E r \in Report : SkipReport(r) \/ BeginReport(r)
  \/ AddParents \/ RepairIndexed \/ RepairBlocked \/ GenerateContexts
  \/ \E b \in SUBSET Chunk : AddVectorBatch(b)
  \/ RecordProgress \/ WritePayloads \/ WritePayloadsBlocked \/ CommitGraph
  \/ Reindex \/ PersistAndIndex \/ FinishReport \/ FinishIngest

Next ==
  \/ Startup \/ StartupRefused \/ Shutdown \/ Crash \/ AdoptManifest
  \/ \E req \in SUBSET Report \ {{}} : StartIngest(req) \/ RefuseIngest(req)
  \/ IngestStep \/ IngestFails
  \/ ServeQuery

Spec == Init /\ [][Next]_vars

(* An ingest keeps running, a stopped service is started again, one that   *)
(* came up without its store is restarted, and each report is requested    *)
(* again for as long as requests are accepted.                             *)
FairSpec ==
  /\ Spec
  /\ WF_vars(IngestStep)
  /\ WF_vars(Startup)
  /\ WF_vars(proc = "refused" /\ Shutdown)
  /\ \A r \in Report : SF_vars(StartIngest({r}))

-----------------------------------------------------------------------------
(* Safety.                                                                 *)

(* The payload of every committed node is on disk at every crash point,    *)
(* except contents already lost: graph_persistence.py writes the union of  *)
(* old and new payloads before it replaces the graph.                      *)
CommittedPayloadsKept ==
  PayloadsOf(graphFile) \subseteq payloadFile \cup LostPayloads

(* A chunk never has two vector rows, however often its ingest was broken  *)
(* off and resumed: rows are added without caller ids, so only the resume  *)
(* lookup stands between a retry and a duplicate.                          *)
OneVectorPerChunk ==
  \A c \in Chunk : rows[c] + (IF c \in stripped THEN 1 ELSE 0) <= 1

(* A committed node always has its vector and its parent section: neither  *)
(* a repair nor an interrupted batch commits the graph ahead of them.      *)
CommittedNodesAreBacked ==
  /\ graphFile \subseteq Stored
  /\ \A c \in Stored : Source[c] \in parentFile

(* Between requests a ready store has complete sources on disk: no failed, *)
(* refused or interrupted ingest leaves the service answering from a torn  *)
(* store.                                                                  *)
ReadyMeansIntact ==
  (proc = "serving" /\ pc = "idle" /\ Ready(readiness)) => SourceIntegrity

(* While queries are served, a cached result is the one a search in the    *)
(* same mode would compute now.                                            *)
CacheCoherent ==
  (proc = "serving" /\ pc = "idle" /\ Ready(readiness)) =>
    \A q \in Query : cache[q] # Miss => cache[q] = ResultIn(cache[q].mode)

(* An ingest that reports success has made every requested chunk findable  *)
(* by vector, with its sources complete, and by BM25 too unless a flush or *)
(* BM25 build failed and none has succeeded since: the retry of such an    *)
(* ingest skips the report and builds no BM25.                             *)
SuccessfulIngestIsSearchable ==
  (pc = "idle" /\ outcome = "ok") =>
    \A r \in request : /\ ChunksOf(r) \subseteq Identified \cap Complete
                       /\ lagging \/ ChunksOf(r) \subseteq bm25

(* A store that no manifest vouches for, and that an ingest of ours began, *)
(* holds one vector batch at most: that is all an operator can be asked to *)
(* adopt or discard.                                                       *)
UnmanifestedHoldsOneBatch ==
  (manifest = "none" /\ StartReports = {}) =>
    /\ Cardinality(Stored) <= BatchSize
    /\ graphFile = {}

(* A process in degraded BM25-only mode never writes to the store it could *)
(* not vouch for.                                                          *)
DegradedStoreUntouched == [][forced => UNCHANGED disk]_vars

(* A recovery ingest is never blocked by lost payload contents.            *)
RecoveryNotBlocked == outcome # "blocked"

-----------------------------------------------------------------------------
(* Refinement and progress.                                                *)

(* Chunks whose vector, committed node and payload all survive a crash. *)
Sources == Identified \cap Resolved(graphFile, payloadFile)

Index == INSTANCE SourceIndex WITH sources <- Sources

(* The store is a source index: commits only add sources, and every answer *)
(* is drawn from sources that are complete on disk.                        *)
ImplementsSourceIndex == Index!Spec

Restored == proc = "serving" /\ pc = "idle" /\ Ready(readiness) /\ Sources = Chunk

(* Once the manifest is on disk, repeated ingest completes and serves      *)
(* every report, whatever step earlier attempts died in, and repairs       *)
(* damage that is confined to one report.                                  *)
ManifestedIngestCompletes == (manifest = "match") ~> Restored
=============================================================================
