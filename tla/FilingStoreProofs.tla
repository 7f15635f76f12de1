-------------------------- MODULE FilingStoreProofs --------------------------
(***************************************************************************)
(* Proofs about FilingStore, for every set of reports, chunks and payloads *)
(* and every batch size: the types, the inductive invariant of the stores, *)
(* and from it what a reader can rely on: readiness, search cache,         *)
(* degraded mode, the refinement of SourceIndex, how much an unmanifested  *)
(* store can hold, and what a reported success means.                      *)
(***************************************************************************)
EXTENDS FilingStore, FiniteSetTheorems, TLAPS

-----------------------------------------------------------------------------
(* Types.                                                                  *)

LEMMA InitTypes == Init => TypeOK
<1> USE StoreConstants DEF ChunksOf, PayloadsOf
<1> SUFFICES ASSUME Init PROVE TypeOK
  OBVIOUS
<1>1. PICK held \in SUBSET StartReports, emptied \in SUBSET LostPayloads,
           bare \in SUBSET LostRows, lost \in SUBSET LostNodes :
        LET content == {c \in Chunk : Source[c] \in held}
        IN  /\ rows = [c \in Chunk |-> IF c \in content \ bare THEN 1 ELSE 0]
            /\ stripped = content \cap bare
            /\ payloadFile = PayloadsOf(content) \ emptied
            /\ graphFile = content \ lost
            /\ parentFile = held
  BY DEF Init
<1> DEFINE content == {c \in Chunk : Source[c] \in held}
<1>2. rows \in [Chunk -> Nat]
  BY <1>1
<1>3. payloadFile \subseteq Payload
  BY <1>1
<1>4. /\ stripped \subseteq Chunk /\ graphFile \subseteq Chunk
      /\ parentFile \subseteq Report
  BY <1>1
<1>5. cache \in [Query -> Entry]
  BY DEF Init, EmptyCache, Miss, Entry, Modes
<1>6. manifest \in {"none", "match", "other"}
  BY DEF Init
<1> QED
  BY <1>2, <1>3, <1>4, <1>5, <1>6 DEF Init, TypeOK, Steps

(* Every value readiness can be given is one of its states.                *)
LEMMA ReadinessType ==
  ASSUME NEW b, NEW S
  PROVE  ReadinessFor(b, S)
           \in {"compatible", "degraded", "missing", "mismatch", "incomplete"}
BY DEF ReadinessFor, StoreIdentity

LEMMA EndTypes ==
  ASSUME TypeOK, NEW how \in {"ok", "failed", "blocked"}, EndIngest(how),
         faults' \in Nat
  PROVE  TypeOK'
BY ReadinessType DEF TypeOK, EndIngest, disk

LEMMA StepTypes == TypeOK /\ [Next]_vars => TypeOK'
<1> SUFFICES ASSUME TypeOK, [Next]_vars PROVE TypeOK'
  OBVIOUS
<1> USE StoreConstants DEF disk, memory, service, work
<1>1. CASE UNCHANGED vars
  BY <1>1 DEF vars, TypeOK
<1>2. CASE Startup
  BY <1>2, ReadinessType
  DEF Startup, TypeOK, EmptyCache, Miss, Entry, Modes, Stored, Identified
<1>3. CASE StartupRefused
  BY <1>3, ReadinessType DEF StartupRefused, TypeOK
<1>4. CASE Shutdown \/ Crash
  <2>1. EndProcess /\ faults' \in Nat
    BY <1>4 DEF Shutdown, Crash, TypeOK
  <2>2. cache' \in [Query -> Entry]
    BY <2>1 DEF EndProcess, EmptyCache, Miss, Entry, Modes
  <2> QED BY <2>1, <2>2 DEF EndProcess, TypeOK
<1>5. CASE AdoptManifest
  BY <1>5 DEF AdoptManifest, TypeOK
<1>6. ASSUME NEW req \in SUBSET Report \ {{}}, StartIngest(req) PROVE TypeOK'
  BY <1>6 DEF StartIngest, TypeOK, Steps
<1>7. ASSUME NEW req \in SUBSET Report \ {{}}, RefuseIngest(req) PROVE TypeOK'
  BY <1>7, ReadinessType DEF RefuseIngest, TypeOK
<1>8. ASSUME NEW r \in Report, SkipReport(r) \/ BeginReport(r) PROVE TypeOK'
  BY <1>8 DEF SkipReport, BeginReport, TypeOK, Steps
<1>9. CASE AddParents
  BY <1>9 DEF AddParents, MergedParents, TypeOK, Steps
<1>10. CASE RepairIndexed
  BY <1>10 DEF RepairIndexed, NodesToRepair, NewChunks, CurrentChunks, TypeOK, Steps
<1>11. CASE RepairBlocked \/ WritePayloadsBlocked \/ FinishIngest
  BY <1>11, EndTypes DEF RepairBlocked, WritePayloadsBlocked, FinishIngest, TypeOK
<1>12. CASE GenerateContexts
  BY <1>12 DEF GenerateContexts, TypeOK, Steps
<1>13. ASSUME NEW b \in SUBSET Chunk, AddVectorBatch(b) PROVE TypeOK'
  BY <1>13 DEF AddVectorBatch, TypeOK, Steps
<1>14. CASE RecordProgress
  BY <1>14 DEF RecordProgress, ProgressManifest, TypeOK, Steps
<1>15. CASE WritePayloads
  BY <1>15 DEF WritePayloads, PublishedPayloads, PayloadsOf, TypeOK, Steps
<1>16. CASE CommitGraph
  <2>1. cache' \in [Query -> Entry]
    BY <1>16 DEF CommitGraph, CacheAfterCommit, EmptyCache, Miss, Entry, Modes
  <2>2. payloads' \subseteq Payload
    BY <1>16 DEF CommitGraph, PublishedPayloads, PayloadsOf, TypeOK
  <2> QED BY <1>16, <2>1, <2>2 DEF CommitGraph, TypeOK, Steps
<1>17. CASE Reindex \/ PersistAndIndex
  <2>1. CASE Reindex
    BY <2>1 DEF Reindex, TypeOK, Steps
  <2>2. CASE PersistAndIndex
    BY <2>2 DEF PersistAndIndex, TypeOK, Steps
  <2> QED BY <1>17, <2>1, <2>2
<1>18. CASE FinishReport
  BY <1>18 DEF FinishReport, TypeOK, Steps
<1>19. CASE IngestFails
  BY <1>19, EndTypes DEF IngestFails, TypeOK
<1>20. ASSUME NEW q \in Query, NEW mode \in SearchModes, Search(q, mode)
       PROVE  TypeOK'
  <2>1. ResultIn(mode) \in Entry
    BY DEF ResultIn, Entry, SearchModes, Modes, Identified, TypeOK
  <2>2. PICK found \in Entry : /\ cache' = [cache EXCEPT ![q] = found]
                               /\ answer' \in {answer, found.dense \cup found.lexical}
    BY <1>20, <2>1 DEF Search, TypeOK
  <2>3. cache' \in [Query -> Entry] /\ answer' \subseteq Chunk
    BY <2>2 DEF TypeOK, Entry
  <2> QED BY <1>20, <2>3 DEF Search, TypeOK
<1> QED
  BY <1>1, <1>2, <1>3, <1>4, <1>5, <1>6, <1>7, <1>8, <1>9, <1>10, <1>11, <1>12,
     <1>13, <1>14, <1>15, <1>16, <1>17, <1>18, <1>19, <1>20
  DEF Next, IngestStep, ServeQuery

(* The store, its caches and the ingest in progress always have their      *)
(* types: no interrupted or refused request leaves a value out of range.   *)
THEOREM TypesHold == Spec => []TypeOK
  BY InitTypes, StepTypes, PTL DEF Spec

-----------------------------------------------------------------------------
(* The inductive invariant.                                                *)

(* What memory knows while the service runs is what is on disk, but for    *)
(* payloads whose graph was never committed.                               *)
MemoryFollowsDisk ==
  /\ pc # "idle" => proc = "serving"
  /\ proc = "serving" => /\ graph = graphFile
                         /\ payloads \subseteq payloadFile
                         /\ parents = parentFile

(* Which registers of the ingest mean something at which step.             *)
WorkInStep ==
  /\ pending \subseteq CurrentChunks \ Stored
  /\ pc \notin {"context", "add", "progress", "payload", "graph", "reindex"} =>
       pending = {}
  /\ pc \in {"progress", "payload", "graph"} => batch \subseteq Stored
  /\ pc \notin {"progress", "payload", "graph"} => batch = {}
  /\ pc \notin {"idle", "scan", "parents"} => current \subseteq parentFile
  /\ pc \in {"idle", "scan"} => current = {}

(* The payload file is one step ahead of the graph file. *)
PayloadsLead ==
  pc = "graph" => /\ payloadFile = PublishedPayloads
                  /\ ~CommitBlocked

IInv ==
  /\ TypeOK
  /\ MemoryFollowsDisk
  /\ WorkInStep
  /\ PayloadsLead
  /\ CommittedNodesAreBacked
  /\ OneVectorPerChunk
  /\ CommittedPayloadsKept

LEMMA InitIInv == Init => IInv
<1> USE StoreConstants DEF ChunksOf, PayloadsOf
<1> SUFFICES ASSUME Init PROVE IInv
  OBVIOUS
<1>1. PICK held \in SUBSET StartReports, emptied \in SUBSET LostPayloads,
           bare \in SUBSET LostRows, lost \in SUBSET LostNodes :
        LET content == {c \in Chunk : Source[c] \in held}
        IN  /\ rows = [c \in Chunk |-> IF c \in content \ bare THEN 1 ELSE 0]
            /\ stripped = content \cap bare
            /\ payloadFile = PayloadsOf(content) \ emptied
            /\ graphFile = content \ lost
            /\ parentFile = held
  BY DEF Init
<1>2. CommittedPayloadsKept
  BY <1>1 DEF CommittedPayloadsKept
<1>3. OneVectorPerChunk
  BY <1>1 DEF OneVectorPerChunk
<1>4. CommittedNodesAreBacked
  BY <1>1 DEF CommittedNodesAreBacked, Stored, Identified
<1>5. MemoryFollowsDisk /\ WorkInStep /\ PayloadsLead
  BY DEF Init, MemoryFollowsDisk, WorkInStep, PayloadsLead, CurrentChunks
<1> QED
  BY <1>2, <1>3, <1>4, <1>5, InitTypes DEF IInv

(* A step that leaves the disk alone and ends the ingest, or runs none.    *)
LEMMA QuietStep ==
  ASSUME IInv, TypeOK', UNCHANGED disk,
         pc' = "idle", current' = {}, pending' = {}, batch' = {},
         proc' = "serving" => \/ proc = "serving" /\ UNCHANGED <<graph, payloads, parents>>
                              \/ /\ graph' = graphFile
                                 /\ payloads' = payloadFile
                                 /\ parents' = parentFile
  PROVE  IInv'
<1> USE DEF IInv, disk
<1>1. MemoryFollowsDisk'
  BY DEF MemoryFollowsDisk
<1>2. WorkInStep'
  BY DEF WorkInStep, CurrentChunks
<1>3. PayloadsLead'
  BY DEF PayloadsLead
<1>4. CommittedNodesAreBacked' /\ OneVectorPerChunk' /\ CommittedPayloadsKept'
  BY DEF CommittedNodesAreBacked, OneVectorPerChunk, CommittedPayloadsKept,
     Stored, Identified, PayloadsOf
<1> QED BY <1>1, <1>2, <1>3, <1>4

LEMMA StepIInv == IInv /\ [Next]_vars => IInv'
<1> SUFFICES ASSUME IInv, [Next]_vars PROVE IInv'
  OBVIOUS
<1>t. TypeOK'
  BY StepTypes DEF IInv
<1> USE StoreConstants, <1>t DEF IInv, disk, memory, service, work
<1>1. CASE UNCHANGED vars
  BY <1>1 DEF vars, MemoryFollowsDisk, WorkInStep, PayloadsLead, TypeOK,
     CommittedNodesAreBacked, OneVectorPerChunk, CommittedPayloadsKept, Stored,
     Identified, CurrentChunks, CommitBlocked, Complete, Resolved,
     PublishedPayloads, PayloadsOf
<1>2. CASE Startup
  <2>1. pc = "idle"
    BY <1>2 DEF Startup, MemoryFollowsDisk
  <2> QED BY <1>2, <2>1, QuietStep DEF Startup, WorkInStep
<1>3. CASE StartupRefused
  <2>1. pc = "idle"
    BY <1>3 DEF StartupRefused, MemoryFollowsDisk
  <2> QED BY <1>3, <2>1, QuietStep DEF StartupRefused, WorkInStep
<1>4. CASE Shutdown \/ Crash
  BY <1>4, QuietStep DEF Shutdown, Crash, EndProcess
<1>5. CASE AdoptManifest
  BY <1>5 DEF AdoptManifest, MemoryFollowsDisk, WorkInStep, PayloadsLead, TypeOK,
     CommittedNodesAreBacked, OneVectorPerChunk, CommittedPayloadsKept, Stored,
     Identified, CurrentChunks, PayloadsOf
<1>6. ASSUME NEW req \in SUBSET Report \ {{}}, StartIngest(req) PROVE IInv'
  BY <1>6 DEF StartIngest, MemoryFollowsDisk, WorkInStep, PayloadsLead, TypeOK,
     CommittedNodesAreBacked, OneVectorPerChunk, CommittedPayloadsKept, Stored,
     Identified, CurrentChunks, PayloadsOf
<1>7. ASSUME NEW req \in SUBSET Report \ {{}}, RefuseIngest(req) PROVE IInv'
  BY <1>7, QuietStep DEF RefuseIngest, WorkInStep
<1>8. ASSUME NEW r \in Report, SkipReport(r) \/ BeginReport(r) PROVE IInv'
  BY <1>8 DEF SkipReport, BeginReport, MemoryFollowsDisk, WorkInStep, PayloadsLead,
     CommittedNodesAreBacked, OneVectorPerChunk, CommittedPayloadsKept, Stored,
     Identified, CurrentChunks, PayloadsOf
<1>9. CASE AddParents
  BY <1>9 DEF AddParents, MergedParents, MemoryFollowsDisk, WorkInStep, PayloadsLead,
     CommittedNodesAreBacked, OneVectorPerChunk, CommittedPayloadsKept, Stored,
     Identified, CurrentChunks, PayloadsOf
<1>10. CASE RepairIndexed
  <2>1. Stored' = Stored
    BY <1>10 DEF RepairIndexed, Stored, Identified, TypeOK
  <2>2. OneVectorPerChunk'
    BY <1>10 DEF RepairIndexed, OneVectorPerChunk, TypeOK
  <2>3. WorkInStep'
    BY <1>10, <2>1 DEF RepairIndexed, WorkInStep, NodesToRepair, NewChunks, CurrentChunks
  <2>4. MemoryFollowsDisk' /\ PayloadsLead'
    BY <1>10 DEF RepairIndexed, MemoryFollowsDisk, PayloadsLead
  <2>5. CommittedNodesAreBacked' /\ CommittedPayloadsKept'
    BY <1>10, <2>1 DEF RepairIndexed, CommittedNodesAreBacked,
       CommittedPayloadsKept, PayloadsOf
  <2> QED BY <2>2, <2>3, <2>4, <2>5
<1>11. CASE RepairBlocked \/ WritePayloadsBlocked \/ FinishIngest \/ IngestFails
  <2>1. PICK how \in {"ok", "failed", "blocked"} : EndIngest(how)
    BY <1>11 DEF RepairBlocked, WritePayloadsBlocked, FinishIngest, IngestFails
  <2> QED BY <2>1, QuietStep DEF EndIngest
<1>12. CASE GenerateContexts
  BY <1>12 DEF GenerateContexts, MemoryFollowsDisk, WorkInStep, PayloadsLead,
     CommittedNodesAreBacked, OneVectorPerChunk, CommittedPayloadsKept, Stored,
     Identified, CurrentChunks, PayloadsOf
<1>13. ASSUME NEW b \in SUBSET Chunk, AddVectorBatch(b) PROVE IInv'
  <2>1. Stored' = Stored \cup b
    BY <1>13 DEF AddVectorBatch, Stored, Identified, TypeOK
  <2>2. OneVectorPerChunk'
    BY <1>13 DEF AddVectorBatch, OneVectorPerChunk, TypeOK, WorkInStep, Stored, Identified
  <2>3. WorkInStep'
    BY <1>13, <2>1 DEF AddVectorBatch, WorkInStep, CurrentChunks
  <2>4. MemoryFollowsDisk' /\ PayloadsLead'
    BY <1>13 DEF AddVectorBatch, MemoryFollowsDisk, PayloadsLead
  <2>5. CommittedNodesAreBacked' /\ CommittedPayloadsKept'
    BY <1>13, <2>1 DEF AddVectorBatch, CommittedNodesAreBacked, WorkInStep,
       CommittedPayloadsKept, PayloadsOf, CurrentChunks
  <2> QED BY <2>2, <2>3, <2>4, <2>5
<1>14. CASE RecordProgress
  BY <1>14 DEF RecordProgress, MemoryFollowsDisk, WorkInStep, PayloadsLead,
     CommittedNodesAreBacked, OneVectorPerChunk, CommittedPayloadsKept, Stored,
     Identified, CurrentChunks, PayloadsOf
<1>15. CASE WritePayloads
  <2>1. CommittedPayloadsKept'
    BY <1>15 DEF WritePayloads, CommitBlocked, Complete, Resolved,
       PublishedPayloads, PayloadsOf, CommittedPayloadsKept, MemoryFollowsDisk
  <2>2. PayloadsLead'
    BY <1>15 DEF WritePayloads, PayloadsLead, CommitBlocked, Complete, Resolved,
       PublishedPayloads, PayloadsOf
  <2>3. MemoryFollowsDisk'
    BY <1>15 DEF WritePayloads, MemoryFollowsDisk, PublishedPayloads
  <2>4. WorkInStep' /\ CommittedNodesAreBacked' /\ OneVectorPerChunk'
    BY <1>15 DEF WritePayloads, WorkInStep, CommittedNodesAreBacked,
       OneVectorPerChunk, Stored, Identified, CurrentChunks
  <2> QED BY <2>1, <2>2, <2>3, <2>4
<1>16. CASE CommitGraph
  <2>1. CommittedPayloadsKept'
    BY <1>16 DEF CommitGraph, PayloadsLead, PublishedPayloads, PayloadsOf,
       CommittedPayloadsKept, MemoryFollowsDisk
  <2>2. MemoryFollowsDisk' /\ PayloadsLead'
    BY <1>16 DEF CommitGraph, MemoryFollowsDisk, PayloadsLead
  <2>3. WorkInStep'
    BY <1>16 DEF CommitGraph, WorkInStep, CurrentChunks, Stored, Identified
  <2>4. CommittedNodesAreBacked' /\ OneVectorPerChunk'
    BY <1>16 DEF CommitGraph, CommittedNodesAreBacked, OneVectorPerChunk, WorkInStep,
       MemoryFollowsDisk, Stored, Identified
  <2> QED BY <2>1, <2>2, <2>3, <2>4
<1>17. CASE Reindex \/ PersistAndIndex
  BY <1>17 DEF Reindex, PersistAndIndex, MemoryFollowsDisk, WorkInStep, PayloadsLead,
     CommittedNodesAreBacked, OneVectorPerChunk, CommittedPayloadsKept, Stored,
     Identified, CurrentChunks, PayloadsOf
<1>18. CASE FinishReport
  BY <1>18 DEF FinishReport, MemoryFollowsDisk, WorkInStep, PayloadsLead,
     CommittedNodesAreBacked, OneVectorPerChunk, CommittedPayloadsKept, Stored,
     Identified, CurrentChunks, PayloadsOf
<1>20. ASSUME NEW q \in Query, NEW mode \in SearchModes, Search(q, mode)
       PROVE  IInv'
  BY <1>20, QuietStep DEF Search, WorkInStep
<1> QED
  BY <1>1, <1>2, <1>3, <1>4, <1>5, <1>6, <1>7, <1>8, <1>9, <1>10, <1>11, <1>12,
     <1>13, <1>14, <1>15, <1>16, <1>17, <1>18, <1>20
  DEF Next, IngestStep, ServeQuery

LEMMA Inductive == Spec => []IInv
  BY InitIInv, StepIInv, PTL DEF Spec

-----------------------------------------------------------------------------
(* What a reader of the store can rely on.                                 *)

(* Between requests readiness is the verdict on the store as it is now. *)
Refreshed ==
  (proc = "serving" /\ pc = "idle") => readiness = ReadinessFor(forced, bm25)

(* A result computed while the store was ready: the vectors were exactly   *)
(* the committed nodes.                                                    *)
ReadyResult(mode) ==
  [mode    |-> mode,
   dense   |-> IF mode = "hybrid" THEN graph ELSE {},
   lexical |-> bm25,
   nodes   |-> graph]

CacheInStep ==
  /\ \A q \in Query : \/ cache[q] = Miss
                      \/ \E m \in Modes : cache[q] = ReadyResult(m)
  /\ pc \in Indexing => cache = EmptyCache

(* A degraded process serves a store that refuses every ingest. *)
DegradedIsIdle ==
  forced => proc = "serving" /\ pc = "idle" /\ manifest # "match" /\ Stored # {}

ServingInv ==
  /\ Refreshed
  /\ CacheInStep
  /\ bm25 \subseteq Stored
  /\ DegradedIsIdle

-----------------------------------------------------------------------------
(* Consequences of readiness.                                              *)

LEMMA ReadyIsIntact ==
  ASSUME NEW b, NEW S, Ready(ReadinessFor(b, S))
  PROVE  SourceIntegrity
BY DEF Ready, ReadinessFor

LEMMA SameStoreSameVerdict ==
  ASSUME UNCHANGED <<disk, forced, bm25>>
  PROVE  ReadinessFor(forced, bm25)' = ReadinessFor(forced, bm25)
<1>1. SourceIntegrity' = SourceIntegrity
  BY DEF SourceIntegrity, Identified, Resolved, disk
<1>2. StoreIdentity(forced, bm25)' = StoreIdentity(forced, bm25)
  BY Zenon DEF StoreIdentity, disk
<1> QED
  BY <1>1, <1>2 DEF ReadinessFor, Ready

(* While queries are served, vectors, nodes and complete sources agree.    *)
LEMMA ReadyAgreement ==
  ASSUME IInv, ServingInv, proc = "serving", pc = "idle", Ready(readiness)
  PROVE  /\ SourceIntegrity
         /\ Identified = graph /\ Stored = graph /\ Sources = graph
         /\ bm25 \subseteq graph
<1>1. SourceIntegrity
  BY ReadyIsIntact DEF ServingInv, Refreshed
<1> QED
  BY <1>1 DEF SourceIntegrity, IInv, MemoryFollowsDisk, CommittedNodesAreBacked,
     Stored, Resolved, Sources, ServingInv

-----------------------------------------------------------------------------
(* The serving invariant is inductive.                                     *)

LEMMA InitServing == Init => ServingInv
BY DEF Init, ServingInv, Refreshed, CacheInStep, DegradedIsIdle, EmptyCache

(* A step that changes neither the disk nor what searches read.            *)
LEMMA UnreadStep ==
  ASSUME ServingInv, UNCHANGED <<disk, graph, bm25, cache>>, pc' \notin Indexing,
         Refreshed', DegradedIsIdle'
  PROVE  ServingInv'
BY DEF ServingInv, CacheInStep, ReadyResult, Stored, Identified, disk

LEMMA EndServing ==
  ASSUME ServingInv, NEW how, EndIngest(how), pc # "idle" \/ proc # "serving"
  PROVE  ServingInv'
<1>1. UNCHANGED <<disk, graph, bm25, cache, forced>> /\ pc' = "idle"
  BY DEF EndIngest, disk
<1>2. Refreshed'
  BY <1>1, SameStoreSameVerdict DEF Refreshed, EndIngest
<1>3. DegradedIsIdle'
  BY <1>1 DEF ServingInv, DegradedIsIdle, EndIngest, Stored, Identified, disk
<1> QED BY <1>1, <1>2, <1>3, UnreadStep DEF Indexing

LEMMA StepServing == IInv /\ IInv' /\ ServingInv /\ [Next]_vars => ServingInv'
<1> SUFFICES ASSUME IInv, IInv', ServingInv, [Next]_vars PROVE ServingInv'
  OBVIOUS
<1> USE DEF disk, memory, service, work, Indexing
<1>0. pc # "idle" => proc = "serving" /\ ~forced
  BY DEF IInv, MemoryFollowsDisk, ServingInv, DegradedIsIdle
<1>1. CASE UNCHANGED vars
  <2>1. Refreshed'
    BY <1>1, SameStoreSameVerdict DEF vars, ServingInv, Refreshed
  <2> QED BY <1>1, <2>1 DEF vars, ServingInv, CacheInStep, ReadyResult,
          DegradedIsIdle, Stored, Identified
<1>2. CASE Startup
  <2>1. pc = "idle"
    BY <1>0, <1>2 DEF Startup
  <2>2. Refreshed'
    <3>1. readiness' = ReadinessFor(forced', bm25')
      BY <1>2 DEF Startup
    <3>2. SourceIntegrity' = SourceIntegrity
      BY <1>2 DEF Startup, SourceIntegrity, Identified, Resolved
    <3>3. StoreIdentity(forced, bm25)' = StoreIdentity(forced', bm25')
      BY <1>2, Zenon DEF Startup, StoreIdentity
    <3> QED BY <3>1, <3>2, <3>3 DEF Refreshed, ReadinessFor, Ready
  <2>3. bm25' \subseteq Stored'
    BY <1>2 DEF Startup, IInv, CommittedNodesAreBacked, Stored, Identified
  <2>4. DegradedIsIdle'
    BY <1>2, <2>1 DEF Startup, DegradedIsIdle, IInv, CommittedNodesAreBacked,
       Stored, Identified
  <2>5. CacheInStep'
    BY <1>2, <2>1 DEF Startup, CacheInStep, EmptyCache
  <2> QED BY <2>2, <2>3, <2>4, <2>5 DEF ServingInv
<1>3. CASE StartupRefused
  BY <1>0, <1>3 DEF StartupRefused, ServingInv, Refreshed, CacheInStep, ReadyResult,
     DegradedIsIdle, Stored, Identified
<1>4. CASE Shutdown \/ Crash
  BY <1>4 DEF Shutdown, Crash, EndProcess, ServingInv, Refreshed, CacheInStep,
     DegradedIsIdle, EmptyCache
<1>5. CASE AdoptManifest
  BY <1>0, <1>5 DEF AdoptManifest, ServingInv, Refreshed, CacheInStep, ReadyResult,
     DegradedIsIdle, Stored, Identified
<1>6. ASSUME NEW req \in SUBSET Report \ {{}}, StartIngest(req) PROVE ServingInv'
  <2>1. ~forced
    BY <1>6 DEF StartIngest, BoundaryRefuses, ServingInv, DegradedIsIdle, IInv, TypeOK
  <2> QED BY <1>6, <2>1, UnreadStep DEF StartIngest, Refreshed, DegradedIsIdle
<1>7. ASSUME NEW req \in SUBSET Report \ {{}}, RefuseIngest(req) PROVE ServingInv'
  <2>1. Refreshed'
    BY <1>7, SameStoreSameVerdict DEF RefuseIngest, Refreshed
  <2> QED BY <1>7, <2>1, UnreadStep DEF RefuseIngest, ServingInv, DegradedIsIdle,
          Stored, Identified
<1>8. ASSUME NEW r \in Report, SkipReport(r) \/ BeginReport(r) PROVE ServingInv'
  BY <1>0, <1>8, UnreadStep DEF SkipReport, BeginReport, Refreshed, DegradedIsIdle
<1>9. CASE AddParents
  BY <1>0, <1>9 DEF AddParents, ServingInv, Refreshed, CacheInStep, ReadyResult,
     DegradedIsIdle, Stored, Identified
<1>10. CASE RepairIndexed
  <2>1. Stored' = Stored
    BY <1>10 DEF RepairIndexed, Stored, Identified, IInv, TypeOK
  <2> QED BY <1>0, <1>10, <2>1 DEF RepairIndexed, ServingInv, Refreshed,
          CacheInStep, ReadyResult, DegradedIsIdle
<1>11. CASE RepairBlocked \/ WritePayloadsBlocked \/ FinishIngest \/ IngestFails
  <2>1. pc # "idle" /\ \E how \in {"ok", "failed", "blocked"} : EndIngest(how)
    BY <1>11 DEF RepairBlocked, WritePayloadsBlocked, FinishIngest, IngestFails
  <2> QED BY <2>1, EndServing
<1>12. CASE GenerateContexts
  BY <1>0, <1>12, UnreadStep DEF GenerateContexts, Refreshed, DegradedIsIdle
<1>13. ASSUME NEW b \in SUBSET Chunk, AddVectorBatch(b) PROVE ServingInv'
  <2>1. Stored' = Stored \cup b
    BY <1>13 DEF AddVectorBatch, Stored, Identified, IInv, TypeOK
  <2> QED BY <1>0, <1>13, <2>1 DEF AddVectorBatch, ServingInv, Refreshed,
          CacheInStep, ReadyResult, DegradedIsIdle
<1>14. CASE RecordProgress
  BY <1>0, <1>14 DEF RecordProgress, ServingInv, Refreshed, CacheInStep, ReadyResult,
     DegradedIsIdle, Stored, Identified
<1>15. CASE WritePayloads
  BY <1>0, <1>15 DEF WritePayloads, ServingInv, Refreshed, CacheInStep, ReadyResult,
     DegradedIsIdle, Stored, Identified
<1>16. CASE CommitGraph
  <2>1. bm25' \subseteq Stored'
    BY <1>16 DEF CommitGraph, ServingInv, IInv, CommittedNodesAreBacked,
       MemoryFollowsDisk, Stored, Identified, WorkInStep
  <2>2. CacheInStep'
    BY <1>16 DEF CommitGraph, CacheAfterCommit, CacheInStep, EmptyCache
  <2> QED BY <1>0, <1>16, <2>1, <2>2 DEF CommitGraph, ServingInv, Refreshed,
          DegradedIsIdle
<1>17. CASE Reindex \/ PersistAndIndex
  <2>1. bm25' \subseteq Stored'
    BY <1>17 DEF Reindex, PersistAndIndex, IInv, CommittedNodesAreBacked,
       MemoryFollowsDisk, Stored, Identified
  <2>2. CacheInStep'
    BY <1>17 DEF Reindex, PersistAndIndex, ServingInv, CacheInStep, EmptyCache
  <2> QED BY <1>0, <1>17, <2>1, <2>2 DEF Reindex, PersistAndIndex, ServingInv,
          Refreshed, DegradedIsIdle
<1>18. CASE FinishReport
  BY <1>0, <1>18 DEF FinishReport, ServingInv, Refreshed, CacheInStep, ReadyResult,
     DegradedIsIdle, Stored, Identified
<1>20. ASSUME NEW q \in Query, NEW mode \in SearchModes, Search(q, mode)
       PROVE  ServingInv'
  <2>1. Refreshed'
    BY <1>20, SameStoreSameVerdict DEF Search, ServingInv, Refreshed
  <2>2. mode \in Modes /\ ResultIn(mode) = ReadyResult(mode)
    BY <1>20, ReadyAgreement DEF Search, ResultIn, ReadyResult, SearchModes, Modes
  <2>3. PICK found : /\ found \in {cache[q], ReadyResult(mode)}
                     /\ cache' = [cache EXCEPT ![q] = found]
    BY <1>20, <2>2 DEF Search
  <2>4. UNCHANGED <<graph, bm25, pc>> /\ pc = "idle"
    BY <1>20 DEF Search
  <2>5. \A m : ReadyResult(m)' = ReadyResult(m)
    BY <2>4 DEF ReadyResult
  <2>6. ASSUME NEW p \in Query
        PROVE  \/ cache'[p] = Miss
               \/ \E m \in Modes : cache'[p] = ReadyResult(m)
    <3>1. cache'[p] \in {cache[p], ReadyResult(mode)}
      BY <2>3 DEF IInv, TypeOK
    <3> QED BY <2>2, <3>1 DEF ServingInv, CacheInStep
  <2>7. CacheInStep'
    BY <2>4, <2>5, <2>6 DEF CacheInStep
  <2> QED BY <1>20, <2>1, <2>7 DEF Search, ServingInv, DegradedIsIdle, Stored, Identified
<1> QED
  BY <1>1, <1>2, <1>3, <1>4, <1>5, <1>6, <1>7, <1>8, <1>9, <1>10, <1>11, <1>12,
     <1>13, <1>14, <1>15, <1>16, <1>17, <1>18, <1>20
  DEF Next, IngestStep, ServeQuery

LEMMA ServingInductive == Spec => [](IInv /\ ServingInv)
  BY InitIInv, StepIInv, InitServing, StepServing, PTL DEF Spec

-----------------------------------------------------------------------------
(* The theorems.                                                           *)

(* At every point a process can die, each committed node's payload is on   *)
(* disk, unless its content was lost before.                               *)
THEOREM PayloadsAreKept == Spec => []CommittedPayloadsKept
  BY Inductive, PTL DEF IInv

(* Retries and resumes never add a second vector for a chunk. *)
THEOREM VectorsAreUnique == Spec => []OneVectorPerChunk
  BY Inductive, PTL DEF IInv

(* Neither repair nor an interrupted batch commits a node ahead of its     *)
(* vector and its parent section.                                          *)
THEOREM NodesAreBacked == Spec => []CommittedNodesAreBacked
  BY Inductive, PTL DEF IInv

(* Between requests a ready service has complete sources on disk. *)
THEOREM ReadinessIsTrue == Spec => []ReadyMeansIntact
<1>1. IInv /\ ServingInv => ReadyMeansIntact
  BY ReadyAgreement DEF ReadyMeansIntact
<1> QED BY <1>1, ServingInductive, PTL

(* While queries are served no cached result is stale. *)
THEOREM CacheIsCoherent == Spec => []CacheCoherent
<1>1. IInv /\ ServingInv => CacheCoherent
  <2> SUFFICES ASSUME IInv, ServingInv, proc = "serving", pc = "idle",
                      Ready(readiness), NEW q \in Query, cache[q] # Miss
               PROVE  cache[q] = ResultIn(cache[q].mode)
    BY DEF CacheCoherent
  <2>1. PICK m \in Modes : cache[q] = ReadyResult(m)
    BY DEF ServingInv, CacheInStep
  <2>2. cache[q].mode = m
    BY <2>1 DEF ReadyResult
  <2>3. ResultIn(m) = ReadyResult(m)
    BY ReadyAgreement DEF ResultIn, ReadyResult
  <2> QED BY <2>1, <2>2, <2>3
<1> QED BY <1>1, ServingInductive, PTL

(* A degraded BM25-only process never writes to the store it serves. *)
THEOREM DegradedNeverWrites == Spec => DegradedStoreUntouched
<1>1. ServingInv /\ [Next]_vars => [forced => UNCHANGED disk]_vars
  <2> SUFFICES ASSUME ServingInv, Next, forced PROVE UNCHANGED disk
    OBVIOUS
  <2>1. proc = "serving" /\ pc = "idle"
    BY DEF ServingInv, DegradedIsIdle
  <2> QED BY <2>1 DEF Next, IngestStep, ServeQuery, Startup, StartupRefused, Shutdown,
          Crash, EndProcess, AdoptManifest, StartIngest, RefuseIngest, SkipReport,
          BeginReport, AddParents, RepairIndexed, RepairBlocked, GenerateContexts,
          AddVectorBatch, RecordProgress, WritePayloads, WritePayloadsBlocked,
          CommitGraph, Reindex, PersistAndIndex, FinishReport, FinishIngest,
          IngestFails, Search
<1> QED BY <1>1, ServingInductive, PTL DEF Spec, DegradedStoreUntouched

-----------------------------------------------------------------------------
(* Refinement of SourceIndex.                                              *)

LEMMA SameDiskSameSources ==
  ASSUME UNCHANGED <<rows, graphFile, payloadFile>>
  PROVE  Sources' = Sources
BY DEF Sources, Identified, Resolved

LEMMA StepRefines == IInv /\ IInv' /\ ServingInv /\ [Next]_vars => [Index!Next]_<<Sources, answer>>
<1> SUFFICES ASSUME IInv, IInv', ServingInv, [Next]_vars
             PROVE  Index!Commit \/ Index!Answer \/ Index!Forget
                      \/ UNCHANGED <<Sources, answer>>
  BY DEF Index!Next
<1> USE DEF disk, memory, service, work
<1>s. Sources \subseteq Chunk /\ Sources' \subseteq Chunk
  BY DEF Sources, Identified
<1>1. CASE UNCHANGED <<rows, graphFile, payloadFile, answer>>
  BY <1>1, SameDiskSameSources
<1>2. CASE Shutdown \/ Crash
  BY <1>2, SameDiskSameSources DEF Shutdown, Crash, EndProcess, Index!Forget
<1>3. CASE RepairIndexed
  <2>1. Sources \subseteq Sources'
    BY <1>3 DEF RepairIndexed, Sources, Identified, Resolved, IInv, TypeOK
  <2> QED BY <1>3, <1>s, <2>1 DEF RepairIndexed, Index!Commit
<1>4. ASSUME NEW b \in SUBSET Chunk, AddVectorBatch(b)
      PROVE  Index!Commit
  <2>1. Sources \subseteq Sources'
    BY <1>4 DEF AddVectorBatch, Sources, Identified, Resolved, IInv, TypeOK
  <2> QED BY <1>4, <1>s, <2>1 DEF AddVectorBatch, Index!Commit
<1>5. CASE WritePayloads
  <2>1. Sources \subseteq Sources'
    BY <1>5 DEF WritePayloads, CommitBlocked, Complete, Sources, Identified, Resolved,
       PublishedPayloads, PayloadsOf, IInv, TypeOK, MemoryFollowsDisk
  <2> QED BY <1>5, <1>s, <2>1 DEF WritePayloads, Index!Commit
<1>6. CASE CommitGraph
  <2>1. Sources \subseteq Sources'
    BY <1>6 DEF CommitGraph, Sources, Identified, Resolved, IInv, MemoryFollowsDisk
  <2> QED BY <1>6, <1>s, <2>1 DEF CommitGraph, Index!Commit
<1>7. ASSUME NEW q \in Query, NEW mode \in SearchModes, Search(q, mode)
      PROVE  Index!Answer \/ UNCHANGED <<Sources, answer>>
  <2>1. UNCHANGED Sources
    BY <1>7, SameDiskSameSources DEF Search
  <2>2. /\ mode \in Modes /\ ResultIn(mode) = ReadyResult(mode)
        /\ graph = Sources /\ bm25 \subseteq Sources
    BY <1>7, ReadyAgreement DEF Search, ResultIn, ReadyResult, SearchModes, Modes
  <2>3. \/ cache[q].mode = "miss"
        \/ \E m \in Modes : cache[q] = ReadyResult(m)
    BY DEF ServingInv, CacheInStep, Miss
  <2>4. PICK m \in Modes : answer' \in {answer, ReadyResult(m).dense \cup ReadyResult(m).lexical}
    BY <1>7, <2>2, <2>3 DEF Search
  <2>5. answer' = answer \/ answer' \subseteq Sources
    BY <2>2, <2>4 DEF ReadyResult
  <2> QED BY <2>1, <2>5 DEF Index!Answer
<1> QED
  BY <1>1, <1>2, <1>3, <1>4, <1>5, <1>6, <1>7
  DEF Next, IngestStep, ServeQuery, vars, Startup, StartupRefused, AdoptManifest,
      StartIngest, RefuseIngest, SkipReport, BeginReport, AddParents, RepairBlocked,
      GenerateContexts, RecordProgress, WritePayloadsBlocked, Reindex,
      PersistAndIndex, FinishReport, FinishIngest, IngestFails, EndIngest

(* The store implements the source index: durable sources only grow, and   *)
(* answers, cached or not, are drawn from sources complete on disk.        *)
THEOREM StoreIsSourceIndex == Spec => ImplementsSourceIndex
<1>1. Init => Index!Init
  BY DEF Init, Index!Init, Sources, Identified
<1>2. IInv /\ IInv' /\ ServingInv /\ [Next]_vars => [Index!Next]_(Index!vars)
  BY StepRefines DEF Index!vars
<1> QED
  BY <1>1, <1>2, ServingInductive, PTL DEF Spec, Index!Spec, ImplementsSourceIndex

-----------------------------------------------------------------------------
(* What an ingest leaves behind.                                           *)

(* From the second step of its first batch on, an ingest has a manifest.   *)
ManifestFollowsBatch ==
  /\ pc # "idle" /\ recorded => manifest # "none"
  /\ (manifest = "none" /\ StartReports = {}) =>
       /\ graphFile = {}
       /\ Cardinality(Stored) <= BatchSize
       /\ pc \notin {"idle", "progress"} => Stored = {}

LEMMA InitManifest == Init => ManifestFollowsBatch
<1> SUFFICES ASSUME Init, StartReports = {} PROVE ManifestFollowsBatch
  BY DEF Init, ManifestFollowsBatch
<1>1. graphFile = {} /\ stripped = {} /\ \A c \in Chunk : rows[c] = 0
  BY StoreConstants DEF Init, ChunksOf
<1>2. Stored = {}
  BY <1>1 DEF Stored, Identified
<1> QED BY <1>1, <1>2, FS_EmptySet, StoreConstants DEF Init, ManifestFollowsBatch

LEMMA StepManifest == IInv /\ ManifestFollowsBatch /\ [Next]_vars => ManifestFollowsBatch'
<1> SUFFICES ASSUME IInv, ManifestFollowsBatch, [Next]_vars
             PROVE  ManifestFollowsBatch'
  OBVIOUS
<1> USE StoreConstants DEF disk, memory, service, work
<1>1. CASE UNCHANGED vars
  BY <1>1 DEF vars, ManifestFollowsBatch, Stored, Identified
<1>2. CASE Startup \/ StartupRefused \/ Shutdown \/ Crash
  <2>1. UNCHANGED disk /\ pc' = "idle"
    BY <1>2 DEF Startup, StartupRefused, Shutdown, Crash, EndProcess, IInv,
       MemoryFollowsDisk
  <2> QED BY <2>1 DEF ManifestFollowsBatch, Stored, Identified
<1>3. CASE AdoptManifest
  BY <1>3 DEF AdoptManifest, ManifestFollowsBatch
<1>4. ASSUME NEW req \in SUBSET Report \ {{}}, StartIngest(req)
      PROVE  ManifestFollowsBatch'
  <2>1. pc' # "idle" /\ recorded' => manifest' # "none"
    BY <1>4 DEF StartIngest
  <2>2. manifest = "none" => Stored = {}
    BY <1>4 DEF StartIngest, BoundaryRefuses
  <2>3. Stored' = Stored
    BY <1>4 DEF StartIngest, Stored, Identified
  <2> QED BY <1>4, <2>1, <2>2, <2>3 DEF StartIngest, ManifestFollowsBatch
<1>5. ASSUME NEW req \in SUBSET Report \ {{}}, RefuseIngest(req)
      PROVE  ManifestFollowsBatch'
  BY <1>5 DEF RefuseIngest, ManifestFollowsBatch, Stored, Identified
<1>6. ASSUME NEW r \in Report, SkipReport(r) \/ BeginReport(r)
      PROVE  ManifestFollowsBatch'
  <2>1. CASE SkipReport(r)
    BY <2>1 DEF SkipReport, ManifestFollowsBatch, Stored, Identified
  <2>2. CASE BeginReport(r)
    BY <2>2 DEF BeginReport, ManifestFollowsBatch, Stored, Identified
  <2> QED BY <1>6, <2>1, <2>2
<1>7. CASE \/ AddParents \/ GenerateContexts \/ WritePayloads
           \/ Reindex \/ PersistAndIndex
  BY <1>7 DEF AddParents, GenerateContexts, WritePayloads, Reindex,
     PersistAndIndex, ManifestFollowsBatch, Stored, Identified
<1>8. CASE RepairIndexed
  <2>1. Stored' = Stored
    BY <1>8 DEF RepairIndexed, Stored, Identified, IInv, TypeOK
  <2> QED BY <1>8, <2>1 DEF RepairIndexed, ManifestFollowsBatch
<1>9. CASE RepairBlocked \/ WritePayloadsBlocked \/ FinishIngest \/ IngestFails
  BY <1>9 DEF RepairBlocked, WritePayloadsBlocked, FinishIngest, IngestFails,
     EndIngest, ManifestFollowsBatch, Stored, Identified
<1>10. ASSUME NEW b \in SUBSET Chunk, AddVectorBatch(b)
       PROVE  ManifestFollowsBatch'
  <2>1. Stored' = Stored \cup b
    BY <1>10 DEF AddVectorBatch, Stored, Identified, IInv, TypeOK
  <2>2. Cardinality(b) <= BatchSize
    <3>1. Cardinality(pending) \in Nat
      BY FS_Subset, FS_CardinalityType DEF IInv, TypeOK
    <3> QED BY <1>10, <3>1 DEF AddVectorBatch
  <2> QED BY <1>10, <2>1, <2>2 DEF AddVectorBatch, ManifestFollowsBatch
<1>11. CASE RecordProgress \/ FinishReport
  BY <1>11 DEF RecordProgress, ProgressManifest, FinishReport, ManifestFollowsBatch,
     Stored, Identified
<1>12. CASE CommitGraph
  BY <1>12 DEF CommitGraph, ManifestFollowsBatch, Stored, Identified, IInv,
     WorkInStep, MemoryFollowsDisk
<1>13. ASSUME NEW q \in Query, NEW mode \in SearchModes, Search(q, mode)
       PROVE  ManifestFollowsBatch'
  BY <1>13 DEF Search, ManifestFollowsBatch, Stored, Identified
<1> QED
  BY <1>1, <1>2, <1>3, <1>4, <1>5, <1>6, <1>7, <1>8, <1>9, <1>10, <1>11, <1>12, <1>13
  DEF Next, IngestStep, ServeQuery

(* A store of ours that no manifest vouches for never grows past its first *)
(* vector batch, and no node of it is committed.                           *)
THEOREM UnmanifestedIsSmall == Spec => []UnmanifestedHoldsOneBatch
<1>1. ManifestFollowsBatch => UnmanifestedHoldsOneBatch
  BY DEF ManifestFollowsBatch, UnmanifestedHoldsOneBatch
<1> QED BY <1>1, InitManifest, StepManifest, Inductive, PTL DEF Spec

-----------------------------------------------------------------------------
(* Success.                                                                *)

Done(r) == /\ ChunksOf(r) \subseteq Identified \cap Complete
           /\ lagging \/ ChunksOf(r) \subseteq bm25

(* Unless a build was lost, BM25 knows every report whose nodes are all    *)
(* committed, except between a commit and the build that follows it.       *)
LexicalKeepsUp ==
  (proc = "serving" /\ ~lagging) =>
    \A r \in Report : (ChunksOf(r) \subseteq graph /\ ~(pc \in Indexing /\ r \in current))
                        => ChunksOf(r) \subseteq bm25

(* Every chunk of the current report is done, or in this or a later batch. *)
ReportAccounted ==
  /\ pc \in {"progress", "payload", "graph"} => batch \subseteq Identified
  /\ pc \in {"context", "add", "progress", "payload", "graph", "reindex", "persist",
             "record"} =>
       /\ stripped = {}
       /\ CurrentChunks \subseteq pending \cup batch \cup (Identified \cap Complete)
  /\ pc = "record" => lagging \/ CurrentChunks \subseteq bm25
  /\ batch \subseteq CurrentChunks
  /\ current \subseteq todo
  /\ \A r, s \in current : r = s

RequestAccounted ==
  /\ proc # "serving" => outcome # "ok"
  /\ pc # "idle" => outcome = "none" /\ \A r \in request \ todo : Done(r)
  /\ (pc = "idle" /\ outcome = "ok") => \A r \in request : Done(r)

SuccessInv == LexicalKeepsUp /\ ReportAccounted /\ RequestAccounted

LEMMA InitSuccess == Init => SuccessInv
  BY DEF Init, SuccessInv, LexicalKeepsUp, ReportAccounted, RequestAccounted, CurrentChunks

(* A step that ends the ingest, or is taken while none runs. *)
LEMMA IdleSuccess ==
  ASSUME SuccessInv, UNCHANGED <<disk, graph, payloads, bm25, proc>>,
         lagging' = (lagging \/ pc \in Indexing),
         pc' = "idle", batch' = {}, current' = {},
         outcome' = "ok" => proc = "serving" /\ \A r \in request' : Done(r)
  PROVE  SuccessInv'
<1> USE DEF disk, ChunksOf
<1>1. LexicalKeepsUp'
  BY DEF SuccessInv, LexicalKeepsUp
<1>2. ReportAccounted'
  BY DEF ReportAccounted, CurrentChunks
<1>3. RequestAccounted'
  BY DEF RequestAccounted, Done, Identified, Complete, Resolved
<1> QED BY <1>1, <1>2, <1>3 DEF SuccessInv

(* A step of the ingest that leaves the store as it is. *)
LEMMA UnstoredSuccess ==
  ASSUME SuccessInv,
         UNCHANGED <<disk, graph, payloads, bm25, lagging, proc, request>>,
         pc # "idle", pc' # "idle", pc \notin Indexing, UNCHANGED outcome,
         \A r \in todo \ todo' : Done(r),
         ReportAccounted'
  PROVE  SuccessInv'
<1> USE DEF disk, ChunksOf
<1>1. LexicalKeepsUp'
  BY DEF SuccessInv, LexicalKeepsUp
<1>2. RequestAccounted'
  BY DEF SuccessInv, RequestAccounted, Done, Identified, Complete, Resolved
<1> QED BY <1>1, <1>2 DEF SuccessInv

(* What is done stays done while rows, nodes and payloads only grow and    *)
(* BM25 keeps every node it had, or is built from all of them.             *)
LEMMA DoneStays ==
  ASSUME TypeOK, NEW r, Done(r),
         Identified \subseteq Identified', graph \subseteq graph',
         payloads \subseteq payloads',
         \/ lagging' = lagging /\ bm25 \cap graph \subseteq bm25'
         \/ graph \subseteq bm25'
  PROVE  Done(r)'
BY DEF Done, Complete, Resolved, ChunksOf

LEMMA StepSuccess == IInv /\ SuccessInv /\ [Next]_vars => SuccessInv'
<1> SUFFICES ASSUME IInv, SuccessInv, [Next]_vars PROVE SuccessInv'
  OBVIOUS
<1>t. TypeOK
  BY DEF IInv
<1>w. pc # "idle" => proc = "serving" /\ graph = graphFile /\ graph \subseteq Stored
  BY DEF IInv, MemoryFollowsDisk, CommittedNodesAreBacked
<1>p. /\ pending \subseteq CurrentChunks \ Stored
      /\ pc \notin {"context", "add", "progress", "payload", "graph", "reindex"} =>
           pending = {}
      /\ pc \notin {"progress", "payload", "graph"} => batch = {}
      /\ pc \in {"idle", "scan"} => current = {}
  BY DEF IInv, WorkInStep
<1> USE StoreConstants, <1>t DEF disk, memory, service, work, Indexing
<1>1. CASE UNCHANGED vars
  BY <1>1 DEF vars, SuccessInv, LexicalKeepsUp, ReportAccounted, RequestAccounted,
     CurrentChunks, Done, Identified, Complete, Resolved, ChunksOf
<1>2. CASE Startup
  <2>1. LexicalKeepsUp'
    BY <1>2 DEF Startup, LexicalKeepsUp
  <2>2. ReportAccounted' /\ RequestAccounted'
    BY <1>2, <1>w, <1>p DEF Startup, ReportAccounted, RequestAccounted,
       SuccessInv, CurrentChunks
  <2> QED BY <2>1, <2>2 DEF SuccessInv
<1>3. CASE StartupRefused
  <2>1. ReportAccounted'
    BY <1>3, <1>w, <1>p DEF StartupRefused, SuccessInv, ReportAccounted, CurrentChunks
  <2> QED BY <1>3, <1>w, <2>1 DEF StartupRefused, SuccessInv, LexicalKeepsUp,
          RequestAccounted
<1>4. CASE Shutdown \/ Crash
  BY <1>4 DEF Shutdown, Crash, EndProcess, SuccessInv, LexicalKeepsUp,
     ReportAccounted, RequestAccounted, CurrentChunks
<1>5. CASE AdoptManifest
  BY <1>5, <1>w, <1>p DEF AdoptManifest, SuccessInv, LexicalKeepsUp, ReportAccounted,
     RequestAccounted, CurrentChunks
<1>6. ASSUME NEW req \in SUBSET Report \ {{}}, StartIngest(req) PROVE SuccessInv'
  <2>1. LexicalKeepsUp'
    BY <1>6 DEF StartIngest, SuccessInv, LexicalKeepsUp, ChunksOf
  <2>2. ReportAccounted' /\ RequestAccounted'
    BY <1>6, <1>p DEF StartIngest, ReportAccounted, RequestAccounted, CurrentChunks
  <2> QED BY <2>1, <2>2 DEF SuccessInv
<1>7. ASSUME NEW req \in SUBSET Report \ {{}}, RefuseIngest(req) PROVE SuccessInv'
  <2>1. lagging' = (lagging \/ pc \in Indexing)
    BY <1>7 DEF RefuseIngest, TypeOK
  <2> QED BY <1>7, <1>p, <2>1, IdleSuccess DEF RefuseIngest
<1>8. ASSUME NEW r \in Report, SkipReport(r) PROVE SuccessInv'
  <2>1. Done(r)
    BY <1>8, <1>w DEF SkipReport, FullyIndexed, Done, Complete, Resolved,
       SuccessInv, LexicalKeepsUp
  <2>2. ReportAccounted'
    BY <1>8, <1>p DEF SkipReport, ReportAccounted, CurrentChunks
  <2> QED BY <1>8, <2>1, <2>2, UnstoredSuccess DEF SkipReport
<1>9. ASSUME NEW r \in Report, BeginReport(r) PROVE SuccessInv'
  <2>1. ReportAccounted'
    BY <1>9, <1>p DEF BeginReport, ReportAccounted, CurrentChunks
  <2> QED BY <1>9, <2>1, UnstoredSuccess DEF BeginReport
<1>10. CASE AddParents
  <2>1. LexicalKeepsUp'
    BY <1>10 DEF AddParents, SuccessInv, LexicalKeepsUp, ChunksOf
  <2>2. ReportAccounted'
    BY <1>10, <1>p DEF AddParents, SuccessInv, ReportAccounted, CurrentChunks
  <2>3. RequestAccounted'
    BY <1>10 DEF AddParents, SuccessInv, RequestAccounted, Done, Identified,
       Complete, Resolved, ChunksOf
  <2> QED BY <2>1, <2>2, <2>3 DEF SuccessInv
<1>11. CASE RepairIndexed
  <2>1. /\ Stored' = Stored /\ Identified' = Stored /\ Identified \subseteq Identified'
        /\ CurrentChunks' = CurrentChunks /\ Complete' = Complete
    BY <1>11 DEF RepairIndexed, Stored, Identified, CurrentChunks, Complete, Resolved,
       TypeOK
  <2>2. LexicalKeepsUp'
    BY <1>11 DEF RepairIndexed, SuccessInv, LexicalKeepsUp, ChunksOf
  <2>3. RequestAccounted'
    BY <1>11, <2>1, DoneStays DEF RepairIndexed, SuccessInv, RequestAccounted
  <2>4. pc' = "record" => lagging' \/ CurrentChunks' \subseteq bm25'
    <3> SUFFICES ASSUME pc' = "record", ~lagging PROVE CurrentChunks \subseteq bm25
      BY <1>11, <2>1 DEF RepairIndexed
    <3>1. CurrentChunks \subseteq graph
      BY <1>11 DEF RepairIndexed, NodesToRepair, NewChunks, Complete, Resolved
    <3>2. \A r \in current : ChunksOf(r) \subseteq bm25
      BY <1>11, <1>w, <3>1 DEF RepairIndexed, SuccessInv, LexicalKeepsUp, ChunksOf,
         CurrentChunks, TypeOK
    <3> QED BY <3>2 DEF CurrentChunks, ChunksOf
  <2>5. ReportAccounted'
    BY <1>11, <2>1, <2>4 DEF RepairIndexed, SuccessInv, ReportAccounted,
       NodesToRepair, NewChunks
  <2> QED BY <2>2, <2>3, <2>5 DEF SuccessInv
<1>12. CASE RepairBlocked \/ WritePayloadsBlocked
  BY <1>12, IdleSuccess DEF RepairBlocked, WritePayloadsBlocked, EndIngest
<1>13. CASE IngestFails
  BY <1>13, IdleSuccess DEF IngestFails, EndIngest
<1>14. CASE FinishIngest
  <2>1. \A r \in request : Done(r)
    BY <1>14 DEF FinishIngest, SuccessInv, RequestAccounted
  <2> QED BY <1>14, <1>w, <2>1, IdleSuccess DEF FinishIngest, EndIngest
<1>15. CASE GenerateContexts
  <2>1. ReportAccounted'
    BY <1>15 DEF GenerateContexts, SuccessInv, ReportAccounted, CurrentChunks,
       Identified, Complete, Resolved
  <2> QED BY <1>15, <2>1, UnstoredSuccess DEF GenerateContexts
<1>16. CASE RecordProgress
  <2>1. LexicalKeepsUp'
    BY <1>16 DEF RecordProgress, SuccessInv, LexicalKeepsUp, ChunksOf
  <2>2. ReportAccounted'
    BY <1>16 DEF RecordProgress, SuccessInv, ReportAccounted, CurrentChunks,
       Identified, Complete, Resolved
  <2>3. RequestAccounted'
    BY <1>16 DEF RecordProgress, SuccessInv, RequestAccounted, Done, Identified,
       Complete, Resolved, ChunksOf
  <2> QED BY <2>1, <2>2, <2>3 DEF SuccessInv
<1>17. ASSUME NEW b \in SUBSET Chunk, AddVectorBatch(b) PROVE SuccessInv'
  <2>1. /\ Identified' = Identified \cup b
        /\ CurrentChunks' = CurrentChunks /\ Complete' = Complete
    BY <1>17 DEF AddVectorBatch, Identified, CurrentChunks, Complete, Resolved, TypeOK
  <2>2. LexicalKeepsUp'
    BY <1>17 DEF AddVectorBatch, SuccessInv, LexicalKeepsUp, ChunksOf
  <2>3. RequestAccounted'
    BY <1>17, <2>1, DoneStays DEF AddVectorBatch, SuccessInv, RequestAccounted
  <2>4. ReportAccounted'
    BY <1>17, <1>p, <2>1 DEF AddVectorBatch, SuccessInv, ReportAccounted
  <2> QED BY <2>2, <2>3, <2>4 DEF SuccessInv
<1>18. CASE WritePayloads
  <2>1. LexicalKeepsUp'
    BY <1>18 DEF WritePayloads, SuccessInv, LexicalKeepsUp, ChunksOf
  <2>2. ReportAccounted'
    BY <1>18 DEF WritePayloads, SuccessInv, ReportAccounted, CurrentChunks,
       Identified, Complete, Resolved
  <2>3. RequestAccounted'
    BY <1>18 DEF WritePayloads, SuccessInv, RequestAccounted, Done, Identified,
       Complete, Resolved, ChunksOf
  <2> QED BY <2>1, <2>2, <2>3 DEF SuccessInv
<1>19. CASE CommitGraph
  <2>1. /\ Identified' = Identified /\ CurrentChunks' = CurrentChunks
        /\ Complete \cup batch \subseteq Complete'
    BY <1>19 DEF CommitGraph, Identified, CurrentChunks, Complete, Resolved,
       PublishedPayloads, PayloadsOf, SuccessInv, ReportAccounted
  <2>2. LexicalKeepsUp'
    <3> SUFFICES ASSUME NEW r \in Report, ChunksOf(r) \subseteq graph', ~lagging,
                        ~(pc' \in Indexing /\ r \in current')
                 PROVE  ChunksOf(r) \subseteq bm25'
      BY <1>19 DEF CommitGraph, LexicalKeepsUp, ChunksOf
    <3>1. CASE r \in current
      <4>1. pending # {}
        BY <1>19, <3>1 DEF CommitGraph
      <4>2. PICK c \in pending : c \in CurrentChunks \ Stored
        BY <1>p, <4>1
      <4>3. c \in ChunksOf(r)
        BY <3>1, <4>2 DEF CurrentChunks, ChunksOf, SuccessInv, ReportAccounted
      <4> QED BY <1>19, <1>w, <3>1, <4>2, <4>3 DEF CommitGraph, IInv, WorkInStep
    <3>2. CASE r \notin current
      <4>1. ChunksOf(r) \subseteq graph
        BY <1>19, <3>2 DEF CommitGraph, SuccessInv, ReportAccounted, CurrentChunks,
           ChunksOf
      <4> QED BY <1>19, <1>w, <3>2, <4>1 DEF CommitGraph, SuccessInv, LexicalKeepsUp
    <3> QED BY <3>1, <3>2
  <2>3. RequestAccounted'
    <3>1. bm25 \cap graph \subseteq bm25' /\ graph \subseteq graph' /\ payloads \subseteq payloads'
      BY <1>19 DEF CommitGraph, PublishedPayloads
    <3> QED BY <1>19, <2>1, <3>1, DoneStays DEF CommitGraph, SuccessInv, RequestAccounted
  <2>4. ReportAccounted'
    BY <1>19, <2>1 DEF CommitGraph, SuccessInv, ReportAccounted
  <2> QED BY <2>2, <2>3, <2>4 DEF SuccessInv
<1>20. CASE Reindex \/ PersistAndIndex
  <2>1. /\ pc \in Indexing /\ bm25' = graph /\ lagging' = FALSE
        /\ UNCHANGED <<graph, proc, current, pending, batch, outcome, request, todo>>
        /\ pc' \in {"context", "record"} /\ (pc' = "record" => pending = {})
    BY <1>20, <1>p DEF Reindex, PersistAndIndex
  <2>2. LexicalKeepsUp'
    BY <2>1 DEF LexicalKeepsUp, ChunksOf
  <2>3. Identified' = Identified /\ CurrentChunks' = CurrentChunks /\ Complete' = Complete
    BY <1>20 DEF Reindex, PersistAndIndex, Identified, CurrentChunks, Complete, Resolved
  <2>4. RequestAccounted'
    BY <1>20, <2>1, <2>3, DoneStays
    DEF Reindex, PersistAndIndex, SuccessInv, RequestAccounted
  <2>5. CurrentChunks \subseteq pending \cup (Identified \cap Complete)
    BY <1>p, <2>1 DEF SuccessInv, ReportAccounted
  <2>6. ReportAccounted'
    BY <1>20, <2>1, <2>3, <2>5
    DEF Reindex, PersistAndIndex, SuccessInv, ReportAccounted, Complete, Resolved
  <2> QED BY <2>2, <2>4, <2>6 DEF SuccessInv
<1>21. CASE FinishReport
  <2>1. LexicalKeepsUp'
    BY <1>21 DEF FinishReport, SuccessInv, LexicalKeepsUp, ChunksOf
  <2>2. ReportAccounted'
    BY <1>21, <1>p DEF FinishReport, ReportAccounted, CurrentChunks
  <2>3. /\ CurrentChunks \subseteq Identified \cap Complete
        /\ lagging \/ CurrentChunks \subseteq bm25
    BY <1>21, <1>p DEF FinishReport, SuccessInv, ReportAccounted
  <2>4. \A r \in current : Done(r)
    BY <2>3 DEF Done, CurrentChunks, ChunksOf
  <2>5. \A r \in request \ todo' : Done(r)
    BY <1>21, <2>4 DEF FinishReport, SuccessInv, RequestAccounted
  <2>6. RequestAccounted'
    BY <1>21, <2>5 DEF FinishReport, SuccessInv, RequestAccounted, Done, Identified,
       Complete, Resolved, ChunksOf
  <2> QED BY <2>1, <2>2, <2>6 DEF SuccessInv
<1>22. ASSUME NEW q \in Query, NEW mode \in SearchModes, Search(q, mode)
       PROVE  SuccessInv'
  <2>1. lagging' = (lagging \/ pc \in Indexing)
    BY <1>22 DEF Search, TypeOK
  <2>2. outcome' = "ok" => proc = "serving" /\ \A r \in request' : Done(r)
    BY <1>22 DEF Search, SuccessInv, RequestAccounted
  <2> QED BY <1>22, <1>p, <2>1, <2>2, IdleSuccess DEF Search
<1> QED
  BY <1>1, <1>2, <1>3, <1>4, <1>5, <1>6, <1>7, <1>8, <1>9, <1>10, <1>11, <1>12,
     <1>13, <1>14, <1>15, <1>16, <1>17, <1>18, <1>19, <1>20, <1>21, <1>22
  DEF Next, IngestStep, ServeQuery

(* An ingest that reports success has made every requested chunk findable  *)
(* by vector and complete, and by BM25 unless a flush or BM25 build failed *)
(* and none has succeeded since.                                           *)
THEOREM SuccessIsSearchable == Spec => []SuccessfulIngestIsSearchable
<1>1. SuccessInv => SuccessfulIngestIsSearchable
  BY DEF SuccessInv, RequestAccounted, SuccessfulIngestIsSearchable, Done
<1>2. IInv /\ SuccessInv /\ [Next]_vars => SuccessInv'
  BY StepSuccess
<1> QED BY <1>1, <1>2, InitSuccess, Inductive, PTL DEF Spec
=============================================================================
