---------------------------- MODULE BenchmarkStore ----------------------------
(***************************************************************************)
(* The store directory of one benchmark experiment and the context cache   *)
(* beside it: run_screening_experiment in src/ops/benchmark_runner.py.     *)
(*                                                                         *)
(* A run decides from three files - cache metadata, store manifest and     *)
(* context cache - whether to evaluate the directory as it stands, to      *)
(* refill it from cached texts, to resume a partial ingest, or to discard  *)
(* it.  Runs follow one another, may differ in configuration and options,  *)
(* and may die between any two durable writes.                             *)
(***************************************************************************)
EXTENDS Naturals, Sequences, FiniteSets

CONSTANTS
  Chunk,        \* chunk uids; positional, so every configuration has the same
  Primary,      \* those of the report named by the experiment's metadata
  Config,       \* cache signatures a run may have
  StoreSig,     \* StoreSig[c]: its part that the store manifest records
  Mode,         \* Mode[c]: how c turns chunks into indexed texts, see Modes
  Drafts,       \* wordings a provider may generate for the same chunk
  Options,      \* the switches a run may be given
  BatchSize,    \* chunks per vector batch (64 in the code)
  Faults,       \* "dies", "torn" (dies within rmtree), "lookup" (is_indexed fails)
  MaxFaults,    \* bound on them together
  None          \* no text, no file

(* plain: the chunk as parsed.  prefixed: a prefix computed from metadata,  *)
(* sections saved.  generated: a provider's context, sections saved.        *)
(* contextual: the same, after repairing what is already indexed.           *)
Modes == {"plain", "prefixed", "generated", "contextual"}

Text == [config : Config, draft : Drafts]
Option == [force : BOOLEAN, reuse : BOOLEAN, resume : BOOLEAN, cached : BOOLEAN]
Sigs == {StoreSig[c] : c \in Config}
Meta == [status : {"in_progress", "completed"}, config : Config]
Cache == [config : Config, texts : [Chunk -> Text]]

ASSUME BenchmarkConstants ==
  /\ IsFiniteSet(Chunk)
  /\ Primary \subseteq Chunk /\ Primary # {}
  /\ Mode \in [Config -> Modes]
  /\ Drafts # {}
  /\ Options \subseteq Option
  /\ BatchSize \in Nat \ {0}
  /\ Faults \subseteq {"dies", "torn", "lookup"}
  /\ MaxFaults \in Nat
  /\ None \notin Text \cup Sigs \cup Meta \cup Cache

VARIABLES
  \* durable
  rows,      \* rows[c]: texts of the vector rows that carry uid c, oldest first
  nodes,     \* nodes[c]: text of c's node in the structure graph, or None
  parents,   \* configurations whose sections are in parents.json
  meta,      \* benchmark_cache_meta.json: its status and signature, or None
  manifest,  \* store_manifest.json: the store signature, or None
  cache,     \* context_cache/<id>.json: signature and texts, or None
  \* the run in progress
  pc,        \* "idle", or the next durable step
  config, option,
  texts,     \* what this run will index for each chunk
  restoring, \* it refills the store from the context cache
  todo,      \* chunks still to be embedded
  batch,     \* chunks whose nodes are committed next
  lexical,   \* chunks BM25 ranks
  doubted,   \* history: this directory saw an rmtree cut short, or a run that
             \* adds texts over rows without asking which are there
  faults

store == <<rows, nodes, parents, meta, manifest>>
run   == <<config, option, texts, restoring>>
vars  == <<store, cache, pc, run, todo, batch, lexical, doubted, faults>>

Steps == {"idle", "discard", "open", "decide", "parents", "repair", "indexed",
          "add", "commit", "index", "complete", "manifest", "cache", "evaluate"}

TypeOK ==
  /\ rows \in [Chunk -> Seq(Text)]
  /\ nodes \in [Chunk -> Text \cup {None}]
  /\ parents \subseteq Config
  /\ meta \in Meta \cup {None}
  /\ manifest \in Sigs \cup {None}
  /\ cache \in Cache \cup {None}
  /\ pc \in Steps
  /\ config \in Config
  /\ option \in Option
  /\ texts \in [Chunk -> Text]
  /\ restoring \in BOOLEAN
  /\ todo \subseteq Chunk
  /\ batch \subseteq Chunk
  /\ lexical \subseteq Chunk
  /\ doubted \in BOOLEAN
  /\ faults \in Nat

-----------------------------------------------------------------------------
(* What a run concludes from the files.                                    *)

Indexed == {c \in Chunk : rows[c] # << >>}
WithNode == {c \in Chunk : nodes[c] # None}

(* What the store manifest of a configuration says: _build_store_signature. *)
ManifestOf(c) == StoreSig[c]

DirectoryEmpty ==
  /\ rows = [c \in Chunk |-> << >>] /\ nodes = [c \in Chunk |-> None]
  /\ parents = {} /\ meta = None /\ manifest = None

Completed == meta # None /\ meta.status = "completed"

\* Mutant: a store is reused when only its manifest matches.
StoreMatches_ManifestOnly == manifest = ManifestOf(config)

StoreMatches == meta # None /\ meta.config = config

(* _cache_meta_allows_partial_resume. *)
PartialResume ==
  /\ option.reuse /\ option.resume
  /\ meta # None /\ meta.status = "in_progress"
  /\ StoreMatches

(* A directory is kept when its manifest and metadata are this run's, or   *)
(* when it has no manifest yet and this run may resume it.                 *)
Keeps ==
  /\ ~option.force
  /\ IF manifest = None THEN PartialResume
     ELSE /\ manifest = ManifestOf(config)
          /\ option.reuse /\ StoreMatches
          /\ Completed \/ option.resume

(* is_indexed: one row of the primary report; a failing lookup means no.   *)
IsIndexed == Primary \cap Indexed # {}

StoreHit == option.reuse /\ ~option.force /\ StoreMatches /\ Completed

ContextHit == option.cached /\ ~option.force /\ cache # None /\ cache.config = config

(* Texts a run may come up with: those of a provider vary from run to run. *)
TextsOf(c) ==
  IF Mode[c] \in {"plain", "prefixed"}
  THEN {[k \in Chunk |-> [config |-> c, draft |-> CHOOSE d \in Drafts : TRUE]]}
  ELSE {[k \in Chunk |-> [config |-> c, draft |-> d]] : d \in Drafts}

Init ==
  /\ DirectoryEmpty /\ cache = None
  /\ pc = "idle"
  /\ config \in Config /\ option \in Options /\ texts \in TextsOf(config)
  /\ restoring = FALSE
  /\ todo = {} /\ batch = {} /\ lexical = {}
  /\ doubted = FALSE /\ faults = 0

-----------------------------------------------------------------------------
(* Deciding what to do with the directory.                                 *)

Goto(step) == pc' = step

Start(c, o) ==
  /\ pc = "idle"
  /\ config' = c /\ option' = o /\ texts' \in TextsOf(c)
  /\ restoring' = FALSE
  /\ Goto("discard")
  /\ UNCHANGED <<store, cache, todo, batch, lexical, doubted, faults>>

EmptyDirectory ==
  /\ rows' = [c \in Chunk |-> << >>] /\ nodes' = [c \in Chunk |-> None]
  /\ parents' = {} /\ meta' = None /\ manifest' = None

(* rmtree, and under force_reindex the context cache goes too. *)
Discard ==
  /\ pc = "discard" /\ ~Keeps
  /\ EmptyDirectory
  /\ cache' = IF option.force THEN None ELSE cache
  /\ doubted' = FALSE
  /\ Goto("open")
  /\ UNCHANGED <<run, todo, batch, lexical, faults>>

KeepStore ==
  /\ pc = "discard" /\ Keeps
  /\ Goto("open")
  /\ UNCHANGED <<store, cache, run, todo, batch, lexical, doubted, faults>>

(* VectorStoreManager: BM25 ranks the nodes or, without any, the rows.     *)
Open ==
  /\ pc = "open"
  /\ lexical' = IF WithNode # {} THEN WithNode ELSE Indexed
  /\ Goto("decide")
  /\ UNCHANGED <<store, cache, run, todo, batch, doubted, faults>>

(* Store cache hit: evaluate as it stands. *)
UseStore ==
  /\ pc = "decide" /\ StoreHit /\ IsIndexed
  /\ manifest' = ManifestOf(config)
  /\ Goto("evaluate")
  /\ UNCHANGED <<rows, nodes, parents, meta, cache, run, todo, batch, lexical, doubted, faults>>

(* Context cache hit: the cached texts are added anew, without resuming:   *)
(* a chunk that a dead run had embedded gets a second row.  The metadata   *)
(* is as it was until they are all there.                                  *)
RestoreFromCache ==
  /\ ContextHit
  /\ restoring' = TRUE
  /\ texts' = cache.texts
  /\ Goto(IF Mode[config] = "plain" THEN "add" ELSE "parents")
  /\ todo' = Chunk
  /\ doubted' = (doubted \/ Indexed # {})
  /\ UNCHANGED <<store, cache, config, option, batch, lexical>>

(* Parse and ingest.  in_progress is on disk before the first row.         *)
IngestAnew ==
  /\ ~ContextHit
  /\ meta' = [status |-> "in_progress", config |-> config]
  /\ Goto(IF Mode[config] = "plain" THEN "indexed" ELSE "parents")
  /\ todo' = Chunk
  /\ doubted' = (doubted \/ (~option.resume /\ Indexed # {}))
  /\ UNCHANGED <<rows, nodes, parents, manifest, cache, run, batch, lexical>>

FillStore ==
  /\ pc = "decide" /\ ~(StoreHit /\ IsIndexed)
  /\ RestoreFromCache \/ IngestAnew
  /\ UNCHANGED faults

LookupFails ==
  /\ pc = "decide" /\ StoreHit /\ IsIndexed
  /\ "lookup" \in Faults /\ faults < MaxFaults
  /\ faults' = faults + 1
  /\ RestoreFromCache \/ IngestAnew

-----------------------------------------------------------------------------
(* Filling the store.                                                      *)

SaveParents ==
  /\ pc = "parents"
  /\ parents' = parents \cup {config}
  /\ Goto(IF restoring THEN "add"
          ELSE IF Mode[config] = "contextual" /\ option.resume THEN "repair"
          ELSE "indexed")
  /\ UNCHANGED <<rows, nodes, meta, manifest, cache, run, todo, batch, lexical, doubted, faults>>

CommitNodes(C, by) == nodes' = [c \in Chunk |-> IF c \in C THEN by[c] ELSE nodes[c]]

\* Mutant: repaired nodes carry the text of this run.
RepairText_Regenerated(c) == texts[c]

(* The text a repaired node gets: that of the stored row, the last one if  *)
(* there are several.                                                      *)
RepairText(c) == IF c \in Indexed THEN rows[c][Len(rows[c])] ELSE texts[c]

\* Mutant: a repair does not touch BM25.
AfterRepair_NoRebuild(C) == lexical

(* The nodes are committed, then BM25 is rebuilt from them. *)
AfterRepair(C) == IF C = {} THEN lexical ELSE WithNode \cup C

(* repair_indexed_sources: nodes are restored from the stored rows.  Texts *)
(* are then generated for the chunks without a row only, and the cached    *)
(* artifacts take the stored text of the others.                           *)
Repair ==
  /\ pc = "repair"
  /\ LET lost == Indexed \ WithNode IN
       /\ CommitNodes(lost, [c \in Chunk |-> RepairText(c)])
       /\ lexical' = AfterRepair(lost)
  /\ texts' = [c \in Chunk |-> IF c \in Indexed THEN nodes'[c] ELSE texts[c]]
  /\ todo' = Chunk \ Indexed
  /\ Goto(IF Indexed = Chunk THEN "complete" ELSE "add")
  /\ UNCHANGED <<rows, parents, meta, manifest, cache, config, option, restoring,
                 batch, doubted, faults>>

\* Mutant: resuming asks the graph what is indexed.
Existing_Nodes == IF option.resume THEN WithNode ELSE {}

(* list_indexed_chunk_uids, asked only when resuming. *)
Existing == IF option.resume THEN Indexed ELSE {}

(* add_documents begins: nodes of chunks already indexed are written from  *)
(* this run's texts; with nothing left to embed it returns at once.  After *)
(* a repair its lookup finds nothing new and this step does nothing.       *)
UpdateIndexed ==
  /\ pc = "indexed"
  /\ CommitNodes(Existing, texts)
  /\ todo' = Chunk \ Existing
  /\ Goto(IF Existing = Chunk THEN "complete" ELSE "add")
  /\ UNCHANGED <<rows, parents, meta, manifest, cache, run, batch, lexical, doubted, faults>>

(* One batch of vectors, then its nodes.  Without resuming, a chunk that   *)
(* already has a row gets another.                                         *)
AddVectors(C) ==
  /\ pc = "add"
  /\ C \subseteq todo /\ C # {}
  /\ Cardinality(C) <= BatchSize
  /\ Cardinality(C) = BatchSize \/ C = todo
  /\ rows' = [c \in Chunk |-> IF c \in C THEN Append(rows[c], texts[c]) ELSE rows[c]]
  /\ batch' = C /\ todo' = todo \ C
  /\ Goto("commit")
  /\ UNCHANGED <<nodes, parents, meta, manifest, cache, run, lexical, doubted, faults>>

CommitBatch ==
  /\ pc = "commit"
  /\ CommitNodes(batch, texts)
  /\ batch' = {}
  /\ Goto(IF todo = {} THEN "index" ELSE "add")
  /\ UNCHANGED <<rows, parents, meta, manifest, cache, run, todo, lexical, doubted, faults>>

RebuildBM25 ==
  /\ pc = "index"
  /\ lexical' = WithNode
  /\ Goto("complete")
  /\ UNCHANGED <<store, cache, run, todo, batch, doubted, faults>>

-----------------------------------------------------------------------------
(* Vouching for it.                                                        *)

WriteCompleted ==
  /\ pc = "complete"
  /\ meta' = [status |-> "completed", config |-> config]
  /\ Goto("manifest")
  /\ UNCHANGED <<rows, nodes, parents, manifest, cache, run, todo, batch, lexical, doubted, faults>>

WriteManifest ==
  /\ pc = "manifest"
  /\ manifest' = ManifestOf(config)
  /\ Goto(IF restoring THEN "evaluate" ELSE "cache")
  /\ UNCHANGED <<rows, nodes, parents, meta, cache, run, todo, batch, lexical, doubted, faults>>

WriteContextCache ==
  /\ pc = "cache"
  /\ cache' = [config |-> config, texts |-> texts]
  /\ Goto("evaluate")
  /\ UNCHANGED <<store, run, todo, batch, lexical, doubted, faults>>

(* Smoke queries and screening read the store only. *)
Forget == /\ Goto("idle") /\ lexical' = {} /\ todo' = {} /\ batch' = {}
          /\ UNCHANGED run

Evaluate == /\ pc = "evaluate" /\ Forget
            /\ UNCHANGED <<store, cache, doubted, faults>>

Dies ==
  /\ pc # "idle"
  /\ "dies" \in Faults /\ faults < MaxFaults
  /\ faults' = faults + 1
  /\ Forget
  /\ UNCHANGED <<store, cache, doubted>>

(* The process dies while rmtree removes one file after another.           *)
DiesDiscarding ==
  /\ pc = "discard" /\ ~Keeps
  /\ "torn" \in Faults /\ faults < MaxFaults
  /\ faults' = faults + 1
  /\ rows' \in {rows, [c \in Chunk |-> << >>]}
  /\ nodes' \in {nodes, [c \in Chunk |-> None]}
  /\ parents' \in {parents, {}}
  /\ meta' \in {meta, None}
  /\ manifest' \in {manifest, None}
  /\ doubted' = TRUE
  /\ Forget
  /\ UNCHANGED cache

Decide == Discard \/ KeepStore \/ Open \/ UseStore \/ FillStore \/ LookupFails

Fill == \/ SaveParents \/ Repair \/ UpdateIndexed \/ CommitBatch \/ RebuildBM25
        \/ \E C \in SUBSET Chunk : AddVectors(C)

Vouch == WriteCompleted \/ WriteManifest \/ WriteContextCache \/ Evaluate

Next == \/ \E c \in Config, o \in Options : Start(c, o)
        \/ Decide \/ Fill \/ Vouch
        \/ Dies \/ DiesDiscarding

Spec == Init /\ [][Next]_vars

-----------------------------------------------------------------------------
(* Properties.                                                             *)

OwnText(t, c) == t # None => t.config = c

(* Whatever died, was cut short or failed to answer, a run never evaluates *)
(* a row, a node or a section of another configuration, although uids are  *)
(* the same in all of them (run_screening_experiment).                     *)
ConfigurationsNeverMix ==
  pc = "evaluate" =>
    /\ \A k \in Chunk : /\ \A i \in 1..Len(rows[k]) : rows[k][i].config = config
                        /\ OwnText(nodes[k], config)
    /\ parents \subseteq {config}

WholeFor(c) ==
  /\ \A k \in Chunk : /\ Len(rows[k]) = 1 /\ rows[k][1].config = c
                      /\ nodes[k] # None /\ nodes[k].config = c
  /\ parents = IF Mode[c] = "plain" THEN {} ELSE {c}

(* A run evaluates a whole store: one vector row and one node for every    *)
(* chunk and its sections, whatever switches it and earlier runs had, and  *)
(* whatever step those died in.  Only a directory whose removal was cut    *)
(* short, or that a run filled over its rows, is excepted.                 *)
EvaluatedStoreIsWhole == (pc = "evaluate" /\ ~doubted) => WholeFor(config)

(* A run that may resume skips the chunks already indexed: one it has just *)
(* embedded had no row before.                                             *)
IndexedChunksAreSkipped ==
  (pc = "commit" /\ option.resume) => \A k \in batch : Len(rows[k]) = 1

(* Metadata that says completed, beside the manifest it belongs to, is     *)
(* what the next run trusts without looking: it never stands for less than *)
(* a whole store of that configuration.                                    *)
CompletedIsTrue ==
  (Completed /\ manifest # None /\ ~doubted) =>
     WholeFor(meta.config) /\ manifest = StoreSig[meta.config]

(* However often runs die and resume, the node of a chunk carries the text *)
(* its vector was computed from, unless the mode asks a provider again for *)
(* chunks that are already indexed.                                        *)
EvaluatedTextIsEmbeddedText ==
  (pc = "evaluate" /\ Mode[config] # "generated" /\ ~doubted) =>
     \A k \in Chunk : rows[k][Len(rows[k])] = nodes[k]

(* A contextual run that resumes a dead one searches every chunk by BM25   *)
(* too, although nothing may be left to add: its repair rebuilds the index.*)
ContextualRunSearchesEverything ==
  (pc = "evaluate" /\ Mode[config] = "contextual" /\ ~doubted) => lexical = Chunk
=============================================================================
