------------------------- MODULE BenchmarkStoreProofs -------------------------
(***************************************************************************)
(* Theorems about BenchmarkStore, for any number of chunks, configurations *)
(* and faults.  The first invariant, Ownership, says whose texts a         *)
(* directory holds; the second, Progress, how much of a store each step of *)
(* a run has filled.                                                       *)
(***************************************************************************)
EXTENDS BenchmarkStore, TLAPS

(* The draft of a text that no provider words. *)
Fixed == CHOOSE d \in Drafts : TRUE

Owned(t, c) == /\ t.config = c
               /\ Mode[c] \in {"plain", "prefixed"} => t.draft = Fixed

Pure(c) ==
  /\ \A k \in Chunk : \A i \in 1..Len(rows[k]) : Owned(rows[k][i], c)
  /\ \A k \in Chunk : nodes[k] # None => Owned(nodes[k], c)
  /\ parents \subseteq {c}

TextsOwn == \A k \in Chunk : Owned(texts[k], config)

CacheOwn == cache # None => \A k \in Chunk : Owned(cache.texts[k], cache.config)

MetaOwn == meta # None => Pure(meta.config)

RunOwn == pc \notin {"idle", "discard"} =>
            Pure(config) /\ (meta # None => meta.config = config)

Ownership == TypeOK /\ TextsOwn /\ CacheOwn /\ MetaOwn /\ RunOwn

-----------------------------------------------------------------------------
(* Types.                                                                  *)

(* What a run may index for its chunks are texts of its configuration.     *)
LEMMA TextsAreOwned ==
  ASSUME NEW c \in Config, NEW f \in TextsOf(c)
  PROVE  f \in [Chunk -> Text] /\ \A k \in Chunk : Owned(f[k], c)
BY BenchmarkConstants DEF TextsOf, Text, Owned, Fixed, Modes

LEMMA InitTypes == Init => TypeOK
<1>1. SUFFICES ASSUME Init PROVE TypeOK
  OBVIOUS
<1>2. texts \in [Chunk -> Text]
  BY <1>1, TextsAreOwned DEF Init
<1>3. rows \in [Chunk -> Seq(Text)] /\ nodes \in [Chunk -> Text \cup {None}]
  BY <1>1 DEF Init, DirectoryEmpty
<1>. QED
  BY <1>1, <1>2, <1>3, BenchmarkConstants DEF Init, DirectoryEmpty, TypeOK, Steps

LEMMA DecideTypes == TypeOK /\ Decide => TypeOK'
<1> SUFFICES ASSUME TypeOK, Decide PROVE TypeOK'
  OBVIOUS
<1>1. CASE Discard
  <2>1. rows' \in [Chunk -> Seq(Text)] /\ nodes' \in [Chunk -> Text \cup {None}]
    BY <1>1 DEF Discard, EmptyDirectory
  <2>. QED
    BY <1>1, <2>1 DEF Discard, EmptyDirectory, TypeOK, Goto, run, Steps
<1>2. CASE KeepStore
  BY <1>2 DEF KeepStore, TypeOK, Goto, store, run, Steps
<1>3. CASE Open
  BY <1>3 DEF Open, TypeOK, Goto, store, run, Steps, WithNode, Indexed
<1>4. CASE UseStore
  BY <1>4 DEF UseStore, TypeOK, Goto, run, Steps, ManifestOf, Sigs
<1>5. ASSUME RestoreFromCache \/ IngestAnew, faults' \in Nat
      PROVE  TypeOK'
  <2>1. CASE RestoreFromCache
    <3>1. texts' \in [Chunk -> Text]
      BY <2>1 DEF RestoreFromCache, ContextHit, TypeOK, Cache
    <3>. QED
      BY <1>5, <2>1, <3>1 DEF RestoreFromCache, TypeOK, Goto, store, Steps
  <2>2. CASE IngestAnew
    BY <1>5, <2>2 DEF IngestAnew, TypeOK, Goto, run, Steps, Meta
  <2>. QED
    BY <1>5, <2>1, <2>2
<1>6. CASE FillStore
  BY <1>5, <1>6 DEF FillStore, TypeOK
<1>7. CASE LookupFails
  BY <1>5, <1>7 DEF LookupFails, TypeOK
<1>. QED
  BY <1>1, <1>2, <1>3, <1>4, <1>6, <1>7 DEF Decide

(* Committed nodes are texts, and others keep theirs.                      *)
LEMMA CommitTypes ==
  ASSUME TypeOK, NEW C \in SUBSET Chunk, NEW by, \A c \in C : by[c] \in Text,
         CommitNodes(C, by)
  PROVE  nodes' \in [Chunk -> Text \cup {None}]
BY DEF CommitNodes, TypeOK

(* The text of a repaired node is the one its row carries.                 *)
LEMMA RepairTexts ==
  ASSUME TypeOK, NEW c \in Indexed
  PROVE  /\ Len(rows[c]) \in 1..Len(rows[c])
         /\ RepairText(c) = rows[c][Len(rows[c])]
         /\ RepairText(c) \in Text
<1>1. c \in Chunk /\ rows[c] \in Seq(Text) /\ rows[c] # << >>
  BY DEF Indexed, TypeOK
<1>2. Len(rows[c]) \in 1..Len(rows[c])
  BY <1>1
<1>. QED
  BY <1>1, <1>2 DEF RepairText

LEMMA FillTypes == TypeOK /\ Fill => TypeOK'
<1> SUFFICES ASSUME TypeOK, Fill PROVE TypeOK'
  OBVIOUS
<1>1. CASE SaveParents
  BY <1>1 DEF SaveParents, TypeOK, Goto, run, Steps
<1>2. CASE Repair
  <2>1. Indexed \ WithNode \in SUBSET Chunk /\ Indexed \in SUBSET Chunk
    BY DEF Indexed
  <2>2. nodes' \in [Chunk -> Text \cup {None}]
    BY <1>2, <2>1, CommitTypes, RepairTexts DEF Repair
  <2>3. \A c \in Indexed : nodes'[c] \in Text
    <3> SUFFICES ASSUME NEW c \in Indexed PROVE nodes'[c] \in Text
      OBVIOUS
    <3>1. CASE c \in WithNode
      BY <1>2, <2>1, <3>1 DEF Repair, CommitNodes, WithNode, TypeOK
    <3>2. CASE c \notin WithNode
      BY <1>2, <2>1, <3>2, RepairTexts DEF Repair, CommitNodes
    <3>. QED
      BY <3>1, <3>2
  <2>4. texts' \in [Chunk -> Text]
    BY <1>2, <2>3 DEF Repair, TypeOK
  <2>5. lexical' \subseteq Chunk
    BY <1>2, <2>1 DEF Repair, AfterRepair, WithNode, TypeOK
  <2>. QED
    BY <1>2, <2>2, <2>4, <2>5 DEF Repair, TypeOK, Goto, Steps
<1>3. CASE UpdateIndexed
  <2>1. Existing \in SUBSET Chunk
    BY DEF Existing, Indexed
  <2>2. nodes' \in [Chunk -> Text \cup {None}]
    BY <1>3, <2>1, CommitTypes DEF UpdateIndexed, TypeOK
  <2>. QED
    BY <1>3, <2>2 DEF UpdateIndexed, TypeOK, Goto, run, Steps
<1>4. CASE CommitBatch
  <2>1. nodes' \in [Chunk -> Text \cup {None}]
    BY <1>4, CommitTypes DEF CommitBatch, TypeOK
  <2>. QED
    BY <1>4, <2>1 DEF CommitBatch, TypeOK, Goto, run, Steps
<1>5. CASE RebuildBM25
  BY <1>5 DEF RebuildBM25, TypeOK, Goto, store, run, Steps, WithNode
<1>6. ASSUME NEW C \in SUBSET Chunk, AddVectors(C) PROVE TypeOK'
  <2>1. rows' \in [Chunk -> Seq(Text)]
    BY <1>6 DEF AddVectors, TypeOK
  <2>. QED
    BY <1>6, <2>1 DEF AddVectors, TypeOK, Goto, run, Steps
<1>. QED
  BY <1>1, <1>2, <1>3, <1>4, <1>5, <1>6 DEF Fill

LEMMA OtherTypes ==
  TypeOK /\ (\/ \E c \in Config, o \in Options : Start(c, o)
             \/ Vouch \/ Dies \/ DiesDiscarding \/ UNCHANGED vars) => TypeOK'
<1>1. ASSUME TypeOK, NEW c \in Config, NEW o \in Options, Start(c, o) PROVE TypeOK'
  BY <1>1, TextsAreOwned, BenchmarkConstants DEF Start, TypeOK, Goto, store, Steps
<1>2. ASSUME TypeOK, Vouch PROVE TypeOK'
  <2>1. CASE WriteCompleted
    BY <1>2, <2>1 DEF WriteCompleted, TypeOK, Goto, run, Steps, Meta
  <2>2. CASE WriteManifest
    BY <1>2, <2>2 DEF WriteManifest, TypeOK, Goto, run, Steps, ManifestOf, Sigs
  <2>3. CASE WriteContextCache
    BY <1>2, <2>3 DEF WriteContextCache, TypeOK, Goto, store, run, Steps, Cache
  <2>4. CASE Evaluate
    BY <1>2, <2>4 DEF Evaluate, Forget, TypeOK, Goto, store, run, Steps
  <2>. QED
    BY <1>2, <2>1, <2>2, <2>3, <2>4 DEF Vouch
<1>3. ASSUME TypeOK, Dies PROVE TypeOK'
  BY <1>3 DEF Dies, Forget, TypeOK, Goto, store, run, Steps
<1>4. ASSUME TypeOK, DiesDiscarding PROVE TypeOK'
  <2>1. /\ [c \in Chunk |-> << >>] \in [Chunk -> Seq(Text)]
        /\ [c \in Chunk |-> None] \in [Chunk -> Text \cup {None}]
    OBVIOUS
  <2>2. rows' \in [Chunk -> Seq(Text)] /\ nodes' \in [Chunk -> Text \cup {None}]
    BY <1>4, <2>1 DEF DiesDiscarding, TypeOK
  <2>. QED
    BY <1>4, <2>2 DEF DiesDiscarding, Forget, TypeOK, Goto, run, Steps
<1>5. ASSUME TypeOK, UNCHANGED vars PROVE TypeOK'
  BY <1>5 DEF TypeOK, vars, store, run
<1>. QED
  BY <1>1, <1>2, <1>3, <1>4, <1>5

LEMMA StepTypes == TypeOK /\ [Next]_vars => TypeOK'
BY DecideTypes, FillTypes, OtherTypes DEF Next

(* The files of an experiment and the state of a run keep their types      *)
(* whatever dies or fails.                                                 *)
THEOREM BenchmarkTypesHold == Spec => []TypeOK
<1>1. Init => TypeOK
  BY InitTypes
<1>2. TypeOK /\ [Next]_vars => TypeOK'
  BY StepTypes
<1>. QED
  BY <1>1, <1>2, PTL DEF Spec

-----------------------------------------------------------------------------
(* Whose texts a directory holds.                                          *)

(* An empty directory holds nothing of anyone. *)
LEMMA EmptyIsPure == ASSUME EmptyDirectory, NEW c PROVE Pure(c)'
BY DEF EmptyDirectory, Pure

(* Committing owned texts keeps the nodes owned. *)
LEMMA CommitKeepsOwner ==
  ASSUME TypeOK, NEW c \in Config, Pure(c), NEW C \in SUBSET Chunk, NEW by,
         \A k \in C : Owned(by[k], c),
         CommitNodes(C, by), UNCHANGED <<rows, parents>>
  PROVE  Pure(c)'
BY DEF CommitNodes, Pure, TypeOK

(* So does appending owned texts to the rows. *)
LEMMA AppendKeepsOwner ==
  ASSUME TypeOK, TextsOwn, Pure(config), NEW C \in SUBSET Chunk, AddVectors(C)
  PROVE  Pure(config)'
<1>1. SUFFICES ASSUME NEW k \in Chunk, NEW i \in 1..Len(rows'[k])
               PROVE  Owned(rows'[k][i], config)
  BY DEF AddVectors, Pure, run
<1>2. rows[k] \in Seq(Text) /\ texts[k] \in Text
  BY DEF TypeOK
<1>3. CASE k \in C
  <2>1. rows'[k] = Append(rows[k], texts[k])
    BY <1>3 DEF AddVectors
  <2>2. CASE i \in 1..Len(rows[k])
    <3>1. rows'[k][i] = rows[k][i]
      BY <1>2, <2>1, <2>2
    <3>. QED
      BY <2>2, <3>1 DEF Pure
  <2>3. CASE i \notin 1..Len(rows[k])
    <3>1. rows'[k][i] = texts[k]
      BY <1>1, <1>2, <2>1, <2>3
    <3>. QED
      BY <3>1 DEF TextsOwn
  <2>. QED
    BY <2>2, <2>3
<1>4. CASE k \notin C
  <2>1. rows'[k] = rows[k]
    BY <1>4 DEF AddVectors
  <2>. QED
    BY <1>1, <2>1 DEF Pure
<1>. QED
  BY <1>3, <1>4

LEMMA InitOwns == Init => Ownership
<1>1. SUFFICES ASSUME Init PROVE Ownership
  OBVIOUS
<1>2. TypeOK
  BY <1>1, InitTypes
<1>3. TextsOwn
  BY <1>1, TextsAreOwned DEF Init, TextsOwn
<1>. QED
  BY <1>1, <1>2, <1>3 DEF Init, DirectoryEmpty, Ownership, CacheOwn, MetaOwn, RunOwn

LEMMA DecideOwns == Ownership /\ Decide => Ownership'
<1> SUFFICES ASSUME Ownership, Decide PROVE Ownership'
  OBVIOUS
<1> USE DEF Ownership
<1>0. TypeOK'
  BY DecideTypes
<1>1. CASE Discard
  <2>1. \A c : Pure(c)'
    BY <1>1, EmptyIsPure DEF Discard
  <2>. QED
    BY <1>0, <1>1, <2>1 DEF Discard, EmptyDirectory, TextsOwn, CacheOwn, MetaOwn, RunOwn, run
<1>2. CASE KeepStore
  <2>1. meta # None /\ meta.config = config
    BY <1>2 DEF KeepStore, Keeps, PartialResume, StoreMatches
  <2>2. Pure(config)'
    BY <1>2, <2>1 DEF KeepStore, store, run, MetaOwn, Pure
  <2>. QED
    BY <1>0, <1>2, <2>1, <2>2 DEF KeepStore, store, run, TextsOwn, CacheOwn, MetaOwn, RunOwn
<1>3. CASE Open
  <2>1. Pure(config) => Pure(config)'
    BY <1>3 DEF Open, store, run, Pure
  <2>. QED
    BY <1>0, <1>3, <2>1 DEF Open, store, run, TextsOwn, CacheOwn, MetaOwn, RunOwn
<1>4. CASE UseStore
  <2>1. Pure(config) => Pure(config)'
    BY <1>4 DEF UseStore, run, Pure
  <2>. QED
    BY <1>0, <1>4, <2>1 DEF UseStore, run, TextsOwn, CacheOwn, MetaOwn, RunOwn
<1>5. ASSUME pc = "decide", RestoreFromCache PROVE Ownership'
  <2>1. Pure(config) => Pure(config)'
    BY <1>5 DEF RestoreFromCache, store, Pure
  <2>. QED
    BY <1>0, <1>5, <2>1
    DEF RestoreFromCache, ContextHit, store, TextsOwn, CacheOwn, MetaOwn, RunOwn
<1>6. ASSUME pc = "decide", IngestAnew PROVE Ownership'
  <2>1. Pure(config) => Pure(config)'
    BY <1>6 DEF IngestAnew, run, Pure
  <2>2. meta'.config = config
    BY <1>6 DEF IngestAnew
  <2>. QED
    BY <1>0, <1>6, <2>1, <2>2 DEF IngestAnew, run, TextsOwn, CacheOwn, MetaOwn, RunOwn
<1>. QED
  BY <1>1, <1>2, <1>3, <1>4, <1>5, <1>6 DEF Decide, FillStore, LookupFails

(* While a run fills its store, keeping Pure(config) keeps everything.     *)
LEMMA FillingOwns ==
  ASSUME Ownership, TypeOK', Pure(config)', UNCHANGED <<meta, cache, config>>,
         pc \notin {"idle", "discard"}, TextsOwn'
  PROVE  Ownership'
BY DEF Ownership, CacheOwn, MetaOwn, RunOwn

LEMMA FillOwns == Ownership /\ Fill => Ownership'
<1> SUFFICES ASSUME Ownership, Fill PROVE Ownership'
  OBVIOUS
<1>0. TypeOK /\ TypeOK' /\ TextsOwn /\ config \in Config
  BY FillTypes DEF Ownership, TypeOK
<1>00. UNCHANGED texts /\ UNCHANGED config => TextsOwn'
  BY <1>0 DEF TextsOwn
<1>1. CASE SaveParents
  <2>1. Pure(config)'
    BY <1>1 DEF SaveParents, Ownership, RunOwn, Pure, run
  <2>. QED
    BY <1>0, <1>00, <1>1, <2>1, FillingOwns DEF SaveParents, run
<1>2. CASE Repair
  <2>1. Pure(config) /\ Indexed \in SUBSET Chunk /\ UNCHANGED config
    BY <1>2 DEF Repair, Ownership, RunOwn, Indexed
  <2>2. \A k \in Indexed : Owned(RepairText(k), config)
    BY <1>0, <2>1, RepairTexts DEF Pure
  <2>3. Pure(config)'
    BY <1>0, <1>2, <2>1, <2>2, CommitKeepsOwner DEF Repair
  <2>4. \A k \in Indexed : nodes'[k] # None
    <3> SUFFICES ASSUME NEW k \in Indexed PROVE nodes'[k] # None
      OBVIOUS
    <3>1. k \in WithNode => nodes'[k] = nodes[k]
      BY <1>2, <2>1 DEF Repair, CommitNodes
    <3>2. k \notin WithNode => nodes'[k] \in Text
      BY <1>0, <1>2, <2>1, RepairTexts DEF Repair, CommitNodes
    <3>. QED
      BY <2>1, <3>1, <3>2, BenchmarkConstants DEF WithNode
  <2>5. TextsOwn'
    BY <1>0, <1>2, <2>1, <2>3, <2>4 DEF Repair, TextsOwn, Pure
  <2>. QED
    BY <1>0, <1>2, <2>3, <2>5, FillingOwns DEF Repair
<1>3. CASE UpdateIndexed
  <2>1. Existing \in SUBSET Chunk /\ Pure(config)
    BY <1>3 DEF Existing, Indexed, UpdateIndexed, Ownership, RunOwn
  <2>2. Pure(config)'
    BY <1>0, <1>3, <2>1, CommitKeepsOwner DEF UpdateIndexed, TextsOwn, run
  <2>. QED
    BY <1>0, <1>00, <1>3, <2>2, FillingOwns DEF UpdateIndexed, run
<1>4. CASE CommitBatch
  <2>1. batch \in SUBSET Chunk /\ Pure(config)
    BY <1>4 DEF CommitBatch, Ownership, RunOwn, TypeOK
  <2>2. Pure(config)'
    BY <1>0, <1>4, <2>1, CommitKeepsOwner DEF CommitBatch, TextsOwn, run
  <2>. QED
    BY <1>0, <1>00, <1>4, <2>2, FillingOwns DEF CommitBatch, run
<1>5. CASE RebuildBM25
  <2>1. Pure(config)'
    BY <1>5 DEF RebuildBM25, store, run, Ownership, RunOwn, Pure
  <2>. QED
    BY <1>0, <1>00, <1>5, <2>1, FillingOwns DEF RebuildBM25, store, run
<1>6. ASSUME NEW C \in SUBSET Chunk, AddVectors(C) PROVE Ownership'
  <2>1. Pure(config)'
    BY <1>0, <1>6, AppendKeepsOwner DEF AddVectors, Ownership, RunOwn
  <2>. QED
    BY <1>0, <1>00, <1>6, <2>1, FillingOwns DEF AddVectors, run
<1>. QED
  BY <1>1, <1>2, <1>3, <1>4, <1>5, <1>6 DEF Fill

LEMMA OthersOwn ==
  Ownership /\ (\/ \E c \in Config, o \in Options : Start(c, o)
                \/ Vouch \/ Dies \/ DiesDiscarding \/ UNCHANGED vars) => Ownership'
<1>0. Ownership /\ (\/ \E c \in Config, o \in Options : Start(c, o)
                    \/ Vouch \/ Dies \/ DiesDiscarding \/ UNCHANGED vars) => TypeOK'
  BY OtherTypes DEF Ownership
<1>1. ASSUME Ownership, NEW c \in Config, NEW o \in Options, Start(c, o) PROVE Ownership'
  <2>1. TextsOwn'
    BY <1>1, TextsAreOwned DEF Start, TextsOwn
  <2>2. MetaOwn' /\ CacheOwn'
    BY <1>1 DEF Start, store, Ownership, MetaOwn, CacheOwn, Pure
  <2>. QED
    BY <1>0, <1>1, <2>1, <2>2 DEF Start, Goto, Ownership, RunOwn
<1>2. ASSUME Ownership, Vouch PROVE Ownership'
  <2>1. CASE WriteCompleted
    BY <1>0, <1>2, <2>1
    DEF WriteCompleted, run, Ownership, TextsOwn, CacheOwn, MetaOwn, RunOwn, Pure
  <2>2. CASE WriteManifest
    BY <1>0, <1>2, <2>2
    DEF WriteManifest, run, Ownership, TextsOwn, CacheOwn, MetaOwn, RunOwn, Pure
  <2>3. CASE WriteContextCache
    <3>1. CacheOwn'
      BY <1>2, <2>3 DEF WriteContextCache, Ownership, TextsOwn, CacheOwn
    <3>. QED
      BY <1>0, <1>2, <2>3, <3>1
      DEF WriteContextCache, store, run, Ownership, TextsOwn, MetaOwn, RunOwn, Pure
  <2>4. CASE Evaluate
    BY <1>0, <1>2, <2>4
    DEF Evaluate, Forget, Goto, store, run, Ownership, TextsOwn, CacheOwn, MetaOwn, RunOwn, Pure
  <2>. QED
    BY <1>2, <2>1, <2>2, <2>3, <2>4 DEF Vouch
<1>3. ASSUME Ownership, Dies PROVE Ownership'
  BY <1>0, <1>3
  DEF Dies, Forget, Goto, store, run, Ownership, TextsOwn, CacheOwn, MetaOwn, RunOwn, Pure
<1>4. ASSUME Ownership, DiesDiscarding PROVE Ownership'
  <2>1. ASSUME NEW c, Pure(c) PROVE Pure(c)'
    BY <1>4, <2>1 DEF DiesDiscarding, Pure
  <2>2. MetaOwn'
    BY <1>4, <2>1 DEF DiesDiscarding, Ownership, MetaOwn, Pure
  <2>. QED
    BY <1>0, <1>4, <2>2
    DEF DiesDiscarding, Forget, Goto, run, Ownership, TextsOwn, CacheOwn, RunOwn
<1>5. ASSUME Ownership, UNCHANGED vars PROVE Ownership'
  BY <1>0, <1>5
  DEF vars, store, run, Ownership, TextsOwn, CacheOwn, MetaOwn, RunOwn, Pure
<1>. QED
  BY <1>1, <1>2, <1>3, <1>4, <1>5

LEMMA StepOwns == Ownership /\ [Next]_vars => Ownership'
BY DecideOwns, FillOwns, OthersOwn DEF Next

(* Whatever died, was cut short or failed to answer, a run evaluates rows, *)
(* nodes and sections of its own configuration only.                       *)
THEOREM ConfigurationsStayApart == Spec => []ConfigurationsNeverMix
<1>1. Init => Ownership
  BY InitOwns
<1>2. Ownership /\ [Next]_vars => Ownership'
  BY StepOwns
<1>3. Ownership => ConfigurationsNeverMix
  BY DEF Ownership, RunOwn, Pure, Owned, OwnText, ConfigurationsNeverMix
<1>. QED
  BY <1>1, <1>2, <1>3, PTL DEF Spec

-----------------------------------------------------------------------------
(* How much of its store a run has filled.  Nothing is claimed of a        *)
(* directory in doubt.                                                     *)

SectionsOf(c) == IF Mode[c] = "plain" THEN {} ELSE {c}

NothingIndexed == \A k \in Chunk : rows[k] = << >> /\ nodes[k] = None

Agree(c) == Mode[c] # "generated" =>
  \A k \in Chunk : rows[k] # << >> /\ nodes[k] # None => nodes[k] = rows[k][1]

(* What a dead run may leave: no chunk twice, no node without its row.     *)
Partial(c) ==
  /\ \A k \in Chunk : rows[k] # << >> => Len(rows[k]) = 1
  /\ \A k \in Chunk : nodes[k] # None => rows[k] # << >>
  /\ Agree(c)
  /\ Mode[c] = "plain" => parents = {}

Whole(c) ==
  /\ \A k \in Chunk : Len(rows[k]) = 1 /\ nodes[k] # None
  /\ Agree(c)
  /\ parents = SectionsOf(c)

InProgress == meta # None /\ meta.status = "in_progress"

Held == /\ Completed => Whole(meta.config)
        /\ InProgress => Partial(meta.config)

Opening == pc \in {"open", "decide"} =>
  /\ meta = None => NothingIndexed /\ parents = {}
  /\ meta # None => option.reuse /\ ~option.force /\ (Completed \/ option.resume)

Loaded == pc \in {"decide", "parents", "repair"} =>
  lexical = IF WithNode # {} THEN WithNode ELSE Indexed

Filling == pc \in {"parents", "repair", "indexed", "add", "commit", "index", "complete"} =>
  IF restoring THEN ~Completed ELSE InProgress

Begun == pc \in {"parents", "repair", "indexed"} =>
  /\ Partial(config)
  /\ restoring \/ ~option.resume => NothingIndexed
  /\ todo = Chunk /\ batch = {}
  /\ pc = "parents" => Mode[config] # "plain"
  /\ pc = "repair" => Mode[config] = "contextual"
  /\ (pc = "indexed" /\ Mode[config] = "contextual") => ~option.resume
  /\ pc \in {"repair", "indexed"} => parents = SectionsOf(config) /\ ~restoring

Filled == pc \in {"add", "commit"} =>
  /\ parents = SectionsOf(config)
  /\ Agree(config)
  /\ todo \cap batch = {}
  /\ pc = "add" => batch = {}
  /\ \A k \in todo : rows[k] = << >> /\ nodes[k] = None
  /\ \A k \in Chunk \ todo : Len(rows[k]) = 1
  /\ \A k \in Chunk \ (todo \cup batch) : nodes[k] # None
  /\ \A k \in batch : rows[k] = << texts[k] >>

Full ==
  /\ pc \in {"index", "complete", "manifest", "cache", "evaluate"} => Whole(config)
  /\ pc \in {"manifest", "cache", "evaluate"} => Completed /\ meta.config = config

Searched == (pc \in {"complete", "manifest", "cache", "evaluate"} /\ Mode[config] = "contextual")
              => lexical = Chunk

AtRest ==
  /\ pc \in {"idle", "discard", "open", "decide"} => todo = {} /\ batch = {}
  /\ pc \in {"discard", "open", "decide"} => ~restoring

Trusted ==
  Held /\ Opening /\ Loaded /\ Filling /\ Begun /\ Filled /\ Full /\ Searched

Progress == AtRest /\ (~doubted => Trusted)



(* The manifest is that of the metadata, and of the run in progress.       *)
Signed ==
  /\ meta # None /\ manifest # None => manifest = StoreSig[meta.config]
  /\ pc \notin {"idle", "discard"} /\ manifest # None => manifest = StoreSig[config]

(* A generated text is all that two owned texts can differ in.             *)
LEMMA OwnedTextsAgree ==
  ASSUME NEW c \in Config, NEW t \in Text, NEW u \in Text, Owned(t, c), Owned(u, c),
         Mode[c] \in {"plain", "prefixed"}
  PROVE  t = u
BY DEF Owned, Text

(* A whole store answers the lookup of its primary report. *)
LEMMA WholeIsIndexed == ASSUME NEW c, Whole(c) PROVE IsIndexed
<1>1. PICK k \in Primary : TRUE
  BY BenchmarkConstants
<1>2. k \in Chunk /\ rows[k] # << >>
  BY <1>1, BenchmarkConstants DEF Whole
<1>. QED
  BY <1>1, <1>2 DEF IsIndexed, Indexed

(* What the claims above say of the disk depends on rows, nodes and        *)
(* sections only.                                                          *)
LEMMA SameDisk ==
  ASSUME UNCHANGED <<rows, nodes, parents>>
  PROVE  /\ NothingIndexed' = NothingIndexed
         /\ \A c : Whole(c)' = Whole(c) /\ Partial(c)' = Partial(c) /\ Agree(c)' = Agree(c)
         /\ WithNode' = WithNode /\ Indexed' = Indexed
BY DEF NothingIndexed, Whole, Partial, Agree, WithNode, Indexed

LEMMA StartProgress ==
  ASSUME Progress, TypeOK, NEW c \in Config, NEW o \in Options, Start(c, o)
  PROVE  Progress'
BY DEF Start, Goto, store, Progress, Trusted, Held, Opening, Loaded, Filling, Begun,
       Filled, Full, Searched, AtRest, Whole, Partial, Agree, Completed, InProgress

LEMMA DiesProgress == ASSUME Progress, TypeOK, Dies \/ Evaluate PROVE Progress'
BY DEF Dies, Evaluate, Forget, Goto, store, run, Progress, Trusted, Held, Opening, Loaded,
       Filling, Begun, Filled, Full, Searched, AtRest, Whole, Partial, Agree, Completed,
       InProgress

LEMMA DiscardProgress == ASSUME Progress, TypeOK, TypeOK', Discard PROVE Progress'
BY DEF Discard, EmptyDirectory, Goto, run, Progress, Trusted, Held, Opening, Loaded,
       Filling, Begun, Filled, Full, Searched, AtRest, NothingIndexed, Completed, InProgress

LEMMA KeepProgress == ASSUME Progress, TypeOK, KeepStore PROVE Progress'
BY DEF KeepStore, Keeps, PartialResume, StoreMatches, Goto, store, run, Progress, Trusted, Held,
       Opening, Loaded, Filling, Begun, Filled, Full, Searched, AtRest, Whole, Partial,
       Agree, Completed, InProgress

LEMMA OpenProgress == ASSUME Progress, TypeOK, Open PROVE Progress'
BY SameDisk DEF Open, Goto, store, run, Progress, Trusted, Held, Opening, Loaded, Filling,
       Begun, Filled, Full, Searched, AtRest, Completed, InProgress

LEMMA VouchProgress == ASSUME Ownership, Progress, Vouch PROVE Progress'
<1>1. CASE WriteCompleted
  BY <1>1, BenchmarkConstants DEF WriteCompleted, Ownership, TypeOK, Meta, Goto, store, run, Progress, Trusted, Held, Opening, Loaded,
       Filling, Begun, Filled, Full, Searched, AtRest, Completed, InProgress, Whole, Agree
<1>2. CASE WriteManifest
  BY <1>2, SameDisk DEF WriteManifest, Goto, store, run, Progress, Trusted, Held, Opening, Loaded, Filling,
       Begun, Filled, Full, Searched, AtRest, Completed, InProgress
<1>3. CASE WriteContextCache
  BY <1>3, SameDisk DEF WriteContextCache, Goto, store, run, Progress, Trusted, Held, Opening, Loaded, Filling,
       Begun, Filled, Full, Searched, AtRest, Completed, InProgress
<1>. QED
  BY <1>1, <1>2, <1>3, DiesProgress DEF Vouch, Ownership

LEMMA UseProgress == ASSUME Ownership, Progress, UseStore PROVE Progress'
<1>1. AtRest'
  BY DEF UseStore, Goto, Progress, AtRest
<1>2. SUFFICES ASSUME ~doubted PROVE Trusted'
  BY <1>1 DEF UseStore, Progress
<1>3. Trusted /\ pc = "decide" /\ meta # None /\ Completed /\ meta.config = config
  BY <1>2 DEF UseStore, StoreHit, StoreMatches, Progress
<1>4. Whole(config)
  BY <1>3 DEF Trusted, Held
<1>5. WithNode = Chunk /\ Chunk # {}
  BY <1>4, BenchmarkConstants DEF Whole, WithNode
<1>6. lexical = Chunk
  BY <1>3, <1>5 DEF Trusted, Loaded
<1>7. Held'
  BY <1>3 DEF UseStore, run, Trusted, Held, Completed, InProgress, Whole, Partial, Agree
<1>8. Full'
  BY <1>3, <1>4 DEF UseStore, Goto, run, Full, Completed, Whole, Agree
<1>. QED
  BY <1>6, <1>7, <1>8
  DEF UseStore, Goto, Trusted, Opening, Loaded, Filling, Begun, Filled, Searched

(* A whole store is a partial one. *)
LEMMA WholeIsPartial == ASSUME TypeOK, NEW c, Whole(c) PROVE Partial(c)
<1>1. \A k \in Chunk : Len(rows[k]) = 1 /\ rows[k] # << >>
  BY DEF Whole
<1>2. Mode[c] = "plain" => parents = {}
  BY DEF Whole, SectionsOf
<1>. QED
  BY <1>1, <1>2 DEF Whole, Partial

(* A run resumes whatever is there, and fills without asking only what has *)
(* no row: else the directory is in doubt.                                 *)
LEMMA FillStartsProgress ==
  ASSUME Ownership, Progress, FillStore \/ LookupFails
  PROVE  Progress'
<1>0. /\ RestoreFromCache \/ IngestAnew
      /\ pc = "decide" /\ TypeOK
  BY DEF FillStore, LookupFails, Ownership
<1>1. AtRest /\ AtRest'
  BY <1>0 DEF RestoreFromCache, IngestAnew, Goto, Progress, AtRest
<1>2. SUFFICES ASSUME ~doubted' PROVE Trusted'
  BY <1>1 DEF Progress
<1>3. CASE ~doubted
  <2>0. Trusted
    BY <1>3 DEF Progress
  <2>1. meta # None => meta.config = config
    BY <1>0 DEF Ownership, RunOwn
  <2>2. Partial(config)
    <3>1. CASE meta = None
      BY <1>0, <2>0, <3>1 DEF Trusted, Opening, Partial, NothingIndexed, Agree
    <3>2. CASE Completed
      BY <1>0, <2>0, <2>1, <3>2, WholeIsPartial DEF Trusted, Held, Completed
    <3>3. CASE InProgress
      BY <2>0, <2>1, <3>3 DEF Trusted, Held, InProgress
    <3>. QED
      BY <1>0, <3>1, <3>2, <3>3 DEF Completed, InProgress, TypeOK, Meta
  <2>3. Indexed = {} => NothingIndexed
    BY <2>2 DEF Indexed, NothingIndexed, Partial
  <2>6. CASE RestoreFromCache
    <3>1. NothingIndexed
      BY <1>2, <2>3, <2>6 DEF RestoreFromCache
    <3>2. ~Completed
      <4>1. SUFFICES ASSUME Completed PROVE FALSE
        OBVIOUS
      <4>2. IsIndexed
        BY <2>0, <4>1, WholeIsIndexed DEF Trusted, Held
      <4>. QED
        BY <3>1, <4>2 DEF IsIndexed, Indexed, NothingIndexed
    <3>3. UNCHANGED <<rows, nodes, parents, meta, config, lexical>>
      BY <2>6 DEF RestoreFromCache, store
    <3>4. Partial(config)' /\ NothingIndexed'
      BY <2>2, <3>1, <3>3 DEF Partial, Agree, NothingIndexed
    <3>5. Held'
      BY <2>0, <3>3, SameDisk DEF Trusted, Held, Completed, InProgress
    <3>6. Loaded'
      BY <1>0, <2>0, <3>3, SameDisk DEF Trusted, Loaded
    <3>7. Begun' /\ Filling' /\ Filled'
      BY <1>0, <1>1, <2>2, <2>6, <3>1, <3>2, <3>4, BenchmarkConstants
      DEF RestoreFromCache, Goto, store, Begun, Filling, Filled, Completed, AtRest, Partial,
          Agree, NothingIndexed, SectionsOf
    <3>. QED
      BY <2>6, <3>7, <3>5, <3>6
      DEF RestoreFromCache, Goto, Trusted, Opening, Full, Searched
  <2>7. CASE IngestAnew
    <3>1. Partial(config)
      BY <2>2
    <3>2. option.resume \/ NothingIndexed
      BY <1>2, <2>3, <2>7 DEF IngestAnew
    <3>3. /\ meta'.status = "in_progress" /\ meta'.config = config /\ meta' # None
          /\ config' = config /\ option' = option /\ restoring' = restoring
      BY <2>7, BenchmarkConstants DEF IngestAnew, run, Ownership, TypeOK, Meta
    <3>4. Partial(config)' /\ (NothingIndexed => NothingIndexed') /\ Loaded'
      BY <1>0, <2>0, <2>7, <3>1, <3>3
      DEF IngestAnew, Partial, Agree, NothingIndexed, Trusted, Loaded, WithNode, Indexed
    <3>5. Held'
      BY <2>7, <3>3, <3>4
      DEF IngestAnew, Held, Completed, InProgress, Partial, Agree
    <3>6. parents' = parents /\ (Mode[config] = "plain" => parents' = {})
      BY <2>7, <3>1 DEF IngestAnew, Partial
    <3>7. Begun' /\ Filling'
      BY <1>0, <1>1, <2>7, <3>2, <3>3, <3>4, <3>6
      DEF IngestAnew, Goto, Begun, Filling, InProgress, AtRest, SectionsOf
    <3>. QED
      BY <2>7, <3>4, <3>5, <3>7
      DEF IngestAnew, Goto, Trusted, Opening, Filled, Full, Searched
  <2>. QED
    BY <1>0, <2>6, <2>7
<1>. QED
  BY <1>0, <1>2, <1>3 DEF RestoreFromCache, IngestAnew

-----------------------------------------------------------------------------
(* Filling.                                                                *)

(* A store that is being filled is not called completed and stays partial. *)
LEMMA FillingHeld ==
  ASSUME Ownership, Ownership', Trusted, Filling, Partial(config)',
         pc \in {"parents", "repair", "indexed", "add", "commit", "index"},
         UNCHANGED <<meta, cache, config>>
  PROVE  Held'
<1>1. Completed = FALSE /\ (meta # None => meta.config = config)
  BY DEF Filling, InProgress, Completed, Ownership, RunOwn
<1>. QED
  BY <1>1 DEF Held, Completed, InProgress, Partial, Agree, Trusted

LEMMA ParentsProgress ==
  ASSUME Ownership, Ownership', Progress, SaveParents PROVE Progress'
<1>1. SUFFICES ASSUME ~doubted PROVE Trusted'
  BY DEF SaveParents, Goto, Progress, AtRest
<1>2. Trusted /\ pc = "parents"
  BY <1>1 DEF SaveParents, Progress
<1>3. Partial(config) /\ todo = Chunk /\ batch = {} /\ Mode[config] # "plain"
  BY <1>2 DEF Trusted, Begun
<1>4. parents' = {config} /\ UNCHANGED <<rows, nodes, meta, cache, run, todo, batch>>
  BY <1>2, <1>3 DEF SaveParents, Ownership, RunOwn, Pure
<1>5. Partial(config)' /\ Agree(config)' /\ parents' = SectionsOf(config)
  BY <1>3, <1>4 DEF run, Partial, Agree, SectionsOf
<1>6. Held'
  BY <1>2, <1>4, <1>5, FillingHeld DEF run, Trusted
<1>7. CASE restoring
  <2>1. pc' = "add" /\ NothingIndexed
    <3>1. pc' = "add"
      BY <1>7 DEF SaveParents, Goto
    <3>2. Begun /\ pc = "parents" /\ restoring
      BY <1>2, <1>7 DEF Trusted
    <3>3. NothingIndexed
      BY <3>2 DEF Begun
    <3>. QED
      BY <3>1, <3>3
  <2>2. Filled'
    BY <1>3, <1>4, <1>5, <2>1 DEF run, Filled, NothingIndexed, SectionsOf
  <2>3. restoring' /\ ~Completed'
    BY <1>2, <1>4, <1>7 DEF run, Trusted, Filling, Completed
  <2>. QED
    BY <1>6, <2>1, <2>2, <2>3 DEF Trusted, Opening, Loaded, Filling, Begun, Full, Searched
<1>8. CASE ~restoring
  <2>1. /\ pc' \in {"repair", "indexed"}
        /\ pc' = "repair" => Mode[config] = "contextual"
        /\ (pc' = "indexed" /\ Mode[config] = "contextual") => ~option.resume
    BY <1>8 DEF SaveParents, Goto
  <2>2. lexical' = lexical /\ WithNode' = WithNode /\ Indexed' = Indexed
    BY <1>4 DEF SaveParents, WithNode, Indexed
  <2>. QED
    BY <1>2, <1>3, <1>4, <1>5, <1>6, <1>8, <2>1, <2>2
    DEF run, Trusted, Opening, Loaded, Filling, InProgress, Begun, Filled, Full, Searched,
        NothingIndexed, SectionsOf
<1>. QED
  BY <1>7, <1>8

LEMMA RepairProgress ==
  ASSUME Ownership, Ownership', Progress, Repair PROVE Progress'
<1>1. SUFFICES ASSUME ~doubted PROVE Trusted'
  BY DEF Repair, Goto, Progress, AtRest
<1>2. /\ Trusted /\ TypeOK /\ pc = "repair" /\ Partial(config) /\ Mode[config] = "contextual"
      /\ parents = SectionsOf(config) /\ ~restoring /\ todo = Chunk /\ batch = {}
  BY <1>1 DEF Repair, Progress, Trusted, Begun, Ownership
<1>3. UNCHANGED <<rows, parents, meta, cache, config, option, restoring, batch>>
  BY DEF Repair
<1>4. \A k \in Indexed : rows[k] = << rows[k][1] >> /\ RepairText(k) = rows[k][1]
  BY <1>2, RepairTexts DEF Partial, Indexed, TypeOK
<1>5. \A k \in Chunk : nodes'[k] = IF k \in Indexed \ WithNode THEN rows[k][1] ELSE nodes[k]
  BY <1>2, <1>4 DEF Repair, CommitNodes, TypeOK
<1>6. \A k \in Indexed : nodes'[k] # None /\ nodes'[k] = rows[k][1]
  <2> SUFFICES ASSUME NEW k \in Indexed PROVE nodes'[k] # None /\ nodes'[k] = rows[k][1]
    OBVIOUS
  <2>1. k \in Chunk /\ rows[k] # << >>
    BY DEF Indexed
  <2>2. CASE k \in WithNode
    BY <1>2, <1>5, <2>1, <2>2 DEF WithNode, Partial, Agree
  <2>3. CASE k \notin WithNode
    <3>1. RepairText(k) \in Text
      BY <1>2, RepairTexts
    <3>. QED
      BY <1>4, <1>5, <2>1, <2>3, <3>1, BenchmarkConstants
  <2>. QED
    BY <2>2, <2>3
<1>7. \A k \in Chunk \ Indexed : rows[k] = << >> /\ nodes'[k] = None
  BY <1>2, <1>5 DEF Indexed, WithNode, Partial
<1>8. Agree(config)' /\ Partial(config)'
  BY <1>2, <1>3, <1>6, <1>7 DEF Agree, Partial, Indexed
<1>9. Held'
  BY <1>2, <1>3, <1>8, FillingHeld DEF Trusted
<1>10. CASE Indexed = Chunk
  <2>1. pc' = "complete"
    BY <1>10 DEF Repair, Goto
  <2>2. Whole(config)'
    BY <1>2, <1>3, <1>4, <1>6, <1>8, <1>10 DEF Whole, SectionsOf, Partial, Indexed
  <2>3. Chunk # {}
    BY BenchmarkConstants
  <2>4. lexical' = Chunk
    <3>1. CASE Indexed \ WithNode = {}
      <4>1. WithNode = Chunk
        BY <1>10, <3>1 DEF WithNode
      <4>. QED
        BY <1>2, <2>3, <3>1, <4>1 DEF Repair, AfterRepair, Trusted, Loaded
    <3>2. CASE Indexed \ WithNode # {}
      BY <1>10, <3>2 DEF Repair, AfterRepair, WithNode
    <3>. QED
      BY <3>1, <3>2
  <2>. QED
    BY <1>2, <1>3, <1>9, <2>1, <2>2, <2>4
    DEF Trusted, Opening, Loaded, Filling, InProgress, Begun, Filled, Full, Searched
<1>11. CASE Indexed # Chunk
  <2>1. pc' = "add" /\ todo' = Chunk \ Indexed
    BY <1>11 DEF Repair, Goto
  <2>2. Filled'
    BY <1>2, <1>3, <1>4, <1>6, <1>7, <1>8, <2>1 DEF Filled, Indexed, SectionsOf, Partial
  <2>. QED
    BY <1>2, <1>3, <1>9, <2>1, <2>2
    DEF Trusted, Opening, Loaded, Filling, InProgress, Begun, Full, Searched
<1>. QED
  BY <1>10, <1>11

LEMMA UpdateProgress ==
  ASSUME Ownership, Ownership', Progress, UpdateIndexed PROVE Progress'
<1>1. SUFFICES ASSUME ~doubted PROVE Trusted'
  BY DEF UpdateIndexed, Goto, Progress, AtRest
<1>2. /\ Trusted /\ TypeOK /\ pc = "indexed" /\ Partial(config)
      /\ parents = SectionsOf(config) /\ ~restoring /\ todo = Chunk /\ batch = {}
  BY <1>1 DEF UpdateIndexed, Progress, Trusted, Begun, Ownership
<1>3. UNCHANGED <<rows, parents, meta, cache, run, batch>>
  BY DEF UpdateIndexed
<1>4. Existing = Indexed
  BY <1>2 DEF Existing, Trusted, Begun, NothingIndexed, Indexed
<1>5. \A k \in Chunk : nodes'[k] = IF k \in Indexed THEN texts[k] ELSE nodes[k]
  BY <1>2, <1>4 DEF UpdateIndexed, CommitNodes, TypeOK
<1>6. \A k \in Indexed : k \in Chunk /\ rows[k] # << >> /\ Len(rows[k]) = 1 /\ nodes'[k] # None
  BY <1>2, <1>5, BenchmarkConstants DEF Indexed, Partial, TypeOK
<1>7. \A k \in Chunk \ Indexed : rows[k] = << >> /\ nodes'[k] = None
  BY <1>2, <1>5 DEF Indexed, Partial
<1>8. Agree(config)'
  <2>1. SUFFICES ASSUME Mode[config] # "generated", NEW k \in Indexed
                 PROVE  nodes'[k] = rows[k][1]
    BY <1>3, <1>7 DEF Agree, run
  <2>2. CASE Mode[config] \in {"plain", "prefixed"}
    <3>1. rows[k][1] \in Text /\ Owned(rows[k][1], config)
      BY <1>2, <1>6 DEF Ownership, RunOwn, Pure, TypeOK
    <3>2. texts[k] \in Text /\ Owned(texts[k], config)
      BY <1>6 DEF Ownership, TextsOwn, TypeOK
    <3>3. rows[k][1] = texts[k]
      BY <2>2, <3>1, <3>2, OwnedTextsAgree DEF Ownership, TypeOK
    <3>. QED
      BY <1>5, <1>6, <3>3
  <2>3. CASE Mode[config] = "contextual"
    BY <1>2, <1>6, <2>3 DEF Trusted, Begun, NothingIndexed
  <2>. QED
    BY <1>2, <2>1, <2>2, <2>3, BenchmarkConstants DEF Modes, TypeOK
<1>9. Partial(config)'
  BY <1>2, <1>3, <1>6, <1>7, <1>8 DEF Partial, run
<1>10. Held'
  BY <1>2, <1>3, <1>9, FillingHeld DEF Trusted, run
<1>11. CASE Indexed = Chunk
  <2>1. pc' = "complete"
    BY <1>4, <1>11 DEF UpdateIndexed, Goto
  <2>2. Whole(config)'
    BY <1>2, <1>3, <1>6, <1>8, <1>11 DEF Whole, SectionsOf, run
  <2>3. Mode[config] # "contextual"
    BY <1>2, <1>6, <1>11, BenchmarkConstants DEF Trusted, Begun, NothingIndexed
  <2>. QED
    BY <1>2, <1>3, <1>10, <2>1, <2>2, <2>3
    DEF Trusted, Opening, Loaded, Filling, InProgress, Begun, Filled, Full, Searched, run
<1>12. CASE Indexed # Chunk
  <2>1. pc' = "add" /\ todo' = Chunk \ Indexed
    BY <1>4, <1>12 DEF UpdateIndexed, Goto
  <2>2. Filled'
    BY <1>2, <1>3, <1>6, <1>7, <1>8, <2>1 DEF Filled, SectionsOf, run
  <2>. QED
    BY <1>2, <1>3, <1>10, <2>1, <2>2
    DEF Trusted, Opening, Loaded, Filling, InProgress, Begun, Full, Searched, run
<1>. QED
  BY <1>11, <1>12

LEMMA AddProgress ==
  ASSUME Ownership, Ownership', Progress, NEW C \in SUBSET Chunk, AddVectors(C)
  PROVE  Progress'
<1>1. SUFFICES ASSUME ~doubted PROVE Trusted'
  BY DEF AddVectors, Goto, Progress, AtRest
<1>2. Trusted /\ TypeOK /\ TypeOK' /\ pc = "add" /\ pc' = "commit" /\ batch = {} /\ Filled
  BY <1>1 DEF AddVectors, Goto, Progress, Trusted, Ownership, Filled
<1>3. /\ UNCHANGED <<nodes, parents, meta, cache, config, option, texts, restoring>>
      /\ C \subseteq todo /\ batch' = C /\ todo' = todo \ C
  BY DEF AddVectors, run
<1>4. \A k \in Chunk : rows'[k] = IF k \in C THEN << texts[k] >> ELSE rows[k]
  <2>1. ASSUME NEW k \in C PROVE rows[k] = << >> /\ k \in Chunk
    BY <1>2, <1>3 DEF Filled
  <2>2. \A k \in Chunk : Append(<< >>, texts[k]) = << texts[k] >>
    OBVIOUS
  <2>3. \A k \in Chunk : rows'[k] = IF k \in C THEN Append(rows[k], texts[k]) ELSE rows[k]
    BY DEF AddVectors
  <2>. QED
    BY <2>1, <2>2, <2>3
<1>5. /\ parents = SectionsOf(config) /\ Agree(config)
      /\ \A k \in todo : rows[k] = << >> /\ nodes[k] = None
      /\ \A k \in Chunk \ todo : Len(rows[k]) = 1 /\ nodes[k] # None
  BY <1>2 DEF Filled
<1>6. Agree(config)'
  BY <1>3, <1>4, <1>5 DEF Agree
<1>7. \A k \in C : Len(rows'[k]) = 1 /\ rows'[k] # << >> /\ nodes'[k] = None
  <2> SUFFICES ASSUME NEW k \in C
               PROVE  Len(rows'[k]) = 1 /\ rows'[k] # << >> /\ nodes'[k] = None
    OBVIOUS
  <2>1. rows'[k] = << texts[k] >>
    BY <1>4
  <2>2. Len(<< texts[k] >>) = 1 /\ << texts[k] >> # << >>
    OBVIOUS
  <2>3. nodes'[k] = None
    BY <1>3, <1>5
  <2>. QED
    BY <2>1, <2>2, <2>3
<1>8. Filled'
  BY <1>2, <1>3, <1>4, <1>5, <1>6, <1>7 DEF Filled, SectionsOf, TypeOK
<1>9. Partial(config)'
  <2>1. \A k \in Chunk \ C : rows'[k] = rows[k] /\ nodes'[k] = nodes[k]
    BY <1>3, <1>4
  <2>2. \A k \in Chunk : rows'[k] # << >> => Len(rows'[k]) = 1
    BY <1>5, <1>7, <2>1
  <2>3. \A k \in Chunk : nodes'[k] # None => rows'[k] # << >>
    <3> SUFFICES ASSUME NEW k \in Chunk \ todo, k \notin C PROVE rows'[k] # << >>
      BY <1>3, <1>5, <1>7, <2>1
    <3>. QED
      BY <1>5, <2>1
  <2>. QED
    BY <1>3, <1>5, <1>6, <2>2, <2>3 DEF Partial, SectionsOf
<1>10. Held'
  BY <1>2, <1>3, <1>9, FillingHeld DEF Trusted
<1>. QED
  BY <1>2, <1>3, <1>8, <1>10
  DEF Trusted, Opening, Loaded, Filling, Completed, InProgress, Begun, Full, Searched

LEMMA CommitProgress ==
  ASSUME Ownership, Ownership', Progress, CommitBatch PROVE Progress'
<1>1. SUFFICES ASSUME ~doubted PROVE Trusted'
  BY DEF CommitBatch, Goto, Progress, AtRest
<1>2. Trusted /\ TypeOK /\ pc = "commit" /\ Filled
  BY <1>1 DEF CommitBatch, Progress, Trusted, Ownership
<1>3. /\ UNCHANGED <<rows, parents, meta, cache, config, option, texts, restoring, todo>>
      /\ batch' = {} /\ batch \subseteq Chunk \ todo
  BY <1>2 DEF CommitBatch, run, Filled, TypeOK
<1>4. \A k \in Chunk : nodes'[k] = IF k \in batch THEN texts[k] ELSE nodes[k]
  BY <1>2 DEF CommitBatch, CommitNodes, TypeOK
<1>5. \A k \in Chunk \ todo : Len(rows[k]) = 1 /\ rows[k] # << >> /\ nodes'[k] # None
  BY <1>2, <1>3, <1>4, BenchmarkConstants DEF Filled, TypeOK
<1>6. \A k \in todo : rows[k] = << >> /\ nodes'[k] = None
  BY <1>2, <1>3, <1>4 DEF Filled, TypeOK
<1>7. Agree(config)'
  BY <1>2, <1>3, <1>4 DEF Agree, Filled
<1>8. Partial(config)'
  BY <1>2, <1>3, <1>5, <1>6, <1>7 DEF Partial, Filled, SectionsOf
<1>9. Held'
  BY <1>2, <1>3, <1>8, FillingHeld DEF Trusted
<1>10. CASE todo = {}
  <2>1. Whole(config)' /\ pc' = "index"
    BY <1>2, <1>3, <1>5, <1>7, <1>10 DEF CommitBatch, Goto, Whole, Filled, SectionsOf
  <2>. QED
    BY <1>2, <1>3, <1>9, <2>1
    DEF Trusted, Opening, Loaded, Filling, Completed, InProgress, Begun, Filled, Full, Searched
<1>11. CASE todo # {}
  <2>1. Filled' /\ pc' = "add"
    BY <1>2, <1>3, <1>5, <1>6, <1>7, <1>11 DEF CommitBatch, Goto, Filled, SectionsOf
  <2>. QED
    BY <1>2, <1>3, <1>9, <2>1
    DEF Trusted, Opening, Loaded, Filling, Completed, InProgress, Begun, Full, Searched
<1>. QED
  BY <1>10, <1>11

LEMMA RebuildProgress ==
  ASSUME Ownership, Ownership', Progress, RebuildBM25 PROVE Progress'
<1>1. SUFFICES ASSUME ~doubted PROVE Trusted'
  BY DEF RebuildBM25, Goto, Progress, AtRest
<1>2. Trusted /\ pc = "index" /\ pc' = "complete" /\ Whole(config)
  BY <1>1 DEF RebuildBM25, Goto, Progress, Trusted, Full
<1>3. UNCHANGED <<rows, nodes, parents, meta, cache, config, option, texts, restoring>>
  BY DEF RebuildBM25, store, run
<1>4. Whole(config)' /\ lexical' = Chunk
  BY <1>2, <1>3 DEF RebuildBM25, Whole, Agree, SectionsOf, WithNode
<1>5. Held'
  BY <1>2, <1>3 DEF Trusted, Held, Completed, InProgress, Whole, Partial, Agree
<1>. QED
  BY <1>2, <1>3, <1>4, <1>5
  DEF Trusted, Opening, Loaded, Filling, Completed, InProgress, Begun, Filled, Full, Searched

LEMMA StepProgress ==
  ASSUME Ownership, Ownership', Progress, [Next]_vars
  PROVE  Progress'
<1>3. ASSUME DiesDiscarding PROVE Progress'
  BY <1>3 DEF DiesDiscarding, Forget, Goto, Progress, AtRest
<1>4. ASSUME UNCHANGED vars PROVE Progress'
  BY <1>4, SameDisk
  DEF vars, store, run, Progress, Trusted, Held, Opening, Loaded, Filling, Begun, Filled,
      Full, Searched, AtRest, Completed, InProgress, SectionsOf
<1>5. ASSUME Decide PROVE Progress'
  BY <1>5, DiscardProgress, KeepProgress, OpenProgress, UseProgress, FillStartsProgress
  DEF Decide, Ownership
<1>6. ASSUME Fill PROVE Progress'
  BY <1>6, ParentsProgress, RepairProgress, UpdateProgress, AddProgress, CommitProgress,
     RebuildProgress
  DEF Fill
<1>. QED
  BY <1>3, <1>4, <1>5, <1>6, StartProgress, VouchProgress, DiesProgress
  DEF Next, Ownership

LEMMA InitProgress == Init => Progress
BY DEF Init, DirectoryEmpty, Progress, Trusted, Held, Opening, Loaded, Filling, Begun,
       Filled, Full, Searched, AtRest, Completed, InProgress

(* Each step leaves the manifest of its own configuration, or none.        *)
LEMMA StepSigns == Ownership /\ Signed /\ [Next]_vars => Signed'
<1> SUFFICES ASSUME Ownership, Signed, [Next]_vars PROVE Signed'
  OBVIOUS
<1>1. ASSUME RestoreFromCache \/ IngestAnew, pc = "decide" PROVE Signed'
  BY <1>1, BenchmarkConstants
  DEF RestoreFromCache, IngestAnew, Goto, store, run, Signed, Ownership, RunOwn, Meta
<1>2. ASSUME Decide PROVE Signed'
  BY <1>1, <1>2
  DEF Decide, Discard, EmptyDirectory, KeepStore, Keeps, PartialResume, StoreMatches, ManifestOf,
      Open, UseStore, StoreHit, FillStore, LookupFails, Goto, store, run, Signed, Ownership, RunOwn
<1>3. ASSUME Fill PROVE Signed'
  BY <1>3
  DEF Fill, SaveParents, Repair, UpdateIndexed, CommitBatch, RebuildBM25, AddVectors, Goto, store,
      run, Signed
<1>4. ASSUME Vouch PROVE Signed'
  BY <1>4
  DEF Vouch, WriteCompleted, WriteManifest, WriteContextCache, Evaluate, Forget, Goto, ManifestOf,
      store, run, Signed, Ownership, RunOwn
<1>5. ASSUME Dies \/ DiesDiscarding PROVE Signed'
  BY <1>5 DEF Dies, DiesDiscarding, Forget, Goto, store, run, Signed
<1>6. ASSUME NEW c \in Config, NEW o \in Options, Start(c, o) PROVE Signed'
  BY <1>6 DEF Start, Goto, store, Signed
<1>7. ASSUME UNCHANGED vars PROVE Signed'
  BY <1>7 DEF vars, store, run, Signed
<1>. QED
  BY <1>2, <1>3, <1>4, <1>5, <1>6, <1>7 DEF Next

-----------------------------------------------------------------------------
(* What the runs may rely on.                                              *)

Invariant == Ownership /\ Progress /\ Signed

LEMMA InvariantHolds == Spec => []Invariant
<1>1. Init => Invariant
  BY InitOwns, InitProgress DEF Invariant, Signed, Init, DirectoryEmpty
<1>2. Invariant /\ [Next]_vars => Invariant'
  BY StepOwns, StepProgress, StepSigns DEF Invariant
<1>. QED
  BY <1>1, <1>2, PTL DEF Spec

LEMMA WholeMeansWhole == ASSUME NEW c \in Config, Pure(c), Whole(c) PROVE WholeFor(c)
BY DEF Pure, Owned, Whole, WholeFor, SectionsOf

(* A run evaluates a whole store, whatever step earlier runs died in.      *)
THEOREM EvaluatedStoresAreWhole == Spec => []EvaluatedStoreIsWhole
<1>1. Invariant => EvaluatedStoreIsWhole
  BY WholeMeansWhole
  DEF Invariant, Ownership, TypeOK, RunOwn, Progress, Trusted, Full, EvaluatedStoreIsWhole
<1>. QED
  BY <1>1, InvariantHolds, PTL

(* Completed metadata beside a manifest stands for a whole store, and the  *)
(* manifest is that configuration's.                                       *)
THEOREM CompletedMetadataIsTrue == Spec => []CompletedIsTrue
<1>1. Invariant => CompletedIsTrue
  <2>1. SUFFICES ASSUME Invariant, Completed, manifest # None, ~doubted
                 PROVE  WholeFor(meta.config) /\ manifest = StoreSig[meta.config]
    BY DEF CompletedIsTrue
  <2>2. meta # None /\ meta.config \in Config
    BY <2>1 DEF Invariant, Ownership, TypeOK, Completed, Meta
  <2>3. Pure(meta.config) /\ Whole(meta.config)
    BY <2>1, <2>2 DEF Invariant, Ownership, MetaOwn, Progress, Trusted, Held
  <2>. QED
    BY <2>1, <2>2, <2>3, WholeMeansWhole DEF Invariant, Signed
<1>. QED
  BY <1>1, InvariantHolds, PTL

(* The node a run evaluates carries the text its vector was computed from. *)
THEOREM TextsAreEmbedded == Spec => []EvaluatedTextIsEmbeddedText
<1>1. Invariant => EvaluatedTextIsEmbeddedText
  BY BenchmarkConstants
  DEF Invariant, Progress, Trusted, Full, Whole, Agree, EvaluatedTextIsEmbeddedText
<1>. QED
  BY <1>1, InvariantHolds, PTL

(* A contextual run ranks every chunk by BM25, resumed or not.             *)
THEOREM ContextualRunsSearchAll == Spec => []ContextualRunSearchesEverything
<1>1. Invariant => ContextualRunSearchesEverything
  BY DEF Invariant, Progress, Trusted, Searched, ContextualRunSearchesEverything
<1>. QED
  BY <1>1, InvariantHolds, PTL
=============================================================================
