# TLA+ models of dart-rag-agent

TLA+ specifications, TLC configurations and TLAPS proofs for the core of the
DART filing question answering service. All paths below are relative to the
repository root; `src/...` is its Python package.

## 1. The system

The application ingests Korean company filings into a store (vectors, a
structure graph, table payloads, parent sections, a BM25 index) and answers
questions from it, citing its sources. Around it stand offline tools: building a
successor store when the parser changes, budgets for paid provider calls in
experiments, evaluation, and an older compiled workflow kept as a comparison.

| component | state | operations | talks to |
|---|---|---|---|
| Filing store (`src/storage/`) | Chroma rows, `document_structure_graph.json`, `table_payloads.json`, `parents.json`, `store_manifest.json`; in memory graph, payloads, parents, BM25, search cache with its mode dictionary, cooldown deadline | load, add parents, repair, add vector batch, commit graph, rebuild BM25, search, integrity check | embedding provider, file system |
| Ingest (`src/ingestion/`) | progress of one request, `manifest_recorded` | boundary check, skip, contextual ingest per report, record manifest | store, parser, fetcher, chat provider |
| Services and router (`src/api/`) | readiness, operation lock | startup decision, ingest, query, refresh readiness | ingest, agent, store |
| Simple RAG agent (`src/agent/simple_rag.py`) | none between requests | search, evidence packet, answer, validation | store, chat provider |
| Provider budget (`src/ops/provider_admission.py` and three guard modules) | charged, pending, count allowance, records, stop reason, a lock | preflight, count, dispatch, settle, close | provider clients it wraps |
| Successor build (`src/ops/build_parser_store_successor.py`) | output directory, original store, prepared inputs | inventory, prepare, build, resume, verify, publish | file system, Chroma |
| Manifest adoption (`src/ops/adopt_store_manifest.py`) | none | one offline write of the manifest | store directory |
| Structure graph (`src/storage/structure_graph.py`) | one node per chunk with its relations, lists of each section | update, rebuild, delete a filing, neighbour lookups | store, compiled workflow |
| Parser (`src/processing/`) | none between sections; open headings and waiting labels within one | sections, blocks, chunks, table records | ingest |
| Compiled workflow (`src/agent/financial_*.py`) | state of one request: plan, retrieved rows, candidates, program, answer | plan, retrieve under a budget, expand through the graph, compile with repairs, execute | store, graph, chat provider |
| Benchmark runner and evaluator (`src/ops/benchmark_runner.py`, `evaluator.py`) | a store directory per experiment with its metadata and manifest, a context cache, result files | reuse, resume, restore or discard a store, ingest, evaluate | everything above |
| Audit, replay, review tools (`src/ops/`), user interface (`app.py`), usage counters, chat routes, ontology tables | reports, display | one pass each | read the above |

What is hard here, and what has to be right:

* **Store and ingest.** An ingest is a dozen durable writes over six artifacts
  with no transaction. It can fail or be killed between any two, is repeated by
  its user, and must then neither skip what is incomplete nor embed anything
  twice. Right means: a committed node keeps its payload, its vector and its
  parent section; one vector per chunk; *ready* is only said of intact sources;
  *success* is only said of what can be found; degraded mode never writes.
* **Search and answers.** Results are cached across commits, cooldowns and
  evictions. Right means: no stale result, no degraded result passed off as a
  hybrid one, fusion that respects both rankings, a packet that hides nothing
  without saying so, citations inside what was supplied.
* **Provider budget.** Threads share one budget, calls fail, usage may exceed
  its reservation, a count and its generation are two calls. Right means: the
  cap and the limits hold with everything in flight counted, the books balance,
  a closed budget admits nothing, the lock is always released.
* **Successor build.** Invocations may run side by side, be killed, resumed, or
  given other inputs. Right means: a manifest stands for a complete store of
  one input and is never touched again, and a build can be resumed.

* **Structure graph and retrieval.** Relations are rebuilt batch by batch over
  nodes that already carry some; hits, their neighbours, several queries and
  required groups of evidence compete for a few places. Right means: the graph
  forgets how it was built, context never displaces a hit while there is room,
  no required group is left without a query or without its row.
* **Compilation.** A provider's program is validated, repaired once, sealed
  island by island and merged. Right means: a repair disturbs nothing it is not
  about, outputs of one subject come from one row, failures are not turned into
  omissions, and what a query exposes stays bounded.
* **Parsing.** One pass with a stack and three waiting labels, restarted when it
  is too slow. Right means: no text lost or doubled, every block under the
  headings open over it, no chunk and no table context across them.
* **Benchmark stores.** A directory is reused, resumed, restored or emptied on
  the word of three files, after runs that died anywhere. Right means: no run
  evaluates another configuration's store, or half of its own.

`PROJECT.json` lists every component with its status and every hazard with the
properties that cover it.

## 2. Modules

| module | what it models |
|---|---|
| `SourceIndex` | abstract specification: a set of durable sources that only grows; every answer is drawn from it |
| `FilingStore` | store, ingest, startup, readiness, query, adoption, crashes and failures |
| `FilingStoreProofs` | proofs about it: types and the store invariant; then what is served and what an ingest leaves |
| `ProviderBudget`, `ProviderBudgetProofs` | the budget and its guards; proofs |
| `QueryService`, `QueryServiceProofs` | search, cache, fusion, packet, answer, disclosure; proofs |
| `SuccessorBuild`, `SuccessorBuildProofs` | `build_successor`; proofs |
| `StructureGraph` | the graph's updates, rebuild, deletions and lookups |
| `GraphExpansion` | extends `StructureGraph`: joining search hits with the context the graph knows |
| `EvidenceRetrieval`, `EvidenceRetrievalProofs` | extends `GraphExpansion`: the compiled workflow's retrieval, taking turns with changes of the graph; proofs about all three |
| `ProgramCompile`, `ProgramCompileProofs` | compilation, repair, sealing and execution of a calculation program; proofs |
| `SectionParse`, `SectionParseProofs` | from the elements of a section to its chunks; proofs |
| `BenchmarkStore`, `BenchmarkStoreProofs` | the store directory of a benchmark experiment over many runs; proofs |
| `MC...` | instances for TLC |

A property's counterpart for the code, where one is subtle, stands in its
comment. A definition with `Mutant` in its comment is a plausible bug in the
definition after it; each property of a run fails when one is put in its place.

### FilingStore

`rows` counts the identified vector rows of each chunk, so a duplicate shows as
2; `stripped` are rows that lost their metadata but kept an id equal to the
parser's chunk uid, which repair can put back. `payloadFile`, `graphFile`,
`parentFile`, `manifest` are the files; `graph`, `payloads`, `parents`, `bm25`,
`cache` the memory that startup loads from them. `pc` names the next durable
step of the ingest that holds the operation lock:

    scan -> parents -> repair -> context -> add -> progress -> payload -> graph
                                             ^                            |
                                             +-------- next batch --------+
    ... -> persist -> record -> scan -> (request ends)

A repair that committed nodes goes on to `reindex`, its own BM25 build, before
`context` or `record`. Any step in `FaultKinds` may fail, the BM25 builds of
`reindex` and `persist` among them (`lagging` remembers that one was lost and
none has succeeded since), and the process may crash before any of
them. `EndIngest` is the `finally` of the router's `ingest_and_refresh`: however
a request ends, readiness is recomputed. A query is one step, because the lock
excludes ingest for its whole duration; its answer may fail after its result was
cached.

Abstractions. Report, chunk and batch order are left open. A retry of a
transient vector failure is a stuttering step, since a failed attempt embeds
before it upserts. A manifest that cannot be read counts as another identity. A
report without a local file, or without chunks, counts as not requested. One
process runs at a time. `parents.json` is never lost: the code's integrity check
does not cover it either. `skip_vector_add`, set only by benchmarks, is left out.

### ProviderBudget

Each request is one provider call of one thread. Money is integers and exact
(the code uses floats; rounding is not modelled). `phase` follows a request
through count, admission, sending, settlement and delivery. `lock` is held by an
OpenAI Responses guard from its first check until delivery; the other guards
take it per method, which is one step. `Strict` guards check for a closed budget
again before they send and before they hand out a response. Body, header and
client setting checks are one action, `RejectLocally`. Requests that already
run when the budget is closed still settle.

### QueryService

`nearest` and `lexical` fix how the vector search and BM25 rank documents;
`index` is what has been committed. A query is a search step (`SearchCached`,
`SearchSkipsVectors`, `SearchHybrid`, `SearchFallsBack`, `SearchFails`) and an
answer step; both run under the operation lock. Reciprocal ranks are exact
fractions, compared by cross multiplication. The cooldown is a flag that may
fall at any time. `dense` is a history variable: whether a vector search took
part in the results in hand, which the reply has to agree with. Left out:
caption bundles and the lexical policy (experiments, off by default), an
explicitly empty scope (which only the compiled workflow can produce), equal
documents under two positions.

### SuccessorBuild

`vectors`, `parents`, `payloads`, `graph` hold the input an artifact was made
from, `Nothing`, or `Damaged`. Each builder's `pc` is the next write or check of
its `build_successor` call. `Dies` kills it between any two; `Damage` loses or
spoils a row or a payload that no invocation has verified yet; `Drift` changes
the original store. The collection ignores ids it already holds (Chroma's `add`). The receipt is
written and never read, so it is part of `Publish`.

### StructureGraph, GraphExpansion, EvidenceRetrieval

`nodes` are the chunks with a node, `prev`, `next`, `describedBy`, `describes`
and `lead` what `rebuild_structure_relationships` writes, `listed` the lists of
sections and parents the lookups walk. A batch is any set of chunks, new or not.
References found in a text and places in a section are constants.

An expansion entry is a record with the place it was offered at, so that a set
of entries stands for the list; scores are integers, thousandths of the code's.

A request of `EvidenceRetrieval` runs `Plan` (the query budget), a `Search` per
query left, `AddSupplement`, `Select`, `Expand`; while none runs, the graph may
be changed. Which queries ask for a group, which rows match it and in what
order, and how rows are reranked come from constants, since lexical matching and
scores decide them; searches return any few rows, in scope or not. Every row has
a chunk uid, so merging and deduplication go by chunk. The rows the seeds are
taken from (`Visible`) follow the preferred format of the plan, so they are a
part of the ranking and not in its order where tables come first. The supplement
reads the BM25 documents of the same store, taken to be complete. Left out,
because `retrieval_phase_input` passes nothing that leads there: retry queries,
reflection, results cached in a trace, the answer without a program. Left out
too: the guard against repeating an enriched query within a request.

### ProgramCompile

`island` is what is being compiled, `cells` what stands for each output in its
program, `sealed` the merged program, `past`, `lapsed` and `kept` history. A
step is a preflight, an island opened or passed over, an answer, a repair
request, a seal, or the execution. The provider's answer for an output is
sound, wrong in what it says, a candidate that does not fit, withheld, or
missing. Abstractions: the code's lists of missing and ambiguous outputs are one;
bundles are pairs fixed with the candidates, with at most one candidate per row
for each member; an error always names an output of its island; a derived
output is computed from the outputs it needs; a narrative is a direct output
without a bundle; units and numbers, source assertions, relationship
declarations, requirement owners and the envelope are part of "wrong"; a
planning error blocks its island and is raised again by validation, a cycle only
blocks; errors of request units are part of `Halted`.

### SectionParse

A paragraph is a sequence of parts as the code recognizes them; what string is a
heading, a label or a unit is a property of the part. Adjacent texts are one;
tables in a table group are taken in its place; a text cut for its size is its
first piece and the rest; the bound on carried source context is left out. A
label that may be the caption of the next table is linked or refused freely,
since text outside of elements, its length or a context it would evict may speak
against it. A heading that is not found again in its paragraph is not recognized in plain
mode, nor is a period label within other text. Chunk identities and table
records are not modelled.

### BenchmarkStore

`rows[c]` is the sequence of texts embedded for chunk `c`, so that a doubled row
shows. `nodes`, `parents`, `meta`, `manifest` are on disk beside it, `cache` is
the context cache. A text is its configuration and the wording a provider chose.
A run is started with any configuration and switches after any other; it may
die between two durable writes or within `rmtree`, which then leaves any part of
the store, and a lookup of what is indexed may fail, which answers "not indexed".
`doubted` remembers a removal cut short, and a run that filled a store over rows
without asking which are there. `Mode` tells what a run does with chunks: the
ingest modes differ, for the store, in these four ways only.

## 3. Runs

| run | bounds | question | result |
|---|---|---|---|
| `Store_recovers` | 2 reports, 3 chunks, 2 payloads, batch of 1, one report possibly damaged, 3 faults, fairness | what any failure or crash leaves; a store with its manifest ends complete and ready | holds |
| `Store_damaged` | the same with a batch of 2, any manifest, degraded mode allowed, lost payloads, rows and nodes, 2 faults | readiness, repair, reports of success, refinement of `SourceIndex` | holds |
| `Store_two_losses` | payloads lost in both reports | recovery is not blocked | violated, see below |
| `Budget_counted` | 2 Google, 1 embedding, 1 OpenAI call, server counting, cap 14, token counts 0..2, fairness | cap, books, nothing handed out after an overrun; every request ends, lock free | holds |
| `Query_serving` | 5 documents, 2 questions, K = 2, cache of 1, 2 vector rankings, every BM25 ranking | disclosure, fusion, packet, citations | holds |
| `Successor_builds` | 2 builders, 2 inputs, 3 chunks, batch of 2, 2 faults, fairness | completeness, isolation, finality, resumability | holds |
| `Evidence_retrieved` | 5 chunks in 3 sections of 2 filings, 1 loss, up to 3 required groups, 4 queries for 3 places, 9 plans, 2 scopes, 4 rankings, K = 2, 2 added rows, 6 entries | no required group forgotten, hits kept, the graph forgets its history | holds |
| `Compile_repairs` | 6 outputs in 3 islands (a bundle with a derived output, a single, a cycle), 7 candidates, limit 5, 3 sets of required outputs, every answer of the provider | failures show, one row per bundle, exposure, repairs | holds |
| `Compile_reopened` | the same | a repair reopens no valid abstention | violated, see below |
| `Parse_sections` | every section of up to 3 of 17 elements, 9 of up to 9 elements, 4 policies, both modes, the budget running out anywhere | text, headings, chunks, contexts, labels | holds |
| `Benchmark_reruns` | 2 chunks, 3 configurations (two with one store signature), every combination of the switches, 2 faults | configurations apart, stores whole, texts and search in step | holds |
| `Benchmark_switched` | the same, 1 fault | a resuming run embeds no indexed chunk again | violated, see below |

Why the bounds are enough. Two reports are what it takes for one report to
disturb another; a report of two chunks with batches of one has a boundary
inside it, and a payload on one of them but not the other; two or three faults
let a retry fail as well. The budget has calls that compete for the last
unit of the cap, and token counts that are missing (0), within and above the
reservation (1); the instance counts on the server, where the guards take the
most steps and hold the lock longest, and the proofs cover the guards without
counting and the call limits. Five documents with K = 2 cut off
the vector list (2K = 4), the fused list and the packet; a cache of one entry
and two questions evict. Two builders race, three chunks in batches of two leave
a partial batch. A section of two paragraphs and a table has an order of
batches in which the table's description changes, and sections that refer to
each other let a hit also be another hit's neighbour. Three groups and two added
rows leave one group out; four queries for three places make the first group's
aliases compete with the others. The compile instance has one row that both
members of its bundle share, a third output that competes for the exposure
limit, and a derived output that couples both. Two faults let a benchmark run
die and its successor die in the repair. Three elements hold every pair of
neighbours with something in between; the longer sections are those where a
heading closes more than one other. Proofs cover the sizes TLC cannot.

`CHECK_DEADLOCK FALSE` appears where a system stops: the budget run (every
request has ended), the compile runs (the program was executed), and
`Parse_sections` (the section is in chunks).

Some properties are proved and have no run any more, since a theorem covers
every size: the types of the store, budget, query path, successor build and
compilation, call limits, first stop reason, closed budget, pairing of count and
generation, the unmanifested store, the mode dictionary, and that completed
benchmark metadata is true.

Fairness. `FairSpec` of the store: an ingest that holds the lock goes on (weak
fairness), a service that is down is started, one that came up without its store
is restarted, and each report is requested again as long as requests are
accepted (strong fairness, since readiness to accept comes and goes with
crashes). Faults are finite, so the last attempt is undisturbed; nothing is
assumed of queries. Of the budget: provider calls return or raise (they have
timeouts) and threads are scheduled. Of the successor build: a running
invocation goes on, and an operator whose build has not been published resumes
it with the inputs it was sealed with.

### Findings

1. **Two reports with lost payload contents block each other.** A graph commit
   compacts every node of the graph, and `compact_node_for_storage`
   (`src/storage/metadata_payloads.py:129`) raises for a node outside the batch
   whose payload is gone. `docs/architecture/compiled_workflow_contract.md:306`
   says missing payload content does not block recovery ingest. With one
   damaged report it does not, since that report's chunks are parsed again.
2. **A repair may ask again for an explicit abstention.**
   `_semantic_retry_target_ids` counts an abstention only if validation lists
   the output, and validation lists optional ones only when nothing else is
   valid (`src/agent/financial_calculation_execution.py:2671`). An optional
   output that was withheld without an error is asked again when the other
   member of its bundle is in error, against the docstring
   (`src/agent/financial_graph_calculation.py:1265`). Abstentions on required
   outputs are final, which is proved.
3. **A context cache restore may double the rows of a partial store.**
   `_restore_store_from_context_cache` adds every text without resuming
   (`src/ops/benchmark_runner.py:926`). A run with `reuse_store` and
   `reuse_context_cache` off that dies after a batch leaves a partial store and
   the cache of an earlier run; the next run with the default switches keeps the
   store to resume it, then restores the cache over its rows. `PLAN.md:648` calls
   resume-aware indexing, which skips indexed chunks, the default behaviour. The
   profile `benchmarks/profiles/tmp_nav_t1_071_resume_check.json` turns the cache
   off.

Limitations met while modelling, each left out of a property by a stated
condition or assumption:

* A failure after the last commit is reported as success by the retry. Flush and
  BM25 rebuild come last in `add_documents` (`src/storage/vector_store.py:875`);
  if they raise, the retry finds vectors and nodes complete and skips the report.
  BM25 lacks it until a restart or the next build. The runs let both fail, and
  `SuccessfulIngestIsSearchable` then asks for the vector half only (`lagging`);
  with the pinned Chroma wrapper `persist` does nothing, so it takes a failing
  BM25 build or another backend.
* A build killed before `build_state.json` cannot be resumed: `mkdir` comes
  before it (`src/ops/build_parser_store_successor.py:266`), while
  `docs/operations/parser_store_successor.md:62` promises a resume.
  `SealedBuildCompletes` speaks of builds that have it.
* A hit first met as an earlier hit's neighbour keeps the neighbour's lower score
  and relation, though a comment says hits remain the anchors
  (`src/agent/financial_graph_evidence.py:23`). `HitsAreKept` asks for its chunk
  only.
* Blocks under two headings that read alike and cannot be located in their
  paragraphs share a scope, and may share a chunk; `ScopesStayApart` excepts them.
* An unreadable optional output of a bundle that is wholly optional and
  withheld loses its error in a later repair of other outputs; `FailuresShow`
  excepts it.
* Benchmark stores: a directory whose removal was cut short, whose rows could
  not be looked up while resuming was off, or that a context cache was restored
  over (finding 3) may be evaluated incomplete or doubled (`doubted`). Generated
  modes keep nodes whose text is a newer draft than the one embedded. Modes other
  than the contextual one leave BM25 as it was when nothing is pending.
* Two processes on one store, such as the API and a Streamlit page, are not
  excluded by the operation lock and not modelled.

## 4. Proofs

All theorems hold for every value of the constants that satisfies the module's
named assumption (`StoreConstants`, `BudgetConstants`, `BuildConstants`,
`QueryConstants`, `GraphConstants`, `ExpansionConstants`, `RetrievalConstants`,
`CompileConstants` with `BundlesHaveRows`, `BenchmarkConstants`,
`ParseConstants`).

Sums, folds and sorted lists cannot be reasoned about by induction here, since
the library's induction theorems take the formula as an operator. They are
proved without it: two sums, or two readings of one list, that differ somewhere
differ at a least number or a smallest set (`LeastNumber`, `MinimalSubset`, from
the well-foundedness of the natural numbers and of strict inclusion), and just
before it they agree; a fold is read as the run of its accumulator, one step for
each element (`FoldRuns`); and a list sorted by rank holds at place *n* the
element with *n - 1* others ahead (`ByRankIsInOrder`). The same least number
gives induction over a set of numbers up to a bound (`NatInductionUpTo`), by
which flattening is shown to join what its members hold (`FlattenJoins`,
`FlattenConcat`, `SpreadFlatten`); and a function that is recursive over the
places of a section exists because a place looks back to earlier places only
(`OverExists`).

**FilingStore.** The properties are not inductive on their own.
`FilingStoreProofs` proves types and the invariant `IInv` that ties memory,
files and the ingest at hand together: memory agrees with the files up to the
write in flight (`MemoryFollowsDisk`), the chunks an ingest still has to embed
or commit are the right ones for its step (`WorkInStep`), and payloads run ahead
of the graph between the two writes of a commit (`PayloadsLead`); without
`WorkInStep` a batch could be added twice, without `PayloadsLead` a crash there
could lose a payload. The second part adds what a reader relies on
(`ServingInv`: readiness is the verdict on the store as it is now, cached
results are those of the present graph, a degraded process refuses every
ingest), and concludes readiness, cache coherence, that degraded mode never
writes, and the refinement of `SourceIndex` step by step. The third
adds that the manifest follows the first batch (`ManifestFollowsBatch`), and
that every report of a request is either still to do, at hand or complete and in
BM25 unless a build was lost (`SuccessInv`), so that success means searchable.

**ProviderBudget.** `CapIsKept` assumes `RatesRise` (more tokens never cost
less), which the code does not check of its policy: a policy whose long-context
rate is below the normal one breaks it. A settled call then costs no more than
its reservation unless it is marked exceeded. Call limits follow because a
record is made in the step that counts them, pairing because the guard that
counts holds the lock until it has delivered. `BooksAlwaysBalance` is inductive
with the types alone: each step moves one record between the sums, and a sum
over a set that differs in one record is shown by a smallest set where it is
not. It needs neither `RatesRise` nor an order in which calls return.
`NothingFollowsAnOverrun`: an overrun or a failure closes the budget in the step
that records it (`OverrunInv`), and a strict guard looks again before it delivers.

**SuccessorBuild.** The invariant: creating the directory elects the single
builder that writes the build state, and none is inside before (`OneSealer`);
everyone inside builds from the sealed inputs (`SealedInside`); so a write never
changes what a verification has seen, and a verification stays true until
publication (`VerifiedStays`). Completeness, isolation and finality follow for
any number of builders.

**QueryService.** A cached result knows its mode because the mode dictionary has
exactly the cache's keys and an entry is stored with the mode of the search that
made it (`EntriesKnowTheirMode`, `FoundKnowsItsMode`), through evictions and
commits. From that, a reply is marked degraded exactly when no vector search
took part in its results. What is found is proved from the operators: the filter
keeps the order of a ranking (`RankedIsOrdered`), the order by score and then by
first mention is total (`ExceedsIsOrder`), and a document that is ranked ahead
once and behind never has the greater score (`ScoreFollowsRanks`), so it comes
first, for every rank constant and size (`MergedIsOrdered`). The packet's fold
keeps `Packs`: what was left out did not fit then, and what is supplied only
grows. The invariant `Serving` ties these results to the state: cached hits
stay eligible for the question they are kept for, because a commit only widens
what is committed, and a reply is computed from the hits still in hand.

**StructureGraph.** A rebuild writes every relation from the nodes alone, with
one exception: a table with no paragraph ahead of it keeps whatever its record
holds. The strengthening `DescriptionsPrecede` says that a held description is a
paragraph ahead of the table in its own section; once the section is whole there
is such a paragraph among the nodes, so the rebuild replaces what was held, and
a table without one holds none. `NodesAreListed` does the same for the lists.

**EvidenceRetrieval.** `RequiredGroupsAreAlwaysAsked`: the reservation reserves a
query for every required group it has passed while there is room, and never takes
more places than it has passed groups, so what it reserved survives the cut to
the budget. `SeedsAlwaysServe`: the supplement holds the best row of each group
the scope can serve, joining it with the search results and ranking both lose no
chunk, and the rows a group needs are put ahead of the others. `HitsAreAlwaysKept`:
a hit is offered at a place of its own before the neighbours of later hits, so
when it is cut off the entries before it fill the limit. Each follows from what
a phase of the request leaves (`Retrieved`, `Served`), while searches return any
rows and the graph changes between requests.

**BenchmarkStore.** `ConfigurationsStayApart` holds whatever dies or fails:
whenever there is metadata, every row, node and section belongs to its
configuration, and once a run is past the decision to discard they belong to its
own (`Ownership`). For the other theorems, which hold under any switches as long
as the directory is not `doubted`, `Progress` adds what each step of a run has
left: chunks still to do have neither row nor node, the others one row, and those
outside the batch at hand a node. Without it a resume could skip or repeat a chunk.

**ProgramCompile.** Islands are closed under what links outputs, and apart, so
what is sealed is not disturbed by later islands. An island shows no candidate
the preflight did not count, which bounds the exposure over all repairs.
Targets of a repair set required abstentions and their bundles aside first. A
bundle is tied to a common row until its island is repaired, and repaired as a
whole, so its readings share a row unless what was refused left none.
`FailuresAlwaysShow` rests on `LapsesStand`: an error that a repair lost sight of
is found again by the seal, has failed, or its whole bundle is withheld.
`AcceptedReadingsAlwaysSurvive` rests on `AcceptancesStand`: what was valid beside
a repair is held in the program as it was until its island is sealed, and after
that it stands, has failed, or waits on something that was not read.

**SectionParse.** The theorems hold for any sections of well-formed elements, any
policies and any chunk size (`ParseConstants`). The items of an element are taken
up in the order of their places and keep them (`Reading`, with `ReadingTyped`).
So nothing but tables and empty paragraphs was read since a label that still
waits, and the tables already among the blocks are earlier than every table to
come: `LabelsAreAlwaysAdjacent`. A heading goes on a start of the open headings,
whatever it closes (`PushKeepsStart`), and the places are cut and extended in
the same way, so they follow the headings one by one (`PlacesAlwaysFollow`). The
scope of a block under located headings is then the list of their places, and
blocks of one scope stand under the same headings: `ScopesAlwaysStayApart`. What
waits to be chunked always is the start of a chunk, with one scope, at most one
table and no caption but in front, and the last paragraph stands over the tables
that may still take it (`Chunking`): `ContextIsAlwaysLocal` and
`CaptionsAlwaysMeetTheirTable`. The latter also needs that a linked table is never
cut while it waits: alone it is smaller than a chunk, and it joins others only
within the size (`SizeOfMore`); so every chunk and piece that has the table keeps
its caption as context, whichever labels are linked.

`TextIsAlwaysKept` has two halves. Reading: the places of the blocks so far,
followed by what is still to be taken up of the element at hand, hold the
content of the elements read so far, for every way an element is taken apart,
with the parse budget or after it ran out (`Gathering`, with `ItemsComplete`).
Chunking: the blocks of the chunks so far, followed by those that wait, are the
blocks taken up, in order (`Packing`); only the first piece of a chunk that is
cut counts for it. `HeadingsAlwaysFollow` compares the stack of open headings
with an outline that never looks at the stack. While headings are nested, what a
new one closes, by name or by number, is the end of the stack (`PushSurvives`),
and exactly what the outline lets it end (`PushStands`); so the open headings are
those the outline puts over the last one taken up. Items come in order
(`ItemsFresh`), so at each block the headings taken up are those not after it
(`Reached`).

Every safety invariant and every action property the runs check is stated by a
theorem. Only model-checked is liveness (`ManifestedIngestCompletes`,
`EveryRequestEnds`, `SealedBuildCompletes`), which needs fairness and ENABLED.

## 5. Not modelled, and what could come next

Next, by importance:

1. `SuccessorPrepare`: inventory and `prepare_successor`, vector reuse by exact
   text and receipt, composed with `SuccessorBuild`, so that a published store
   never holds a vector of other text. Then `rebuild_vector_store.py`.
2. A refinement of `SourceIndex` by the successor build.
3. Result files of the benchmark runner and their reuse across runs.
4. Candidate discovery and its bounds, table windows, payload compaction as a
   round trip.

Not modelled, and why. Planning, candidate matching and reconciliation, value
parsing, rendering of answers and the evaluator are most of the code by length.
They are sequential heuristics over Korean text, units and numbers within one
call: no state that a step of another actor could disturb, and a model of them
would be a copy. Where their outcome matters to a module it is arbitrary there.
The fetcher is downloads into files; the user interface calls the services that
are modelled; audit, replay and review tools read and print; ontology, retrieval
policy and schema are tables; usage counters and diagnostics are read by no
decision. The modules cover the code whose steps can interleave, fail or be
repeated, and the algorithms whose results those steps share.
