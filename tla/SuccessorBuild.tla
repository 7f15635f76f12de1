---------------------------- MODULE SuccessorBuild ----------------------------
(***************************************************************************)
(* Building a parser successor store from prepared inputs:                 *)
(* build_successor in src/ops/build_parser_store_successor.py.             *)
(*                                                                         *)
(* Builders are invocations of the command line tool.  Several may run at  *)
(* once on one output directory, each may be killed between any two of its *)
(* writes, and each may be started anew, with or without --resume.         *)
(***************************************************************************)
EXTENDS Naturals, FiniteSets

CONSTANTS
  Builder,     \* invocations that may run at the same time
  Input,       \* prepared and supplied inputs, told apart by their fingerprint
  Uid,         \* chunks of the successor, the same in every input
  BatchSize,   \* vectors per collection.add
  Nothing,     \* an artifact that is not there
  Damaged,     \* an artifact whose content is none of the inputs'
  MaxFaults    \* bound on crashes, failures, damage and drift together

ASSUME BuildConstants ==
  /\ IsFiniteSet(Uid) /\ Uid # {}
  /\ BatchSize \in Nat \ {0} /\ MaxFaults \in Nat
  /\ Nothing # Damaged /\ {Nothing, Damaged} \cap Input = {}

VARIABLES
  \* the output directory
  exists,      \* it is there
  seal,        \* input fingerprint in build_state.json
  vectors,     \* vectors[u]: the input whose vector, text and metadata u holds
  parents, payloads, graph,
  manifest,    \* the manifest is published
  \* elsewhere
  drifted,     \* the original inputs no longer have their recorded hashes
  pc,          \* pc[b]: the builder's next step
  input,       \* input[b]: what it builds from
  pending,     \* pending[b]: the vectors it found missing
  faults

sidecars == <<parents, payloads, graph>>
output   == <<exists, seal, vectors, sidecars, manifest>>
vars     == <<output, drifted, pc, input, pending, faults>>

(* Invocations not running: never started or killed, ready, failed. *)
AtRest == {"off", "ready", "failed"}

Steps == {"mkdir", "seal", "open", "survey", "add", "parents", "payloads",
          "graph", "verify", "recheck", "publish", "reverify", "close"}

(* The type of every variable; the collection is never handed an empty     *)
(* batch, which it would reject.                                           *)
TypeOK ==
  /\ exists \in BOOLEAN /\ manifest \in BOOLEAN /\ drifted \in BOOLEAN
  /\ seal \in Input \cup {Nothing}
  /\ vectors \in [Uid -> Input \cup {Nothing, Damaged}]
  /\ {parents, payloads, graph} \subseteq Input \cup {Nothing, Damaged}
  /\ pc \in [Builder -> Steps \cup AtRest]
  /\ input \in [Builder -> Input]
  /\ pending \in [Builder -> SUBSET Uid]
  /\ \A b \in Builder : pc[b] = "add" => pending[b] # {}
  /\ faults \in Nat

-----------------------------------------------------------------------------
Init ==
  /\ exists = FALSE /\ seal = Nothing
  /\ vectors = [u \in Uid |-> Nothing]
  /\ parents = Nothing /\ payloads = Nothing /\ graph = Nothing
  /\ manifest = FALSE /\ drifted = FALSE
  /\ pc = [b \in Builder |-> "off"]
  /\ input \in [Builder -> Input]
  /\ pending = [b \in Builder |-> {}]
  /\ faults = 0

Goto(b, step) == pc' = [pc EXCEPT ![b] = step]

(* Leaving build_successor rechecks the inputs, whatever happened before.  *)
Ends(b, how) == Goto(b, IF drifted THEN "failed" ELSE how)

\* Mutant: --resume continues whatever it finds.
MayResume_Anything(i) == seal # Nothing

(* The build state must name exactly the inputs given now. *)
MayResume(i) == seal = i

(* An invocation checks the original inputs, then its output directory.    *)
Start(b, i, resume) ==
  /\ pc[b] \in AtRest
  /\ input' = [input EXCEPT ![b] = i]
  /\ Goto(b, IF drifted THEN "failed"
             ELSE IF ~exists THEN "mkdir"
             ELSE IF resume /\ MayResume(i) THEN "open"
             ELSE "failed")
  /\ pending' = [pending EXCEPT ![b] = {}]
  /\ UNCHANGED <<output, drifted, faults>>

\* Mutant: the directory may be there already.
AfterMkdir_ExistOk == "seal"

AfterMkdir == IF exists THEN "failed" ELSE "seal"

(* Creating the directory fails if another invocation was faster. *)
MakeDirectory(b) ==
  /\ pc[b] = "mkdir"
  /\ exists' = TRUE
  /\ Goto(b, AfterMkdir)
  /\ UNCHANGED <<seal, vectors, sidecars, manifest, drifted, input, pending,
                 faults>>

WriteBuildState(b) ==
  /\ pc[b] = "seal"
  /\ seal' = input[b]
  /\ Goto(b, "open")
  /\ UNCHANGED <<exists, vectors, sidecars, manifest, drifted, input, pending,
                 faults>>

(* A published successor is only verified again. *)
ReadManifest(b) ==
  /\ pc[b] = "open"
  /\ Goto(b, IF manifest THEN "reverify" ELSE "survey")
  /\ UNCHANGED <<output, drifted, input, pending, faults>>

\* Mutant: the survey demands the full coverage a verification does.
RowsMatch_NotPartial(i) == \/ \A u \in Uid : vectors[u] = i
                           \/ \A u \in Uid : vectors[u] = Nothing

(* Stored rows must be the expected ones, some may be missing. *)
RowsMatch(i) == \A u \in Uid : vectors[u] \in {i, Nothing}

AfterVectors(missing) == IF missing = {} THEN "parents" ELSE "add"

Survey(b) ==
  /\ pc[b] = "survey"
  /\ IF RowsMatch(input[b])
     THEN /\ pending' = [pending EXCEPT ![b] = {u \in Uid : vectors[u] = Nothing}]
          /\ Goto(b, AfterVectors(pending'[b]))
     ELSE /\ Ends(b, "failed")
          /\ UNCHANGED pending
  /\ UNCHANGED <<output, drifted, input, faults>>

(* One batch.  The collection ignores ids it already has.                  *)
AddBatch(b, batch) ==
  /\ pc[b] = "add"
  /\ batch \subseteq pending[b]
  /\ Cardinality(batch) = IF Cardinality(pending[b]) < BatchSize
                          THEN Cardinality(pending[b]) ELSE BatchSize
  /\ vectors' = [u \in Uid |-> IF u \in batch /\ vectors[u] = Nothing
                               THEN input[b] ELSE vectors[u]]
  /\ pending' = [pending EXCEPT ![b] = pending[b] \ batch]
  /\ Goto(b, AfterVectors(pending'[b]))
  /\ UNCHANGED <<exists, seal, sidecars, manifest, drifted, input, faults>>

SaveParents(b) ==
  /\ pc[b] = "parents"
  /\ parents' = input[b]
  /\ Goto(b, "payloads")
  /\ UNCHANGED <<exists, seal, vectors, payloads, graph, manifest, drifted,
                 input, pending, faults>>

SavePayloads(b) ==
  /\ pc[b] = "payloads"
  /\ payloads' = input[b]
  /\ Goto(b, "graph")
  /\ UNCHANGED <<exists, seal, vectors, parents, graph, manifest, drifted,
                 input, pending, faults>>

SaveGraph(b) ==
  /\ pc[b] = "graph"
  /\ graph' = input[b]
  /\ Goto(b, "verify")
  /\ UNCHANGED <<exists, seal, vectors, parents, payloads, manifest, drifted,
                 input, pending, faults>>

\* Mutant: the stored vectors are not read back.
Verified_Sidecars(i) == graph = i /\ payloads = i /\ parents = i

(* _verify_output: every artifact is read back and compared. *)
Verified(i) ==
  /\ graph = i /\ payloads = i /\ parents = i
  /\ \A u \in Uid : vectors[u] = i

VerifyOutput(b) ==
  /\ pc[b] = "verify"
  /\ IF Verified(input[b]) THEN Goto(b, "recheck") ELSE Ends(b, "failed")
  /\ UNCHANGED <<output, drifted, input, pending, faults>>

(* The inputs are checked once more before publication. *)
RecheckInputs(b) ==
  /\ pc[b] = "recheck"
  /\ Goto(b, IF drifted THEN "failed" ELSE "publish")
  /\ UNCHANGED <<output, drifted, input, pending, faults>>

(* The receipt, which nothing reads back, and then the manifest.           *)
Publish(b) ==
  /\ pc[b] = "publish"
  /\ manifest' = TRUE
  /\ Goto(b, "close")
  /\ UNCHANGED <<exists, seal, vectors, sidecars, drifted, input, pending,
                 faults>>

Reverify(b) ==
  /\ pc[b] = "reverify"
  /\ IF Verified(input[b]) THEN Goto(b, "close") ELSE Ends(b, "failed")
  /\ UNCHANGED <<output, drifted, input, pending, faults>>

Close(b) ==
  /\ pc[b] = "close"
  /\ Ends(b, "ready")
  /\ UNCHANGED <<output, drifted, input, pending, faults>>

-----------------------------------------------------------------------------
(* What goes wrong.                                                        *)

Fault == faults < MaxFaults /\ faults' = faults + 1

(* A killed invocation, or one whose next write raises. *)
Dies(b) ==
  /\ pc[b] \in Steps
  /\ Fault
  /\ Goto(b, "off")
  /\ UNCHANGED <<output, drifted, input, pending>>

(* A write below the builder is damaged, or a stored row is lost or        *)
(* damaged, before any invocation has verified the output.                 *)
Damage ==
  /\ Fault
  /\ \A b \in Builder : pc[b] \notin {"recheck", "publish", "close"}
  /\ ~manifest
  /\ \/ /\ payloads \in Input /\ payloads' = Damaged
        /\ UNCHANGED vectors
     \/ /\ \E u \in Uid :
             /\ vectors[u] \in Input
             /\ vectors' \in {[vectors EXCEPT ![u] = x] : x \in {Nothing, Damaged}}
        /\ UNCHANGED payloads
  /\ UNCHANGED <<exists, seal, parents, graph, manifest, drifted, pc, input,
                 pending>>

(* Someone changes the original store or a filing. *)
Drift ==
  /\ Fault
  /\ ~drifted
  /\ drifted' = TRUE
  /\ UNCHANGED <<output, pc, input, pending>>

-----------------------------------------------------------------------------
Advance(b) ==
  \/ MakeDirectory(b) \/ WriteBuildState(b) \/ ReadManifest(b) \/ Survey(b)
  \/ \E batch \in SUBSET Uid : AddBatch(b, batch)
  \/ SaveParents(b) \/ SavePayloads(b) \/ SaveGraph(b) \/ VerifyOutput(b)
  \/ RecheckInputs(b) \/ Publish(b) \/ Reverify(b) \/ Close(b)

Next ==
  \/ \E b \in Builder :
       \/ \E i \in Input, resume \in BOOLEAN : Start(b, i, resume)
       \/ Advance(b) \/ Dies(b)
  \/ Damage \/ Drift

Spec == Init /\ [][Next]_vars

(* A running invocation goes on, and an operator whose invocation ended    *)
(* without a published store resumes with the inputs it was sealed with,   *)
(* or, before there is a seal, with any one of its own.                    *)
Resume(b) ==
  /\ ~manifest
  /\ \E i \in Input : /\ seal \in {i, Nothing}
                      /\ Start(b, i, TRUE)

FairSpec ==
  /\ Spec
  /\ \A b \in Builder : WF_vars(Advance(b)) /\ SF_vars(Resume(b))

-----------------------------------------------------------------------------
Complete(i) ==
  /\ seal = i
  /\ {parents, payloads, graph} = {i}
  /\ \A u \in Uid : vectors[u] = i

(* A published manifest stands for a complete store: vectors, parents,     *)
(* payloads and graph are all there and all of the sealed inputs, whatever *)
(* was killed, damaged or built side by side before.                       *)
PublishedIsComplete == manifest => \E i \in Input : Complete(i)

(* No directory ever mixes two inputs: what an invocation finds or leaves, *)
(* at any crash point, is of the inputs in the build state.                *)
InputsNeverMixed ==
  /\ \A u \in Uid : vectors[u] \in {seal, Nothing, Damaged}
  /\ {parents, payloads, graph} \subseteq {seal, Nothing, Damaged}

(* A published successor is never written again with anything else, not    *)
(* even by an invocation that read the directory before the publication.   *)
PublishedStaysUntouched == [][manifest => UNCHANGED output]_vars

(* Out of a resume's power: it neither uses changed inputs nor overwrites  *)
(* a row it does not recognise.                                            *)
Hopeless == drifted \/ \E u \in Uid : vectors[u] = Damaged

(* Once the build state is written, resuming with the same inputs in the   *)
(* end publishes the store.                                                *)
SealedBuildCompletes == (seal # Nothing) ~> (manifest \/ Hopeless)
=============================================================================
