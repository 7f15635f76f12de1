-------------------------- MODULE SuccessorBuildProofs --------------------------
(***************************************************************************)
(* Proofs about SuccessorBuild, for any number of builders, inputs, chunks *)
(* and faults.  The argument: creating the directory elects the one        *)
(* builder that writes the build state; whoever is past that point builds  *)
(* from the inputs the build state names, so its writes agree with those   *)
(* of every other builder; and a verification that succeeded stays true,   *)
(* because the remaining writes of the others change nothing.              *)
(***************************************************************************)
EXTENDS SuccessorBuild, TLAPS

(* Steps a builder takes only once the build state names its inputs. *)
Inside == {"open", "survey", "add", "parents", "payloads", "graph", "verify",
           "recheck", "publish", "reverify", "close"}

(* Before the directory is made there is nothing in it, and nobody inside. *)
MadeFirst ==
  ~exists => /\ seal = Nothing
             /\ \A b \in Builder : pc[b] \notin Inside \cup {"seal"}

(* One builder at most is about to write the build state, and none is      *)
(* inside yet.                                                             *)
OneSealer ==
  \A b \in Builder :
    pc[b] = "seal" => /\ seal = Nothing
                      /\ \A c \in Builder : pc[c] = "seal" => c = b

SealedInside == \A b \in Builder : pc[b] \in Inside => seal = input[b]

VerifiedStays ==
  \A b \in Builder :
    pc[b] \in {"recheck", "publish", "close"} => Verified(input[b])

IInv ==
  /\ TypeOK
  /\ MadeFirst
  /\ OneSealer
  /\ SealedInside
  /\ VerifiedStays
  /\ InputsNeverMixed
  /\ PublishedIsComplete

-----------------------------------------------------------------------------
(* Every step keeps the types, and no step makes an empty batch. *)
LEMMA TypesKept == TypeOK /\ [Next]_vars => TypeOK'
<1> SUFFICES ASSUME TypeOK, [Next]_vars PROVE TypeOK'
    OBVIOUS
<1> USE DEF TypeOK, Steps, AtRest
<1>1. ASSUME NEW b \in Builder, NEW i \in Input, NEW resume \in BOOLEAN,
             Start(b, i, resume)
      PROVE  TypeOK'
  BY <1>1 DEF Start, Goto, output, sidecars
<1>2. ASSUME NEW b \in Builder, Advance(b)
      PROVE  TypeOK'
  <2>1. CASE MakeDirectory(b)
    BY <2>1 DEF MakeDirectory, AfterMkdir, Goto, sidecars
  <2>2. CASE WriteBuildState(b)
    BY <2>2 DEF WriteBuildState, Goto, sidecars
  <2>3. CASE ReadManifest(b)
    BY <2>3 DEF ReadManifest, Goto, output, sidecars
  <2>4. CASE Survey(b)
    BY <2>4 DEF Survey, AfterVectors, Ends, Goto, output, sidecars
  <2>5. ASSUME NEW batch \in SUBSET Uid, AddBatch(b, batch)
        PROVE  TypeOK'
    BY <2>5 DEF AddBatch, AfterVectors, Goto, sidecars
  <2>6. CASE SaveParents(b)
    BY <2>6 DEF SaveParents, Goto
  <2>7. CASE SavePayloads(b)
    BY <2>7 DEF SavePayloads, Goto
  <2>8. CASE SaveGraph(b)
    BY <2>8 DEF SaveGraph, Goto
  <2>9. CASE VerifyOutput(b) \/ RecheckInputs(b) \/ Reverify(b) \/ Close(b)
    BY <2>9 DEF VerifyOutput, RecheckInputs, Reverify, Close, Ends, Goto,
                output, sidecars
  <2>10. CASE Publish(b)
    BY <2>10 DEF Publish, Goto, sidecars
  <2>11. QED
    BY <1>2, <2>1, <2>2, <2>3, <2>4, <2>5, <2>6, <2>7, <2>8, <2>9, <2>10
       DEF Advance
<1>3. ASSUME NEW b \in Builder, Dies(b)
      PROVE  TypeOK'
  BY <1>3 DEF Dies, Fault, Goto, output, sidecars
<1>4. CASE Damage
  BY <1>4 DEF Damage, Fault
<1>5. CASE Drift
  BY <1>5 DEF Drift, Fault, output, sidecars
<1>6. CASE UNCHANGED vars
  BY <1>6 DEF vars, output, sidecars
<1>7. QED
  BY <1>1, <1>2, <1>3, <1>4, <1>5, <1>6 DEF Next

(* Type correctness, and no empty batch for the collection: the survey and *)
(* the batch loop of build_successor.                                      *)
THEOREM SuccessorTypesHold == Spec => []TypeOK
<1>1. Init => TypeOK
  <2> SUFFICES ASSUME Init PROVE TypeOK
      OBVIOUS
  <2>1. QED
    BY DEF Init, TypeOK, AtRest
<1>2. QED
  BY <1>1, TypesKept, PTL DEF Spec

-----------------------------------------------------------------------------
LEMMA InitEstablishes == Init => IInv
<1> SUFFICES ASSUME Init PROVE IInv
    OBVIOUS
<1>1. TypeOK
  BY DEF Init, TypeOK, Steps, AtRest
<1>2. QED
  BY <1>1 DEF Init, IInv, MadeFirst, OneSealer, SealedInside, VerifiedStays,
              InputsNeverMixed, PublishedIsComplete, Inside

(* Nobody is sealed while the build state is missing, and a published      *)
(* directory is sealed.                                                    *)
LEMMA SealFacts ==
  ASSUME IInv
  PROVE  /\ \A b \in Builder : pc[b] \in Inside => seal \in Input
         /\ seal \in Input => exists
         /\ manifest => seal \in Input /\ Verified(seal)
         /\ Nothing \notin Input /\ Damaged \notin Input
<1>1. \A b \in Builder : pc[b] \in Inside => seal \in Input
  BY DEF IInv, SealedInside, TypeOK
<1>2. Nothing \notin Input /\ Damaged \notin Input
  BY BuildConstants
<1>3. seal \in Input => exists
  BY <1>2 DEF IInv, MadeFirst
<1>4. manifest => seal \in Input /\ Verified(seal)
  BY DEF IInv, PublishedIsComplete, Complete, Verified
<1>5. QED
  BY <1>1, <1>2, <1>3, <1>4

(* A builder inside the directory never undoes a verification: each of its *)
(* writes puts what the sealed inputs demand.                              *)
LEMMA WritesAgree ==
  ASSUME IInv, NEW b \in Builder, pc[b] \in Inside,
         vectors' = vectors
           \/ \E batch \in SUBSET Uid :
                vectors' = [u \in Uid |-> IF u \in batch /\ vectors[u] = Nothing
                                          THEN input[b] ELSE vectors[u]],
         parents' \in {parents, input[b]},
         payloads' \in {payloads, input[b]},
         graph' \in {graph, input[b]},
         seal' = seal
  PROVE  /\ Verified(seal) => Verified(seal)' /\ UNCHANGED <<vectors, sidecars>>
         /\ InputsNeverMixed'
<1>1. seal = input[b] /\ seal \in Input /\ Nothing \notin Input
  BY SealFacts DEF IInv, SealedInside
<1>2. vectors \in [Uid -> Input \cup {Nothing, Damaged}]
  BY DEF IInv, TypeOK
<1>3. ASSUME Verified(seal)
      PROVE  Verified(seal)' /\ UNCHANGED <<vectors, sidecars>>
  <2>1. parents' = parents /\ payloads' = payloads /\ graph' = graph
    BY <1>1, <1>3 DEF Verified
  <2>2. \A u \in Uid : vectors[u] # Nothing
    BY <1>1, <1>3 DEF Verified
  <2>3. vectors' = vectors
    BY <1>2, <2>2
  <2>4. QED
    BY <1>3, <2>1, <2>3 DEF Verified, sidecars
<1>4. InputsNeverMixed'
  <2>1. \A u \in Uid : vectors'[u] \in {seal', Nothing, Damaged}
    BY <1>1 DEF IInv, InputsNeverMixed
  <2>2. {parents', payloads', graph'} \subseteq {seal', Nothing, Damaged}
    BY <1>1 DEF IInv, InputsNeverMixed
  <2>3. QED
    BY <2>1, <2>2 DEF InputsNeverMixed
<1>5. QED
  BY <1>3, <1>4

-----------------------------------------------------------------------------
(* Steps that leave the directory alone: only where builder b stands, and, *)
(* when it starts, what it builds from.                                    *)
LEMMA MovesKeep ==
  ASSUME IInv, TypeOK', UNCHANGED output, NEW b \in Builder, NEW step,
         pc' = [pc EXCEPT ![b] = step],
         \A c \in Builder \ {b} : input'[c] = input[c],
         step # "seal",
         step \in Inside => exists /\ seal = input'[b],
         step \in {"recheck", "publish", "close"} => Verified(input'[b])
  PROVE  IInv'
<1> USE DEF output, sidecars
<1>1. \A c \in Builder : pc'[c] = IF c = b THEN step ELSE pc[c]
  BY DEF IInv, TypeOK
<1>2. MadeFirst'
  BY <1>1 DEF IInv, MadeFirst
<1>3. OneSealer'
  BY <1>1 DEF IInv, OneSealer
<1>4. SealedInside'
  BY <1>1 DEF IInv, SealedInside
<1>5. VerifiedStays'
  <2> SUFFICES ASSUME NEW c \in Builder, pc'[c] \in {"recheck", "publish", "close"}
               PROVE  Verified(input'[c])
    BY DEF VerifiedStays, Verified
  <2>1. CASE c = b
    BY <1>1, <2>1
  <2>2. CASE c # b
    BY <1>1, <2>2 DEF IInv, VerifiedStays
  <2>3. QED
    BY <2>1, <2>2
<1>6. InputsNeverMixed' /\ PublishedIsComplete'
  BY DEF IInv, InputsNeverMixed, PublishedIsComplete, Complete, Verified
<1>7. QED
  BY <1>2, <1>3, <1>4, <1>5, <1>6 DEF IInv

(* Steps of a builder inside that write what its inputs demand. *)
LEMMA WritesKeep ==
  ASSUME IInv, TypeOK', NEW b \in Builder, pc[b] \in Inside, NEW step,
         pc' = [pc EXCEPT ![b] = step],
         step \in Inside,
         step \in {"recheck", "publish", "close"} => Verified(input[b]),
         UNCHANGED <<exists, seal, input>>,
         manifest' \in BOOLEAN,
         manifest' => manifest \/ Verified(input[b]),
         vectors' = vectors
           \/ \E batch \in SUBSET Uid :
                vectors' = [u \in Uid |-> IF u \in batch /\ vectors[u] = Nothing
                                          THEN input[b] ELSE vectors[u]],
         parents' \in {parents, input[b]},
         payloads' \in {payloads, input[b]},
         graph' \in {graph, input[b]}
  PROVE  IInv'
<1>1. \A c \in Builder : pc'[c] = IF c = b THEN step ELSE pc[c]
  BY DEF IInv, TypeOK
<1>2. seal = input[b] /\ seal \in Input /\ exists
  BY SealFacts DEF IInv, SealedInside
<1>3. Verified(seal) => Verified(seal)' /\ UNCHANGED <<vectors, sidecars>>
  BY WritesAgree
<1>4. InputsNeverMixed'
  BY WritesAgree
<1>5. MadeFirst'
  BY <1>2 DEF MadeFirst
<1>6. \A c \in Builder : pc[c] # "seal"
  BY <1>2, BuildConstants DEF IInv, OneSealer
<1>7. OneSealer'
  BY <1>1, <1>6 DEF OneSealer, Inside
<1>8. SealedInside'
  BY <1>1, <1>2 DEF IInv, SealedInside
<1>9. VerifiedStays'
  <2> SUFFICES ASSUME NEW c \in Builder, pc'[c] \in {"recheck", "publish", "close"}
               PROVE  Verified(input[c])'
    BY DEF VerifiedStays
  <2>1. input'[c] = seal'
    BY <1>8 DEF SealedInside, Inside
  <2>2. Verified(seal)
    BY <1>1, <1>2, <2>1 DEF IInv, VerifiedStays
  <2>3. QED
    BY <1>3, <2>1, <2>2 DEF Verified
<1>10. PublishedIsComplete'
  <2> SUFFICES ASSUME manifest' PROVE Complete(seal)'
    BY <1>2 DEF PublishedIsComplete
  <2>1. Verified(seal)
    BY <1>2, SealFacts
  <2>2. QED
    BY <1>2, <1>3, <2>1 DEF Complete, Verified
<1>11. QED
  BY <1>4, <1>5, <1>7, <1>8, <1>9, <1>10 DEF IInv

-----------------------------------------------------------------------------
(* The three steps that are neither: making the directory, writing the     *)
(* build state, and damage from outside.                                   *)
LEMMA MakeDirectoryKeeps ==
  ASSUME IInv, TypeOK', NEW b \in Builder, MakeDirectory(b)
  PROVE  IInv'
<1> USE DEF MakeDirectory, AfterMkdir, Goto
<1>1. CASE exists
  BY <1>1, MovesKeep DEF output, Inside, IInv, TypeOK
<1>2. CASE ~exists
  <2>1. seal = Nothing /\ \A c \in Builder : pc[c] \notin Inside \cup {"seal"}
    BY <1>2 DEF IInv, MadeFirst
  <2>2. \A c \in Builder : pc'[c] = IF c = b THEN "seal" ELSE pc[c]
    BY <1>2 DEF IInv, TypeOK
  <2>3. MadeFirst'
    BY DEF MadeFirst
  <2>4. OneSealer'
    BY <2>1, <2>2 DEF OneSealer
  <2>5. SealedInside' /\ VerifiedStays'
    BY <2>1, <2>2 DEF SealedInside, VerifiedStays, Inside
  <2>6. InputsNeverMixed' /\ PublishedIsComplete'
    BY DEF IInv, InputsNeverMixed, PublishedIsComplete, Complete, Verified,
           sidecars
  <2>7. QED
    BY <2>3, <2>4, <2>5, <2>6 DEF IInv
<1>3. QED
  BY <1>1, <1>2

LEMMA WriteBuildStateKeeps ==
  ASSUME IInv, TypeOK', NEW b \in Builder, WriteBuildState(b)
  PROVE  IInv'
<1> USE DEF WriteBuildState, Goto, sidecars
<1>1. seal = Nothing /\ \A c \in Builder : pc[c] = "seal" => c = b
  BY DEF IInv, OneSealer
<1>2. exists /\ ~manifest /\ \A c \in Builder : pc[c] \notin Inside
  BY <1>1, SealFacts DEF IInv, MadeFirst
<1>3. \A c \in Builder : pc'[c] = IF c = b THEN "open" ELSE pc[c]
  BY DEF IInv, TypeOK
<1>4. MadeFirst'
  BY <1>2 DEF MadeFirst
<1>5. OneSealer'
  BY <1>1, <1>3 DEF OneSealer
<1>6. SealedInside'
  BY <1>2, <1>3 DEF SealedInside
<1>7. VerifiedStays'
  BY <1>2, <1>3 DEF VerifiedStays, Inside
<1>8. InputsNeverMixed'
  BY <1>1 DEF IInv, InputsNeverMixed
<1>9. PublishedIsComplete'
  BY <1>2 DEF PublishedIsComplete
<1>10. QED
  BY <1>4, <1>5, <1>6, <1>7, <1>8, <1>9 DEF IInv

LEMMA DamageKeeps ==
  ASSUME IInv, TypeOK', Damage
  PROVE  IInv'
<1> USE DEF Damage
<1>1. MadeFirst' /\ OneSealer' /\ SealedInside'
  BY DEF IInv, MadeFirst, OneSealer, SealedInside
<1>2. VerifiedStays' /\ PublishedIsComplete'
  BY DEF VerifiedStays, PublishedIsComplete
<1>3. InputsNeverMixed'
  BY DEF IInv, InputsNeverMixed, TypeOK
<1>4. QED
  BY <1>1, <1>2, <1>3 DEF IInv

-----------------------------------------------------------------------------
LEMMA StepKeeps == IInv /\ [Next]_vars => IInv'
<1> SUFFICES ASSUME IInv, [Next]_vars PROVE IInv'
    OBVIOUS
<1>1. TypeOK'
  BY TypesKept DEF IInv
<1>2. ASSUME NEW b \in Builder, NEW i \in Input, NEW resume \in BOOLEAN,
             Start(b, i, resume)
      PROVE  IInv'
  <2> DEFINE step == IF drifted THEN "failed"
                     ELSE IF ~exists THEN "mkdir"
                     ELSE IF resume /\ MayResume(i) THEN "open"
                     ELSE "failed"
  <2>1. pc' = [pc EXCEPT ![b] = step] /\ UNCHANGED output
    BY <1>2 DEF Start, Goto
  <2>2. input'[b] = i /\ \A c \in Builder \ {b} : input'[c] = input[c]
    BY <1>2 DEF Start, IInv, TypeOK
  <2>3. step \in Inside => exists /\ seal = input'[b]
    BY <2>2 DEF Inside, MayResume
  <2>4. step \notin {"seal", "recheck", "publish", "close"}
    OBVIOUS
  <2> HIDE DEF step
  <2>5. QED
    BY <1>1, <2>1, <2>2, <2>3, <2>4, MovesKeep
<1>3. ASSUME NEW b \in Builder, Advance(b)
      PROVE  IInv'
  <2>1. pc[b] \in Inside => exists /\ seal = input[b]
    BY SealFacts DEF IInv, SealedInside
  <2>2. CASE MakeDirectory(b)
    BY <1>1, <2>2, MakeDirectoryKeeps
  <2>3. CASE WriteBuildState(b)
    BY <1>1, <2>3, WriteBuildStateKeeps
  <2>4. ASSUME NEW step \in Inside \cup {"ready", "failed"},
               pc[b] \in Inside, Goto(b, step), UNCHANGED <<output, input>>,
               step \in {"recheck", "publish", "close"} => Verified(input[b])
        PROVE  IInv'
    <3>1. step # "seal"
      BY DEF Inside
    <3>2. QED
      BY <1>1, <2>1, <2>4, <3>1, MovesKeep DEF Goto
  <2>5. CASE ReadManifest(b)
    BY <2>4, <2>5 DEF ReadManifest, Inside
  <2>6. CASE Survey(b)
    BY <2>4, <2>6 DEF Survey, AfterVectors, Ends, Goto, Inside
  <2>7. ASSUME NEW batch \in SUBSET Uid, AddBatch(b, batch)
        PROVE  IInv'
    <3> DEFINE step == AfterVectors(pending'[b])
    <3>1. pc[b] \in Inside /\ step \in Inside
          /\ step \notin {"recheck", "publish", "close"}
      BY <2>7 DEF AddBatch, AfterVectors, Inside
    <3>2. pc' = [pc EXCEPT ![b] = step]
          /\ UNCHANGED <<exists, seal, input, sidecars, manifest>>
          /\ \E B \in SUBSET Uid :
               vectors' = [u \in Uid |-> IF u \in B /\ vectors[u] = Nothing
                                         THEN input[b] ELSE vectors[u]]
      BY <2>7 DEF AddBatch, Goto
    <3>3. manifest' \in BOOLEAN
      BY <3>2 DEF IInv, TypeOK
    <3> HIDE DEF step
    <3>4. QED
      BY <1>1, <3>1, <3>2, <3>3, WritesKeep DEF sidecars
  <2>8. CASE SaveParents(b)
    BY <1>1, <2>8, WritesKeep DEF SaveParents, Goto, Inside, IInv, TypeOK
  <2>9. CASE SavePayloads(b)
    BY <1>1, <2>9, WritesKeep DEF SavePayloads, Goto, Inside, IInv, TypeOK
  <2>10. CASE SaveGraph(b)
    BY <1>1, <2>10, WritesKeep DEF SaveGraph, Goto, Inside, IInv, TypeOK
  <2>11. CASE VerifyOutput(b)
    BY <2>4, <2>11 DEF VerifyOutput, Ends, Goto, Inside
  <2>12. CASE RecheckInputs(b)
    BY <2>4, <2>12 DEF RecheckInputs, Inside, IInv, VerifiedStays
  <2>13. CASE Publish(b)
    <3>1. Verified(input[b])
      BY <2>13 DEF Publish, IInv, VerifiedStays
    <3>2. QED
      BY <1>1, <2>13, <3>1, WritesKeep DEF Publish, Goto, Inside, sidecars
  <2>14. CASE Reverify(b)
    BY <2>4, <2>14 DEF Reverify, Ends, Goto, Inside
  <2>15. CASE Close(b)
    <3>1. CASE drifted
      BY <2>4, <2>15, <3>1 DEF Close, Ends, Inside
    <3>2. CASE ~drifted
      BY <2>4, <2>15, <3>2 DEF Close, Ends, Inside
    <3>3. QED
      BY <3>1, <3>2
  <2>16. QED
    BY <1>3, <2>2, <2>3, <2>5, <2>6, <2>7, <2>8, <2>9, <2>10, <2>11, <2>12,
       <2>13, <2>14, <2>15 DEF Advance
<1>4. ASSUME NEW b \in Builder, Dies(b)
      PROVE  IInv'
  BY <1>1, <1>4, MovesKeep DEF Dies, Goto, Inside
<1>5. CASE Damage
  BY <1>1, <1>5, DamageKeeps
<1>6. CASE Drift \/ UNCHANGED vars
  <2>1. UNCHANGED <<output, pc, input>>
    BY <1>6 DEF Drift, vars
  <2>2. MadeFirst' /\ OneSealer' /\ SealedInside' /\ VerifiedStays'
    BY <2>1 DEF output, sidecars, IInv, MadeFirst, OneSealer, SealedInside,
                VerifiedStays, Verified
  <2>3. InputsNeverMixed' /\ PublishedIsComplete'
    BY <2>1 DEF output, sidecars, IInv, InputsNeverMixed, PublishedIsComplete,
                Complete, Verified
  <2>4. QED
    BY <1>1, <2>2, <2>3 DEF IInv
<1>7. QED
  BY <1>2, <1>3, <1>4, <1>5, <1>6 DEF Next

LEMMA IInvHolds == Spec => []IInv
<1>1. QED
  BY InitEstablishes, StepKeeps, PTL DEF Spec

(* A manifest only ever stands for a complete and verified store, with any *)
(* number of builders side by side and a crash between any two writes:     *)
(* build_successor publishes last.                                         *)
THEOREM PublicationIsComplete == Spec => []PublishedIsComplete
<1>1. IInv => PublishedIsComplete
  BY DEF IInv
<1>2. QED
  BY <1>1, IInvHolds, PTL

(* No successor directory ever mixes the artifacts of two inputs: the      *)
(* exclusive mkdir and the build state comparison of build_successor.      *)
THEOREM InputsStayApart == Spec => []InputsNeverMixed
<1>1. IInv => InputsNeverMixed
  BY DEF IInv
<1>2. QED
  BY <1>1, IInvHolds, PTL

(* Once published, a successor changes no more, whatever invocations are   *)
(* still on their way.                                                     *)
THEOREM PublicationIsFinal == Spec => PublishedStaysUntouched
<1>1. IInv /\ [Next]_vars => (manifest => UNCHANGED output)
  <2> SUFFICES ASSUME IInv, [Next]_vars, manifest
               PROVE  UNCHANGED output
    OBVIOUS
  <2> USE DEF output
  <2>1. seal \in Input /\ Verified(seal) /\ exists /\ seal # Nothing
    BY SealFacts
  <2>2. ASSUME NEW b \in Builder, Advance(b)
        PROVE  UNCHANGED output
    <3>1. pc[b] # "seal"
      BY <2>1 DEF IInv, OneSealer
    <3>2. CASE pc[b] = "mkdir"
      BY <2>1, <2>2, <3>2 DEF Advance, MakeDirectory, WriteBuildState,
         ReadManifest, Survey, AddBatch, SaveParents, SavePayloads, SaveGraph,
         VerifyOutput, RecheckInputs, Publish, Reverify, Close, IInv, TypeOK
    <3>3. CASE pc[b] \in Inside
      <4>1. UNCHANGED <<exists, seal>> /\ manifest' = manifest
        BY <2>1, <2>2, <3>3 DEF Advance, MakeDirectory, WriteBuildState,
           ReadManifest, Survey, AddBatch, SaveParents, SavePayloads, SaveGraph,
           VerifyOutput, RecheckInputs, Publish, Reverify, Close, Inside,
           IInv, TypeOK
      <4>2. /\ \/ vectors' = vectors
               \/ \E batch \in SUBSET Uid :
                    vectors' = [u \in Uid |-> IF u \in batch /\ vectors[u] = Nothing
                                              THEN input[b] ELSE vectors[u]]
            /\ parents' \in {parents, input[b]}
            /\ payloads' \in {payloads, input[b]}
            /\ graph' \in {graph, input[b]}
        BY <2>2, <3>3 DEF Advance, MakeDirectory, WriteBuildState,
           ReadManifest, Survey, AddBatch, SaveParents, SavePayloads, SaveGraph,
           VerifyOutput, RecheckInputs, Publish, Reverify, Close, sidecars,
           Inside
      <4>3. QED
        BY <2>1, <3>3, <4>1, <4>2, WritesAgree
    <3>4. QED
      BY <2>2, <3>1, <3>2, <3>3 DEF Advance, MakeDirectory, WriteBuildState,
         ReadManifest, Survey, AddBatch, SaveParents, SavePayloads, SaveGraph,
         VerifyOutput, RecheckInputs, Publish, Reverify, Close, Inside
  <2>3. ASSUME NEW b \in Builder, NEW i \in Input, NEW resume \in BOOLEAN,
               Start(b, i, resume)
        PROVE  UNCHANGED output
    BY <2>3 DEF Start
  <2>4. CASE Damage
    BY <2>4 DEF Damage
  <2>5. CASE Drift \/ (\E b \in Builder : Dies(b)) \/ UNCHANGED vars
    BY <2>5 DEF Drift, Dies, vars
  <2>6. QED
    BY <2>2, <2>3, <2>4, <2>5 DEF Next
<1>2. QED
  BY <1>1, IInvHolds, PTL DEF Spec, PublishedStaysUntouched
=============================================================================
