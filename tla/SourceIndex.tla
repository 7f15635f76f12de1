----------------------------- MODULE SourceIndex -----------------------------
(***************************************************************************)
(* What the filing store promises its readers, without files, memory,      *)
(* crashes or retries: a set of committed sources that only grows, and     *)
(* answers drawn from sources committed when the answer was given.         *)
(***************************************************************************)

CONSTANT Chunk            \* the parsed filing chunks that can become sources

VARIABLES
  sources,                \* chunks whose vector, graph node and payload are durable
  answer                  \* the chunks the last served query could draw on

vars == <<sources, answer>>

TypeOK == /\ sources \in SUBSET Chunk
          /\ answer \in SUBSET Chunk

Init == /\ sources \in SUBSET Chunk
        /\ answer = {}

(* A durable commit makes more chunks sources, and never revokes one. *)
Commit == /\ sources' \in SUBSET Chunk
          /\ sources \subseteq sources'
          /\ UNCHANGED answer

(* A query is answered from committed sources only. *)
Answer == /\ answer' \in SUBSET sources
          /\ UNCHANGED sources

(* A stopped process forgets the last answer it gave. *)
Forget == /\ answer' = {}
          /\ UNCHANGED sources

Next == Commit \/ Answer \/ Forget

Spec == Init /\ [][Next]_vars
=============================================================================
