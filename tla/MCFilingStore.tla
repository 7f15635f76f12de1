---------------------------- MODULE MCFilingStore ----------------------------
(***************************************************************************)
(* Instances of FilingStore for TLC: report r1 has two chunks, r2 has one, *)
(* a1 and b1 carry table payloads, and a vector batch holds one chunk.     *)
(***************************************************************************)
EXTENDS FilingStore

MCReport == {"r1", "r2"}
MCChunk == {"a1", "a2", "b1"}
MCSource == [c \in MCChunk |-> IF c = "b1" THEN "r2" ELSE "r1"]
MCPayload == {"p1", "p2"}
MCPayloadOf == [c \in MCChunk |-> CASE c = "a1" -> "p1"
                                    [] c = "b1" -> "p2"
                                    [] OTHER -> "plain"]

(* Every step can fail, and the process can die before any of them. *)
MCFaultKinds == Steps \cup {"crash"}
=============================================================================
