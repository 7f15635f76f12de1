--------------------------- MODULE MCProgramCompile ---------------------------
(* Two islands that compile and one that cannot.  "a" and "b" are a bundle  *)
(* whose members share row "r1" only; "d" is computed from "b" and "c", "n" *)
(* stands alone and competes with the bundle for the exposure limit, "e"    *)
(* depends on itself.                                                       *)
EXTENDS ProgramCompile

MCPlan == <<"a", "b", "c", "d", "n", "e">>
MCNeeds == [o \in Output |-> CASE o = "d" -> {"b", "c"} [] o = "e" -> {"e"} [] OTHER -> {}]
MCRanked == [o \in Output |-> CASE o = "a" -> <<"a1", "a2", "a3">>
                                [] o = "b" -> <<"b1", "b3">>
                                [] o = "c" -> <<"b1">>
                                [] o = "n" -> <<"b1", "m1", "n4">>
                                [] OTHER -> <<>>]
MCRow == [c \in Candidate |-> CASE c \in {"a1", "b1"} -> "r1" [] c = "a2" -> "r2"
                                [] c \in {"a3", "b3"} -> "r3" [] OTHER -> c]
MCScope == [c \in Candidate |-> IF c = "a2" THEN "separate" ELSE "consolidated"]
MCRequireds == {{"a", "b", "c", "d", "n"}, {"a"}, {"n"}}
MCMisplans == {{}, {"n"}}
=============================================================================
