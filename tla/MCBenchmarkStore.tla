--------------------------- MODULE MCBenchmarkStore ---------------------------
(* Three configurations for TLC.  Two of them share a store signature and  *)
(* differ in the cache signature; their modes differ in what a resumed run *)
(* does with chunks that are already indexed.                              *)
EXTENDS BenchmarkStore

MCMode == [c \in Config |-> CASE c = "k1" -> "contextual"
                              [] c = "k2" -> "generated"
                              [] OTHER    -> "plain"]

MCStoreSig == [c \in Config |-> IF c = "k3" THEN "s2" ELSE "s1"]

(* Every combination of the switches of a profile. *)
MCOptions == Option
=============================================================================
