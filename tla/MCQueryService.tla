---------------------------- MODULE MCQueryService ----------------------------
(***************************************************************************)
(* Five documents, of which d4 lacks an identity and d3 is committed late; *)
(* the first question may draw on all of them, the second on d1 and d3.    *)
(* d2 alone exceeds a packet, and d1 and d3 do so together.  The vector    *)
(* search ranks the documents in one of two orders, and returns four of    *)
(* the five; BM25 scores any of them in any order.                         *)
(***************************************************************************)
EXTENDS QueryService

MCDoc == {"d1", "d2", "d3", "d4", "d5"}
MCScope == [q \in {"q1", "q2"} |-> IF q = "q1" THEN MCDoc ELSE {"d1", "d3"}]
MCAddressed == MCDoc \ {"d4"}
MCBytes == [d \in MCDoc |-> CASE d = "d1" -> 3 [] d = "d2" -> 5
                                [] d = "d3" -> 2 [] OTHER -> 1]
MCRankings == {<<"d1", "d5", "d2", "d3", "d4">>, <<"d4", "d2", "d3", "d1", "d5">>}
=============================================================================
