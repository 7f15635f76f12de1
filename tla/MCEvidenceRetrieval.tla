------------------------ MODULE MCEvidenceRetrieval ------------------------
(***************************************************************************)
(* Filing f1 has two sections, f2 has one.  Section s1 holds two           *)
(* paragraphs and a table, s2 and s3 a table each; the tables of f1 refer  *)
(* to the other section.  A request has up to three required groups and    *)
(* four queries, of which its budget leaves three.                         *)
(***************************************************************************)
EXTENDS EvidenceRetrieval

MCChunk == {"p1", "p2", "t1", "t2", "t4"}
MCSectionOf == [c \in MCChunk |-> CASE c \in {"p1", "p2", "t1"} -> "s1"
                                    [] c = "t2" -> "s2"
                                    [] OTHER -> "s3"]
MCFilingOf == [s \in {"s1", "s2", "s3"} |-> IF s = "s3" THEN "f2" ELSE "f1"]
MCRank == [c \in MCChunk |-> CASE c \in {"p1", "t2", "t4"} -> 0
                               [] c = "p2" -> 1
                               [] OTHER -> 2]
MCTable == {"t1", "t2", "t4"}
MCRefs == [c \in MCChunk |-> CASE c = "t1" -> <<"s1", "s2", "s2">>
                               [] c = "t2" -> <<"s1">>
                               [] OTHER -> <<>>]
MCHitScores == <<30, 27, 27, 15, 8>>

MCPeriod == <<"", "2023", "2024", "2023">>
MCBreadth == <<2, 0, 1, 0>>
MCServes == [g \in {"g1", "g2", "g3"} |-> CASE g = "g1" -> <<"t1", "t2", "p1">>
                                            [] g = "g2" -> <<"p2", "p1", "t4">>
                                            [] OTHER -> <<"t4", "p2">>]
MCAsks == {<<{}, {"g1"}, {"g1"}, {"g2"}>>, <<{}, {"g1", "g3"}, {"g1"}, {}>>,
           <<{}, {"g1"}, {"g1"}, {"g1", "g3"}>>}
MCPlans ==
  {[groups |-> gs, owns |-> [q \in Query |-> IF q = 1 THEN ToSet(gs) ELSE asks[q] \cap ToSet(gs)]] :
     gs \in {<<>>, <<"g1", "g2">>, <<"g1", "g2", "g3">>}, asks \in MCAsks}
MCScopes == {MCChunk, {"p1", "p2", "t1", "t2"}}
MCRelevant == <<"t1", "t4", "t2">>
MCRankings == {<<"t4", "p2", "t1", "t2", "p1">>, <<"p1", "t2", "p2", "t4", "t1">>,
               <<"t1", "p2", "t4", "p1", "t2">>, <<"t2", "p1", "t1", "p2", "t4">>}
=============================================================================
