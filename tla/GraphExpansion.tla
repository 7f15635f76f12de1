--------------------------- MODULE GraphExpansion ---------------------------
(***************************************************************************)
(* Retrieval through the structure graph:                                  *)
(* FinancialAgentEvidenceMixin._expand_via_structure_graph in              *)
(* src/agent/financial_graph_evidence.py.  Search hits are joined by the   *)
(* context the graph knows for them, each entry scored a little below the  *)
(* hit it comes from, and the best MaxDocs entries are kept.               *)
(*                                                                         *)
(* Scores are in thousandths.  A list of entries is a set: an entry's      *)
(* place says when it was offered, by hit, kind of context and number, and *)
(* decides between equal scores.                                           *)
(***************************************************************************)
EXTENDS StructureGraph, Integers, Sequences

CONSTANTS
  Refs,        \* Refs[c]: reference_parent_ids of c, in order
  RefLimit,    \* reference notes per hit (4 in the code)
  Context,     \* chunks whose metadata holds a table_context
  Kinds,       \* the context kinds the configuration includes
  Window,      \* sibling_window
  ParagraphBeforeTable,  \* table_sibling_prev_paragraph_only
  MaxDocs      \* max_docs, at least the k of the agent

AllKinds == {"parent_context", "section_lead", "reference_note", "sibling_prev",
             "sibling_next", "described_by_paragraph", "table_context"}

ASSUME ExpansionConstants ==
  /\ Refs \in [Chunk -> Seq(Section)]
  /\ Context \subseteq Chunk
  /\ Kinds \subseteq AllKinds
  /\ RefLimit \in Nat /\ Window \in Nat /\ MaxDocs \in Nat \ {0}
  /\ ParagraphBeforeTable \in BOOLEAN

(* A hit of the search. *)
Hit(c, score) == [chunk |-> c, score |-> score]

Entry(c, kind, score, place) ==
  [chunk |-> c, kind |-> kind, score |-> score, place |-> place]

-----------------------------------------------------------------------------
(* What hit number i offers, in the order of the code.                     *)

Place(i, part, number) == <<i, part, number>>

Earlier(p, q) ==
  \/ p[1] < q[1]
  \/ p[1] = q[1] /\ (p[2] < q[2] \/ (p[2] = q[2] /\ p[3] < q[3]))

(* The usable references of c up to its j-th. *)
UsableRefs(c, j) ==
  {i \in 1..j : /\ Refs[c][i] # SectionOf[c]
                /\ \A h \in 1..(i - 1) : Refs[c][h] # Refs[c][i]
                /\ Referenced(Refs[c][i]) # {}}

References(i, hit) ==
  LET c == hit.chunk
      usable == UsableRefs(c, Len(Refs[c]))
      number(j) == Cardinality(UsableRefs(c, j))
  IN  UNION {{Entry(d, "reference_note", hit.score - 8 - number(j),
                    Place(i, 3, number(j))) : d \in Referenced(Refs[c][j])} :
               j \in {k \in usable : c \in nodes /\ number(k) <= RefLimit}}

(* Which neighbours the configuration lets through. *)
SiblingKind(c, d) == IF Rank[d] < Rank[c] THEN "sibling_prev" ELSE "sibling_next"

SiblingAllowed(c, d) ==
  /\ SiblingKind(c, d) \in Kinds
  /\ c \in Table /\ SiblingKind(c, d) = "sibling_prev" /\ ParagraphBeforeTable
       => d \notin Table

(* The number of a neighbour in the list of neighbours. *)
SiblingNumber(c, d) ==
  Cardinality({e \in Siblings(c, Window) : Rank[e] <= Rank[d]})

(* A neighbour costs more than any other context, the further down the     *)
(* list the more.                                                          *)
SiblingsOffered(i, hit) ==
  LET number(d) == SiblingNumber(hit.chunk, d)
  IN  {Entry(d, SiblingKind(hit.chunk, d), hit.score - 10 - number(d),
             Place(i, 4, number(d))) :
         d \in {e \in Siblings(hit.chunk, Window) : SiblingAllowed(hit.chunk, e)}}

(* Context that is made from the hit itself. *)
OwnContext(i, hit) ==
  {Entry(hit.chunk, "parent_context", hit.score - 5, Place(i, 1, 0)),
   Entry(hit.chunk, "table_context", hit.score - 7, Place(i, 6, 0))}

Linked(i, hit) ==
  {Entry(d, "section_lead", hit.score - 6, Place(i, 2, 0)) :
     d \in SectionLead(SectionOf[hit.chunk], hit.chunk)}
  \cup {Entry(d, "described_by_paragraph", hit.score - 4, Place(i, 5, 0)) :
          d \in IF hit.chunk \in Table THEN DescribedBy(hit.chunk) ELSE {}}

SeedEntry(i, hit) == Entry(hit.chunk, "seed", hit.score, Place(i, 0, 0))

Offered(i, hit) ==
  {SeedEntry(i, hit)} \cup
  {e \in OwnContext(i, hit) \cup Linked(i, hit) \cup References(i, hit)
         \cup SiblingsOffered(i, hit) :
     /\ e.kind \in Kinds
     /\ e.kind = "table_context" => e.chunk \in Context}

-----------------------------------------------------------------------------
(* add_doc: hits and neighbours share one key per chunk, other contexts    *)
(* have a key per chunk and kind; the first entry of a key stays.          *)
ChunkKinds == {"seed", "sibling_prev", "sibling_next"}

\* Mutant: a chunk counts as seen only with the same relation.
SameKey_PerRelation(e, f) == e.chunk = f.chunk /\ e.kind = f.kind

SameKey(e, f) ==
  /\ e.chunk = f.chunk
  /\ e.kind = f.kind \/ {e.kind, f.kind} \subseteq ChunkKinds

Firsts(E) == {e \in E : ~\E f \in E : SameKey(e, f) /\ Earlier(f.place, e.place)}

Ahead(e, f) == e.score > f.score \/ (e.score = f.score /\ Earlier(e.place, f.place))

Cut(E) == {e \in E : Cardinality({f \in E : Ahead(f, e)}) < MaxDocs}

Expansion(hits) == Cut(Firsts(UNION {Offered(i, hits[i]) : i \in DOMAIN hits}))
=============================================================================
