--------------------------- MODULE StructureGraph ---------------------------
(***************************************************************************)
(* The structure graph of a store, src/storage/structure_graph.py: one     *)
(* node per chunk, with relations that are rebuilt over all nodes after    *)
(* every batch, and the lookups that read them.                            *)
(*                                                                         *)
(* Batches arrive in any order: a resumed ingest adds what is missing, a   *)
(* repair replaces the nodes of chunks that were there before, and a       *)
(* filing can be deleted.  An accident may lose nodes of the graph file.   *)
(***************************************************************************)
EXTENDS Naturals, FiniteSets

CONSTANTS
  Chunk,       \* chunk uids
  Section,     \* parent ids
  Filing,      \* receipts
  SectionOf,   \* SectionOf[c]: the parent id in c's metadata
  FilingOf,    \* FilingOf[s]: the filing section s is part of
  Rank,        \* Rank[c]: c's place in its section, by sub_chunk_idx
  Table,       \* chunks whose block type is table; the others are paragraphs
  None,        \* no chunk
  MaxLosses    \* bound on accidents

ASSUME GraphConstants ==
  /\ IsFiniteSet(Chunk)
  /\ SectionOf \in [Chunk -> Section]
  /\ FilingOf \in [Section -> Filing]
  /\ Rank \in [Chunk -> Nat]
  /\ \A c, d \in Chunk : SectionOf[c] = SectionOf[d] /\ Rank[c] = Rank[d] => c = d
  /\ Table \subseteq Chunk
  /\ None \notin Chunk
  /\ MaxLosses \in Nat

VARIABLES
  nodes,        \* chunks that have a node
  prev, next,   \* sibling_prev_uid, sibling_next_uid
  describedBy,  \* described_by_uid
  describes,    \* describes_table_uids
  listed,       \* chunk uids the parent and section entries list
  lead,         \* lead_paragraph_uid of each section
  losses        \* accidents so far

relations == <<prev, next, describedBy, describes>>
vars == <<nodes, relations, listed, lead, losses>>

Link == Chunk \cup {None}

TypeOK ==
  /\ nodes \subseteq Chunk
  /\ prev \in [Chunk -> Link] /\ next \in [Chunk -> Link]
  /\ describedBy \in [Chunk -> Link]
  /\ describes \in [Chunk -> SUBSET Chunk]
  /\ listed \subseteq Chunk
  /\ lead \in [Section -> Link]
  /\ losses \in Nat

-----------------------------------------------------------------------------
(* Places in a section.                                                    *)

In(s, C) == {c \in C : SectionOf[c] = s}

Latest(C) == IF C = {} THEN None
             ELSE CHOOSE c \in C : \A d \in C : Rank[d] <= Rank[c]

Earliest(C) == IF C = {} THEN None
               ELSE CHOOSE c \in C : \A d \in C : Rank[c] <= Rank[d]

Before(c, C) == {d \in In(SectionOf[c], C) : Rank[d] < Rank[c]}

After(c, C) == {d \in In(SectionOf[c], C) : Rank[c] < Rank[d]}

(* The last paragraph ahead of a table: what the rebuild loop carries in   *)
(* previous_paragraph_uid.                                                 *)
Describer(c, C) == Latest(Before(c, C) \ Table)

-----------------------------------------------------------------------------
TablesDescribed(c, C) == {t \in C \cap Table : Describer(t, C) = c}

\* Mutant: a table keeps the paragraph it was first linked to.
Described_FirstWins(c, old, C) ==
  IF c \in Table /\ old = None THEN Describer(c, C) ELSE old

(* A table that follows a paragraph is linked to it; one that does not     *)
(* keeps whatever its record holds.                                        *)
Described(c, old, C) ==
  IF c \in Table /\ Describer(c, C) # None THEN Describer(c, C) ELSE old

(* rebuild_structure_relationships over the nodes C, of which fresh have   *)
(* just been replaced by records without relations.                        *)
Rebuild(C, fresh) ==
  LET old(c) == IF c \in fresh THEN None ELSE describedBy[c]
  IN  /\ nodes' = C
      /\ prev' = [c \in Chunk |-> IF c \in C THEN Latest(Before(c, C)) ELSE None]
      /\ next' = [c \in Chunk |-> IF c \in C THEN Earliest(After(c, C)) ELSE None]
      /\ describedBy' = [c \in Chunk |-> IF c \in C THEN Described(c, old(c), C) ELSE None]
      /\ describes' = [c \in Chunk |->
           IF c \notin C THEN {}
           ELSE (IF c \in fresh THEN {} ELSE describes[c])
                \cup TablesDescribed(c, C)]
      /\ listed' = C
      /\ lead' = [s \in Section |-> Earliest(In(s, C) \ Table)]

Init ==
  /\ nodes = {} /\ listed = {} /\ losses = 0
  /\ prev = [c \in Chunk |-> None] /\ next = [c \in Chunk |-> None]
  /\ describedBy = [c \in Chunk |-> None]
  /\ describes = [c \in Chunk |-> {}]
  /\ lead = [s \in Section |-> None]

(* update_structure_graph: the batch replaces or adds its records. *)
Update(batch) ==
  /\ Rebuild(nodes \cup batch, batch)
  /\ UNCHANGED losses

(* delete_parents_for_rcept: the nodes of one filing go.                   *)
DeleteFiling(f) ==
  /\ Rebuild({c \in nodes : FilingOf[SectionOf[c]] # f}, {})
  /\ UNCHANGED losses

(* An accident outside the program: the graph file loses a node, with the  *)
(* relations in its record, and nothing is rebuilt.                        *)
Lose(c) ==
  /\ losses < MaxLosses
  /\ c \in nodes
  /\ nodes' = nodes \ {c}
  /\ prev' = [prev EXCEPT ![c] = None] /\ next' = [next EXCEPT ![c] = None]
  /\ describedBy' = [describedBy EXCEPT ![c] = None]
  /\ describes' = [describes EXCEPT ![c] = {}]
  /\ losses' = losses + 1
  /\ UNCHANGED <<listed, lead>>

-----------------------------------------------------------------------------
(* Lookups.  Each tolerates an entry whose node is gone.                   *)

Found(c) == IF c \in nodes THEN {c} ELSE {}

(* get_section_lead_doc *)
SectionLead(s, excluded) == Found(lead[s]) \ {excluded}

(* get_described_by_doc *)
DescribedBy(c) == IF c \in nodes THEN Found(describedBy[c]) ELSE {}

(* How many entries of c's section lie between c and d. *)
Distance(c, d) ==
  Cardinality({e \in In(SectionOf[c], listed) :
                 \/ Rank[c] < Rank[e] /\ Rank[e] <= Rank[d]
                 \/ Rank[d] <= Rank[e] /\ Rank[e] < Rank[c]})

(* get_sibling_docs: neighbours in the list of the parent, those without a *)
(* node left out.                                                          *)
Siblings(c, window) ==
  IF c \notin listed THEN {}
  ELSE {d \in In(SectionOf[c], listed) \cap nodes :
          d # c /\ Distance(c, d) <= window}

(* get_reference_docs for one referenced section: its lead paragraph, or   *)
(* else its first chunk.                                                   *)
Referenced(s) ==
  IF SectionLead(s, None) # {} THEN SectionLead(s, None)
  ELSE Found(Earliest(In(s, listed)))

-----------------------------------------------------------------------------
Next ==
  \/ \E batch \in SUBSET Chunk \ {{}} : Update(batch)
  \/ \E f \in Filing : DeleteFiling(f)
  \/ \E c \in Chunk : Lose(c)

Spec == Init /\ [][Next]_vars

-----------------------------------------------------------------------------
(* Section s has a node for each of its chunks. *)
Whole(s) == In(s, Chunk) \subseteq nodes

(* What is looked up of a section depends on its chunks alone: once all of *)
(* them have nodes, the list of the section, neighbours, lead and          *)
(* describing paragraphs are what one update with the whole section would  *)
(* have built, whatever order they came in, however often they were        *)
(* replaced, and whatever was lost in between.  A description held over    *)
(* from an earlier batch would break it.                                   *)
WholeSectionAsBuiltAtOnce ==
  \A c \in Chunk : Whole(SectionOf[c]) =>
    /\ prev[c] = Latest(Before(c, Chunk))
    /\ next[c] = Earliest(After(c, Chunk))
    /\ describedBy[c] = (IF c \in Table THEN Describer(c, Chunk) ELSE None)
    /\ lead[SectionOf[c]] = Earliest(In(SectionOf[c], Chunk) \ Table)
    /\ In(SectionOf[c], listed) = In(SectionOf[c], Chunk)
=============================================================================
