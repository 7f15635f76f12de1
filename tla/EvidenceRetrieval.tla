-------------------------- MODULE EvidenceRetrieval --------------------------
(***************************************************************************)
(* Retrieval of the evidence for one request of the compiled workflow:     *)
(* FinancialRetrievalPipelineMixin._retrieve in                            *)
(* src/agent/financial_retrieval_pipeline.py, followed by the expansion    *)
(* through the structure graph.                                            *)
(*                                                                         *)
(* The plan names groups of evidence its answer requires, and queries that *)
(* ask for them; the first query is the request itself and asks for all.   *)
(* A budget decides which queries are searched.  Rows of the store that    *)
(* match a group are added to what was found, all of it is held to the     *)
(* sources the request authorizes, and the best rows are kept.             *)
(*                                                                         *)
(* Requests and changes of the store take turns in one process.            *)
(***************************************************************************)
EXTENDS GraphExpansion, SequencesExt

CONSTANTS
  Queries,       \* number of planned queries, numbered in order
  Period,        \* Period[q]: the years query q names
  Breadth,       \* Breadth[q]: other owners of the plan that q matches
  Budget,        \* retrieval_query_budget, 0 for none
  Plans,         \* the plans: required groups, in order, and who asks for them
  Serves,        \* Serves[g]: rows whose own surfaces match group g, best first
  Narrative,     \* the groups that want prose, which their rows list first
  Relevant,      \* rows of the preferred sections, best first
  MaxRelevant,   \* of these, how many a plan without groups is given (6)
  MaxSeeds,      \* max_seed_candidates (8 in the code)
  MaxNarrative,  \* max_narrative_candidates_per_group (6 in the code)
  Scopes,        \* what a request may authorize: its filter and section limits
  Rankings,      \* orders reranking may give the rows
  HitScores,     \* scores it may give them, best first
  Formats,       \* format preferences of requests
  K,             \* rows in the visible window
  SeedFactor,    \* seeds per place in the visible window (4 in the code)
  PerSearch      \* rows a search returns at most (4 K in the code)

Query == 1..Queries
Group == DOMAIN Serves

ASSUME RetrievalConstants ==
  /\ Queries \in Nat \ {0} /\ IsFiniteSet(Group)
  /\ Breadth \in [Query -> Nat]
  /\ Serves \in [Group -> Seq(Chunk)]
  /\ Narrative \subseteq Group
  /\ \A g \in Narrative : \A i, j \in DOMAIN Serves[g] :
       Serves[g][i] \in Table /\ Serves[g][j] \notin Table => j < i
  /\ Relevant \in Seq(Chunk)
  /\ Scopes \subseteq SUBSET Chunk
  /\ \A r \in Rankings : r \in Seq(Chunk) /\ ToSet(r) = Chunk /\ Len(r) = Cardinality(Chunk)
  /\ HitScores \in Seq(Int) /\ Len(HitScores) = Cardinality(Chunk)
  /\ \A i, j \in DOMAIN HitScores : i <= j => HitScores[i] >= HitScores[j]
  /\ Formats \subseteq {"mixed", "table", "paragraph"}
  /\ {K, MaxNarrative} \subseteq Nat \ {0}
  /\ {Budget, MaxSeeds, MaxRelevant, SeedFactor, PerSearch} \subseteq Nat
  /\ \A p \in Plans : /\ p.groups \in Seq(Group)
                     /\ p.owns \in [Query -> SUBSET Group]

VARIABLES
  phase,      \* "idle", "search", "select", "expand", "done", "failed"
  plan,       \* the plan of the request
  scope,      \* rows the request authorizes
  bundle,     \* queries the budget left
  unreserved, \* groups reported to have no query of their own
  todo,       \* queries still to be searched
  docs,       \* rows in hand
  supplement, \* rows of the store added for the required groups
  seeds,      \* rows the candidates are built from
  window,     \* the visible hits
  evidence    \* entries after expansion

request == <<plan, scope, bundle, unreserved>>
pool    == <<docs, supplement, seeds, window, evidence>>
retrieval == <<phase, request, todo, pool>>

NoPlan == [groups |-> <<>>, owns |-> [q \in Query |-> {}]]

-----------------------------------------------------------------------------
(* The query budget.                                                       *)

(* apply_query_budget takes the queries of each period in turn.            *)
Turn(q, S) == Cardinality({p \in S : p < q /\ Period[p] = Period[q]})

FirstOfPeriod(q, S) ==
  CHOOSE p \in S : Period[p] = Period[q] /\ \A o \in S : Period[o] = Period[q] => p <= o

Sooner(p, q, S) ==
  \/ Turn(p, S) < Turn(q, S)
  \/ Turn(p, S) = Turn(q, S) /\ FirstOfPeriod(p, S) < FirstOfPeriod(q, S)

Balanced(S, n) == {q \in S : Cardinality({p \in S : Sooner(p, q, S)}) < n}

Asking(owns, g) == {q \in Query : g \in owns[q]}

(* Of the queries S, the one that asks for least else. *)
MostSpecific(owns, S) ==
  LET wider(p, q) ==
        \/ Cardinality(owns[p]) > Cardinality(owns[q])
        \/ /\ Cardinality(owns[p]) = Cardinality(owns[q])
           /\ \/ Breadth[p] > Breadth[q]
              \/ Breadth[p] = Breadth[q] /\ p > q
  IN  CHOOSE q \in S : \A p \in S \ {q} : wider(p, q)

\* Mutant: a group the request's own text asks for needs no query more.
Reserve_CompositeCounts(owns, chosen, g) ==
  LET left == Asking(owns, g) \ chosen.queries
  IN  IF left # {} /\ Asking(owns, g) \cap chosen.queries = {}
         /\ Cardinality(chosen.queries) < Budget
      THEN [chosen EXCEPT !.queries = @ \cup {MostSpecific(owns, left)}]
      ELSE IF Asking(owns, g) \cap chosen.queries # {} THEN chosen
      ELSE [chosen EXCEPT !.unreserved = @ \cup {g}]

(* A group reserves a query that was not chosen yet; it shares a chosen    *)
(* one only if there is no other that asks for it.                         *)
Reserve(owns, chosen, g) ==
  LET left == Asking(owns, g) \ chosen.queries
  IN  IF left # {} /\ Cardinality(chosen.queries) < Budget
      THEN [chosen EXCEPT !.queries = @ \cup {MostSpecific(owns, left)}]
      ELSE IF left = {} /\ Asking(owns, g) \cap chosen.queries # {} THEN chosen
      ELSE [chosen EXCEPT !.unreserved = @ \cup {g}]

(* _apply_semantic_query_budget *)
Budgeted(p) ==
  IF Budget = 0 \/ Queries <= Budget THEN [queries |-> Query, unreserved |-> {}]
  ELSE IF p.groups = <<>> THEN [queries |-> Balanced(Query, Budget), unreserved |-> {}]
  ELSE LET reserve(chosen, g) == Reserve(p.owns, chosen, g)
           chosen == FoldLeft(reserve, [queries |-> {1}, unreserved |-> {}], p.groups)
           free == Budget - Cardinality(chosen.queries)
       IN  [chosen EXCEPT !.queries = @ \cup Balanced(Query \ @, free)]

-----------------------------------------------------------------------------
(* Rows of the store for the required groups.                              *)

Distinct(s) ==
  LET new(acc, c) == IF c \in ToSet(acc) THEN acc ELSE Append(acc, c)
  IN  FoldLeft(new, <<>>, s)

First(s, n) == SubSeq(s, 1, IF n < Len(s) THEN n ELSE Len(s))

(* The rows of s that are in S, in the order of s. *)
Within(s, S) ==
  LET keep(acc, c) == IF c \in S THEN Append(acc, c) ELSE acc
  IN  FoldLeft(keep, <<>>, s)

Authorized(s) == Within(s, scope)

(* What group g offers at rank r: its best row, and if it wants prose, more *)
(* of it; tables only if it has no prose.                                  *)
GroupOffer(g, r) ==
  LET rows == Authorized(Serves[g])
      wanted == \/ r = 1
                \/ g \in Narrative /\ (rows[r] \notin Table \/ ToSet(rows) \subseteq Table)
  IN  IF r <= Len(rows) /\ wanted THEN <<rows[r]>> ELSE <<>>

(* The best row of each group first, then the next of each in turn.        *)
Offers(groups) ==
  FlattenSeq([r \in 1..MaxNarrative |->
    FlattenSeq([i \in DOMAIN groups |-> GroupOffer(groups[i], r)])])

\* Mutant: the rows of one group come before those of the next.
Supplement_GroupByGroup(groups) ==
  First(Distinct(FlattenSeq([i \in DOMAIN groups |-> Authorized(Serves[groups[i]])])), MaxSeeds)

(* _supplement_section_seed_docs *)
Supplement(groups) ==
  IF groups = <<>> THEN First(Authorized(Relevant), MaxRelevant)
  ELSE First(Distinct(Offers(groups)), MaxSeeds)

-----------------------------------------------------------------------------
(* The steps of a request.                                                 *)

Plan ==
  /\ phase = "idle"
  /\ phase' = "search"
  /\ \E p \in Plans, s \in Scopes :
       /\ plan' = p /\ scope' = s
       /\ bundle' = Budgeted(p).queries /\ unreserved' = Budgeted(p).unreserved
       /\ todo' = Budgeted(p).queries
  /\ UNCHANGED <<pool, vars>>

(* What a search returns is not trusted to be in scope.                    *)
Search ==
  /\ phase = "search" /\ todo # {}
  /\ \E hits \in SUBSET Chunk :
       /\ Cardinality(hits) <= PerSearch
       /\ docs' = docs \cup hits
  /\ todo' = todo \ {CHOOSE q \in todo : \A p \in todo : q <= p}
  /\ UNCHANGED <<phase, request, supplement, seeds, window, evidence, vars>>

(* A search that raises ends the request; it is not repeated unfiltered.   *)
SearchFails ==
  /\ phase = "search" /\ todo # {}
  /\ phase' = "failed"
  /\ UNCHANGED <<request, todo, pool, vars>>

AddSupplement ==
  /\ phase = "search" /\ todo = {}
  /\ phase' = "select"
  /\ supplement' = ToSet(Supplement(plan.groups))
  /\ docs' = docs \cup supplement'
  /\ UNCHANGED <<request, todo, seeds, window, evidence, vars>>

SeedsOf(ranked) == ToSet(First(ranked, SeedFactor * K)) \cup (supplement \cap scope)

(* The reserved places: paragraphs a request for tables is given besides,  *)
(* or the half of the window a request for prose is given.                 *)
MinParagraphs(format, tables, paras) ==
  LET atMost == IF format = "paragraph" THEN K \div 2
                ELSE IF tables = <<>> THEN K ELSE K - 1
      wanted == IF format = "table" /\ 2 < atMost THEN 2 ELSE atMost
  IN  IF wanted < Len(paras) THEN wanted ELSE Len(paras)

(* The visible window: rows of both forms in their reserved places, by     *)
(* rank where prose is wanted, then the best of the others.                *)
Visible(ranked, format) ==
  LET tables == Within(ranked, Table)
      paras  == Within(ranked, Chunk \ Table)
      prose  == MinParagraphs(format, tables, paras)
      reserved == First(tables, K - prose) \o First(paras, prose)
      chosen == IF format = "table" THEN reserved ELSE Within(ranked, ToSet(reserved))
  IN  IF format = "mixed" THEN First(ranked, K)
      ELSE First(chosen \o Within(ranked, Chunk \ ToSet(reserved)), K)

Scored(rows, ranked) ==
  [i \in DOMAIN rows |->
     Hit(rows[i], HitScores[CHOOSE j \in DOMAIN ranked : ranked[j] = rows[i]])]

(* _select_evidence: out goes what is not authorized.                      *)
Select ==
  /\ phase = "select"
  /\ phase' = "expand"
  /\ \E r \in Rankings, format \in Formats :
       LET ranked == Within(r, docs \cap scope)
       IN  /\ seeds' = SeedsOf(ranked)
           /\ window' = Scored(Visible(ranked, format), ranked)
  /\ UNCHANGED <<request, todo, docs, supplement, evidence, vars>>

Expand ==
  /\ phase = "expand"
  /\ phase' = "done"
  /\ evidence' = Expansion(window)
  /\ UNCHANGED <<request, todo, docs, supplement, seeds, window, vars>>

(* The next request starts from nothing. *)
Forget ==
  /\ phase \in {"done", "failed"}
  /\ phase' = "idle"
  /\ plan' = NoPlan /\ scope' = {} /\ bundle' = {} /\ unreserved' = {} /\ todo' = {}
  /\ docs' = {} /\ supplement' = {} /\ seeds' = {} /\ window' = <<>> /\ evidence' = {}
  /\ UNCHANGED vars

RetrievalInit ==
  /\ Init
  /\ phase = "idle"
  /\ plan = NoPlan /\ scope = {} /\ bundle = {} /\ unreserved = {} /\ todo = {}
  /\ docs = {} /\ supplement = {} /\ seeds = {} /\ window = <<>> /\ evidence = {}

RetrievalNext ==
  \/ Plan \/ Search \/ SearchFails \/ AddSupplement \/ Select \/ Expand \/ Forget
  \/ phase = "idle" /\ Next /\ UNCHANGED retrieval

RetrievalSpec == RetrievalInit /\ [][RetrievalNext]_<<vars, retrieval>>

-----------------------------------------------------------------------------
(* Every required group that some query asks for is searched: with room    *)
(* for a query each beside the request's own text, by a query other than   *)
(* that text if there is one, whatever the order of groups and queries and *)
(* however many queries ask for the first group.  A group is reported      *)
(* unreserved only when nothing asks for it or the budget is used up.      *)
RequiredGroupsAreAsked ==
  phase # "idle" =>
    /\ \A g \in ToSet(plan.groups) :
         Budget = 0 \/ 1 + Len(plan.groups) <= Budget =>
           \A S \in {Asking(plan.owns, g), Asking(plan.owns, g) \ {1}} :
             S # {} => S \cap bundle # {}
    /\ \A g \in unreserved :
         Asking(plan.owns, g) = {} \/ Cardinality(bundle) = Budget
    /\ Budget # 0 => Cardinality(bundle) <= Budget

(* Whatever the searches find and however rows are ranked, the candidates  *)
(* are built from a row of every required group (the first MaxSeeds of     *)
(* them) the authorized sources can serve, and from no other sources.      *)
SeedsServeRequiredGroups ==
  phase \in {"expand", "done"} =>
    /\ seeds \cup {window[i].chunk : i \in DOMAIN window} \subseteq scope
    /\ \A i \in DOMAIN plan.groups :
         LET served == ToSet(Serves[plan.groups[i]]) \cap scope
         IN  i <= MaxSeeds /\ served # {} => served \cap seeds # {}

(* The expansion has at most as many entries as there is room for, and no  *)
(* chunk twice as a hit or neighbour.  The first hit comes first, as       *)
(* itself, unless another one scores more; every hit's chunk is there      *)
(* unless the list is full: context may displace a weaker hit, never drop  *)
(* one while there is room.                                                *)
HitsAreKept ==
  phase = "done" /\ window # <<>> =>
    /\ Cardinality(evidence) <= MaxDocs
    /\ \A e, f \in evidence :
         {e.kind, f.kind} \subseteq ChunkKinds /\ e.chunk = f.chunk => e = f
    /\ (\A i \in DOMAIN window : window[i].score <= window[1].score) =>
         \E e \in evidence :
           /\ e.chunk = window[1].chunk /\ e.kind = "seed"
           /\ \A f \in evidence : ~Ahead(f, e)
    /\ Cardinality(evidence) < MaxDocs =>
         \A i \in DOMAIN window :
           \E e \in evidence : e.chunk = window[i].chunk /\ e.kind \in ChunkKinds
=============================================================================
