----------------------- MODULE EvidenceRetrievalProofs -----------------------
(***************************************************************************)
(* Theorems about the structure graph and the retrieval of evidence.       *)
(*                                                                         *)
(* A graph that forgets its history (HistoryIsForgotten), for any chunks,  *)
(* sections and filings: the only relation a rebuild may leave as it was   *)
(* is the description of a table no paragraph precedes, and such a table   *)
(* never had one, because a description always names an earlier paragraph  *)
(* of the same section.                                                    *)
(*                                                                         *)
(* A query plan that leaves no group out (RequiredGroupsAreAlwaysAsked):   *)
(* the reservation walks over the groups and keeps two facts, a group seen *)
(* is reserved while there was room, and no more places are taken than     *)
(* groups were seen; what is reserved stays among the queries balanced and *)
(* cut, because the reservation never exceeds the places.                  *)
(*                                                                         *)
(* Seeds that serve what is required (SeedsAlwaysServe): the supplement    *)
(* keeps the row of a group that comes first, the search results and the   *)
(* supplement are joined without losing a chunk, and what is visible and   *)
(* scored keeps every row the scope allows.                                *)
(*                                                                         *)
(* Hits that are kept (HitsAreAlwaysKept): a seed is offered at a place of *)
(* its own and before the neighbours of later hits, so fewer entries than  *)
(* there are places come before its first offer.                           *)
(*                                                                         *)
(* The last three read left folds over sequences.  What a fold computes is *)
(* read off the run of its accumulator (FoldRuns), a function on           *)
(* 0 .. Len(s), and facts about it are shown for every place up to the     *)
(* last by the least place that would lack them (NatInductionUpTo).        *)
(***************************************************************************)
EXTENDS EvidenceRetrieval, FiniteSetTheorems, WellFoundedInduction, TLAPS

-----------------------------------------------------------------------------
(* The structure graph.                                                    *)

(* Any nonempty set of chunks has a last and a first one.  Sets of later   *)
(* (earlier) chunks are ordered by inclusion, which is well founded.       *)
LEMMA LastExists ==
  ASSUME NEW C \in SUBSET Chunk, C # {}
  PROVE  \E c \in C : \A d \in C : Rank[d] <= Rank[c]
<1> DEFINE Above(c) == {d \in C : Rank[c] < Rank[d]}
<1> DEFINE T == {Above(c) : c \in C}
<1>1. IsFiniteSet(C)
  BY FS_Subset, GraphConstants DEF GraphConstants
<1>2. T \subseteq FiniteSubsetsOf(C) /\ T # {}
  <2>1. \A c \in C : Above(c) \in SUBSET C
    OBVIOUS
  <2>2. \A c \in C : IsFiniteSet(Above(c))
    BY <1>1, <2>1, FS_Subset
  <2> QED BY <2>1, <2>2 DEF FiniteSubsetsOf
<1>3. IsWellFoundedOn(StrictSubsetOrdering(C), FiniteSubsetsOf(C))
  BY FS_StrictSubsetOrderingWellFounded
<1>4. PICK x \in T : \A y \in T : ~(<<y, x>> \in StrictSubsetOrdering(C))
  <2> HIDE DEF T
  <2> QED BY <1>2, <1>3, WFMin
<1>5. PICK c \in C : x = Above(c)
  OBVIOUS
<1>6. ASSUME NEW d \in C, Rank[c] < Rank[d] PROVE FALSE
  <2>1. Rank[c] \in Nat /\ \A e \in C : Rank[e] \in Nat
    BY GraphConstants DEF GraphConstants
  <2>2. Above(d) \subseteq Above(c) /\ d \in Above(c) /\ d \notin Above(d)
    BY <1>6, <2>1
  <2>3. <<Above(d), x>> \in StrictSubsetOrdering(C)
    <3>1. Above(d) \in SUBSET C /\ x \in SUBSET C /\ Above(d) # x
      BY <1>5, <2>2
    <3>2. Above(d) \subseteq x
      BY <1>5, <2>2
    <3> HIDE DEF Above
    <3> QED BY <3>1, <3>2 DEF StrictSubsetOrdering
  <2> QED BY <1>4, <2>3
<1> QED
  <2>1. \A e \in C : Rank[e] \in Nat
    BY GraphConstants DEF GraphConstants
  <2> QED BY <1>6, <2>1

LEMMA FirstExists ==
  ASSUME NEW C \in SUBSET Chunk, C # {}
  PROVE  \E c \in C : \A d \in C : Rank[c] <= Rank[d]
<1> DEFINE Below(c) == {d \in C : Rank[d] < Rank[c]}
<1> DEFINE T == {Below(c) : c \in C}
<1>1. IsFiniteSet(C)
  BY FS_Subset, GraphConstants DEF GraphConstants
<1>2. T \subseteq FiniteSubsetsOf(C) /\ T # {}
  <2>1. \A c \in C : Below(c) \in SUBSET C
    OBVIOUS
  <2>2. \A c \in C : IsFiniteSet(Below(c))
    BY <1>1, <2>1, FS_Subset
  <2> QED BY <2>1, <2>2 DEF FiniteSubsetsOf
<1>3. IsWellFoundedOn(StrictSubsetOrdering(C), FiniteSubsetsOf(C))
  BY FS_StrictSubsetOrderingWellFounded
<1>4. PICK x \in T : \A y \in T : ~(<<y, x>> \in StrictSubsetOrdering(C))
  <2> HIDE DEF T
  <2> QED BY <1>2, <1>3, WFMin
<1>5. PICK c \in C : x = Below(c)
  OBVIOUS
<1>6. ASSUME NEW d \in C, Rank[d] < Rank[c] PROVE FALSE
  <2>1. Rank[c] \in Nat /\ \A e \in C : Rank[e] \in Nat
    BY GraphConstants DEF GraphConstants
  <2>2. Below(d) \subseteq Below(c) /\ d \in Below(c) /\ d \notin Below(d)
    BY <1>6, <2>1
  <2>3. <<Below(d), x>> \in StrictSubsetOrdering(C)
    <3>1. Below(d) \in SUBSET C /\ x \in SUBSET C /\ Below(d) # x
      BY <1>5, <2>2
    <3>2. Below(d) \subseteq x
      BY <1>5, <2>2
    <3> HIDE DEF Below
    <3> QED BY <3>1, <3>2 DEF StrictSubsetOrdering
  <2> QED BY <1>4, <2>3
<1> QED
  <2>1. \A e \in C : Rank[e] \in Nat
    BY GraphConstants DEF GraphConstants
  <2> QED BY <1>6, <2>1

(* The links a rebuild computes are chunks of the set they are drawn from. *)
LEMMA LatestIn ==
  ASSUME NEW C \in SUBSET Chunk
  PROVE  IF C = {} THEN Latest(C) = None ELSE Latest(C) \in C
BY LastExists DEF Latest

LEMMA EarliestIn ==
  ASSUME NEW C \in SUBSET Chunk
  PROVE  IF C = {} THEN Earliest(C) = None ELSE Earliest(C) \in C
BY FirstExists DEF Earliest

LEMMA NoneIsNoChunk == None \notin Chunk
BY GraphConstants DEF GraphConstants

LEMMA LinkTypes ==
  ASSUME NEW C \in SUBSET Chunk
  PROVE  /\ \A c \in Chunk : Latest(Before(c, C)) \in Link
         /\ \A c \in Chunk : Earliest(After(c, C)) \in Link
         /\ \A c \in Chunk : Describer(c, C) \in Link
         /\ \A s \in Section : Earliest(In(s, C) \ Table) \in Link
<1>1. \A c \in Chunk : /\ Before(c, C) \in SUBSET Chunk
                       /\ After(c, C) \in SUBSET Chunk
                       /\ Before(c, C) \ Table \in SUBSET Chunk
  BY DEF Before, After, In
<1>2. \A s \in Section : In(s, C) \ Table \in SUBSET Chunk
  BY DEF In
<1>3. \A D \in SUBSET Chunk : Latest(D) \in Link
  BY LatestIn DEF Link
<1>4. \A D \in SUBSET Chunk : Earliest(D) \in Link
  BY EarliestIn DEF Link
<1> QED BY <1>1, <1>2, <1>3, <1>4 DEF Describer

-----------------------------------------------------------------------------
(* The filings, batches and losses of Next, as facts about the nodes.      *)
LEMMA RebuiltTypes ==
  ASSUME TypeOK, NEW C \in SUBSET Chunk, NEW fresh \in SUBSET Chunk,
         Rebuild(C, fresh)
  PROVE  /\ nodes' \subseteq Chunk /\ listed' \subseteq Chunk
         /\ prev' \in [Chunk -> Link] /\ next' \in [Chunk -> Link]
         /\ describedBy' \in [Chunk -> Link]
         /\ describes' \in [Chunk -> SUBSET Chunk]
         /\ lead' \in [Section -> Link]
<1> USE DEF TypeOK
<1>1. nodes' \subseteq Chunk /\ listed' \subseteq Chunk
  BY DEF Rebuild
<1>2. prev' \in [Chunk -> Link] /\ next' \in [Chunk -> Link]
  BY LinkTypes DEF Rebuild, Link
<1>3. describedBy' \in [Chunk -> Link]
  <2>1. \A c \in Chunk, old \in Link : Described(c, old, C) \in Link
    BY LinkTypes DEF Described
  <2> QED BY <2>1 DEF Rebuild, Link
<1>4. describes' \in [Chunk -> SUBSET Chunk]
  BY DEF Rebuild, TablesDescribed
<1>5. lead' \in [Section -> Link]
  BY LinkTypes DEF Rebuild
<1> QED BY <1>1, <1>2, <1>3, <1>4, <1>5

LEMMA TypesKept == TypeOK /\ [Next]_vars => TypeOK'
<1> SUFFICES ASSUME TypeOK, [Next]_vars PROVE TypeOK'
  OBVIOUS
<1>1. ASSUME NEW batch \in SUBSET Chunk, Update(batch) PROVE TypeOK'
  <2>1. nodes \cup batch \in SUBSET Chunk
    BY DEF TypeOK
  <2> QED BY <1>1, <2>1, RebuiltTypes DEF Update, TypeOK
<1>2. ASSUME NEW f \in Filing, DeleteFiling(f) PROVE TypeOK'
  <2> DEFINE kept == {c \in nodes : FilingOf[SectionOf[c]] # f}
  <2>1. kept \in SUBSET Chunk /\ {} \in SUBSET Chunk
    BY DEF TypeOK
  <2>2. Rebuild(kept, {}) /\ losses' = losses
    BY <1>2 DEF DeleteFiling
  <2> HIDE DEF kept
  <2> QED BY <2>1, <2>2, RebuiltTypes DEF TypeOK
<1>3. ASSUME NEW c \in Chunk, Lose(c) PROVE TypeOK'
  BY <1>3 DEF Lose, TypeOK, Link
<1>4. CASE UNCHANGED vars
  BY <1>4 DEF vars, relations, TypeOK
<1> QED BY <1>1, <1>2, <1>3, <1>4 DEF Next

LEMMA InitTypes == Init => TypeOK
BY DEF Init, TypeOK, Link

(* The relations always have the shape the lookups rely on.                *)
THEOREM TypeCorrect == Spec => []TypeOK
BY InitTypes, TypesKept, PTL DEF Spec

-----------------------------------------------------------------------------
(* A description names an earlier paragraph of the table's section.        *)
DescriptionsPrecede ==
  \A c \in Chunk : describedBy[c] # None =>
    c \in Table /\ describedBy[c] \in Before(c, Chunk) \ Table

(* What has a node is in its section's list, the lists may hold more.      *)
NodesAreListed == nodes \subseteq listed

IInv == TypeOK /\ DescriptionsPrecede /\ NodesAreListed /\ WholeSectionAsBuiltAtOnce

LEMMA BeforeGrows ==
  ASSUME NEW C \in SUBSET Chunk, NEW c \in Chunk
  PROVE  Before(c, C) \subseteq Before(c, Chunk)
BY DEF Before, In

LEMMA WholeNeighbours ==
  ASSUME NEW C \in SUBSET Chunk, NEW c \in Chunk,
         In(SectionOf[c], Chunk) \subseteq C
  PROVE  /\ c \in C
         /\ Before(c, C) = Before(c, Chunk)
         /\ After(c, C) = After(c, Chunk)
         /\ In(SectionOf[c], C) = In(SectionOf[c], Chunk)
BY DEF Before, After, In

LEMMA RebuiltDescriptions ==
  ASSUME IInv, NEW C \in SUBSET Chunk, NEW fresh \in SUBSET Chunk,
         Rebuild(C, fresh), fresh \subseteq C
  PROVE  DescriptionsPrecede'
<1> SUFFICES ASSUME NEW c \in Chunk, describedBy'[c] # None
             PROVE  c \in Table /\ describedBy'[c] \in Before(c, Chunk) \ Table
  BY DEF DescriptionsPrecede
<1> DEFINE old == IF c \in fresh THEN None ELSE describedBy[c]
<1>1. c \in C /\ describedBy'[c] = Described(c, old, C)
  BY DEF Rebuild
<1>2. CASE c \in Table /\ Describer(c, C) # None
  <2>1. Before(c, C) \ Table \in SUBSET Chunk
    BY DEF Before, In
  <2>2. Describer(c, C) \in Before(c, C) \ Table
    BY <1>2, <2>1, LatestIn DEF Describer
  <2> QED BY <1>1, <1>2, <2>2, BeforeGrows DEF Described
<1>3. CASE ~(c \in Table /\ Describer(c, C) # None)
  <2>1. describedBy'[c] = describedBy[c] /\ describedBy[c] # None
    BY <1>1, <1>3 DEF Described
  <2> QED BY <2>1 DEF IInv, DescriptionsPrecede
<1> QED BY <1>2, <1>3

LEMMA RebuiltWhole ==
  ASSUME IInv, NEW C \in SUBSET Chunk, NEW fresh \in SUBSET Chunk,
         Rebuild(C, fresh), fresh \subseteq C
  PROVE  WholeSectionAsBuiltAtOnce'
<1> SUFFICES ASSUME NEW c \in Chunk, Whole(SectionOf[c])'
             PROVE  /\ prev'[c] = Latest(Before(c, Chunk))
                    /\ next'[c] = Earliest(After(c, Chunk))
                    /\ describedBy'[c] = (IF c \in Table THEN Describer(c, Chunk)
                                          ELSE None)
                    /\ lead'[SectionOf[c]] = Earliest(In(SectionOf[c], Chunk) \ Table)
                    /\ In(SectionOf[c], listed') = In(SectionOf[c], Chunk)
  BY DEF WholeSectionAsBuiltAtOnce, In
<1>1. In(SectionOf[c], Chunk) \subseteq C
  BY DEF Whole, Rebuild
<1>2. /\ c \in C
      /\ Before(c, C) = Before(c, Chunk)
      /\ After(c, C) = After(c, Chunk)
      /\ In(SectionOf[c], C) = In(SectionOf[c], Chunk)
  BY <1>1, WholeNeighbours
<1>3. prev'[c] = Latest(Before(c, Chunk)) /\ next'[c] = Earliest(After(c, Chunk))
  BY <1>2 DEF Rebuild
<1>4. lead'[SectionOf[c]] = Earliest(In(SectionOf[c], Chunk) \ Table)
  <2>1. SectionOf[c] \in Section
    BY GraphConstants DEF GraphConstants
  <2> QED BY <1>2, <2>1 DEF Rebuild
<1>5. Describer(c, C) = Describer(c, Chunk)
  BY <1>2 DEF Describer
<1>6. describedBy'[c] = (IF c \in Table THEN Describer(c, Chunk) ELSE None)
  <2> DEFINE old == IF c \in fresh THEN None ELSE describedBy[c]
  <2>1. describedBy'[c] = Described(c, old, C)
    BY <1>2 DEF Rebuild
  <2>2. CASE c \in Table /\ Describer(c, C) # None
    BY <1>5, <2>1, <2>2 DEF Described
  <2>3. CASE c \in Table /\ Describer(c, C) = None
    <3>1. Before(c, Chunk) \ Table = {}
      <4>1. Before(c, Chunk) \ Table \in SUBSET Chunk
        BY DEF Before, In
      <4> QED BY <1>5, <2>3, <4>1, LatestIn, NoneIsNoChunk DEF Describer
    <3>2. old = None
      BY <3>1 DEF IInv, DescriptionsPrecede
    <3> QED BY <1>5, <2>1, <2>3, <3>2 DEF Described
  <2>4. CASE c \notin Table
    <3>1. old = None
      BY <2>4 DEF IInv, DescriptionsPrecede
    <3> QED BY <2>1, <2>4, <3>1 DEF Described
  <2> QED BY <2>2, <2>3, <2>4
<1>7. listed' = C
  BY DEF Rebuild
<1> QED BY <1>2, <1>3, <1>4, <1>6, <1>7

(* A section that lost a node is not whole; the others keep theirs.        *)
LEMMA LossKeeps ==
  ASSUME IInv, NEW d \in Chunk, Lose(d)
  PROVE  DescriptionsPrecede' /\ NodesAreListed' /\ WholeSectionAsBuiltAtOnce'
<1>0. NodesAreListed'
  BY DEF Lose, IInv, NodesAreListed
<1>1. DescriptionsPrecede'
  BY DEF Lose, IInv, DescriptionsPrecede, TypeOK
<1>2. ASSUME NEW c \in Chunk, Whole(SectionOf[c])'
      PROVE  /\ c # d
             /\ Whole(SectionOf[c])
  BY <1>2 DEF Whole, Lose, In
<1>3. WholeSectionAsBuiltAtOnce'
  <2> SUFFICES ASSUME NEW c \in Chunk, Whole(SectionOf[c])'
               PROVE  /\ prev'[c] = Latest(Before(c, Chunk))
                      /\ next'[c] = Earliest(After(c, Chunk))
                      /\ describedBy'[c] = (IF c \in Table THEN Describer(c, Chunk)
                                            ELSE None)
                      /\ lead'[SectionOf[c]] =
                           Earliest(In(SectionOf[c], Chunk) \ Table)
                      /\ In(SectionOf[c], listed') = In(SectionOf[c], Chunk)
    BY DEF WholeSectionAsBuiltAtOnce, In
  <2>1. c # d /\ Whole(SectionOf[c])
    BY <1>2
  <2>2. /\ prev'[c] = prev[c] /\ next'[c] = next[c]
        /\ describedBy'[c] = describedBy[c] /\ lead' = lead
        /\ listed' = listed
    BY <2>1 DEF Lose, IInv, TypeOK
  <2> QED BY <2>1, <2>2 DEF IInv, WholeSectionAsBuiltAtOnce
<1> QED BY <1>0, <1>1, <1>3

LEMMA InvariantKept == IInv /\ [Next]_vars => IInv'
<1> SUFFICES ASSUME IInv, [Next]_vars PROVE IInv'
  OBVIOUS
<1>1. TypeOK'
  BY TypesKept DEF IInv
<1>2. ASSUME NEW batch \in SUBSET Chunk, Update(batch) PROVE IInv'
  <2>1. nodes \cup batch \in SUBSET Chunk /\ batch \subseteq nodes \cup batch
    BY DEF IInv, TypeOK
  <2>2. NodesAreListed'
    BY <1>2 DEF Update, Rebuild, NodesAreListed
  <2> QED BY <1>1, <1>2, <2>1, <2>2, RebuiltDescriptions, RebuiltWhole
          DEF Update, IInv
<1>3. ASSUME NEW f \in Filing, DeleteFiling(f) PROVE IInv'
  <2> DEFINE kept == {c \in nodes : FilingOf[SectionOf[c]] # f}
  <2>1. kept \in SUBSET Chunk /\ {} \in SUBSET Chunk /\ {} \subseteq kept
    BY DEF IInv, TypeOK
  <2>2. Rebuild(kept, {})
    BY <1>3 DEF DeleteFiling
  <2> HIDE DEF kept
  <2>3. NodesAreListed'
    BY <2>2 DEF Rebuild, NodesAreListed
  <2> QED BY <1>1, <2>1, <2>2, <2>3, RebuiltDescriptions, RebuiltWhole DEF IInv
<1>4. ASSUME NEW c \in Chunk, Lose(c) PROVE IInv'
  BY <1>1, <1>4, LossKeeps DEF IInv
<1>5. CASE UNCHANGED vars
  BY <1>1, <1>5 DEF vars, relations, IInv, DescriptionsPrecede, NodesAreListed,
                    In, WholeSectionAsBuiltAtOnce, Whole
<1> QED BY <1>2, <1>3, <1>4, <1>5 DEF Next

LEMMA InitInvariant == Init => IInv
<1> SUFFICES ASSUME Init PROVE IInv
  OBVIOUS
<1>1. TypeOK /\ DescriptionsPrecede /\ NodesAreListed
  BY InitTypes DEF Init, DescriptionsPrecede, NodesAreListed
<1>2. ASSUME NEW c \in Chunk PROVE ~Whole(SectionOf[c])
  BY DEF Init, Whole, In
<1> QED BY <1>1, <1>2 DEF IInv, WholeSectionAsBuiltAtOnce

(* Whatever order batches, repairs, deletions and losses came in, a        *)
(* section that is whole has the relations one update would have built.    *)
THEOREM HistoryIsForgotten == Spec => []WholeSectionAsBuiltAtOnce
<1>1. IInv => WholeSectionAsBuiltAtOnce
  BY DEF IInv
<1> QED BY <1>1, InitInvariant, InvariantKept, PTL DEF Spec

-----------------------------------------------------------------------------
(* Least elements, induction and folds.                                    *)

(* Among subsets of a finite set some are smallest. *)
LEMMA MinimalSubset ==
  ASSUME NEW S, IsFiniteSet(S), NEW F \in SUBSET (SUBSET S), F # {}
  PROVE  \E A \in F : \A B \in F : B \subseteq A => B = A
<1> DEFINE R == StrictSubsetOrdering(S)
<1>1. IsWellFoundedOn(R, FiniteSubsetsOf(S))
  BY FS_StrictSubsetOrderingWellFounded
<1>2. F \subseteq FiniteSubsetsOf(S)
  BY FS_FiniteSubsetsOfFinite
<1>3. \E x \in F : \A y \in F : ~(<<y, x>> \in R)
  <2> HIDE DEF R
  <2> QED BY <1>1, <1>2, WFMin
<1>4. PICK A \in F : \A y \in F : ~(<<y, A>> \in R)
  BY <1>3
<1>5. ASSUME NEW B \in F, B \subseteq A PROVE B = A
  BY <1>4, <1>5 DEF StrictSubsetOrdering
<1> QED BY <1>4, <1>5

(* Of numbers one is the least. *)
LEMMA LeastNumber ==
  ASSUME NEW S \in SUBSET Nat, S # {}
  PROVE  \E m \in S : \A n \in S : m <= n
<1>1. PICK k \in S : TRUE
  OBVIOUS
<1> DEFINE D == 1..k
           F == {1..n : n \in {m \in S : m <= k}}
<1>2. IsFiniteSet(D)
  BY FS_Interval
<1>3. F \in SUBSET (SUBSET D) /\ F # {}
  OBVIOUS
<1>4. /\ \A A \in F : \E n \in S : n <= k /\ A = 1..n
      /\ \A n \in S : n <= k => 1..n \in F
  OBVIOUS
<1> HIDE DEF D, F
<1>5. PICK A \in F : \A B \in F : B \subseteq A => B = A
  BY <1>2, <1>3, MinimalSubset
<1>6. PICK n \in S : n <= k /\ A = 1..n
  BY <1>4
<1>7. ASSUME NEW m \in S, m < n PROVE FALSE
  <2>1. 1..m \in F /\ 1..m \subseteq A /\ n \in A /\ n \notin 1..m
    BY <1>4, <1>6, <1>7
  <2> QED BY <1>5, <2>1
<1> QED BY <1>7

(* Induction up to a bound. *)
Inductive(G, N) == 0 \in G /\ \A n \in 0..(N - 1) : n \in G => n + 1 \in G

LEMMA NatInductionUpTo ==
  ASSUME NEW N \in Nat, NEW G, Inductive(G, N)
  PROVE  \A n \in 0..N : n \in G
<1> USE DEF Inductive
<1> DEFINE S == {n \in 0..N : n \notin G}
<1>1. ASSUME S # {} PROVE FALSE
  <2>1. PICK m \in S : \A n \in S : m <= n
    <3>1. S \in SUBSET Nat
      OBVIOUS
    <3> HIDE DEF S
    <3> QED BY <1>1, <3>1, LeastNumber
  <2>2. m - 1 \in 0..(N - 1) /\ m - 1 \notin S
    BY <2>1
  <2> QED BY <2>1, <2>2
<1> QED BY <1>1

(* A left fold takes the positions of a sequence from the last one down:   *)
(* whatever it computes at each, there is a function that it computes.     *)
Folds(V, base, step, g, n) ==
  /\ g \in [SUBSET (1..n) -> V] /\ g[{}] = base
  /\ \A T \in SUBSET (1..n) : T # {} =>
       Max(T) \in 1..n /\ g[T] = step[<<g[T \ {Max(T)}], Max(T)>>]

LEMMA FoldExists ==
  ASSUME NEW V, NEW base \in V, NEW N \in Nat, NEW step \in [V \X (1..N) -> V]
  PROVE  \E g : Folds(V, base, step, g, N)
<1> DEFINE G == {n \in 0..N : \E g : Folds(V, base, step, g, n)}
<1>1. 0 \in G
  <2>1. 1..0 = {}
    OBVIOUS
  <2>2. Folds(V, base, step, [T \in SUBSET {} |-> base], 0)
    BY <2>1 DEF Folds
  <2> QED BY <2>2
<1>2. ASSUME NEW n \in 0..(N - 1), n \in G PROVE n + 1 \in G
  <2>1. PICK g : Folds(V, base, step, g, n)
    BY <1>2
  <2> DEFINE D == 1..(n + 1)
             k == n + 1
             g1 == [T \in SUBSET D |-> IF k \in T THEN step[<<g[T \ {k}], k>>] ELSE g[T]]
  <2>2. \A T \in SUBSET D : T \ {k} \in SUBSET (1..n) /\ (k \notin T => T \in SUBSET (1..n))
    OBVIOUS
  <2>3. g1 \in [SUBSET D -> V]
    <3>1. k \in 1..N
      BY <1>2
    <3> HIDE DEF D, k
    <3> QED BY <2>1, <2>2, <3>1 DEF Folds
  <2>4. g1[{}] = base
    BY <2>1 DEF Folds
  <2>5. ASSUME NEW T \in SUBSET D, T # {}
        PROVE  Max(T) \in D /\ g1[T] = step[<<g1[T \ {Max(T)}], Max(T)>>]
    <3>1. CASE k \in T
      <4>1. Max(T) = k
        <5>1. \A x \in T : (\A y \in T : x >= y) <=> x = k
          BY <3>1
        <5> QED BY <3>1, <5>1 DEF Max
      <4>2. T \ {k} \in SUBSET D /\ k \notin T \ {k} /\ k \in D
        OBVIOUS
      <4> HIDE DEF D, k
      <4> QED BY <3>1, <4>1, <4>2
    <3>2. CASE k \notin T
      <4>1. T \in SUBSET (1..n)
        BY <2>2, <3>2
      <4>2. Max(T) \in 1..n /\ g[T] = step[<<g[T \ {Max(T)}], Max(T)>>]
        BY <2>1, <2>5, <4>1 DEF Folds
      <4>3. T \ {Max(T)} \in SUBSET D /\ k \notin T \ {Max(T)} /\ Max(T) \in D
        <5>1. 1..n \subseteq D
          OBVIOUS
        <5> HIDE DEF D, k
        <5> QED BY <2>5, <3>2, <4>2, <5>1
      <4>4. g1[T] = g[T] /\ g1[T \ {Max(T)}] = g[T \ {Max(T)}]
        BY <3>2, <4>3
      <4> QED BY <4>2, <4>3, <4>4
    <3> QED BY <3>1, <3>2
  <2>6. Folds(V, base, step, g1, n + 1)
    <3> HIDE DEF g1
    <3> QED BY <2>3, <2>4, <2>5 DEF Folds
  <2> HIDE DEF g1
  <2> QED BY <1>2, <2>6
<1>3. N \in G
  <2>1. Inductive(G, N)
    <3> HIDE DEF G
    <3> QED BY <1>1, <1>2 DEF Inductive
  <2> HIDE DEF G
  <2> QED BY <2>1, NatInductionUpTo
<1> QED BY <1>3

(* Read from the first position up, it has a value after each of them.     *)
FoldsTyped(V, base, step, h, N) ==
  /\ h[{}] = base
  /\ \A T \in SUBSET (1..N) : T # {} /\ h[T \ {Max(T)}] \in V =>
       h[T] = step[<<h[T \ {Max(T)}], Max(T)>>]

Runs(V, base, step, acc, N, result) ==
  /\ acc \in [0..N -> V] /\ acc[0] = base /\ acc[N] = result
  /\ \A n \in 1..N : acc[n] = step[<<acc[n - 1], n>>]

LEMMA FoldRuns ==
  ASSUME NEW V, NEW base \in V, NEW N \in Nat, NEW step \in [V \X (1..N) -> V],
         NEW h, FoldsTyped(V, base, step, h, N)
  PROVE  \E acc : Runs(V, base, step, acc, N, h[1..N])
<1> USE DEF FoldsTyped, Runs
<1>1. ASSUME NEW n \in 1..N
      PROVE  /\ 1..n \in SUBSET (1..N) /\ 1..n # {} /\ Max(1..n) = n
             /\ (1..n) \ {n} = 1..(n - 1)
  <2>1. \A x \in 1..n : (\A y \in 1..n : x >= y) <=> x = n
    OBVIOUS
  <2> QED BY <2>1 DEF Max
<1>2. \A n \in 1..N : h[1..(n - 1)] \in V => h[1..n] = step[<<h[1..(n - 1)], n>>]
  BY <1>1
<1> DEFINE G == {n \in 0..N : h[1..n] \in V}
<1>3. 0 \in G
  <2>1. 1..0 = {}
    OBVIOUS
  <2> QED BY <2>1
<1>4. ASSUME NEW n \in 0..(N - 1), n \in G PROVE n + 1 \in G
  <2>1. n + 1 \in 1..N /\ (n + 1) - 1 = n /\ h[1..n] \in V
    BY <1>4
  <2>2. h[1..(n + 1)] = step[<<h[1..n], n + 1>>]
    BY <1>2, <2>1
  <2>3. h[1..(n + 1)] \in V
    BY <2>1, <2>2
  <2> QED BY <2>1, <2>3
<1>5. \A n \in 0..N : h[1..n] \in V
  <2>1. \A n \in 0..N : n \in G
    <3> HIDE DEF G
    <3>1. Inductive(G, N)
      BY <1>3, <1>4 DEF Inductive
    <3> QED BY <3>1, NatInductionUpTo
  <2> QED BY <2>1
<1> DEFINE acc == [n \in 0..N |-> h[1..n]]
<1>6. acc \in [0..N -> V]
  BY <1>5
<1>7. 1..0 = {}
  OBVIOUS
<1>8. \A n \in 1..N : acc[n] = step[<<acc[n - 1], n>>]
  BY <1>2, <1>5
<1>9. acc[0] = base /\ acc[N] = h[1..N]
  BY <1>7
<1> HIDE DEF acc
<1> QED BY <1>6, <1>8, <1>9

-----------------------------------------------------------------------------
(* What sequences hold. *)
LEMMA AppendAdds ==
  ASSUME NEW A, NEW s \in Seq(A), NEW c
  PROVE  ToSet(Append(s, c)) = ToSet(s) \cup {c}
<1>1. DOMAIN Append(s, c) = DOMAIN s \cup {Len(s) + 1}
  OBVIOUS
<1>2. \A i \in DOMAIN s : Append(s, c)[i] = s[i]
  OBVIOUS
<1>3. Append(s, c)[Len(s) + 1] = c
  OBVIOUS
<1> DEFINE t == Append(s, c)
<1> HIDE DEF t
<1> QED BY <1>1, <1>2, <1>3 DEF ToSet, t

(* Within, read from the first row on. *)
LEMMA WithinRuns ==
  ASSUME NEW A, NEW s \in Seq(A), NEW S
  PROVE  \E acc \in [0..Len(s) -> Seq(A)] :
           /\ acc[0] = <<>> /\ acc[Len(s)] = Within(s, S)
           /\ \A n \in 1..Len(s) :
                acc[n] = IF s[n] \in S THEN Append(acc[n - 1], s[n]) ELSE acc[n - 1]
<1> DEFINE N == Len(s)
           V == Seq(A)
           Op(v, c) == IF c \in S THEN Append(v, c) ELSE v
           step == [p \in V \X (1..N) |-> Op(p[1], s[p[2]])]
           Body(h, T) == IF T = {} THEN <<>> ELSE Op(h[T \ {Max(T)}], s[Max(T)])
           Iter(h) == h = [T \in SUBSET (1..N) |-> Body(h, T)]
           h == CHOOSE g : Iter(g)
<1>1. DOMAIN s = 1..N /\ N \in Nat
  OBVIOUS
<1>2. Within(s, S) = h[1..N]
  BY <1>1 DEF Within, FoldLeft, MapThenFoldSet
<1>3. step \in [V \X (1..N) -> V] /\ <<>> \in V
  OBVIOUS
<1>4. \A v \in V : \A n \in 1..N : step[<<v, n>>] = Op(v, s[n])
  OBVIOUS
<1>5. PICK g : Folds(V, <<>>, step, g, N)
  <2> HIDE DEF step, V, N
  <2> QED BY <1>1, <1>3, FoldExists
<1>6. Iter(g)
  <2>1. ASSUME NEW T \in SUBSET (1..N) PROVE g[T] = Body(g, T)
    <3>1. CASE T = {} BY <1>5, <3>1 DEF Folds
    <3>2. CASE T # {}
      <4>1. Max(T) \in 1..N /\ g[T \ {Max(T)}] \in V
        BY <1>5, <3>2 DEF Folds
      <4> HIDE DEF Op, step, V, N
      <4> QED BY <1>4, <1>5, <3>2, <4>1 DEF Folds
    <3> QED BY <3>1, <3>2
  <2> HIDE DEF Body
  <2> QED BY <1>5, <2>1 DEF Folds
<1>7. Iter(h)
  <2> HIDE DEF Iter
  <2> QED BY <1>6
<1>8. FoldsTyped(V, <<>>, step, h, N)
  <2>1. \A T \in SUBSET (1..N) : h[T] = Body(h, T)
    BY <1>7
  <2>2. \A T \in SUBSET (1..N) : T # {} => Max(T) \in 1..N
    BY <1>5 DEF Folds
  <2>3. h[{}] = <<>>
    BY <2>1
  <2> HIDE DEF h, Op, step, V, N
  <2>4. ASSUME NEW T \in SUBSET (1..N), T # {}, h[T \ {Max(T)}] \in V
        PROVE  h[T] = step[<<h[T \ {Max(T)}], Max(T)>>]
    BY <1>4, <2>1, <2>2, <2>4
  <2> QED BY <2>3, <2>4 DEF FoldsTyped
<1>9. PICK acc : Runs(V, <<>>, step, acc, N, h[1..N])
  <2> DEFINE base == <<>>
  <2>1. base \in V /\ FoldsTyped(V, base, step, h, N)
    BY <1>3, <1>8
  <2> HIDE DEF base, h, step, V, N
  <2>2. \E acc : Runs(V, base, step, acc, N, h[1..N])
    BY <1>1, <1>3, <2>1, FoldRuns
  <2> QED BY <2>2 DEF base
<1>10. \A n \in 1..N : acc[n] = Op(acc[n - 1], s[n])
  <2>1. \A n \in 1..N : acc[n - 1] \in V
    BY <1>9 DEF Runs
  <2> HIDE DEF step, Op, V
  <2> QED BY <1>4, <1>9, <2>1 DEF Runs
<1> HIDE DEF h, step
<1> QED BY <1>2, <1>9, <1>10 DEF Runs

(* It keeps the rows of S and no other, and is no longer than s. *)
LEMMA WithinKeeps ==
  ASSUME NEW A, NEW s \in Seq(A), NEW S
  PROVE  /\ Within(s, S) \in Seq(A) /\ Len(Within(s, S)) <= Len(s)
         /\ ToSet(Within(s, S)) = ToSet(s) \cap S
<1>1. PICK acc \in [0..Len(s) -> Seq(A)] :
        /\ acc[0] = <<>> /\ acc[Len(s)] = Within(s, S)
        /\ \A n \in 1..Len(s) :
             acc[n] = IF s[n] \in S THEN Append(acc[n - 1], s[n]) ELSE acc[n - 1]
  BY WithinRuns
<1> DEFINE G == {n \in 0..Len(s) : /\ Len(acc[n]) <= n
                                   /\ ToSet(acc[n]) = {s[i] : i \in 1..n} \cap S}
<1>2. 0 \in G
  BY <1>1 DEF ToSet
<1>3. ASSUME NEW n \in 0..(Len(s) - 1), n \in G PROVE n + 1 \in G
  <2> DEFINE c == s[n + 1]
  <2>1. /\ acc[n] \in Seq(A) /\ c \in A /\ n + 1 \in 0..Len(s) /\ Len(acc[n]) <= n
        /\ acc[n + 1] = IF c \in S THEN Append(acc[n], c) ELSE acc[n]
        /\ ToSet(acc[n]) = {s[i] : i \in 1..n} \cap S
    BY <1>1, <1>3
  <2>2. {s[i] : i \in 1..(n + 1)} = {s[i] : i \in 1..n} \cup {c}
    OBVIOUS
  <2>3. ToSet(Append(acc[n], c)) = ToSet(acc[n]) \cup {c}
    BY <2>1, AppendAdds
  <2>4. Len(acc[n + 1]) <= n + 1
    BY <2>1
  <2>5. ToSet(acc[n + 1]) = {s[i] : i \in 1..(n + 1)} \cap S
    BY <2>1, <2>2, <2>3
  <2> QED BY <2>1, <2>4, <2>5
<1>4. Len(s) \in G
  <2> DEFINE N == Len(s)
  <2>1. N \in Nat /\ N \in 0..N
    OBVIOUS
  <2>2. Inductive(G, N)
    <3> HIDE DEF G
    <3> QED BY <1>2, <1>3 DEF Inductive
  <2> HIDE DEF G, N
  <2>3. N \in G
    BY <2>1, <2>2, NatInductionUpTo
  <2> QED BY <2>3 DEF N
<1>5. ToSet(s) = {s[i] : i \in 1..Len(s)}
  BY DEF ToSet
<1> QED BY <1>1, <1>4, <1>5

-----------------------------------------------------------------------------
(* Distinct, read from the first row on. *)
LEMMA DistinctRuns ==
  ASSUME NEW A, NEW s \in Seq(A)
  PROVE  \E acc \in [0..Len(s) -> Seq(A)] :
           /\ acc[0] = <<>> /\ acc[Len(s)] = Distinct(s)
           /\ \A n \in 1..Len(s) :
                acc[n] = IF s[n] \in ToSet(acc[n - 1]) THEN acc[n - 1]
                         ELSE Append(acc[n - 1], s[n])
<1> DEFINE N == Len(s)
           V == Seq(A)
           Op(v, c) == IF c \in ToSet(v) THEN v ELSE Append(v, c)
           step == [p \in V \X (1..N) |-> Op(p[1], s[p[2]])]
           Body(h, T) == IF T = {} THEN <<>> ELSE Op(h[T \ {Max(T)}], s[Max(T)])
           Iter(h) == h = [T \in SUBSET (1..N) |-> Body(h, T)]
           h == CHOOSE g : Iter(g)
<1>1. DOMAIN s = 1..N /\ N \in Nat
  OBVIOUS
<1>2. Distinct(s) = h[1..N]
  BY <1>1 DEF Distinct, FoldLeft, MapThenFoldSet
<1>3. step \in [V \X (1..N) -> V] /\ <<>> \in V
  OBVIOUS
<1>4. \A v \in V : \A n \in 1..N : step[<<v, n>>] = Op(v, s[n])
  OBVIOUS
<1>5. PICK g : Folds(V, <<>>, step, g, N)
  <2> HIDE DEF step, V, N
  <2> QED BY <1>1, <1>3, FoldExists
<1>6. Iter(g)
  <2>1. ASSUME NEW T \in SUBSET (1..N) PROVE g[T] = Body(g, T)
    <3>1. CASE T = {} BY <1>5, <3>1 DEF Folds
    <3>2. CASE T # {}
      <4>1. Max(T) \in 1..N /\ g[T \ {Max(T)}] \in V
        BY <1>5, <3>2 DEF Folds
      <4> HIDE DEF Op, step, V, N
      <4> QED BY <1>4, <1>5, <3>2, <4>1 DEF Folds
    <3> QED BY <3>1, <3>2
  <2> HIDE DEF Body
  <2> QED BY <1>5, <2>1 DEF Folds
<1>7. Iter(h)
  <2> HIDE DEF Iter
  <2> QED BY <1>6
<1>8. FoldsTyped(V, <<>>, step, h, N)
  <2>1. \A T \in SUBSET (1..N) : h[T] = Body(h, T)
    BY <1>7
  <2>2. \A T \in SUBSET (1..N) : T # {} => Max(T) \in 1..N
    BY <1>5 DEF Folds
  <2>3. h[{}] = <<>>
    BY <2>1
  <2> HIDE DEF h, Op, step, V, N
  <2>4. ASSUME NEW T \in SUBSET (1..N), T # {}, h[T \ {Max(T)}] \in V
        PROVE  h[T] = step[<<h[T \ {Max(T)}], Max(T)>>]
    BY <1>4, <2>1, <2>2, <2>4
  <2> QED BY <2>3, <2>4 DEF FoldsTyped
<1>9. PICK acc : Runs(V, <<>>, step, acc, N, h[1..N])
  <2> DEFINE base == <<>>
  <2>1. base \in V /\ FoldsTyped(V, base, step, h, N)
    BY <1>3, <1>8
  <2> HIDE DEF base, h, step, V, N
  <2>2. \E acc : Runs(V, base, step, acc, N, h[1..N])
    BY <1>1, <1>3, <2>1, FoldRuns
  <2> QED BY <2>2 DEF base
<1>10. \A n \in 1..N : acc[n] = Op(acc[n - 1], s[n])
  <2>1. \A n \in 1..N : acc[n - 1] \in V
    BY <1>9 DEF Runs
  <2> HIDE DEF step, Op, V
  <2> QED BY <1>4, <1>9, <2>1 DEF Runs
<1> HIDE DEF h, step
<1> QED BY <1>2, <1>9, <1>10 DEF Runs

(* It holds the same rows, each no later than it first came. *)
LEMMA DistinctKeeps ==
  ASSUME NEW A, NEW s \in Seq(A)
  PROVE  /\ Distinct(s) \in Seq(A) /\ ToSet(Distinct(s)) \subseteq ToSet(s)
         /\ \A p \in 1..Len(s) : \E q \in 1..p :
              q \in DOMAIN Distinct(s) /\ Distinct(s)[q] = s[p]
<1>1. PICK acc \in [0..Len(s) -> Seq(A)] :
        /\ acc[0] = <<>> /\ acc[Len(s)] = Distinct(s)
        /\ \A n \in 1..Len(s) :
             acc[n] = IF s[n] \in ToSet(acc[n - 1]) THEN acc[n - 1]
                      ELSE Append(acc[n - 1], s[n])
  BY DistinctRuns
<1> DEFINE Kept(n) == /\ Len(acc[n]) <= n /\ ToSet(acc[n]) \subseteq ToSet(s)
                      /\ \A p \in 1..n : \E q \in 1..p :
                           q <= Len(acc[n]) /\ acc[n][q] = s[p]
           G == {n \in 0..Len(s) : Kept(n)}
<1>2. 0 \in G
  BY <1>1 DEF ToSet
<1>3. ASSUME NEW n \in 0..(Len(s) - 1), n \in G PROVE n + 1 \in G
  <2> DEFINE c == s[n + 1]
  <2>1. /\ acc[n] \in Seq(A) /\ c \in A /\ n + 1 \in 1..Len(s) /\ n \in Nat /\ Kept(n)
        /\ acc[n + 1] = IF c \in ToSet(acc[n]) THEN acc[n] ELSE Append(acc[n], c)
    BY <1>1, <1>3
  <2>2. c \in ToSet(s)
    BY <2>1 DEF ToSet
  <2>3. CASE c \in ToSet(acc[n])
    <3>1. PICK q \in 1..Len(acc[n]) : acc[n][q] = c
      <4>1. DOMAIN acc[n] = 1..Len(acc[n])
        BY <2>1
      <4> QED BY <2>3, <4>1 DEF ToSet
    <3>2. acc[n + 1] = acc[n] /\ q \in 1..(n + 1)
      BY <2>1, <2>3, <3>1
    <3>3. ASSUME NEW p \in 1..(n + 1)
          PROVE  \E r \in 1..p : r <= Len(acc[n + 1]) /\ acc[n + 1][r] = s[p]
      <4>1. CASE p \in 1..n BY <2>1, <3>2, <4>1
      <4>2. CASE p = n + 1 BY <3>1, <3>2, <4>2
      <4> QED BY <4>1, <4>2
    <3>4. Len(acc[n + 1]) <= n + 1 /\ ToSet(acc[n + 1]) \subseteq ToSet(s) /\ n + 1 \in 0..Len(s)
      BY <2>1, <3>2
    <3> QED BY <3>3, <3>4
  <2>4. CASE c \notin ToSet(acc[n])
    <3>1. acc[n + 1] = Append(acc[n], c)
      BY <2>1, <2>4
    <3>2. /\ Len(acc[n + 1]) = Len(acc[n]) + 1 /\ acc[n + 1][Len(acc[n]) + 1] = c
          /\ \A i \in 1..Len(acc[n]) : acc[n + 1][i] = acc[n][i]
      BY <2>1, <3>1
    <3>3. ToSet(acc[n + 1]) = ToSet(acc[n]) \cup {c}
      BY <2>1, <3>1, AppendAdds
    <3>4. Len(acc[n]) + 1 \in 1..(n + 1)
      BY <2>1
    <3>5. ASSUME NEW p \in 1..(n + 1)
          PROVE  \E r \in 1..p : r <= Len(acc[n + 1]) /\ acc[n + 1][r] = s[p]
      <4>1. CASE p \in 1..n
        <5>1. PICK r \in 1..p : r <= Len(acc[n]) /\ acc[n][r] = s[p]
          BY <2>1, <4>1
        <5>2. r \in 1..Len(acc[n]) /\ Len(acc[n]) \in Nat
          BY <2>1, <5>1
        <5> QED BY <3>2, <5>1, <5>2
      <4>2. CASE p = n + 1
        BY <2>1, <3>2, <3>4, <4>2
      <4> QED BY <2>1, <4>1, <4>2
    <3>6. /\ Len(acc[n + 1]) <= n + 1 /\ ToSet(acc[n + 1]) \subseteq ToSet(s)
          /\ n + 1 \in 0..Len(s)
      BY <2>1, <2>2, <3>2, <3>3, <3>4
    <3> QED BY <3>5, <3>6
  <2> QED BY <2>3, <2>4
<1>4. Len(s) \in G
  <2> DEFINE N == Len(s)
  <2>1. N \in Nat /\ N \in 0..N
    OBVIOUS
  <2>2. Inductive(G, N)
    <3> HIDE DEF G
    <3> QED BY <1>2, <1>3 DEF Inductive
  <2> HIDE DEF G, N
  <2>3. N \in G
    BY <2>1, <2>2, NatInductionUpTo
  <2> QED BY <2>3 DEF N
<1>5. \A q \in Nat : q >= 1 /\ q <= Len(Distinct(s)) => q \in DOMAIN Distinct(s)
  BY <1>1
<1> QED BY <1>1, <1>4, <1>5

-----------------------------------------------------------------------------
(* FlattenSeq, read from the first sequence on. *)
LEMMA FlattenRuns ==
  ASSUME NEW A, NEW s \in Seq(Seq(A))
  PROVE  \E acc \in [0..Len(s) -> Seq(A)] :
           /\ acc[0] = <<>> /\ acc[Len(s)] = FlattenSeq(s)
           /\ \A n \in 1..Len(s) : acc[n] = acc[n - 1] \o s[n]
<1> DEFINE N == Len(s)
           V == Seq(A)
           base == <<>>
           step == [p \in V \X (1..N) |-> p[1] \o s[p[2]]]
<1>1. N \in Nat /\ base \in V /\ step \in [V \X (1..N) -> V]
  OBVIOUS
<1>0. DOMAIN s = 1..N /\ \A i \in 1..N : s[i] \in Seq(A)
  OBVIOUS
<1>2. \A v \in V : \A n \in 1..N : step[<<v, n>>] = v \o s[n]
  OBVIOUS
<1>3. PICK g : Folds(V, base, step, g, N)
  <2> HIDE DEF base, step, V, N
  <2> QED BY <1>1, FoldExists
<1>4. PICK acc : Runs(V, base, step, acc, N, g[1..N])
  <2>1. FoldsTyped(V, base, step, g, N)
    BY <1>3 DEF Folds, FoldsTyped
  <2> HIDE DEF base, step, V, N
  <2> QED BY <1>1, <2>1, FoldRuns
<1>5. /\ acc \in [0..N -> V] /\ acc[0] = <<>>
      /\ \A n \in 1..N : acc[n] = acc[n - 1] \o s[n]
  <2>1. \A n \in 1..N : acc[n - 1] \in V
    <3>1. acc \in [0..N -> V] /\ \A n \in 1..N : n - 1 \in 0..N
      <4> HIDE DEF step, V, base
      <4> QED BY <1>4 DEF Runs
    <3> HIDE DEF step, V, base, N
    <3> QED BY <3>1
  <2>2. base = <<>>
    OBVIOUS
  <2> HIDE DEF step, V, base
  <2> QED BY <1>2, <1>4, <2>1, <2>2 DEF Runs
<1>6. CASE N = 0
  BY <1>5, <1>6 DEF FlattenSeq
<1>7. CASE N > 0
  <2> DEFINE Body(f, i) == IF i = 1 THEN s[i] ELSE f[i - 1] \o s[i]
             Iter(f) == f = [i \in 1..N |-> Body(f, i)]
             f == CHOOSE h : Iter(h)
  <2>1. FlattenSeq(s) = f[N]
    BY <1>7 DEF FlattenSeq
  <2>2. Iter([i \in 1..N |-> acc[i]])
    <3> DEFINE h == [i \in 1..N |-> acc[i]]
    <3>1. ASSUME NEW i \in 1..N PROVE h[i] = Body(h, i)
      <4>1. CASE i = 1
        <5>1. 1 \in 1..N /\ 1 - 1 = 0
          BY <1>1, <1>7
        <5>2. s[1] \in Seq(A) /\ acc[1] = <<>> \o s[1]
          <6> HIDE DEF N, V, step
          <6> QED BY <1>0, <1>5, <5>1
        <5> QED BY <4>1, <5>2
      <4>2. CASE i # 1
        <5>1. i - 1 \in 1..N
          BY <4>2
        <5> QED BY <1>5, <4>2, <5>1
      <4> QED BY <4>1, <4>2
    <3> HIDE DEF Body
    <3> QED BY <3>1
  <2>3. Iter(f)
    <3> HIDE DEF Iter
    <3> QED BY <2>2
  <2>4. \A i \in 1..N : f[i] = Body(f, i)
    BY <2>3
  <2> DEFINE G == {n \in 0..N : n = 0 \/ f[n] = acc[n]}
  <2>5. Inductive(G, N)
    <3> HIDE DEF f
    <3>1. ASSUME NEW n \in 0..(N - 1), n \in G PROVE n + 1 \in G
      <4>0. n + 1 \in 1..N /\ (n + 1) - 1 = n /\ n + 1 \in 0..N
        BY <1>1
      <4>1. CASE n = 0
        <5>1. 1 \in 1..N /\ 1 - 1 = 0
          BY <1>1, <1>7
        <5>2. s[1] \in Seq(A) /\ acc[1] = <<>> \o s[1] /\ f[1] = s[1]
          <6> HIDE DEF N, V, step
          <6> QED BY <1>0, <1>5, <2>4, <5>1
        <5> QED BY <4>0, <4>1, <5>2
      <4>2. CASE n # 0
        <5>0. n \in Nat /\ n + 1 # 1 /\ f[n] = acc[n]
          BY <3>1, <4>2
        <5>1. f[n + 1] = f[n] \o s[n + 1] /\ acc[n + 1] = acc[n] \o s[n + 1] /\ f[n] = acc[n]
          <6> HIDE DEF N, V, step
          <6> QED BY <1>5, <2>4, <4>0, <5>0
        <5> QED BY <4>0, <5>1
      <4> QED BY <4>1, <4>2
    <3>2. 0 \in G
      BY <1>1
    <3> HIDE DEF G
    <3> QED BY <3>1, <3>2 DEF Inductive
  <2>6. N \in G
    <3>1. N \in 0..N
      BY <1>1
    <3> HIDE DEF G, N
    <3> QED BY <1>1, <2>5, <3>1, NatInductionUpTo
  <2>7. f[N] = acc[N]
    <3> HIDE DEF f
    <3> QED BY <1>7, <2>6
  <2> HIDE DEF f
  <2> QED BY <1>5, <2>1, <2>7
<1>8. N = 0 \/ N > 0
  BY <1>1
<1> HIDE DEF N, V, step
<1> QED BY <1>6, <1>7, <1>8

-----------------------------------------------------------------------------
(* The first n of a finite set in an order are n at most, and all of it if *)
(* they are fewer.                                                         *)
Orders(R, S) ==
  /\ \A p \in S : <<p, p>> \notin R
  /\ \A p, q, r \in S : <<p, q>> \in R /\ <<q, r>> \in R => <<p, r>> \in R
  /\ \A p, q \in S : p = q \/ <<p, q>> \in R \/ <<q, p>> \in R

Preceding(R, S, q) == {p \in S : <<p, q>> \in R}

Leading(R, S, n) == {q \in S : Cardinality(Preceding(R, S, q)) < n}

LEMMA PrecedingCounts ==
  ASSUME NEW S, IsFiniteSet(S), NEW R, Orders(R, S)
  PROVE  /\ \A q \in S : /\ IsFiniteSet(Preceding(R, S, q))
                         /\ Cardinality(Preceding(R, S, q)) \in Nat
         /\ \A p, q \in S : <<p, q>> \in R =>
              Cardinality(Preceding(R, S, p)) < Cardinality(Preceding(R, S, q))
<1>1. ASSUME NEW q \in S
      PROVE  IsFiniteSet(Preceding(R, S, q)) /\ Cardinality(Preceding(R, S, q)) \in Nat
  <2>1. Preceding(R, S, q) \in SUBSET S
    BY DEF Preceding
  <2> QED BY <2>1, FS_Subset, FS_CardinalityType
<1>2. ASSUME NEW p \in S, NEW q \in S, <<p, q>> \in R
      PROVE  Cardinality(Preceding(R, S, p)) < Cardinality(Preceding(R, S, q))
  <2>1. /\ Preceding(R, S, p) \in SUBSET Preceding(R, S, q)
        /\ Preceding(R, S, p) # Preceding(R, S, q)
    BY <1>2 DEF Orders, Preceding
  <2>2. /\ Cardinality(Preceding(R, S, p)) <= Cardinality(Preceding(R, S, q))
        /\ Cardinality(Preceding(R, S, p)) # Cardinality(Preceding(R, S, q))
    BY <1>1, <2>1, FS_Subset
  <2> QED BY <1>1, <2>2
<1> QED BY <1>1, <1>2

LEMMA LeadersAreFew ==
  ASSUME NEW S, IsFiniteSet(S), NEW R, Orders(R, S), NEW n \in Nat
  PROVE  /\ IsFiniteSet(Leading(R, S, n)) /\ Cardinality(Leading(R, S, n)) <= n
         /\ Cardinality(Leading(R, S, n)) < n => Leading(R, S, n) = S
<1> DEFINE L == Leading(R, S, n)
           before(q) == Cardinality(Preceding(R, S, q))
<1>1. /\ \A q \in S : before(q) \in Nat
      /\ \A p, q \in S : <<p, q>> \in R => before(p) < before(q)
  BY PrecedingCounts
<1>2. L \in SUBSET S /\ \A q \in S : q \in L <=> before(q) < n
  BY DEF Leading
<1>3. IsFiniteSet(L) /\ Cardinality(L) \in Nat
  BY <1>2, FS_Subset, FS_CardinalityType
<1>4. Cardinality(L) <= n
  <2> DEFINE D == 0..(n - 1)
             f == [q \in L |-> before(q)]
  <2>1. IsFiniteSet(D) /\ Cardinality(D) = n
    BY FS_Interval
  <2>2. f \in Injection(L, D)
    <3> HIDE DEF before, L
    <3>1. f \in [L -> D]
      BY <1>1, <1>2
    <3>2. ASSUME NEW p \in L, NEW q \in L, f[p] = f[q] PROVE p = q
      <4>1. before(p) = before(q) /\ p \in S /\ q \in S
        BY <1>2, <3>2
      <4>2. <<p, q>> \notin R /\ <<q, p>> \notin R
        BY <1>1, <4>1
      <4> QED BY <4>1, <4>2 DEF Orders
    <3> QED BY <3>1, <3>2 DEF Injection, IsInjective
  <2> HIDE DEF D, f, L
  <2> QED BY <2>1, <2>2, FS_Injection
<1>5. ASSUME L # S PROVE Cardinality(L) >= n
  <2> DEFINE B == {before(q) : q \in S \ L}
  <2>1. B \in SUBSET Nat /\ B # {}
    BY <1>1, <1>2, <1>5
  <2>2. PICK b \in B : \A c \in B : b <= c
    <3> HIDE DEF B
    <3> QED BY <2>1, LeastNumber
  <2>3. PICK e \in S \ L : \A q \in S \ L : before(e) <= before(q)
    BY <2>2
  <2>4. Preceding(R, S, e) \in SUBSET L
    <3>1. \A p \in Preceding(R, S, e) : p \in S /\ <<p, e>> \in R
      BY DEF Preceding
    <3>2. ASSUME NEW p \in Preceding(R, S, e) PROVE p \in L
      <4>1. p \in S /\ before(p) < before(e) /\ before(p) \in Nat /\ before(e) \in Nat
        BY <1>1, <2>3, <3>1
      <4> HIDE DEF L, before
      <4>2. p \in S \ L => before(e) <= before(p)
        BY <2>3
      <4> QED BY <4>1, <4>2
    <3> QED BY <3>2
  <2>5. before(e) <= Cardinality(L)
    BY <1>3, <2>4, FS_Subset
  <2>6. before(e) \in Nat /\ ~(before(e) < n)
    BY <1>1, <1>2, <2>3
  <2> HIDE DEF before, L
  <2> QED BY <1>3, <2>5, <2>6
<1> HIDE DEF L
<1>6. Cardinality(L) < n => L = S
  BY <1>3, <1>5
<1> QED BY <1>3, <1>4, <1>6 DEF L

-----------------------------------------------------------------------------
(* The query budget.                                                       *)

LEMMA QueriesAreFinite ==
  IsFiniteSet(Query) /\ Cardinality(Query) = Queries /\ 1 \in Query
  BY RetrievalConstants, FS_Interval DEF Query

(* The queries balanced over the periods are no more than there is room    *)
(* for.                                                                    *)
LEMMA BalancedIsBounded ==
  ASSUME NEW S \in SUBSET Query, NEW n \in Nat
  PROVE  Balanced(S, n) \in SUBSET S /\ Cardinality(Balanced(S, n)) <= n
<1> DEFINE R == {x \in S \X S : Sooner(x[1], x[2], S)}
           alike(q) == {p \in S : p < q /\ Period[p] = Period[q]}
<1>0. \A q \in S : q \in Nat
  BY DEF Query
<1>1. IsFiniteSet(S)
  BY QueriesAreFinite, FS_Subset
<1>2. ASSUME NEW q \in S
      PROVE  /\ FirstOfPeriod(q, S) \in S /\ Period[FirstOfPeriod(q, S)] = Period[q]
             /\ Turn(q, S) \in Nat
  <2> DEFINE P == {p \in S : Period[p] = Period[q]}
  <2>1. P \in SUBSET Nat /\ P # {}
    BY <1>0
  <2>2. PICK m \in P : \A o \in P : m <= o
    <3> HIDE DEF P
    <3> QED BY <2>1, LeastNumber
  <2>3. m \in S /\ Period[m] = Period[q] /\ \A o \in S : Period[o] = Period[q] => m <= o
    BY <2>2
  <2>4. FirstOfPeriod(q, S) \in S /\ Period[FirstOfPeriod(q, S)] = Period[q]
    BY <2>3 DEF FirstOfPeriod
  <2>5. Turn(q, S) \in Nat
    <3>1. alike(q) \in SUBSET S
      OBVIOUS
    <3> QED BY <1>1, <3>1, FS_Subset, FS_CardinalityType DEF Turn
  <2> QED BY <2>4, <2>5
<1>3. ASSUME NEW p \in S, NEW q \in S, p < q, Period[p] = Period[q]
      PROVE  Turn(p, S) < Turn(q, S)
  <2>1. alike(p) \in SUBSET alike(q) /\ p \in alike(q) /\ p \notin alike(p)
    <3>1. p \in Nat /\ q \in Nat /\ \A o \in S : o \in Nat
      BY <1>0
    <3>2. ASSUME NEW o \in alike(p) PROVE o \in alike(q)
      <4>1. o \in S /\ o \in Nat /\ o < p /\ Period[o] = Period[p]
        BY <3>1
      <4> QED BY <1>3, <3>1, <4>1
    <3>3. p \in alike(q) /\ p \notin alike(p)
      BY <1>3, <3>1
    <3> QED BY <3>2, <3>3
  <2>2. IsFiniteSet(alike(q))
    <3>1. alike(q) \in SUBSET S
      OBVIOUS
    <3> QED BY <1>1, <3>1, FS_Subset
  <2>3. /\ Turn(p, S) = Cardinality(alike(p)) /\ Turn(q, S) = Cardinality(alike(q))
        /\ Turn(p, S) \in Nat /\ Turn(q, S) \in Nat
    BY <1>2 DEF Turn
  <2> HIDE DEF alike
  <2>4. Cardinality(alike(p)) <= Cardinality(alike(q)) /\ Cardinality(alike(p)) # Cardinality(alike(q))
    BY <2>1, <2>2, FS_Subset
  <2> QED BY <2>3, <2>4
<1>4. ASSUME NEW p \in S, NEW q \in S, Turn(p, S) = Turn(q, S),
             FirstOfPeriod(p, S) = FirstOfPeriod(q, S)
      PROVE  p = q
  <2>1. Period[p] = Period[q] /\ p \in Int /\ q \in Int /\ Turn(p, S) \in Nat
    BY <1>0, <1>2, <1>4
  <2>2. ~(p < q) /\ ~(q < p)
    BY <1>3, <1>4, <2>1
  <2> QED BY <2>1, <2>2
<1>5. Orders(R, S)
  <2>1. \A q \in S : FirstOfPeriod(q, S) \in Int /\ Turn(q, S) \in Int
    BY <1>0, <1>2
  <2>2. \A p, q \in S : <<p, q>> \in R <=> Sooner(p, q, S)
    OBVIOUS
  <2>3. \A p \in S : ~Sooner(p, p, S)
    BY <2>1 DEF Sooner
  <2>4. \A p, q, r \in S : Sooner(p, q, S) /\ Sooner(q, r, S) => Sooner(p, r, S)
    BY <2>1 DEF Sooner
  <2>5. \A p, q \in S : p = q \/ Sooner(p, q, S) \/ Sooner(q, p, S)
    BY <1>4, <2>1 DEF Sooner
  <2> HIDE DEF R
  <2> QED BY <2>2, <2>3, <2>4, <2>5 DEF Orders
<1>6. Balanced(S, n) = Leading(R, S, n)
  <2>1. \A q \in S : {p \in S : Sooner(p, q, S)} = Preceding(R, S, q)
    BY DEF Preceding
  <2> HIDE DEF R
  <2> QED BY <2>1 DEF Balanced, Leading
<1> HIDE DEF R
<1>7. Balanced(S, n) \in SUBSET S
  BY DEF Balanced
<1> QED BY <1>1, <1>5, <1>6, <1>7, LeadersAreFew

(* The query that asks for least else is one of those asked about.         *)
LEMMA MostSpecificIsOne ==
  ASSUME NEW owns \in [Query -> SUBSET Group], NEW S \in SUBSET Query, S # {}
  PROVE  MostSpecific(owns, S) \in S
<1> DEFINE size(q) == Cardinality(owns[q])
<1>1. \A q \in S : size(q) \in Nat /\ Breadth[q] \in Nat /\ q \in Nat
  <2>1. \A q \in S : owns[q] \in SUBSET Group
    OBVIOUS
  <2>2. \A T \in SUBSET Group : Cardinality(T) \in Nat
    BY RetrievalConstants, FS_Subset, FS_CardinalityType
  <2> QED BY <2>1, <2>2, RetrievalConstants DEF Query
<1> HIDE DEF size
<1> DEFINE A == {size(q) : q \in S}
<1>2. PICK a \in A : \A x \in A : a <= x
  <2>1. A \in SUBSET Nat /\ A # {}
    BY <1>1
  <2> HIDE DEF A
  <2> QED BY <2>1, LeastNumber
<1> DEFINE B == {Breadth[q] : q \in {p \in S : size(p) = a}}
<1>3. PICK b \in B : \A x \in B : b <= x
  <2>1. B \in SUBSET Nat /\ B # {}
    BY <1>1, <1>2
  <2> HIDE DEF B
  <2> QED BY <2>1, LeastNumber
<1> DEFINE C == {q \in S : size(q) = a /\ Breadth[q] = b}
<1>4. PICK c \in C : \A x \in C : c <= x
  <2>1. C \in SUBSET Nat /\ C # {}
    BY <1>1, <1>3
  <2> HIDE DEF C
  <2> QED BY <2>1, LeastNumber
<1>5. \A p \in S : a <= size(p) /\ (size(p) = a => b <= Breadth[p])
  BY <1>2, <1>3
<1> DEFINE wider(p, q) ==
     \/ size(p) > size(q)
     \/ /\ size(p) = size(q)
        /\ \/ Breadth[p] > Breadth[q]
           \/ Breadth[p] = Breadth[q] /\ p > q
<1>6. c \in S /\ \A p \in S \ {c} : wider(p, c)
  <2>1. c \in S /\ size(c) = a /\ Breadth[c] = b
    BY <1>4
  <2>2. \A p \in S : p \in C <=> size(p) = a /\ Breadth[p] = b
    OBVIOUS
  <2> HIDE DEF C
  <2> QED BY <1>1, <1>4, <1>5, <2>1, <2>2
<1> HIDE DEF A, B, C
<1>7. MostSpecific(owns, S) = CHOOSE q \in S : \A p \in S \ {q} : wider(p, q)
  BY DEF MostSpecific, size
<1> HIDE DEF wider
<1> QED BY <1>6, <1>7

(* The reservations for the groups of a plan, one after another. *)
Reservation == [queries : SUBSET Query, unreserved : SUBSET Group]

OnlyTheRequest == [queries |-> {1}, unreserved |-> {}]

LEMMA ReserveTyped ==
  ASSUME NEW owns \in [Query -> SUBSET Group], NEW g \in Group, NEW chosen \in Reservation
  PROVE  Reserve(owns, chosen, g) \in Reservation
<1> DEFINE left == Asking(owns, g) \ chosen.queries
<1>1. chosen.queries \in SUBSET Query /\ chosen.unreserved \in SUBSET Group
  BY DEF Reservation
<1>2. left \in SUBSET Query
  BY DEF Asking
<1> HIDE DEF left
<1>3. left # {} => MostSpecific(owns, left) \in Query
  BY <1>2, MostSpecificIsOne
<1>4. left # {} => [chosen EXCEPT !.queries = @ \cup {MostSpecific(owns, left)}] \in Reservation
  BY <1>1, <1>3 DEF Reservation
<1>5. [chosen EXCEPT !.unreserved = @ \cup {g}] \in Reservation
  BY <1>1 DEF Reservation
<1> QED BY <1>4, <1>5 DEF Reserve, left

LEMMA ReserveRuns ==
  ASSUME NEW owns \in [Query -> SUBSET Group], NEW s \in Seq(Group)
  PROVE  LET reserve(chosen, g) == Reserve(owns, chosen, g)
         IN  \E acc \in [0..Len(s) -> Reservation] :
               /\ acc[0] = OnlyTheRequest
               /\ acc[Len(s)] = FoldLeft(reserve, OnlyTheRequest, s)
               /\ \A n \in 1..Len(s) : acc[n] = Reserve(owns, acc[n - 1], s[n])
<1> DEFINE N == Len(s)
           V == Reservation
           base == OnlyTheRequest
           Op(v, g) == Reserve(owns, v, g)
           step == [p \in V \X (1..N) |-> Op(p[1], s[p[2]])]
           Body(h, T) == IF T = {} THEN base ELSE Op(h[T \ {Max(T)}], s[Max(T)])
           Iter(h) == h = [T \in SUBSET (1..N) |-> Body(h, T)]
           h == CHOOSE g : Iter(g)
<1>1. DOMAIN s = 1..N /\ N \in Nat /\ \A n \in 1..N : s[n] \in Group
  OBVIOUS
<1>2. FoldLeft(Op, base, s) = h[1..N]
  BY <1>1 DEF FoldLeft, MapThenFoldSet
<1>3. step \in [V \X (1..N) -> V] /\ base \in V
  <2>1. base \in V
    BY QueriesAreFinite DEF Reservation, OnlyTheRequest
  <2>2. \A v \in V : \A n \in 1..N : Op(v, s[n]) \in V
    BY <1>1, ReserveTyped
  <2> HIDE DEF Op, V, N, base
  <2> QED BY <2>1, <2>2
<1>4. \A v \in V : \A n \in 1..N : step[<<v, n>>] = Op(v, s[n])
  OBVIOUS
<1>5. PICK g : Folds(V, base, step, g, N)
  <2> HIDE DEF step, V, N, base
  <2> QED BY <1>1, <1>3, FoldExists
<1>6. Iter(g)
  <2>1. ASSUME NEW T \in SUBSET (1..N) PROVE g[T] = Body(g, T)
    <3>1. CASE T = {}
      <4> HIDE DEF base, V, step, Op
      <4> QED BY <1>5, <3>1 DEF Folds
    <3>2. CASE T # {}
      <4> HIDE DEF Op, step, V, N, base
      <4>1. Max(T) \in 1..N /\ g[T \ {Max(T)}] \in V
        BY <1>5, <3>2 DEF Folds
      <4> QED BY <1>4, <1>5, <3>2, <4>1 DEF Folds
    <3> QED BY <3>1, <3>2
  <2> HIDE DEF Body, base, V, step
  <2> QED BY <1>5, <2>1 DEF Folds
<1>7. Iter(h)
  <2> HIDE DEF Iter
  <2> QED BY <1>6
<1>8. FoldsTyped(V, base, step, h, N)
  <2>1. \A T \in SUBSET (1..N) : h[T] = Body(h, T)
    BY <1>7
  <2> HIDE DEF h, Op, step, V, base
  <2>2. \A T \in SUBSET (1..N) : T # {} => Max(T) \in 1..N
    BY <1>5 DEF Folds
  <2>3. h[{}] = base
    BY <2>1
  <2> HIDE DEF N
  <2>4. ASSUME NEW T \in SUBSET (1..N), T # {}, h[T \ {Max(T)}] \in V
        PROVE  h[T] = step[<<h[T \ {Max(T)}], Max(T)>>]
    BY <1>4, <2>1, <2>2, <2>4
  <2> QED BY <2>3, <2>4 DEF FoldsTyped
<1>9. PICK acc : Runs(V, base, step, acc, N, h[1..N])
  <2> HIDE DEF base, h, step, V, N
  <2>2. \E acc : Runs(V, base, step, acc, N, h[1..N])
    BY <1>1, <1>3, <1>8, FoldRuns
  <2> QED BY <2>2
<1>10. /\ acc \in [0..N -> V] /\ acc[0] = base /\ acc[N] = h[1..N]
       /\ \A n \in 1..N : acc[n] = Op(acc[n - 1], s[n])
  <2> HIDE DEF step, Op, V, base, h
  <2>1. \A n \in 1..N : acc[n - 1] \in V
    BY <1>9 DEF Runs
  <2> QED BY <1>4, <1>9, <2>1 DEF Runs
<1> HIDE DEF h, step
<1> QED BY <1>2, <1>10

(* After the first n groups: each of them that is asked for has a query,   *)
(* besides the request's own text if there is one, as long as there was    *)
(* room for all of them, and those without one had reason.                 *)
Reserved(owns, s, n, chosen) ==
  /\ 1 \in chosen.queries
  /\ Cardinality(chosen.queries) <= n + 1 /\ Cardinality(chosen.queries) <= Budget
  /\ \A g \in chosen.unreserved :
       Asking(owns, g) = {} \/ Cardinality(chosen.queries) = Budget
  /\ Len(s) < Budget =>
       \A i \in 1..n : \A S \in {Asking(owns, s[i]), Asking(owns, s[i]) \ {1}} :
         S # {} => S \cap chosen.queries # {}

LEMMA ReserveReserves ==
  ASSUME NEW owns \in [Query -> SUBSET Group], NEW s \in Seq(Group), NEW n \in 1..Len(s),
         NEW chosen \in Reservation, Reserved(owns, s, n - 1, chosen)
  PROVE  Reserved(owns, s, n, Reserve(owns, chosen, s[n]))
<1> DEFINE g == s[n]
           left == Asking(owns, g) \ chosen.queries
           room == Cardinality(chosen.queries) < Budget
           Q == chosen.queries
<1>0. /\ Q \in SUBSET Query /\ IsFiniteSet(Q) /\ Cardinality(Q) \in Nat /\ Budget \in Nat
      /\ n \in Nat /\ Len(s) \in Nat /\ n <= Len(s) /\ n - 1 \in Nat
  <2>1. Q \in SUBSET Query /\ Budget \in Nat
    BY RetrievalConstants DEF Reservation
  <2>2. IsFiniteSet(Q) /\ Cardinality(Q) \in Nat
    BY <2>1, QueriesAreFinite, FS_Subset, FS_CardinalityType
  <2> QED BY <2>1, <2>2
<1>1. CASE left # {} /\ room
  <2> DEFINE m == MostSpecific(owns, left)
             new == Reserve(owns, chosen, g)
  <2>1. m \in left
    <3>1. left \in SUBSET Query
      BY DEF Asking
    <3> HIDE DEF left
    <3> QED BY <1>1, <3>1, MostSpecificIsOne
  <2>2. new.queries = Q \cup {m} /\ new.unreserved = chosen.unreserved
    BY <1>1 DEF Reserve, Reservation
  <2>3. Cardinality(new.queries) = Cardinality(Q) + 1
    BY <1>0, <2>1, <2>2, FS_AddElement
  <2>4. m # 1
    BY <2>1 DEF Reserved
  <2>5. /\ 1 \in new.queries
        /\ Cardinality(new.queries) <= n + 1 /\ Cardinality(new.queries) <= Budget
    BY <1>0, <1>1, <2>2, <2>3 DEF Reserved
  <2>6. ASSUME NEW x \in new.unreserved
        PROVE  Asking(owns, x) = {} \/ Cardinality(new.queries) = Budget
    BY <1>0, <1>1, <2>2, <2>6 DEF Reserved
  <2>7. ASSUME Len(s) < Budget, NEW i \in 1..n,
               NEW S \in {Asking(owns, s[i]), Asking(owns, s[i]) \ {1}}, S # {}
        PROVE  S \cap new.queries # {}
    <3>1. CASE i = n
      <4>1. m \in Asking(owns, s[i]) /\ m \in S
        BY <2>1, <2>4, <3>1
      <4> QED BY <2>2, <4>1
    <3>2. CASE i \in 1..(n - 1)
      <4>1. S \cap Q # {}
        BY <2>7, <3>2 DEF Reserved
      <4> QED BY <2>2, <4>1
    <3> QED BY <1>0, <3>1, <3>2
  <2> HIDE DEF new
  <2>8. Reserved(owns, s, n, new)
    BY <2>5, <2>6, <2>7 DEF Reserved
  <2> QED BY <2>8 DEF new
<1>2. CASE ~(left # {} /\ room)
  <2> DEFINE new == Reserve(owns, chosen, g)
  <2>1. /\ new.queries = Q
        /\ \A x \in new.unreserved :
             \/ x \in chosen.unreserved
             \/ x = g /\ ~(left = {} /\ Asking(owns, g) \cap Q # {})
    BY <1>2 DEF Reserve, Reservation
  <2>2. /\ 1 \in new.queries
        /\ Cardinality(new.queries) <= n + 1 /\ Cardinality(new.queries) <= Budget
    BY <1>0, <2>1 DEF Reserved
  <2>3. ASSUME NEW x \in new.unreserved
        PROVE  Asking(owns, x) = {} \/ Cardinality(new.queries) = Budget
    <3>1. CASE x \in chosen.unreserved
      BY <2>1, <3>1 DEF Reserved
    <3>2. CASE x = g /\ left = {} /\ Asking(owns, g) \cap Q = {}
      BY <3>2
    <3>3. CASE left # {}
      <4>1. ~(Cardinality(Q) < Budget) /\ Cardinality(Q) <= Budget
        BY <1>2, <3>3 DEF Reserved
      <4> QED BY <1>0, <2>1, <4>1
    <3> QED BY <2>1, <3>1, <3>2, <3>3
  <2>4. ASSUME Len(s) < Budget, NEW i \in 1..n,
               NEW S \in {Asking(owns, s[i]), Asking(owns, s[i]) \ {1}}, S # {}
        PROVE  S \cap new.queries # {}
    <3>1. CASE i = n
      <4>1. Cardinality(Q) < Budget
        BY <1>0, <2>4 DEF Reserved
      <4>2. left = {}
        BY <1>2, <4>1
      <4> QED BY <2>1, <2>4, <3>1, <4>2
    <3>2. CASE i \in 1..(n - 1)
      <4>1. S \cap Q # {}
        BY <2>4, <3>2 DEF Reserved
      <4> QED BY <2>1, <4>1
    <3> QED BY <1>0, <3>1, <3>2
  <2> HIDE DEF new
  <2>5. Reserved(owns, s, n, new)
    BY <2>2, <2>3, <2>4 DEF Reserved
  <2> QED BY <2>5 DEF new
<1> QED BY <1>1, <1>2

Asked(p, b) ==
  /\ \A g \in ToSet(p.groups) :
       Budget = 0 \/ 1 + Len(p.groups) <= Budget =>
         \A S \in {Asking(p.owns, g), Asking(p.owns, g) \ {1}} :
           S # {} => S \cap b.queries # {}
  /\ \A g \in b.unreserved : Asking(p.owns, g) = {} \/ Cardinality(b.queries) = Budget
  /\ Budget # 0 => Cardinality(b.queries) <= Budget

LEMMA BudgetedAsks ==
  ASSUME NEW p \in Plans
  PROVE  Budgeted(p) \in Reservation /\ Asked(p, Budgeted(p))
<1> DEFINE owns == p.owns
           s == p.groups
<1>1. /\ owns \in [Query -> SUBSET Group] /\ s \in Seq(Group) /\ Budget \in Nat
      /\ Queries \in Nat
  BY RetrievalConstants
<1>2. CASE Budget = 0 \/ Queries <= Budget
  <2>1. Budgeted(p) = [queries |-> Query, unreserved |-> {}]
    BY <1>2 DEF Budgeted
  <2>2. \A g : Asking(owns, g) \subseteq Query
    BY DEF Asking
  <2>3. \A g : \A S \in {Asking(owns, g), Asking(owns, g) \ {1}} :
          S # {} => S \cap Query # {}
    BY <2>2
  <2>4. Budget # 0 => Cardinality(Query) <= Budget
    BY <1>2, QueriesAreFinite
  <2> HIDE DEF owns, s
  <2> QED BY <2>1, <2>3, <2>4 DEF Asked, Reservation, owns, s
<1>3. CASE ~(Budget = 0 \/ Queries <= Budget) /\ s = <<>>
  <2>1. Budgeted(p) = [queries |-> Balanced(Query, Budget), unreserved |-> {}]
    BY <1>3 DEF Budgeted
  <2>2. Balanced(Query, Budget) \in SUBSET Query /\ Cardinality(Balanced(Query, Budget)) <= Budget
    BY <1>1, BalancedIsBounded
  <2>3. ToSet(s) = {}
    BY <1>3 DEF ToSet
  <2> QED BY <2>1, <2>2, <2>3 DEF Asked, Reservation
<1>4. CASE ~(Budget = 0 \/ Queries <= Budget) /\ s # <<>>
  <2> DEFINE reserve(chosen, g) == Reserve(owns, chosen, g)
             chosen == FoldLeft(reserve, OnlyTheRequest, s)
             Q == chosen.queries
             free == Budget - Cardinality(Q)
             N == Len(s)
  <2>1. Budgeted(p) = [chosen EXCEPT !.queries = @ \cup Balanced(Query \ @, free)]
    BY <1>4 DEF Budgeted, OnlyTheRequest
  <2>2. PICK acc \in [0..N -> Reservation] :
          /\ acc[0] = OnlyTheRequest /\ acc[N] = chosen
          /\ \A n \in 1..N : acc[n] = Reserve(owns, acc[n - 1], s[n])
    <3> HIDE DEF owns, s
    <3> QED BY <1>1, ReserveRuns
  <2> HIDE DEF chosen, owns, s
  <2>3. chosen \in Reservation /\ Reserved(owns, s, N, chosen)
    <3> DEFINE G == {n \in 0..N : Reserved(owns, s, n, acc[n])}
    <3>0. N \in Nat
      BY <1>1
    <3>1. 0 \in G
      <4>1. OnlyTheRequest.queries = {1} /\ OnlyTheRequest.unreserved = {}
        BY DEF OnlyTheRequest
      <4>2. Cardinality(OnlyTheRequest.queries) = 1 /\ 1 <= Budget
        <5>1. Cardinality({1}) = 1
          BY FS_Singleton
        <5>2. 1 <= Budget
          BY <1>1, <1>4
        <5> QED BY <4>1, <5>1, <5>2
      <4>3. Reserved(owns, s, 0, OnlyTheRequest)
        BY <4>1, <4>2 DEF Reserved
      <4> QED BY <2>2, <3>0, <4>3
    <3>2. ASSUME NEW n \in 0..(N - 1), n \in G PROVE n + 1 \in G
      <4>1. /\ n + 1 \in 1..N /\ n + 1 \in 0..N /\ (n + 1) - 1 = n
            /\ acc[n] \in Reservation /\ Reserved(owns, s, n, acc[n])
        BY <2>2, <3>0, <3>2
      <4>2. Reserved(owns, s, n + 1, Reserve(owns, acc[n], s[n + 1]))
        BY <1>1, <4>1, ReserveReserves
      <4> QED BY <2>2, <4>1, <4>2
    <3>3. Inductive(G, N)
      <4> HIDE DEF G
      <4> QED BY <3>1, <3>2 DEF Inductive
    <3>4. N \in G
      <4>1. N \in 0..N
        BY <3>0
      <4> HIDE DEF G, N
      <4> QED BY <3>0, <3>3, <4>1, NatInductionUpTo
    <3> QED BY <2>2, <3>0, <3>4
  <2>4. /\ Q \in SUBSET Query /\ IsFiniteSet(Q) /\ Cardinality(Q) \in Nat
        /\ Cardinality(Q) <= Budget
    <3>1. Q \in SUBSET Query /\ Cardinality(Q) <= Budget
      BY <2>3 DEF Reservation, Reserved
    <3> QED BY <3>1, QueriesAreFinite, FS_Subset, FS_CardinalityType
  <2> DEFINE B == Balanced(Query \ Q, free)
             all == Q \cup B
  <2>5. B \in SUBSET Query /\ Cardinality(B) <= free
    <3>1. Query \ Q \in SUBSET Query /\ free \in Nat
      BY <1>1, <2>4
    <3> HIDE DEF free, Q
    <3> QED BY <3>1, BalancedIsBounded
  <2>6. Budgeted(p).queries = all /\ Budgeted(p).unreserved = chosen.unreserved
    BY <2>1, <2>3 DEF Reservation
  <2>7. Budgeted(p) \in Reservation
    BY <2>1, <2>3, <2>4, <2>5 DEF Reservation
  <2>8. IsFiniteSet(all) /\ Cardinality(all) <= Budget
    <3>1. IsFiniteSet(B) /\ Cardinality(B) \in Nat
      BY <2>5, QueriesAreFinite, FS_Subset, FS_CardinalityType
    <3>2. Cardinality(Q \cap B) \in Nat
      BY <2>4, FS_Intersection, FS_CardinalityType
    <3>3. /\ IsFiniteSet(all)
          /\ Cardinality(all) = Cardinality(Q) + Cardinality(B) - Cardinality(Q \cap B)
      <4> HIDE DEF Q, B
      <4> QED BY <2>4, <3>1, FS_Union
    <3>4. Cardinality(B) <= Budget - Cardinality(Q)
      BY <2>5
    <3> HIDE DEF B, Q, all
    <3> QED BY <1>1, <2>4, <3>1, <3>2, <3>3, <3>4
  <2>9. Cardinality(Q) <= Cardinality(all) /\ Cardinality(all) \in Nat
    <3>1. Q \in SUBSET all
      OBVIOUS
    <3> HIDE DEF all
    <3> QED BY <2>8, <3>1, FS_Subset, FS_CardinalityType
  <2>10. ASSUME NEW g \in chosen.unreserved
         PROVE  Asking(owns, g) = {} \/ Cardinality(all) = Budget
    <3>1. Asking(owns, g) = {} \/ Cardinality(Q) = Budget
      BY <2>3, <2>10 DEF Reserved
    <3> HIDE DEF all
    <3> QED BY <1>1, <2>8, <2>9, <3>1
  <2>11. ASSUME NEW g \in ToSet(s), Budget = 0 \/ 1 + N <= Budget,
                NEW S \in {Asking(owns, g), Asking(owns, g) \ {1}}, S # {}
         PROVE  S \cap all # {}
    <3>1. PICK i \in 1..N : s[i] = g
      BY <1>1 DEF ToSet
    <3>2. N < Budget
      BY <1>1, <1>4, <2>11
    <3>3. S \cap Q # {}
      BY <2>3, <2>11, <3>1, <3>2 DEF Reserved
    <3> QED BY <3>3
  <2> HIDE DEF all
  <2> QED BY <2>6, <2>7, <2>8, <2>10, <2>11 DEF Asked, owns, s
<1> QED BY <1>2, <1>3, <1>4

(* While a request runs it has one of the plans, and of its queries those  *)
(* the budget leaves.                                                      *)
PlanIsBudgeted ==
  phase # "idle" =>
    /\ plan \in Plans
    /\ bundle = Budgeted(plan).queries /\ unreserved = Budgeted(plan).unreserved

(* Every required group that some query asks for is searched, and only     *)
(* what no query asks for or the budget has no room for is reported.       *)
THEOREM RequiredGroupsAreAlwaysAsked == RetrievalSpec => []RequiredGroupsAreAsked
<1>1. RetrievalInit => PlanIsBudgeted
  BY DEF RetrievalInit, PlanIsBudgeted
<1>2. ASSUME PlanIsBudgeted, [RetrievalNext]_<<vars, retrieval>>
      PROVE  PlanIsBudgeted'
  <2>1. CASE Plan
    BY <2>1 DEF Plan, PlanIsBudgeted
  <2>2. CASE Search \/ AddSupplement \/ Select \/ Expand \/ SearchFails
    BY <1>2, <2>2 DEF Search, AddSupplement, Select, Expand, SearchFails, PlanIsBudgeted, request
  <2>3. CASE Forget
    BY <2>3 DEF Forget, PlanIsBudgeted
  <2>4. CASE UNCHANGED retrieval
    BY <1>2, <2>4 DEF retrieval, request, PlanIsBudgeted
  <2> QED BY <1>2, <2>1, <2>2, <2>3, <2>4 DEF RetrievalNext
<1>3. PlanIsBudgeted => RequiredGroupsAreAsked
  <2> SUFFICES ASSUME PlanIsBudgeted, phase # "idle" PROVE RequiredGroupsAreAsked
    BY DEF RequiredGroupsAreAsked
  <2>1. Asked(plan, Budgeted(plan))
    BY BudgetedAsks DEF PlanIsBudgeted
  <2> QED BY <2>1 DEF PlanIsBudgeted, Asked, RequiredGroupsAreAsked
<1> QED BY <1>1, <1>2, <1>3, PTL DEF RetrievalSpec

-----------------------------------------------------------------------------
(* Rows of the store for the required groups.                              *)

(* A flattening starts with its first sequence, and of sequences of one    *)
(* row or none it has each row no later than the sequence it is from.      *)
LEMMA FlattenHolds ==
  ASSUME NEW A, NEW s \in Seq(Seq(A))
  PROVE  /\ FlattenSeq(s) \in Seq(A)
         /\ s # <<>> => \A q \in 1..Len(s[1]) :
                          q <= Len(FlattenSeq(s)) /\ FlattenSeq(s)[q] = s[1][q]
         /\ (\A i \in 1..Len(s) : Len(s[i]) <= 1) =>
              \A i \in 1..Len(s) : s[i] # <<>> =>
                \E q \in 1..i : q <= Len(FlattenSeq(s)) /\ FlattenSeq(s)[q] = s[i][1]
<1>1. PICK acc \in [0..Len(s) -> Seq(A)] :
        /\ acc[0] = <<>> /\ acc[Len(s)] = FlattenSeq(s)
        /\ \A n \in 1..Len(s) : acc[n] = acc[n - 1] \o s[n]
  BY FlattenRuns
<1> DEFINE N == Len(s)
<1>2. N \in Nat /\ \A i \in 1..N : s[i] \in Seq(A)
  OBVIOUS
<1> DEFINE Starts(n) == n = 0 \/ \A q \in 1..Len(s[1]) :
                                   q <= Len(acc[n]) /\ acc[n][q] = s[1][q]
           Small == \A i \in 1..N : Len(s[i]) <= 1
           Has(n) == /\ Len(acc[n]) <= n
                     /\ \A i \in 1..n : s[i] # <<>> =>
                          \E q \in 1..i : q <= Len(acc[n]) /\ acc[n][q] = s[i][1]
           G == {n \in 0..N : Starts(n) /\ (Small => Has(n))}
<1>3. 0 \in G
  BY <1>1, <1>2
<1>4. ASSUME NEW n \in 0..(N - 1), n \in G PROVE n + 1 \in G
  <2> DEFINE m == n + 1
  <2>1. /\ m \in 1..N /\ m \in 0..N /\ m - 1 = n /\ n \in 0..N /\ n \in Nat
        /\ Starts(n) /\ (Small => Has(n))
    BY <1>2, <1>4
  <2>2. acc[n] \in Seq(A) /\ s[m] \in Seq(A) /\ acc[m] = acc[n] \o s[m]
    <3> HIDE DEF N, m, Starts, Has
    <3> QED BY <1>1, <1>2, <2>1 DEF N
  <2>3. /\ Len(acc[m]) = Len(acc[n]) + Len(s[m])
        /\ \A q \in 1..Len(acc[n]) : acc[m][q] = acc[n][q]
        /\ \A q \in 1..Len(s[m]) : acc[m][Len(acc[n]) + q] = s[m][q]
        /\ Len(acc[n]) \in Nat /\ Len(s[m]) \in Nat
    <3> HIDE DEF m, Starts, Has, N
    <3> QED BY <2>2
  <2>4. Starts(m)
    <3>1. CASE n = 0
      <4>1. Len(acc[n]) = 0 /\ m = 1
        BY <1>1, <3>1
      <4>2. ASSUME NEW q \in 1..Len(s[1]) PROVE q <= Len(acc[m]) /\ acc[m][q] = s[1][q]
        <5>1. q \in 1..Len(s[m]) /\ Len(acc[n]) + q = q
          BY <4>1, <4>2
        <5> HIDE DEF m
        <5> QED BY <2>3, <4>1, <5>1
      <4> QED BY <4>2
    <3>2. CASE n # 0
      <4>1. ASSUME NEW q \in 1..Len(s[1]) PROVE q <= Len(acc[m]) /\ acc[m][q] = s[1][q]
        <5>1. q <= Len(acc[n]) /\ acc[n][q] = s[1][q] /\ q \in Nat /\ q >= 1
          BY <2>1, <3>2
        <5>2. q \in 1..Len(acc[n]) /\ Len(acc[m]) = Len(acc[n]) + Len(s[m])
          BY <2>3, <5>1
        <5>3. acc[m][q] = acc[n][q]
          BY <2>3, <5>2
        <5>4. q <= Len(acc[m])
          <6> DEFINE x == Len(acc[n])
                     y == Len(s[m])
                     z == Len(acc[m])
          <6>1. x \in Nat /\ y \in Nat /\ z = x + y /\ q <= x /\ q \in Nat
            BY <2>3, <5>1
          <6> HIDE DEF x, y, z
          <6> QED BY <6>1 DEF x, z
        <5> QED BY <5>1, <5>3, <5>4
      <4> QED BY <4>1
    <3> QED BY <3>1, <3>2
  <2>5. ASSUME Small PROVE Has(m)
    <3>1. Has(n) /\ Len(s[m]) <= 1
      BY <2>1, <2>5
    <3>2. Len(acc[m]) <= m
      BY <2>1, <2>3, <3>1
    <3>3. ASSUME NEW i \in 1..m, s[i] # <<>>
          PROVE  \E q \in 1..i : q <= Len(acc[m]) /\ acc[m][q] = s[i][1]
      <4>1. CASE i \in 1..n
        <5>1. PICK q \in 1..i : q <= Len(acc[n]) /\ acc[n][q] = s[i][1]
          BY <3>1, <3>3, <4>1
        <5>2. q \in 1..Len(acc[n]) /\ q <= Len(acc[m])
          <6> DEFINE x == Len(acc[n])
                     y == Len(s[m])
                     z == Len(acc[m])
          <6>1. x \in Nat /\ y \in Nat /\ z = x + y /\ q <= x /\ q \in Nat /\ q >= 1
            BY <2>3, <4>1, <5>1
          <6> HIDE DEF x, y, z
          <6> QED BY <6>1 DEF x, z
        <5>3. acc[m][q] = s[i][1]
          BY <2>3, <5>1, <5>2
        <5> QED BY <5>2, <5>3
      <4>2. CASE i = m
        <5>1. Len(s[m]) = 1
          <6>1. s[m] # <<>> /\ s[m] \in Seq(A) /\ Len(s[m]) <= 1
            BY <2>2, <3>1, <3>3, <4>2
          <6> DEFINE t == s[m]
          <6> HIDE DEF t
          <6>2. t # <<>> /\ t \in Seq(A) /\ Len(t) <= 1
            BY <6>1 DEF t
          <6>3. Len(t) # 0 /\ Len(t) \in Nat
            BY <6>2
          <6> DEFINE x == Len(t)
          <6>4. x \in Nat /\ x # 0 /\ x <= 1
            BY <6>2, <6>3
          <6> HIDE DEF x
          <6>5. x = 1
            BY <6>4
          <6> QED BY <6>5 DEF x, t
        <5>2. acc[m][Len(acc[n]) + 1] = s[m][1]
          BY <2>3, <5>1
        <5>3. Len(acc[n]) + 1 \in 1..i /\ Len(acc[n]) + 1 <= Len(acc[m])
          BY <2>1, <2>3, <3>1, <4>2, <5>1
        <5> QED BY <4>2, <5>2, <5>3
      <4> QED BY <2>1, <4>1, <4>2
    <3> QED BY <3>2, <3>3
  <2> HIDE DEF Starts, Has, Small
  <2> QED BY <2>1, <2>4, <2>5
<1>5. N \in G
  <2>1. Inductive(G, N)
    <3> HIDE DEF G
    <3> QED BY <1>3, <1>4 DEF Inductive
  <2>2. N \in 0..N
    BY <1>2
  <2> HIDE DEF G, N
  <2> QED BY <1>2, <2>1, <2>2, NatInductionUpTo
<1>6. acc[N] = FlattenSeq(s) /\ acc[N] \in Seq(A)
  BY <1>1, <1>2
<1>7. Starts(N) /\ (Small => Has(N))
  BY <1>5
<1>8. s # <<>> => N # 0
  OBVIOUS
<1> QED BY <1>6, <1>7, <1>8

(* The first rows of a sequence. *)
LEMMA FirstKeeps ==
  ASSUME NEW A, NEW s \in Seq(A), NEW n \in Nat
  PROVE  /\ First(s, n) \in Seq(A) /\ Len(First(s, n)) <= n
         /\ ToSet(First(s, n)) \subseteq ToSet(s)
         /\ \A i \in DOMAIN s : i <= n => s[i] \in ToSet(First(s, n))
<1> DEFINE t == First(s, n)
           m == IF n < Len(s) THEN n ELSE Len(s)
<1>1. m \in Nat /\ m <= n /\ m <= Len(s) /\ DOMAIN s = 1..Len(s) /\ Len(s) \in Nat
  OBVIOUS
<1>2. t = SubSeq(s, 1, m)
  BY DEF First
<1>3. t \in Seq(A) /\ DOMAIN t = 1..m /\ Len(t) = m /\ \A i \in 1..m : t[i] = s[i]
  <2> HIDE DEF t, m
  <2> QED BY <1>1, <1>2
<1>4. \A i \in DOMAIN s : i <= n => i \in 1..m
  BY <1>1
<1>5. \A i \in 1..m : i \in DOMAIN s
  BY <1>1
<1> HIDE DEF t, m
<1>6. ToSet(t) = {s[i] : i \in 1..m} /\ ToSet(s) = {s[i] : i \in DOMAIN s}
  BY <1>3 DEF ToSet
<1> QED BY <1>1, <1>3, <1>4, <1>5, <1>6 DEF t

LEMMA GroupOfferTyped ==
  ASSUME NEW g \in Group, NEW r \in Nat \ {0}
  PROVE  /\ Authorized(Serves[g]) \in Seq(Chunk)
         /\ ToSet(Authorized(Serves[g])) = ToSet(Serves[g]) \cap scope
         /\ GroupOffer(g, r) \in Seq(Chunk) /\ Len(GroupOffer(g, r)) <= 1
<1> DEFINE rows == Authorized(Serves[g])
<1>1. rows \in Seq(Chunk) /\ ToSet(rows) = ToSet(Serves[g]) \cap scope
  <2>1. Serves[g] \in Seq(Chunk)
    BY RetrievalConstants
  <2> QED BY <2>1, WithinKeeps DEF Authorized
<1>2. GroupOffer(g, r) = <<>> \/ (r <= Len(rows) /\ GroupOffer(g, r) = <<rows[r]>>)
  BY DEF GroupOffer
<1> HIDE DEF rows
<1>3. CASE GroupOffer(g, r) = <<>>
  BY <1>1, <1>3 DEF rows
<1>4. CASE r <= Len(rows) /\ GroupOffer(g, r) = <<rows[r]>>
  <2>1. rows[r] \in Chunk
    BY <1>1, <1>4
  <2> QED BY <1>1, <1>4, <2>1 DEF rows
<1> QED BY <1>2, <1>3, <1>4

(* The best row of each group comes before the second row of any.          *)
LEMMA OffersServe ==
  ASSUME NEW groups \in Seq(Group), NEW i \in 1..Len(groups),
         ToSet(Serves[groups[i]]) \cap scope # {}
  PROVE  /\ Offers(groups) \in Seq(Chunk)
         /\ \E q \in 1..i : /\ q <= Len(Offers(groups))
                            /\ Offers(groups)[q] \in ToSet(Serves[groups[i]]) \cap scope
<1> DEFINE inner(r) == [j \in DOMAIN groups |-> GroupOffer(groups[j], r)]
           outer == [r \in 1..MaxNarrative |-> FlattenSeq(inner(r))]
           N == Len(groups)
           g == groups[i]
           rows == Authorized(Serves[g])
<1>1. DOMAIN groups = 1..N /\ N \in Nat /\ \A j \in 1..N : groups[j] \in Group
  OBVIOUS
<1>2. ASSUME NEW r \in 1..MaxNarrative
      PROVE  /\ inner(r) \in Seq(Seq(Chunk)) /\ Len(inner(r)) = N
             /\ \A j \in 1..N : inner(r)[j] = GroupOffer(groups[j], r) /\ Len(inner(r)[j]) <= 1
  <2>1. r \in Nat \ {0}
    BY RetrievalConstants
  <2>2. \A j \in 1..N : /\ GroupOffer(groups[j], r) \in Seq(Chunk)
                        /\ Len(GroupOffer(groups[j], r)) <= 1
    BY <1>1, <2>1, GroupOfferTyped
  <2>3. inner(r) = [j \in 1..N |-> GroupOffer(groups[j], r)]
    BY <1>1
  <2> DEFINE t == inner(r)
  <2>4. t \in [1..N -> Seq(Chunk)]
    BY <2>2, <2>3
  <2>5. \A j \in 1..N : t[j] = GroupOffer(groups[j], r) /\ Len(t[j]) <= 1
    BY <2>2, <2>3
  <2> HIDE DEF t
  <2>6. t \in Seq(Seq(Chunk)) /\ Len(t) = N
    BY <1>1, <2>4
  <2> QED BY <2>5, <2>6 DEF t
<1>3. MaxNarrative \in Nat \ {0} /\ 1 \in 1..MaxNarrative
  BY RetrievalConstants
<1>4. outer \in Seq(Seq(Chunk)) /\ outer # <<>> /\ outer[1] = FlattenSeq(inner(1))
  <2>1. \A r \in 1..MaxNarrative : FlattenSeq(inner(r)) \in Seq(Chunk)
    BY <1>2, FlattenHolds
  <2> HIDE DEF inner
  <2>2. outer \in [1..MaxNarrative -> Seq(Chunk)] /\ outer[1] = FlattenSeq(inner(1))
    BY <1>3, <2>1
  <2> HIDE DEF outer
  <2>3. outer \in Seq(Seq(Chunk)) /\ Len(outer) = MaxNarrative
    BY <1>3, <2>2
  <2> QED BY <1>3, <2>2, <2>3
<1>5. Offers(groups) = FlattenSeq(outer)
  BY DEF Offers
<1>6. GroupOffer(g, 1) # <<>> /\ GroupOffer(g, 1)[1] \in ToSet(Serves[g]) \cap scope
  <2> HIDE DEF inner, outer
  <2>1. rows \in Seq(Chunk) /\ ToSet(rows) = ToSet(Serves[g]) \cap scope
    <3>1. g \in Group /\ 1 \in Nat \ {0}
      BY <1>1
    <3> HIDE DEF g
    <3> QED BY ONLY <3>1, GroupOfferTyped, Zenon
  <2>2. GroupOffer(g, 1) = IF 1 <= Len(rows) THEN <<rows[1]>> ELSE <<>>
    BY DEF GroupOffer
  <2> HIDE DEF rows
  <2>3. PICK k \in DOMAIN rows : TRUE
    BY <2>1 DEF ToSet
  <2>4. 1 <= Len(rows) /\ 1 \in DOMAIN rows
    BY <2>1, <2>3
  <2>5. rows[1] \in ToSet(rows)
    BY <2>4 DEF ToSet
  <2> QED BY <2>1, <2>2, <2>4, <2>5
<1> DEFINE t == inner(1)
<1>7. /\ t \in Seq(Seq(Chunk)) /\ Len(t) = N /\ t[i] = GroupOffer(g, 1)
      /\ \A j \in 1..N : Len(t[j]) <= 1
  BY <1>2, <1>3
<1>8. outer[1] = FlattenSeq(t)
  BY <1>4
<1> HIDE DEF t, outer, inner, rows
<1>9. PICK q \in 1..i : q <= Len(FlattenSeq(t)) /\ FlattenSeq(t)[q] = t[i][1]
  BY <1>6, <1>7, FlattenHolds
<1>10. /\ FlattenSeq(outer) \in Seq(Chunk)
       /\ \A x \in 1..Len(outer[1]) :
            x <= Len(FlattenSeq(outer)) /\ FlattenSeq(outer)[x] = outer[1][x]
  BY <1>4, FlattenHolds
<1>11. q \in 1..Len(outer[1])
  <2>1. FlattenSeq(t) \in Seq(Chunk)
    BY <1>7, FlattenHolds
  <2> DEFINE x == Len(FlattenSeq(t))
  <2>2. x \in Nat /\ q <= x /\ q \in Nat /\ q >= 1
    BY <1>9, <2>1
  <2> HIDE DEF x
  <2>3. q \in 1..x
    BY <2>2
  <2> QED BY <1>8, <2>3 DEF x
<1> QED BY <1>5, <1>6, <1>7, <1>8, <1>9, <1>10, <1>11

(* Every group the authorized sources can serve, of the first MaxSeeds,    *)
(* has a row among those added.                                            *)
Served(p, S, T) ==
  \A i \in DOMAIN p.groups :
    LET served == ToSet(Serves[p.groups[i]]) \cap S
    IN  i <= MaxSeeds /\ served # {} => served \cap T # {}

LEMMA SupplementServes ==
  ASSUME NEW p \in Plans
  PROVE  Served(p, scope, ToSet(Supplement(p.groups)))
<1> DEFINE groups == p.groups
<1>1. groups \in Seq(Group) /\ MaxSeeds \in Nat
  BY RetrievalConstants
<1>2. ASSUME NEW i \in DOMAIN groups, i <= MaxSeeds,
             ToSet(Serves[groups[i]]) \cap scope # {}
      PROVE  (ToSet(Serves[groups[i]]) \cap scope) \cap ToSet(Supplement(groups)) # {}
  <2> DEFINE O == Offers(groups)
             D == Distinct(O)
  <2>1. Supplement(groups) = First(D, MaxSeeds)
    <3>1. groups # <<>>
      BY <1>1, <1>2
    <3> QED BY <3>1 DEF Supplement
  <2>2. i \in 1..Len(groups)
    BY <1>1, <1>2
  <2> HIDE DEF groups, O
  <2>3. O \in Seq(Chunk)
    BY <1>1, <1>2, <2>2, OffersServe DEF O
  <2>4. PICK q \in 1..i : q <= Len(O) /\ O[q] \in ToSet(Serves[groups[i]]) \cap scope
    BY <1>1, <1>2, <2>2, OffersServe DEF O
  <2>5. q \in 1..Len(O)
    <3> DEFINE x == Len(O)
    <3>1. x \in Nat /\ q <= x /\ q \in Nat /\ q >= 1
      BY <2>3, <2>4
    <3> HIDE DEF x
    <3>2. q \in 1..x
      BY <3>1
    <3> QED BY <3>2 DEF x
  <2>6. D \in Seq(Chunk) /\ \E r \in 1..q : r \in DOMAIN D /\ D[r] = O[q]
    BY <2>3, <2>5, DistinctKeeps
  <2>7. PICK r \in 1..q : r \in DOMAIN D /\ D[r] = O[q]
    BY <2>6
  <2> HIDE DEF D
  <2>8. r <= MaxSeeds
    <3>1. r <= q /\ q <= i /\ r \in Nat /\ q \in Nat /\ i \in Nat
      BY <2>2, <2>4, <2>7
    <3> QED BY <1>1, <1>2, <3>1
  <2>9. D[r] \in ToSet(First(D, MaxSeeds))
    BY <1>1, <2>6, <2>7, <2>8, FirstKeeps
  <2> QED BY <2>1, <2>4, <2>7, <2>9
<1> QED BY <1>2 DEF Served

LEMMA ConcatHolds ==
  ASSUME NEW A, NEW s \in Seq(A), NEW t \in Seq(A)
  PROVE  s \o t \in Seq(A) /\ ToSet(s \o t) = ToSet(s) \cup ToSet(t)
<1> DEFINE u == s \o t
           m == Len(s)
           n == Len(t)
<1>1. /\ u \in Seq(A) /\ DOMAIN s = 1..m /\ DOMAIN t = 1..n /\ DOMAIN u = 1..(m + n)
      /\ \A i \in 1..m : u[i] = s[i]
      /\ \A i \in 1..n : u[m + i] = t[i]
      /\ m \in Nat /\ n \in Nat
  OBVIOUS
<1> HIDE DEF u, m, n
<1>2. \A i \in 1..(m + n) : i \in 1..m \/ (i - m \in 1..n /\ m + (i - m) = i)
  BY <1>1
<1>3. /\ \A i \in 1..m : i \in 1..(m + n)
      /\ \A i \in 1..n : m + i \in 1..(m + n)
  BY <1>1
<1>4. ToSet(u) \subseteq ToSet(s) \cup ToSet(t)
  <2>1. ASSUME NEW i \in 1..(m + n) PROVE u[i] \in ToSet(s) \cup ToSet(t)
    <3>1. CASE i \in 1..m
      BY <1>1, <3>1 DEF ToSet
    <3>2. CASE i - m \in 1..n /\ m + (i - m) = i
      <4> DEFINE j == i - m
      <4>1. j \in 1..n /\ m + j = i
        BY <3>2
      <4> HIDE DEF j
      <4>2. u[i] = t[j]
        BY <1>1, <4>1
      <4> QED BY <1>1, <4>1, <4>2 DEF ToSet
    <3> QED BY <1>2, <3>1, <3>2
  <2> QED BY <1>1, <2>1 DEF ToSet
<1>5. ToSet(s) \cup ToSet(t) \subseteq ToSet(u)
  BY <1>1, <1>3 DEF ToSet
<1> QED BY <1>1, <1>4, <1>5 DEF u

(* Only rows in hand are visible.                                          *)
LEMMA VisibleKeeps ==
  ASSUME NEW ranked \in Seq(Chunk), NEW format
  PROVE  Visible(ranked, format) \in Seq(Chunk) /\ ToSet(Visible(ranked, format)) \subseteq ToSet(ranked)
<1> DEFINE tables == Within(ranked, Table)
           paras == Within(ranked, Chunk \ Table)
           prose == MinParagraphs(format, tables, paras)
           a == First(tables, K - prose)
           b == First(paras, prose)
           reserved == a \o b
           chosen == IF format = "table" THEN reserved ELSE Within(ranked, ToSet(reserved))
           rest == Within(ranked, Chunk \ ToSet(reserved))
           ok(s) == s \in Seq(Chunk) /\ ToSet(s) \subseteq ToSet(ranked)
<1>1. ok(tables) /\ ok(paras)
  BY WithinKeeps
<1>2. prose \in Nat /\ K - prose \in Nat
  <2> DEFINE atMost == IF format = "paragraph" THEN K \div 2
                       ELSE IF tables = <<>> THEN K ELSE K - 1
             wanted == IF format = "table" /\ 2 < atMost THEN 2 ELSE atMost
             n == Len(paras)
  <2>1. K \in Nat /\ K # 0
    BY RetrievalConstants
  <2>2. K \div 2 \in Nat /\ K \div 2 <= K
    BY <2>1
  <2>3. atMost \in Nat /\ atMost <= K
    BY <2>1, <2>2
  <2>4. n \in Nat
    BY <1>1
  <2> HIDE DEF tables, paras
  <2>5. prose = IF wanted < n THEN wanted ELSE n
    BY DEF MinParagraphs
  <2> HIDE DEF atMost, n, prose
  <2>6. wanted \in Nat /\ wanted <= K
    BY <2>1, <2>3
  <2> HIDE DEF wanted
  <2> QED BY <2>1, <2>4, <2>5, <2>6
<1> HIDE DEF tables, paras, prose
<1>3. ok(a) /\ ok(b)
  BY <1>1, <1>2, FirstKeeps
<1> HIDE DEF a, b
<1>4. ok(reserved)
  BY <1>3, ConcatHolds
<1> HIDE DEF reserved
<1>5. ok(chosen) /\ ok(rest)
  BY <1>4, WithinKeeps
<1> HIDE DEF chosen, rest
<1>6. ok(chosen \o rest)
  BY <1>5, ConcatHolds
<1>7. K \in Nat
  BY RetrievalConstants
<1>8. ok(First(ranked, K)) /\ ok(First(chosen \o rest, K))
  <2> DEFINE u == chosen \o rest
  <2> HIDE DEF u
  <2>1. ok(First(ranked, K))
    BY <1>7, FirstKeeps
  <2>2. ok(First(u, K))
    BY <1>6, <1>7, FirstKeeps DEF u
  <2> QED BY <2>1, <2>2 DEF u
<1>9. Visible(ranked, format) = IF format = "mixed" THEN First(ranked, K) ELSE First(chosen \o rest, K)
  BY DEF Visible, chosen, rest, reserved, a, b, prose, tables, paras
<1> QED BY <1>8, <1>9

Hits == [chunk : Chunk, score : Int]

LEMMA ScoredTyped ==
  ASSUME NEW ranked \in Seq(Chunk), Len(ranked) <= Cardinality(Chunk),
         NEW rows \in Seq(Chunk), ToSet(rows) \subseteq ToSet(ranked)
  PROVE  /\ Scored(rows, ranked) \in Seq(Hits)
         /\ {Scored(rows, ranked)[i].chunk : i \in DOMAIN Scored(rows, ranked)} = ToSet(rows)
<1> DEFINE score(i) == HitScores[CHOOSE j \in DOMAIN ranked : ranked[j] = rows[i]]
           t == Scored(rows, ranked)
<1>1. HitScores \in Seq(Int) /\ Len(HitScores) = Cardinality(Chunk) /\ Cardinality(Chunk) \in Nat
  BY RetrievalConstants, GraphConstants, FS_CardinalityType
<1>2. DOMAIN rows = 1..Len(rows) /\ Len(rows) \in Nat /\ \A i \in DOMAIN rows : rows[i] \in Chunk
  OBVIOUS
<1>3. ASSUME NEW i \in DOMAIN rows PROVE score(i) \in Int
  <2>1. rows[i] \in ToSet(ranked)
    BY <1>3 DEF ToSet
  <2>2. \E j \in DOMAIN ranked : ranked[j] = rows[i]
    BY <2>1 DEF ToSet
  <2> DEFINE j == CHOOSE k \in DOMAIN ranked : ranked[k] = rows[i]
  <2>3. j \in DOMAIN ranked
    BY <2>2
  <2> HIDE DEF j
  <2>4. j \in 1..Cardinality(Chunk)
    <3>1. j \in 1..Len(ranked) /\ Len(ranked) \in Nat
      BY <2>3
    <3> QED BY <1>1, <3>1
  <2>5. HitScores[j] \in Int
    BY <1>1, <2>4
  <2> QED BY <2>5 DEF j
<1>4. t = [i \in DOMAIN rows |-> Hit(rows[i], score(i))]
  BY DEF Scored
<1> HIDE DEF score, t
<1>5. \A i \in DOMAIN rows : Hit(rows[i], score(i)) \in Hits /\ Hit(rows[i], score(i)).chunk = rows[i]
  BY <1>2, <1>3 DEF Hit, Hits
<1>6. t \in [1..Len(rows) -> Hits] /\ DOMAIN t = DOMAIN rows /\ \A i \in DOMAIN rows : t[i].chunk = rows[i]
  BY <1>2, <1>4, <1>5
<1>7. t \in Seq(Hits)
  BY <1>2, <1>6
<1>8. {t[i].chunk : i \in DOMAIN t} = ToSet(rows)
  BY <1>6 DEF ToSet
<1> QED BY <1>7, <1>8 DEF t

(* The inductive invariant: what is known of a request as it proceeds.     *)
Retrieved ==
  /\ phase # "idle" => plan \in Plans
  /\ phase \in {"select", "expand", "done"} => Served(plan, scope, supplement)
  /\ phase \in {"expand", "done"} =>
       /\ supplement \cap scope \subseteq seeds /\ seeds \subseteq scope
       /\ window \in Seq(Hits) /\ {window[i].chunk : i \in DOMAIN window} \subseteq scope

LEMMA RankedTyped ==
  ASSUME NEW r \in Rankings, NEW S, NEW format
  PROVE  LET ranked == Within(r, S)
         IN  /\ ranked \in Seq(Chunk) /\ ToSet(ranked) \subseteq S
             /\ Scored(Visible(ranked, format), ranked) \in Seq(Hits)
             /\ LET w == Scored(Visible(ranked, format), ranked)
                IN  {w[i].chunk : i \in DOMAIN w} \subseteq S
<1> DEFINE ranked == Within(r, S)
           rows == Visible(ranked, format)
<1>1. r \in Seq(Chunk) /\ Len(r) = Cardinality(Chunk)
  BY RetrievalConstants
<1>2. ranked \in Seq(Chunk) /\ Len(ranked) <= Cardinality(Chunk) /\ ToSet(ranked) \subseteq S
  BY <1>1, WithinKeeps
<1> HIDE DEF ranked
<1>3. rows \in Seq(Chunk) /\ ToSet(rows) \subseteq ToSet(ranked)
  BY <1>2, VisibleKeeps
<1> HIDE DEF rows
<1> DEFINE w == Scored(rows, ranked)
<1>4. w \in Seq(Hits) /\ {w[i].chunk : i \in DOMAIN w} = ToSet(rows)
  BY <1>2, <1>3, ScoredTyped
<1> QED BY <1>2, <1>3, <1>4 DEF ranked, rows

LEMMA RetrievedKept == Retrieved /\ [RetrievalNext]_<<vars, retrieval>> => Retrieved'
<1> SUFFICES ASSUME Retrieved, [RetrievalNext]_<<vars, retrieval>> PROVE Retrieved'
  OBVIOUS
<1>1. CASE Plan
  BY <1>1 DEF Plan, Retrieved
<1>2. CASE Search \/ SearchFails
  BY <1>2 DEF Search, SearchFails, Retrieved, request
<1>3. CASE AddSupplement
  <2>1. /\ phase = "search" /\ phase' = "select" /\ UNCHANGED <<plan, scope>>
        /\ supplement' = ToSet(Supplement(plan.groups))
    BY <1>3 DEF AddSupplement, request
  <2>2. plan \in Plans
    BY <2>1 DEF Retrieved
  <2>3. Served(plan, scope, ToSet(Supplement(plan.groups)))
    BY <2>2, SupplementServes
  <2> QED BY <2>1, <2>2, <2>3 DEF Retrieved, Served
<1>4. CASE Select
  <2>1. /\ phase = "select" /\ phase' = "expand" /\ UNCHANGED <<plan, scope, supplement>>
    BY <1>4 DEF Select, request
  <2>2. PICK r \in Rankings, format \in Formats :
          LET ranked == Within(r, docs \cap scope)
          IN  /\ seeds' = SeedsOf(ranked)
              /\ window' = Scored(Visible(ranked, format), ranked)
    BY <1>4 DEF Select
  <2> DEFINE ranked == Within(r, docs \cap scope)
             w == Scored(Visible(ranked, format), ranked)
  <2>3. /\ ranked \in Seq(Chunk) /\ ToSet(ranked) \subseteq docs \cap scope
        /\ w \in Seq(Hits) /\ {w[i].chunk : i \in DOMAIN w} \subseteq docs \cap scope
    BY RankedTyped
  <2>4. seeds' = SeedsOf(ranked) /\ window' = w
    BY <2>2
  <2> HIDE DEF ranked, w
  <2>5. supplement \cap scope \subseteq seeds' /\ seeds' \subseteq scope
    <3>1. SeedFactor * K \in Nat
      BY RetrievalConstants
    <3> DEFINE n == SeedFactor * K
    <3> HIDE DEF n
    <3>2. ToSet(First(ranked, n)) \subseteq ToSet(ranked)
      BY <2>3, <3>1, FirstKeeps DEF n
    <3> QED BY <2>3, <2>4, <3>2 DEF SeedsOf, n
  <2>6. window' \in Seq(Hits) /\ {window'[i].chunk : i \in DOMAIN window'} \subseteq scope
    BY <2>3, <2>4
  <2> QED BY <2>1, <2>5, <2>6 DEF Retrieved, Served
<1>5. CASE Expand
  BY <1>5 DEF Expand, Retrieved, request, Served
<1>6. CASE Forget
  BY <1>6 DEF Forget, Retrieved
<1>7. CASE UNCHANGED retrieval
  BY <1>7 DEF retrieval, request, pool, Retrieved, Served
<1> QED BY <1>1, <1>2, <1>3, <1>4, <1>5, <1>6, <1>7 DEF RetrievalNext

(* Candidates are built from authorized rows, and from one of every        *)
(* required group these can serve.                                         *)
THEOREM SeedsAlwaysServe == RetrievalSpec => []SeedsServeRequiredGroups
<1>1. RetrievalInit => Retrieved
  BY DEF RetrievalInit, Retrieved
<1>2. Retrieved => SeedsServeRequiredGroups
  <2> SUFFICES ASSUME Retrieved, phase \in {"expand", "done"} PROVE SeedsServeRequiredGroups
    BY DEF SeedsServeRequiredGroups
  <2>1. seeds \cup {window[i].chunk : i \in DOMAIN window} \subseteq scope
    BY DEF Retrieved
  <2>2. ASSUME NEW i \in DOMAIN plan.groups, i <= MaxSeeds,
               ToSet(Serves[plan.groups[i]]) \cap scope # {}
        PROVE  (ToSet(Serves[plan.groups[i]]) \cap scope) \cap seeds # {}
    <3>1. Served(plan, scope, supplement) /\ supplement \cap scope \subseteq seeds
      BY DEF Retrieved
    <3>2. (ToSet(Serves[plan.groups[i]]) \cap scope) \cap supplement # {}
      BY <2>2, <3>1 DEF Served
    <3> QED BY <3>1, <3>2
  <2> QED BY <2>1, <2>2 DEF SeedsServeRequiredGroups
<1> QED BY <1>1, <1>2, RetrievedKept, PTL DEF RetrievalSpec

-----------------------------------------------------------------------------
(* What a hit offers.                                                      *)

(* A hit offers entries of seven parts, numbered where there can be more   *)
(* than one; a part and a number come with at most one chunk.              *)
Source(hit, part, number) ==
  CASE part = 2 -> SectionLead(SectionOf[hit.chunk], hit.chunk)
    [] part = 3 -> UNION {Referenced(Refs[hit.chunk][j]) :
                            j \in {k \in UsableRefs(hit.chunk, Len(Refs[hit.chunk])) :
                                     Cardinality(UsableRefs(hit.chunk, k)) = number}}
    [] part = 4 -> {d \in Siblings(hit.chunk, Window) : SiblingNumber(hit.chunk, d) = number}
    [] part = 5 -> DescribedBy(hit.chunk)
    [] OTHER -> {hit.chunk}

KindOf(hit, part, d) ==
  CASE part = 0 -> "seed"
    [] part = 1 -> "parent_context"
    [] part = 2 -> "section_lead"
    [] part = 3 -> "reference_note"
    [] part = 4 -> SiblingKind(hit.chunk, d)
    [] part = 5 -> "described_by_paragraph"
    [] OTHER -> "table_context"

Cost(part, number) ==
  CASE part = 0 -> 0
    [] part = 1 -> 5
    [] part = 2 -> 6
    [] part = 3 -> 8 + number
    [] part = 4 -> 10 + number
    [] part = 5 -> 4
    [] OTHER -> 7

Sourced(i, hit, part, number, d) ==
  Entry(d, KindOf(hit, part, d), hit.score - Cost(part, number), Place(i, part, number))

MaxNumber == RefLimit + Cardinality(Chunk)

LEMMA ReferencesAreNumbered ==
  ASSUME NEW c \in Chunk
  PROVE  LET usable == UsableRefs(c, Len(Refs[c]))
             number(k) == Cardinality(UsableRefs(c, k))
         IN  /\ \A k \in usable : number(k) \in Nat
             /\ \A j, k \in usable : number(j) = number(k) => j = k
<1> DEFINE N == Len(Refs[c])
           usable == UsableRefs(c, N)
           number(k) == Cardinality(UsableRefs(c, k))
<1>1. N \in Nat
  BY ExpansionConstants
<1>2. \A k \in usable : k \in 1..N /\ \A j \in usable : j <= k => j \in UsableRefs(c, k)
  BY <1>1 DEF UsableRefs
<1>3. ASSUME NEW k \in 1..N
      PROVE  /\ UsableRefs(c, k) \in SUBSET (1..k)
             /\ IsFiniteSet(UsableRefs(c, k)) /\ number(k) \in Nat
  <2>1. UsableRefs(c, k) \in SUBSET (1..k)
    BY DEF UsableRefs
  <2>2. IsFiniteSet(1..k)
    BY <1>3, FS_Interval
  <2> QED BY <2>1, <2>2, FS_Subset, FS_CardinalityType
<1>4. ASSUME NEW j \in usable, NEW k \in usable, j < k PROVE number(j) # number(k)
  <2>1. j \in 1..N /\ k \in 1..N
    BY <1>2
  <2>2. UsableRefs(c, j) \in SUBSET UsableRefs(c, k)
    BY <1>4, <2>1 DEF UsableRefs
  <2>3. k \in UsableRefs(c, k) /\ k \notin UsableRefs(c, j)
    <3>1. k \in UsableRefs(c, k)
      BY <1>2, <2>1
    <3>2. k \notin 1..j
      BY <1>4, <2>1
    <3> QED BY <1>3, <2>1, <3>1, <3>2
  <2> QED BY <1>3, <2>1, <2>2, <2>3, FS_Subset
<1>5. ASSUME NEW j \in usable, NEW k \in usable, number(j) = number(k) PROVE j = k
  <2>1. j \in Nat /\ k \in Nat
    BY <1>1, <1>2
  <2> HIDE DEF usable, number
  <2> QED BY <1>4, <1>5, <2>1
<1> QED BY <1>2, <1>3, <1>5

LEMMA SiblingsAreNumbered ==
  ASSUME TypeOK, NEW c \in Chunk
  PROVE  /\ \A d \in Siblings(c, Window) :
              d \in Chunk /\ SiblingNumber(c, d) \in 0..Cardinality(Chunk)
         /\ \A d, e \in Siblings(c, Window) :
              SiblingNumber(c, d) = SiblingNumber(c, e) => d = e
<1> DEFINE S == Siblings(c, Window)
           upTo(d) == {e \in S : Rank[e] <= Rank[d]}
<1>1. \A d \in S : d \in Chunk /\ SectionOf[d] = SectionOf[c]
  BY DEF Siblings, In, TypeOK
<1>2. S \in SUBSET Chunk
  BY <1>1
<1> HIDE DEF S
<1>3. /\ \A d \in S : Rank[d] \in Nat
      /\ \A d, e \in S : Rank[d] = Rank[e] => d = e
      /\ IsFiniteSet(Chunk)
  BY <1>1, GraphConstants
<1>4. ASSUME NEW d \in S
      PROVE  /\ SiblingNumber(c, d) = Cardinality(upTo(d)) /\ IsFiniteSet(upTo(d))
             /\ Cardinality(upTo(d)) \in 0..Cardinality(Chunk)
  <2>1. SiblingNumber(c, d) = Cardinality(upTo(d))
    BY DEF SiblingNumber, S
  <2>2. upTo(d) \in SUBSET Chunk
    BY <1>2
  <2>3. IsFiniteSet(upTo(d)) /\ Cardinality(upTo(d)) <= Cardinality(Chunk)
    BY <1>3, <2>2, FS_Subset
  <2>4. Cardinality(upTo(d)) \in Nat /\ Cardinality(Chunk) \in Nat
    BY <1>3, <2>3, FS_CardinalityType
  <2> HIDE DEF upTo
  <2> QED BY <2>1, <2>3, <2>4
<1>5. ASSUME NEW d \in S, NEW e \in S, Rank[d] < Rank[e]
      PROVE  Cardinality(upTo(d)) # Cardinality(upTo(e))
  <2>1. upTo(d) \in SUBSET upTo(e) /\ e \in upTo(e) /\ e \notin upTo(d)
    <3>1. Rank[d] \in Nat /\ Rank[e] \in Nat
      BY <1>3
    <3>2. \A f \in S : Rank[f] \in Nat
      BY <1>3
    <3> QED BY <1>5, <3>1, <3>2
  <2>2. IsFiniteSet(upTo(e))
    BY <1>4
  <2> HIDE DEF upTo
  <2> QED BY <2>1, <2>2, FS_Subset
<1>6. ASSUME NEW d \in S, NEW e \in S, SiblingNumber(c, d) = SiblingNumber(c, e)
      PROVE  d = e
  <2>1. Cardinality(upTo(d)) = Cardinality(upTo(e))
    BY <1>4, <1>6
  <2> HIDE DEF upTo
  <2>2. ~(Rank[d] < Rank[e]) /\ ~(Rank[e] < Rank[d])
    BY <1>5, <2>1
  <2>3. Rank[d] \in Nat /\ Rank[e] \in Nat
    BY <1>3
  <2> QED BY <1>3, <2>2, <2>3
<1> QED BY <1>2, <1>4, <1>6 DEF S

(* A part and a number come with at most one chunk. *)
LEMMA SourceIsOne ==
  ASSUME TypeOK, NEW hit \in Hits, NEW part \in 0..6, NEW number
  PROVE  /\ Source(hit, part, number) \subseteq Chunk
         /\ \A d, e \in Source(hit, part, number) : d = e
<1> DEFINE c == hit.chunk
           one(S) == S \subseteq Chunk /\ \A d, e \in S : d = e
<1>1. c \in Chunk
  BY DEF Hits
<1>2. \A x : one(Found(x))
  BY DEF Found, TypeOK
<1>3. \A s, x : one(SectionLead(s, x))
  BY <1>2 DEF SectionLead
<1>4. \A s : one(Referenced(s))
  BY <1>2, <1>3 DEF Referenced
<1>5. one(DescribedBy(c))
  BY <1>2 DEF DescribedBy
<1>6. one({d \in Siblings(c, Window) : SiblingNumber(c, d) = number})
  BY <1>1, SiblingsAreNumbered
<1>7. one(UNION {Referenced(Refs[c][j]) :
                   j \in {k \in UsableRefs(c, Len(Refs[c])) :
                            Cardinality(UsableRefs(c, k)) = number}})
  <2> DEFINE J == {k \in UsableRefs(c, Len(Refs[c])) : Cardinality(UsableRefs(c, k)) = number}
  <2>1. \A j, k \in J : j = k
    BY <1>1, ReferencesAreNumbered
  <2> HIDE DEF J
  <2>2. ASSUME NEW x \in UNION {Referenced(Refs[c][j]) : j \in J},
               NEW y \in UNION {Referenced(Refs[c][j]) : j \in J}
        PROVE  x \in Chunk /\ x = y
    <3>1. PICK j \in J : x \in Referenced(Refs[c][j])
      OBVIOUS
    <3>2. PICK k \in J : y \in Referenced(Refs[c][k])
      OBVIOUS
    <3>3. j = k
      BY <2>1
    <3> QED BY <1>4, <3>1, <3>2, <3>3
  <2>3. one(UNION {Referenced(Refs[c][j]) : j \in J})
    BY <2>2
  <2> QED BY <2>3 DEF J
<1> HIDE DEF one
<1>8. one({c})
  BY <1>1 DEF one
<1>9. one(Source(hit, part, number))
  <2>1. CASE part = 2 BY <1>3, <2>1 DEF Source
  <2>2. CASE part = 3 BY <1>7, <2>2 DEF Source
  <2>3. CASE part = 4 BY <1>6, <2>3 DEF Source
  <2>4. CASE part = 5 BY <1>5, <2>4 DEF Source
  <2>5. CASE part \notin {2, 3, 4, 5} BY <1>8, <2>5 DEF Source
  <2> QED BY <2>1, <2>2, <2>3, <2>4, <2>5
<1> QED BY <1>9 DEF one

(* Every entry offered is of a part and a number. *)
LEMMA OfferedIsSourced ==
  ASSUME TypeOK, NEW i \in Nat, NEW hit \in Hits, NEW e \in Offered(i, hit)
  PROVE  \E part \in 0..6, number \in 0..MaxNumber :
           \E d \in Source(hit, part, number) : e = Sourced(i, hit, part, number, d)
<1> DEFINE c == hit.chunk
<1>1. c \in Chunk /\ hit.score \in Int
  BY DEF Hits
<1>2. MaxNumber \in Nat /\ RefLimit \in Nat /\ Cardinality(Chunk) \in Nat
      /\ RefLimit <= MaxNumber /\ Cardinality(Chunk) <= MaxNumber
  BY ExpansionConstants, GraphConstants, FS_CardinalityType DEF MaxNumber
<1>3. e \in {SeedEntry(i, hit)} \cup OwnContext(i, hit) \cup Linked(i, hit)
             \cup References(i, hit) \cup SiblingsOffered(i, hit)
  BY DEF Offered
<1> DEFINE from(part, number) ==
             \E d \in Source(hit, part, number) : e = Sourced(i, hit, part, number, d)
<1>0. 0 \in 0..MaxNumber
  BY <1>2
<1>4. CASE e = SeedEntry(i, hit)
  <2>1. from(0, 0)
    BY <1>1, <1>4 DEF SeedEntry, Source, Sourced, KindOf, Cost
  <2> QED BY <1>0, <2>1
<1>5. CASE e \in OwnContext(i, hit)
  <2>1. from(1, 0) \/ from(6, 0)
    BY <1>5 DEF OwnContext, Source, Sourced, KindOf, Cost
  <2> QED BY <1>0, <2>1
<1>6. CASE e \in Linked(i, hit)
  <2>1. from(2, 0) \/ from(5, 0)
    BY <1>6 DEF Linked, Source, Sourced, KindOf, Cost
  <2> QED BY <1>0, <2>1
<1>7. CASE e \in References(i, hit)
  <2>1. PICK j \in UsableRefs(c, Len(Refs[c])) :
          /\ Cardinality(UsableRefs(c, j)) <= RefLimit
          /\ \E d \in Referenced(Refs[c][j]) :
               e = Entry(d, "reference_note", hit.score - 8 - Cardinality(UsableRefs(c, j)),
                         Place(i, 3, Cardinality(UsableRefs(c, j))))
    BY <1>7 DEF References
  <2> DEFINE n == Cardinality(UsableRefs(c, j))
  <2>2. n \in Nat /\ n <= RefLimit
    BY <1>1, <2>1, ReferencesAreNumbered
  <2>3. PICK d \in Referenced(Refs[c][j]) :
          e = Entry(d, "reference_note", hit.score - 8 - n, Place(i, 3, n))
    BY <2>1
  <2>4. d \in Source(hit, 3, n)
    BY <2>1, <2>3 DEF Source
  <2> HIDE DEF n
  <2>5. hit.score - 8 - n = hit.score - Cost(3, n) /\ n \in 0..MaxNumber
    BY <1>1, <1>2, <2>2 DEF Cost
  <2>6. KindOf(hit, 3, d) = "reference_note"
    BY DEF KindOf
  <2>7. e = Sourced(i, hit, 3, n, d)
    BY <2>3, <2>5, <2>6 DEF Sourced
  <2> QED BY <2>4, <2>5, <2>7
<1>8. CASE e \in SiblingsOffered(i, hit)
  <2>1. PICK d \in Siblings(c, Window) :
          e = Entry(d, SiblingKind(c, d), hit.score - 10 - SiblingNumber(c, d),
                    Place(i, 4, SiblingNumber(c, d)))
    BY <1>8 DEF SiblingsOffered
  <2> DEFINE n == SiblingNumber(c, d)
  <2>2. n \in 0..Cardinality(Chunk)
    BY <1>1, SiblingsAreNumbered
  <2>3. d \in Source(hit, 4, n)
    BY <2>1 DEF Source
  <2>4. e = Entry(d, SiblingKind(c, d), hit.score - 10 - n, Place(i, 4, n))
    BY <2>1
  <2> HIDE DEF n
  <2>5. hit.score - 10 - n = hit.score - Cost(4, n) /\ n \in 0..MaxNumber
    BY <1>1, <1>2, <2>2 DEF Cost
  <2>6. KindOf(hit, 4, d) = SiblingKind(c, d)
    BY DEF KindOf
  <2>7. e = Sourced(i, hit, 4, n, d)
    BY <2>4, <2>5, <2>6 DEF Sourced
  <2> QED BY <2>3, <2>5, <2>7
<1> QED BY <1>3, <1>4, <1>5, <1>6, <1>7, <1>8

Places(n) == (1..n) \X (0..6) \X (0..MaxNumber)

(* No two entries offered have one place, and none scores more than its    *)
(* hit.                                                                    *)
LEMMA OfferedEntries ==
  ASSUME TypeOK, NEW hits \in Seq(Hits), NEW i \in DOMAIN hits, NEW e \in Offered(i, hits[i])
  PROVE  /\ e.place \in Places(Len(hits)) /\ e.place[1] = i
         /\ e.score \in Int /\ e.score <= hits[i].score
         /\ \A f \in Offered(i, hits[i]) : e.place = f.place => e = f
<1> DEFINE hit == hits[i]
<1>1. hit \in Hits /\ i \in 1..Len(hits) /\ i \in Nat /\ hit.score \in Int
  <2>1. hit \in Hits /\ i \in 1..Len(hits) /\ i \in Nat
    OBVIOUS
  <2> HIDE DEF hit
  <2> QED BY <2>1 DEF Hits
<1>2. ASSUME NEW f \in Offered(i, hit)
      PROVE  \E part \in 0..6, number \in 0..MaxNumber :
               \E d \in Source(hit, part, number) : f = Sourced(i, hit, part, number, d)
  BY <1>1, OfferedIsSourced
<1>3. PICK part \in 0..6, number \in 0..MaxNumber :
        \E d \in Source(hit, part, number) : e = Sourced(i, hit, part, number, d)
  BY <1>2
<1>4. PICK d \in Source(hit, part, number) : e = Sourced(i, hit, part, number, d)
  BY <1>3
<1> HIDE DEF hit
<1>5. e.place = <<i, part, number>> /\ e.score = hit.score - Cost(part, number)
  BY <1>4 DEF Sourced, Entry, Place
<1>6. Cost(part, number) \in Nat
  <2>1. number \in Nat
    BY <1>3
  <2> QED BY <2>1 DEF Cost
<1>7. e.place \in Places(Len(hits)) /\ e.place[1] = i /\ e.score \in Int /\ e.score <= hit.score
  BY <1>1, <1>3, <1>5, <1>6 DEF Places
<1>8. ASSUME NEW f \in Offered(i, hit), e.place = f.place PROVE e = f
  <2>1. PICK p \in 0..6, n \in 0..MaxNumber :
          \E x \in Source(hit, p, n) : f = Sourced(i, hit, p, n, x)
    BY <1>2
  <2>2. PICK x \in Source(hit, p, n) : f = Sourced(i, hit, p, n, x)
    BY <2>1
  <2>3. f.place = <<i, p, n>>
    BY <2>2 DEF Sourced, Entry, Place
  <2>4. p = part /\ n = number
    BY <1>5, <1>8, <2>3
  <2>5. x = d
    BY <1>1, <1>4, <2>2, <2>4, SourceIsOne
  <2> QED BY <1>4, <2>2, <2>4, <2>5
<1> QED BY <1>7, <1>8 DEF hit

-----------------------------------------------------------------------------
(* The best of what is offered.                                            *)

EarlierPlace(E) == {x \in E \X E : Earlier(x[1].place, x[2].place)}

AheadOf(E) == {x \in E \X E : Ahead(x[1], x[2])}

(* Entries that differ in place. *)
Placed(E, n) ==
  /\ \A e \in E : e.place \in Places(n) /\ e.score \in Int
  /\ \A e, f \in E : e.place = f.place => e = f

LEMMA PlacesAreNumbers ==
  ASSUME NEW n \in Nat, NEW p \in Places(n)
  PROVE  /\ p[1] \in Int /\ p[2] \in Int /\ p[3] \in Int /\ p = <<p[1], p[2], p[3]>>
<1>1. MaxNumber \in Nat
  BY ExpansionConstants, GraphConstants, FS_CardinalityType DEF MaxNumber
<1> QED BY <1>1 DEF Places

LEMMA EarlierOrders ==
  ASSUME NEW n \in Nat
  PROVE  /\ \A p \in Places(n) : ~Earlier(p, p)
         /\ \A p, q, r \in Places(n) : Earlier(p, q) /\ Earlier(q, r) => Earlier(p, r)
         /\ \A p, q \in Places(n) : p = q \/ Earlier(p, q) \/ Earlier(q, p)
<1>1. ASSUME NEW p \in Places(n) PROVE ~Earlier(p, p)
  <2>1. p[1] \in Int /\ p[2] \in Int /\ p[3] \in Int
    BY PlacesAreNumbers
  <2> QED BY <2>1 DEF Earlier
<1>2. ASSUME NEW p \in Places(n), NEW q \in Places(n), NEW r \in Places(n),
             Earlier(p, q), Earlier(q, r)
      PROVE  Earlier(p, r)
  <2>1. /\ p[1] \in Int /\ p[2] \in Int /\ p[3] \in Int
        /\ q[1] \in Int /\ q[2] \in Int /\ q[3] \in Int
        /\ r[1] \in Int /\ r[2] \in Int /\ r[3] \in Int
    BY PlacesAreNumbers
  <2> QED BY <1>2, <2>1 DEF Earlier
<1>3. ASSUME NEW p \in Places(n), NEW q \in Places(n)
      PROVE  p = q \/ Earlier(p, q) \/ Earlier(q, p)
  <2>1. /\ p[1] \in Int /\ p[2] \in Int /\ p[3] \in Int /\ p = <<p[1], p[2], p[3]>>
        /\ q[1] \in Int /\ q[2] \in Int /\ q[3] \in Int /\ q = <<q[1], q[2], q[3]>>
    BY PlacesAreNumbers
  <2>2. p[1] = q[1] /\ p[2] = q[2] /\ p[3] = q[3] => p = q
    BY <2>1
  <2> QED BY <2>1, <2>2 DEF Earlier
<1> QED BY <1>1, <1>2, <1>3

LEMMA EntriesAreOrdered ==
  ASSUME NEW n \in Nat, NEW E, Placed(E, n)
  PROVE  IsFiniteSet(E) /\ Orders(EarlierPlace(E), E) /\ Orders(AheadOf(E), E)
<1>1. IsFiniteSet(E)
  <2> DEFINE A == 1..n
             B == 0..6
             C == 0..MaxNumber
             D == (A \X B) \X C
             f == [e \in E |-> <<<<e.place[1], e.place[2]>>, e.place[3]>>]
  <2>1. IsFiniteSet(D)
    <3>1. MaxNumber \in Nat
      BY ExpansionConstants, GraphConstants, FS_CardinalityType DEF MaxNumber
    <3>2. IsFiniteSet(A) /\ IsFiniteSet(B) /\ IsFiniteSet(C)
      <4>1. \A a, b \in Int : IsFiniteSet(a..b)
        BY FS_Interval
      <4>2. 0 \in Int /\ 1 \in Int /\ 6 \in Int /\ n \in Int /\ MaxNumber \in Int
        BY <3>1
      <4> QED BY <4>1, <4>2, Zenon
    <3> HIDE DEF A, B, C
    <3>3. IsFiniteSet(A \X B)
      BY <3>2, FS_Product
    <3> QED BY <3>2, <3>3, FS_Product
  <2>2. \A e \in E : f[e] \in D
    BY DEF Placed, Places
  <2>3. ASSUME NEW e \in E, NEW x \in E, f[e] = f[x] PROVE e = x
    <3>1. e.place[1] = x.place[1] /\ e.place[2] = x.place[2] /\ e.place[3] = x.place[3]
      BY <2>3
    <3>2. e.place \in Places(n) /\ x.place \in Places(n)
      BY DEF Placed
    <3>3. e.place = <<e.place[1], e.place[2], e.place[3]>> /\ x.place = <<x.place[1], x.place[2], x.place[3]>>
      BY <3>2, PlacesAreNumbers
    <3> QED BY <3>1, <3>3 DEF Placed
  <2> HIDE DEF D
  <2>4. f \in [E -> D]
    BY <2>2
  <2> HIDE DEF f
  <2>5. f \in Injection(E, D)
    BY <2>3, <2>4 DEF Injection, IsInjective
  <2> QED BY <2>1, <2>5, FS_Injection
<1>2. \A e \in E : e.place \in Places(n) /\ e.score \in Int
  BY DEF Placed
<1>3. /\ \A e \in E : ~Earlier(e.place, e.place)
      /\ \A e, f, g \in E : Earlier(e.place, f.place) /\ Earlier(f.place, g.place)
                              => Earlier(e.place, g.place)
      /\ \A e, f \in E : e = f \/ Earlier(e.place, f.place) \/ Earlier(f.place, e.place)
  <2>1. \A e, f \in E : e.place = f.place => e = f
    BY DEF Placed
  <2> QED BY <1>2, <2>1, EarlierOrders
<1>4. Orders(EarlierPlace(E), E)
  <2>1. \A e, f \in E : <<e, f>> \in EarlierPlace(E) <=> Earlier(e.place, f.place)
    BY DEF EarlierPlace
  <2> QED BY <1>3, <2>1 DEF Orders
<1>5. Orders(AheadOf(E), E)
  <2>1. \A e, f \in E : <<e, f>> \in AheadOf(E) <=> Ahead(e, f)
    BY DEF AheadOf
  <2>2. \A e \in E : ~Ahead(e, e)
    BY <1>2, <1>3 DEF Ahead
  <2>3. ASSUME NEW e \in E, NEW f \in E, NEW g \in E, Ahead(e, f), Ahead(f, g)
        PROVE  Ahead(e, g)
    <3>1. e.score \in Int /\ f.score \in Int /\ g.score \in Int
      BY <1>2
    <3> QED BY <1>3, <2>3, <3>1 DEF Ahead
  <2>4. ASSUME NEW e \in E, NEW f \in E PROVE e = f \/ Ahead(e, f) \/ Ahead(f, e)
    <3>1. e.score \in Int /\ f.score \in Int
      BY <1>2
    <3> QED BY <1>3, <3>1 DEF Ahead
  <2> QED BY <2>1, <2>2, <2>3, <2>4 DEF Orders
<1> QED BY <1>1, <1>4, <1>5

(* In an order, every nonempty part of a finite set has a first element.   *)
LEMMA FirstInOrder ==
  ASSUME NEW S, IsFiniteSet(S), NEW R, Orders(R, S), NEW T \in SUBSET S, T # {}
  PROVE  \E m \in T : \A x \in T : <<x, m>> \notin R
<1> DEFINE before(q) == Cardinality(Preceding(R, S, q))
           B == {before(q) : q \in T}
<1>1. /\ \A q \in S : before(q) \in Nat
      /\ \A p, q \in S : <<p, q>> \in R => before(p) < before(q)
  BY PrecedingCounts
<1> HIDE DEF before
<1>2. B \in SUBSET Nat /\ B # {}
  BY <1>1
<1>3. PICK b \in B : \A c \in B : b <= c
  <2> HIDE DEF B
  <2> QED BY <1>2, LeastNumber
<1>4. PICK m \in T : \A x \in T : before(m) <= before(x)
  BY <1>3
<1>5. ASSUME NEW x \in T, <<x, m>> \in R PROVE FALSE
  <2>1. before(x) < before(m) /\ before(m) <= before(x) /\ before(x) \in Nat /\ before(m) \in Nat
    BY <1>1, <1>4, <1>5
  <2> QED BY <2>1
<1> QED BY <1>5

(* What HitsAreKept says of a window and its expansion. *)
Keeps(hits, entries) ==
  /\ Cardinality(entries) <= MaxDocs
  /\ \A e, f \in entries :
       {e.kind, f.kind} \subseteq ChunkKinds /\ e.chunk = f.chunk => e = f
  /\ (\A i \in DOMAIN hits : hits[i].score <= hits[1].score) =>
       \E e \in entries :
         /\ e.chunk = hits[1].chunk /\ e.kind = "seed"
         /\ \A f \in entries : ~Ahead(f, e)
  /\ Cardinality(entries) < MaxDocs =>
       \A i \in DOMAIN hits :
         \E e \in entries : e.chunk = hits[i].chunk /\ e.kind \in ChunkKinds

LEMMA ExpansionKeeps ==
  ASSUME TypeOK, NEW hits \in Seq(Hits), hits # <<>>
  PROVE  Keeps(hits, Expansion(hits))
<1> DEFINE N == Len(hits)
           E == UNION {Offered(i, hits[i]) : i \in DOMAIN hits}
           F == Firsts(E)
           X == Cut(F)
<1>0. /\ DOMAIN hits = 1..N /\ N \in Nat /\ 1 \in DOMAIN hits
      /\ \A i \in DOMAIN hits : hits[i] \in Hits /\ hits[i].score \in Int
      /\ MaxDocs \in Nat /\ MaxDocs # 0
  <2>1. DOMAIN hits = 1..N /\ N \in Nat /\ N # 0 /\ \A i \in DOMAIN hits : hits[i] \in Hits
    OBVIOUS
  <2>2. \A h \in Hits : h.score \in Int
    BY DEF Hits
  <2>3. MaxDocs \in Nat /\ MaxDocs # 0
    BY ExpansionConstants
  <2> HIDE DEF N
  <2> QED BY <2>1, <2>2, <2>3
<1>1. /\ \A e \in E : \E i \in DOMAIN hits : e \in Offered(i, hits[i])
      /\ \A i \in DOMAIN hits : SeedEntry(i, hits[i]) \in E
  <2>1. \A i \in DOMAIN hits : SeedEntry(i, hits[i]) \in Offered(i, hits[i])
    BY DEF Offered
  <2> QED BY <2>1
<1>2. Expansion(hits) = X
  BY DEF Expansion
<1>3. F \subseteq E /\ X \subseteq F
  BY DEF Firsts, Cut
<1> HIDE DEF E
<1>4. Placed(E, N)
  <2>1. ASSUME NEW e \in E PROVE e.place \in Places(N) /\ e.score \in Int
    <3>1. PICK i \in DOMAIN hits : e \in Offered(i, hits[i])
      BY <1>1
    <3> QED BY <3>1, OfferedEntries
  <2>2. ASSUME NEW e \in E, NEW f \in E, e.place = f.place PROVE e = f
    <3>1. PICK i \in DOMAIN hits : e \in Offered(i, hits[i])
      BY <1>1
    <3>2. PICK j \in DOMAIN hits : f \in Offered(j, hits[j])
      BY <1>1
    <3>3. e.place[1] = i /\ f.place[1] = j
      BY <3>1, <3>2, OfferedEntries
    <3>4. i = j
      BY <2>2, <3>3
    <3>5. f \in Offered(i, hits[i])
      BY <3>2, <3>4
    <3> QED BY <2>2, <3>1, <3>5, OfferedEntries
  <2> QED BY <2>1, <2>2 DEF Placed
<1>5. /\ IsFiniteSet(E) /\ Orders(EarlierPlace(E), E)
      /\ IsFiniteSet(F) /\ Orders(AheadOf(F), F)
  <2>1. Placed(F, N)
    <3> HIDE DEF F
    <3> QED BY <1>3, <1>4 DEF Placed
  <2> HIDE DEF F, N
  <2> QED BY <1>0, <1>4, <2>1, EntriesAreOrdered
<1>6. X = Leading(AheadOf(F), F, MaxDocs)
  <2>1. \A e \in F : {f \in F : Ahead(f, e)} = Preceding(AheadOf(F), F, e)
    BY DEF AheadOf, Preceding
  <2> HIDE DEF F
  <2> QED BY <2>1 DEF Cut, Leading
<1>7. /\ IsFiniteSet(X) /\ Cardinality(X) <= MaxDocs
      /\ Cardinality(X) < MaxDocs => X = F
  <2> HIDE DEF F, X
  <2> QED BY <1>0, <1>5, <1>6, LeadersAreFew
<1>8. ASSUME NEW e \in X, NEW f \in X, {e.kind, f.kind} \subseteq ChunkKinds, e.chunk = f.chunk
      PROVE  e = f
  <2>1. e \in E /\ f \in E /\ SameKey(e, f) /\ SameKey(f, e)
    BY <1>3, <1>8 DEF SameKey
  <2>2. ~Earlier(f.place, e.place) /\ ~Earlier(e.place, f.place)
    BY <1>3, <1>8, <2>1 DEF Firsts
  <2>3. \A x, y \in E : <<x, y>> \in EarlierPlace(E) <=> Earlier(x.place, y.place)
    BY DEF EarlierPlace
  <2> QED BY <1>5, <2>1, <2>2, <2>3 DEF Orders
<1>9. ASSUME \A i \in DOMAIN hits : hits[i].score <= hits[1].score
      PROVE  \E e \in X : /\ e.chunk = hits[1].chunk /\ e.kind = "seed"
                          /\ \A f \in X : ~Ahead(f, e)
  <2> DEFINE s == SeedEntry(1, hits[1])
  <2>1. /\ s.chunk = hits[1].chunk /\ s.kind = "seed" /\ s.score = hits[1].score
        /\ s.place = <<1, 0, 0>>
    BY DEF SeedEntry, Entry, Place
  <2>2. s \in E
    BY <1>0, <1>1
  <2> HIDE DEF s
  <2>3. \A p \in Places(N) : ~Earlier(p, <<1, 0, 0>>)
    <3>1. MaxNumber \in Nat
      BY ExpansionConstants, GraphConstants, FS_CardinalityType DEF MaxNumber
    <3>2. ASSUME NEW p \in Places(N) PROVE ~Earlier(p, <<1, 0, 0>>)
      <4>1. /\ p[1] \in Int /\ p[2] \in Int /\ p[3] \in Int
            /\ p[1] >= 1 /\ p[2] >= 0 /\ p[3] >= 0
        BY <1>0, <3>1 DEF Places
      <4> QED BY <4>1 DEF Earlier
    <3> QED BY <3>2
  <2>4. \A f \in E : ~Earlier(f.place, s.place)
    BY <1>4, <2>1, <2>3 DEF Placed
  <2>5. s \in F
    BY <2>2, <2>4 DEF Firsts
  <2>6. ASSUME NEW f \in E PROVE ~Ahead(f, s)
    <3>1. PICK i \in DOMAIN hits : f \in Offered(i, hits[i])
      BY <1>1
    <3>2. f.score \in Int /\ f.score <= hits[i].score
      BY <3>1, OfferedEntries
    <3>3. hits[i].score <= hits[1].score /\ hits[i].score \in Int /\ hits[1].score \in Int
      BY <1>0, <1>9
    <3>4. ~(f.score > s.score)
      BY <2>1, <3>2, <3>3
    <3> QED BY <2>4, <3>4 DEF Ahead
  <2>7. s \in X
    <3>1. {f \in F : Ahead(f, s)} = {}
      BY <1>3, <2>6
    <3>2. Cardinality({f \in F : Ahead(f, s)}) < MaxDocs
      <4>1. Cardinality({f \in F : Ahead(f, s)}) = 0
        BY <3>1, FS_EmptySet
      <4> QED BY <1>0, <4>1
    <3> HIDE DEF F
    <3> QED BY <2>5, <3>2 DEF Cut
  <2> QED BY <1>3, <2>1, <2>6, <2>7
<1>10. ASSUME X = F, NEW i \in DOMAIN hits
       PROVE  \E e \in X : e.chunk = hits[i].chunk /\ e.kind \in ChunkKinds
  <2> DEFINE T == {e \in E : e.chunk = hits[i].chunk /\ e.kind \in ChunkKinds}
             s == SeedEntry(i, hits[i])
  <2>1. s.chunk = hits[i].chunk /\ s.kind \in ChunkKinds
    BY DEF SeedEntry, Entry, ChunkKinds
  <2>2. s \in E
    BY <1>1
  <2>3. T \in SUBSET E /\ T # {}
    <3> HIDE DEF s
    <3> QED BY <2>1, <2>2
  <2>4. PICK m \in T : \A x \in T : <<x, m>> \notin EarlierPlace(E)
    <3> HIDE DEF T
    <3> QED BY <1>5, <2>3, FirstInOrder
  <2>5. m \in E /\ m.chunk = hits[i].chunk /\ m.kind \in ChunkKinds
    OBVIOUS
  <2>6. ASSUME NEW f \in E, SameKey(m, f) PROVE ~Earlier(f.place, m.place)
    <3>1. f.chunk = m.chunk /\ f.kind \in ChunkKinds
      BY <2>5, <2>6 DEF SameKey
    <3>2. f \in T
      BY <2>5, <3>1
    <3>3. <<f, m>> \notin EarlierPlace(E)
      BY <2>4, <3>2
    <3> HIDE DEF T
    <3> QED BY <2>5, <3>3 DEF EarlierPlace
  <2> HIDE DEF T
  <2>7. m \in F
    BY <2>5, <2>6 DEF Firsts
  <2> QED BY <1>10, <2>5, <2>7
<1>11. Keeps(hits, X)
  <2> HIDE DEF X, F
  <2> QED BY <1>7, <1>8, <1>9, <1>10 DEF Keeps
<1> QED BY <1>2, <1>11

(* The expansion never drops a hit while there is room. *)
THEOREM HitsAreAlwaysKept == RetrievalSpec => []HitsAreKept
<1> DEFINE Inv == TypeOK /\ Retrieved /\ HitsAreKept
<1>1. RetrievalInit => Inv
  BY InitTypes DEF RetrievalInit, Retrieved, HitsAreKept
<1>2. ASSUME Inv, [RetrievalNext]_<<vars, retrieval>> PROVE Inv'
  <2>1. TypeOK'
    <3>1. Next \/ UNCHANGED vars
      BY <1>2 DEF RetrievalNext, Plan, Search, SearchFails, AddSupplement, Select, Expand, Forget
    <3> QED BY <1>2, <3>1, TypesKept
  <2>2. Retrieved'
    BY <1>2, RetrievedKept
  <2>3. HitsAreKept'
    <3>1. CASE Expand
      <4>1. /\ phase = "expand" /\ window' = window /\ evidence' = Expansion(window)
        BY <3>1 DEF Expand
      <4>2. window # <<>> => Keeps(window, Expansion(window))
        <5>1. window \in Seq(Hits)
          BY <1>2, <4>1 DEF Retrieved
        <5> QED BY <1>2, <5>1, ExpansionKeeps
      <4> QED BY <4>1, <4>2 DEF HitsAreKept, Keeps
    <3>2. CASE phase' # "done"
      BY <3>2 DEF HitsAreKept
    <3>3. CASE UNCHANGED <<phase, window, evidence>>
      BY <1>2, <3>3 DEF HitsAreKept
    <3>4. Expand \/ phase' # "done" \/ UNCHANGED <<phase, window, evidence>>
      BY <1>2 DEF RetrievalNext, Plan, Search, SearchFails, AddSupplement, Select, Forget, retrieval, pool
    <3> QED BY <3>1, <3>2, <3>3, <3>4
  <2> QED BY <2>1, <2>2, <2>3
<1>3. Inv => HitsAreKept
  OBVIOUS
<1> HIDE DEF Inv
<1> QED BY <1>1, <1>2, <1>3, PTL DEF RetrievalSpec
=============================================================================
