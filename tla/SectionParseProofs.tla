-------------------------- MODULE SectionParseProofs --------------------------
(***************************************************************************)
(* Theorems about SectionParse, for any sections, policies and chunk size. *)
(*                                                                         *)
(* Labels (LabelsAreAlwaysAdjacent): the items of an element are taken up  *)
(* in the order of their places and keep them (Reading), so the tables of  *)
(* the blocks are earlier than every table still to come, and nothing but  *)
(* tables and empty paragraphs was taken up since a label that waits.      *)
(*                                                                         *)
(* Scopes (ScopesAlwaysStayApart): a heading always goes on a start of the *)
(* open ones (PushKeepsStart), whatever it closes, so the places that are  *)
(* kept follow the headings one by one (PlacesFollow); the key of a block  *)
(* under located headings is then the list of their places (KeyOfPlaces),  *)
(* and blocks of equal keys stand under the same headings.                 *)
(*                                                                         *)
(* Contexts and captions (ContextIsAlwaysLocal, CaptionsAlwaysMeetTheir-   *)
(* Table): what waits to be chunked is always the start of a chunk, with   *)
(* one scope and one table, and the last paragraph stands over the tables  *)
(* that may take it (Chunking).  A linked table that waits is never cut:   *)
(* alone it is smaller than a chunk (SizeOfOne), and a block joins others  *)
(* only if all of them fit (SizeOfMore).                                   *)
(*                                                                         *)
(* Texts (TextIsAlwaysKept): flattening is a homomorphism (FlattenConcat,  *)
(* SpreadFlatten), so the places of the blocks and of what is left of the  *)
(* element make up the content of the elements read (Gathering), for every *)
(* way an element is taken apart (ItemsComplete), and the blocks of the    *)
(* chunks and those that wait are the blocks taken, in order (Packing).    *)
(* Recursive functions are unfolded by induction on sets of numbers        *)
(* (NatInductionUpTo).                                                     *)
(*                                                                         *)
(* The outline (HeadingsAlwaysFollow): in nested headings, what a new one  *)
(* closes is the end of the stack, name or number (PushSurvives), and this *)
(* is what the outline lets it end (PushStands).  What a heading stands    *)
(* under depends on earlier headings only (AfterLooksBack), so the outline *)
(* exists (OverExists), and whatever it is, the open headings are those of *)
(* the headings taken up (Stand), which at every block are the headings    *)
(* not after it (Reached), because items come in order (ItemsFresh).       *)
(***************************************************************************)
EXTENDS SectionParse, SequenceTheorems, FiniteSetTheorems, WellFoundedInduction, TLAPS

(* Among subsets of a finite set some are smallest. *)
LEMMA MinimalSubset ==
  ASSUME NEW S, IsFiniteSet(S), NEW F \in SUBSET (SUBSET S), F # {}
  PROVE  \E A \in F : \A B \in F : B \subseteq A => B = A
<1> DEFINE R == StrictSubsetOrdering(S)
<1>1. IsWellFoundedOn(R, FiniteSubsetsOf(S))
  BY FS_StrictSubsetOrderingWellFounded
<1>2. F \subseteq FiniteSubsetsOf(S)
  BY FS_FiniteSubsetsOfFinite
<1>3. \E x \in F : \A y \in F : ~(<<y, x>> \in R)
  <2> HIDE DEF R
  <2> QED BY <1>1, <1>2, WFMin
<1>4. PICK A \in F : \A y \in F : ~(<<y, A>> \in R)
  BY <1>3
<1>5. ASSUME NEW B \in F, B \subseteq A PROVE B = A
  BY <1>4, <1>5 DEF StrictSubsetOrdering
<1> QED BY <1>4, <1>5

(* Of numbers one is the least. *)
LEMMA LeastNumber ==
  ASSUME NEW S \in SUBSET Nat, S # {}
  PROVE  \E m \in S : \A n \in S : m <= n
<1>1. PICK k \in S : TRUE
  OBVIOUS
<1> DEFINE D == 1..k
           F == {1..n : n \in {m \in S : m <= k}}
<1>2. IsFiniteSet(D)
  BY FS_Interval
<1>3. F \in SUBSET (SUBSET D) /\ F # {}
  OBVIOUS
<1>4. /\ \A A \in F : \E n \in S : n <= k /\ A = 1..n
      /\ \A n \in S : n <= k => 1..n \in F
  OBVIOUS
<1> HIDE DEF D, F
<1>5. PICK A \in F : \A B \in F : B \subseteq A => B = A
  BY <1>2, <1>3, MinimalSubset
<1>6. PICK n \in S : n <= k /\ A = 1..n
  BY <1>4
<1>7. ASSUME NEW m \in S, m < n PROVE FALSE
  <2>1. 1..m \in F /\ 1..m \subseteq A /\ n \in A /\ n \notin 1..m
    BY <1>4, <1>6, <1>7
  <2> QED BY <1>5, <2>1
<1> QED BY <1>7

(* Induction up to a bound. *)
Inductive(G, N) == 0 \in G /\ \A n \in 0..(N - 1) : n \in G => n + 1 \in G

LEMMA NatInductionUpTo ==
  ASSUME NEW N \in Nat, NEW G, Inductive(G, N)
  PROVE  \A n \in 0..N : n \in G
<1> USE DEF Inductive
<1> DEFINE S == {n \in 0..N : n \notin G}
<1>1. ASSUME S # {} PROVE FALSE
  <2>1. PICK m \in S : \A n \in S : m <= n
    <3>1. S \in SUBSET Nat
      OBVIOUS
    <3> HIDE DEF S
    <3> QED BY <1>1, <3>1, LeastNumber
  <2>2. m - 1 \in 0..(N - 1) /\ m - 1 \notin S
    BY <2>1
  <2> QED BY <2>1, <2>2
<1> QED BY <1>1

(* A left fold takes the positions of a sequence from the last one down:   *)
(* whatever it computes at each, there is a function that it computes.     *)
Folds(V, base, step, g, n) ==
  /\ g \in [SUBSET (1..n) -> V] /\ g[{}] = base
  /\ \A T \in SUBSET (1..n) : T # {} =>
       Max(T) \in 1..n /\ g[T] = step[<<g[T \ {Max(T)}], Max(T)>>]

LEMMA FoldExists ==
  ASSUME NEW V, NEW base \in V, NEW N \in Nat, NEW step \in [V \X (1..N) -> V]
  PROVE  \E g : Folds(V, base, step, g, N)
<1> DEFINE G == {n \in 0..N : \E g : Folds(V, base, step, g, n)}
<1>1. 0 \in G
  <2>1. 1..0 = {}
    OBVIOUS
  <2>2. Folds(V, base, step, [T \in SUBSET {} |-> base], 0)
    BY <2>1 DEF Folds
  <2> QED BY <2>2
<1>2. ASSUME NEW n \in 0..(N - 1), n \in G PROVE n + 1 \in G
  <2>1. PICK g : Folds(V, base, step, g, n)
    BY <1>2
  <2> DEFINE D == 1..(n + 1)
             k == n + 1
             g1 == [T \in SUBSET D |-> IF k \in T THEN step[<<g[T \ {k}], k>>] ELSE g[T]]
  <2>2. \A T \in SUBSET D : T \ {k} \in SUBSET (1..n) /\ (k \notin T => T \in SUBSET (1..n))
    OBVIOUS
  <2>3. g1 \in [SUBSET D -> V]
    <3>1. k \in 1..N
      BY <1>2
    <3> HIDE DEF D, k
    <3> QED BY <2>1, <2>2, <3>1 DEF Folds
  <2>4. g1[{}] = base
    BY <2>1 DEF Folds
  <2>5. ASSUME NEW T \in SUBSET D, T # {}
        PROVE  Max(T) \in D /\ g1[T] = step[<<g1[T \ {Max(T)}], Max(T)>>]
    <3>1. CASE k \in T
      <4>1. Max(T) = k
        <5>1. \A x \in T : (\A y \in T : x >= y) <=> x = k
          BY <3>1
        <5> QED BY <3>1, <5>1 DEF Max
      <4>2. T \ {k} \in SUBSET D /\ k \notin T \ {k} /\ k \in D
        OBVIOUS
      <4> HIDE DEF D, k
      <4> QED BY <3>1, <4>1, <4>2
    <3>2. CASE k \notin T
      <4>1. T \in SUBSET (1..n)
        BY <2>2, <3>2
      <4>2. Max(T) \in 1..n /\ g[T] = step[<<g[T \ {Max(T)}], Max(T)>>]
        BY <2>1, <2>5, <4>1 DEF Folds
      <4>3. T \ {Max(T)} \in SUBSET D /\ k \notin T \ {Max(T)} /\ Max(T) \in D
        <5>1. 1..n \subseteq D
          OBVIOUS
        <5> HIDE DEF D, k
        <5> QED BY <2>5, <3>2, <4>2, <5>1
      <4>4. g1[T] = g[T] /\ g1[T \ {Max(T)}] = g[T \ {Max(T)}]
        BY <3>2, <4>3
      <4> QED BY <4>2, <4>3, <4>4
    <3> QED BY <3>1, <3>2
  <2>6. Folds(V, base, step, g1, n + 1)
    <3> HIDE DEF g1
    <3> QED BY <2>3, <2>4, <2>5 DEF Folds
  <2> HIDE DEF g1
  <2> QED BY <1>2, <2>6
<1>3. N \in G
  <2>1. Inductive(G, N)
    <3> HIDE DEF G
    <3> QED BY <1>1, <1>2 DEF Inductive
  <2> HIDE DEF G
  <2> QED BY <2>1, NatInductionUpTo
<1> QED BY <1>3

(* Read from the first position up, it has a value after each of them.     *)
FoldsTyped(V, base, step, h, N) ==
  /\ h[{}] = base
  /\ \A T \in SUBSET (1..N) : T # {} /\ h[T \ {Max(T)}] \in V =>
       h[T] = step[<<h[T \ {Max(T)}], Max(T)>>]

Runs(V, base, step, acc, N, result) ==
  /\ acc \in [0..N -> V] /\ acc[0] = base /\ acc[N] = result
  /\ \A n \in 1..N : acc[n] = step[<<acc[n - 1], n>>]

LEMMA FoldRuns ==
  ASSUME NEW V, NEW base \in V, NEW N \in Nat, NEW step \in [V \X (1..N) -> V],
         NEW h, FoldsTyped(V, base, step, h, N)
  PROVE  \E acc : Runs(V, base, step, acc, N, h[1..N])
<1> USE DEF FoldsTyped, Runs
<1>1. ASSUME NEW n \in 1..N
      PROVE  /\ 1..n \in SUBSET (1..N) /\ 1..n # {} /\ Max(1..n) = n
             /\ (1..n) \ {n} = 1..(n - 1)
  <2>1. \A x \in 1..n : (\A y \in 1..n : x >= y) <=> x = n
    OBVIOUS
  <2> QED BY <2>1 DEF Max
<1>2. \A n \in 1..N : h[1..(n - 1)] \in V => h[1..n] = step[<<h[1..(n - 1)], n>>]
  BY <1>1
<1> DEFINE G == {n \in 0..N : h[1..n] \in V}
<1>3. 0 \in G
  <2>1. 1..0 = {}
    OBVIOUS
  <2> QED BY <2>1
<1>4. ASSUME NEW n \in 0..(N - 1), n \in G PROVE n + 1 \in G
  <2>1. n + 1 \in 1..N /\ (n + 1) - 1 = n /\ h[1..n] \in V
    BY <1>4
  <2>2. h[1..(n + 1)] = step[<<h[1..n], n + 1>>]
    BY <1>2, <2>1
  <2>3. h[1..(n + 1)] \in V
    BY <2>1, <2>2
  <2> QED BY <2>1, <2>3
<1>5. \A n \in 0..N : h[1..n] \in V
  <2>1. \A n \in 0..N : n \in G
    <3> HIDE DEF G
    <3>1. Inductive(G, N)
      BY <1>3, <1>4 DEF Inductive
    <3> QED BY <3>1, NatInductionUpTo
  <2> QED BY <2>1
<1> DEFINE acc == [n \in 0..N |-> h[1..n]]
<1>6. acc \in [0..N -> V]
  BY <1>5
<1>7. 1..0 = {}
  OBVIOUS
<1>8. \A n \in 1..N : acc[n] = step[<<acc[n - 1], n>>]
  BY <1>2, <1>5
<1>9. acc[0] = base /\ acc[N] = h[1..N]
  BY <1>7
<1> HIDE DEF acc
<1> QED BY <1>6, <1>8, <1>9

(* Flattening joins the sequences one after the other. *)
Joins(f, ss, n, V) ==
  /\ f \in [0..n -> V] /\ f[0] = <<>>
  /\ \A k \in 1..n : f[k] = f[k - 1] \o ss[k]

LEMMA JoinExists ==
  ASSUME NEW S, NEW ss \in Seq(Seq(S))
  PROVE  \E f : Joins(f, ss, Len(ss), Seq(S))
<1> DEFINE N == Len(ss)
           V == Seq(S)
           G == {n \in 0..N : \E f : Joins(f, ss, n, V)}
<1>1. N \in Nat /\ \A k \in 1..N : ss[k] \in V
  OBVIOUS
<1>2. <<>> \in V /\ \A u, v \in V : u \o v \in V
  OBVIOUS
<1> HIDE DEF N, V
<1>3. 0 \in G
  <2> DEFINE g == [k \in 0..0 |-> <<>>]
  <2>1. g \in [0..0 -> V] /\ g[0] = <<>> /\ 1..0 = {}
    BY <1>2
  <2>2. Joins(g, ss, 0, V)
    <3> HIDE DEF g
    <3> QED BY <2>1 DEF Joins
  <2> HIDE DEF g
  <2> QED BY <1>1, <2>2
<1>4. ASSUME NEW n \in 0..(N - 1), n \in G PROVE n + 1 \in G
  <2>1. PICK f : Joins(f, ss, n, V)
    BY <1>4
  <2> DEFINE g == [k \in 0..(n + 1) |-> IF k = n + 1 THEN f[n] \o ss[n + 1] ELSE f[k]]
  <2>2. n \in Nat /\ n + 1 \in 1..N /\ n + 1 \in 0..N /\ ss[n + 1] \in V
    BY <1>1, <1>4
  <2>3. f[n] \in V /\ f[n] \o ss[n + 1] \in V
    BY <1>2, <2>1, <2>2 DEF Joins
  <2>4. g \in [0..(n + 1) -> V] /\ g[0] = <<>>
    BY <2>1, <2>2, <2>3 DEF Joins
  <2>5. ASSUME NEW k \in 1..(n + 1) PROVE g[k] = g[k - 1] \o ss[k]
    <3>1. CASE k = n + 1
      <4>0. n \in 0..(n + 1) /\ n + 1 \in 0..(n + 1) /\ n # n + 1 /\ (n + 1) - 1 = n
        BY <2>2
      <4>1. g[n + 1] = f[n] \o ss[n + 1] /\ g[n] = f[n] /\ (n + 1) - 1 = n
        BY <4>0
      <4> HIDE DEF g
      <4> QED BY <3>1, <4>1
    <3>2. CASE k # n + 1
      <4>1. k \in 1..n /\ k - 1 \in 0..n BY <2>2, <3>2
      <4>2. g[k] = f[k] /\ g[k - 1] = f[k - 1] BY <2>2, <3>2, <4>1
      <4> QED BY <2>1, <4>1, <4>2 DEF Joins
    <3> QED BY <3>1, <3>2
  <2>6. Joins(g, ss, n + 1, V)
    <3> HIDE DEF g
    <3> QED BY <2>4, <2>5 DEF Joins
  <2> QED BY <2>2, <2>6
<1>5. Inductive(G, N)
  <2> HIDE DEF G
  <2> QED BY <1>3, <1>4 DEF Inductive
<1>6. N \in G
  <2> HIDE DEF G
  <2>1. \A n \in 0..N : n \in G BY <1>1, <1>5, NatInductionUpTo
  <2> QED BY <1>1, <2>1
<1> QED BY <1>6 DEF N, V

LEMMA FlattenJoins ==
  ASSUME NEW S, NEW ss \in Seq(Seq(S))
  PROVE  \E f : Joins(f, ss, Len(ss), Seq(S)) /\ f[Len(ss)] = FlattenSeq(ss)
<1> DEFINE N == Len(ss)
           Body(h, i) == IF i = 1 THEN ss[i] ELSE h[i - 1] \o ss[i]
           Iter(h) == h = [i \in 1..N |-> Body(h, i)]
           h == CHOOSE g : Iter(g)
<1>1. N \in Nat /\ \A k \in 1..N : ss[k] \in Seq(S)
  OBVIOUS
<1>2. PICK f : Joins(f, ss, N, Seq(S))
  <2> HIDE DEF N
  <2> QED BY JoinExists DEF N
<1>3. CASE N = 0
  <2>1. ss = <<>>
    BY <1>3
  <2>2. FlattenSeq(ss) = <<>>
    BY <1>3, <2>1 DEF FlattenSeq
  <2> QED BY <1>2, <1>3, <2>2 DEF Joins
<1>4. CASE N # 0
  <2>1. FlattenSeq(ss) = h[N]
    BY <1>4 DEF FlattenSeq
  <2> DEFINE g == [i \in 1..N |-> f[i]]
  <2>2. Iter(g)
    <3>1. ASSUME NEW i \in 1..N PROVE g[i] = Body(g, i)
      <4>1. CASE i = 1
        <5>1. f[1] = <<>> \o ss[1]
          <6>1. 1 \in 1..N /\ 1 - 1 = 0
            BY <1>1, <4>1
          <6>2. f[1] = f[1 - 1] \o ss[1] /\ f[0] = <<>>
            BY <1>2, <6>1 DEF Joins
          <6> QED BY <6>1, <6>2
        <5>2. <<>> \o ss[1] = ss[1] BY <1>1, <4>1
        <5> QED BY <4>1, <5>1, <5>2
      <4>2. CASE i # 1
        <5>1. i - 1 \in 1..N BY <1>1, <4>2
        <5> QED BY <1>2, <4>2, <5>1 DEF Joins
      <4> QED BY <4>1, <4>2
    <3> HIDE DEF Body
    <3> QED BY <3>1
  <2>3. Iter(h)
    <3> HIDE DEF Iter
    <3> QED BY <2>2
  <2>4. \A i \in 1..N : h[i] = Body(h, i)
    <3> HIDE DEF h, Body
    <3> QED BY <2>3
  <2> HIDE DEF h
  <2> DEFINE G == {n \in 0..N : n = 0 \/ h[n] = f[n]}
  <2>5. 0 \in G BY <1>1
  <2>6. ASSUME NEW n \in 0..(N - 1), n \in G PROVE n + 1 \in G
    <3>1. n + 1 \in 1..N /\ (n + 1) - 1 = n /\ n + 1 \in 0..N BY <1>1, <2>6
    <3>2. f[n + 1] = f[n] \o ss[n + 1] BY <1>2, <3>1 DEF Joins
    <3>3. CASE n = 0
      <4>1. f[n] = <<>> /\ <<>> \o ss[n + 1] = ss[n + 1] BY <1>1, <1>2, <3>1, <3>3 DEF Joins
      <4>2. h[n + 1] = ss[n + 1] BY <2>4, <3>1, <3>3
      <4> QED BY <3>1, <3>2, <4>1, <4>2
    <3>4. CASE n # 0
      <4>1. h[n + 1] = Body(h, n + 1) /\ h[n] = f[n] /\ n + 1 # 1 BY <2>4, <2>6, <3>1, <3>4
      <4>2. h[n + 1] = h[n] \o ss[n + 1] BY <3>1, <4>1
      <4> QED BY <3>1, <3>2, <4>1, <4>2
    <3> QED BY <3>3, <3>4
  <2>7. Inductive(G, N)
    <3> HIDE DEF G
    <3> QED BY <2>5, <2>6 DEF Inductive
  <2>8. N \in G
    <3> HIDE DEF G
    <3>1. \A n \in 0..N : n \in G BY <1>1, <2>7, NatInductionUpTo
    <3> QED BY <1>1, <3>1
  <2> QED BY <1>2, <1>4, <2>1, <2>8
<1> QED BY <1>3, <1>4

LEMMA FlattenDraws ==
  ASSUME NEW S, NEW ss \in Seq(Seq(S))
  PROVE  FlattenSeq(ss) \in Seq(S)
<1>1. PICK f : Joins(f, ss, Len(ss), Seq(S)) /\ f[Len(ss)] = FlattenSeq(ss)
  BY FlattenJoins
<1>2. Len(ss) \in 0..Len(ss) OBVIOUS
<1> QED BY <1>1, <1>2 DEF Joins

-----------------------------------------------------------------------------
(* Totals.                                                                 *)

SumsUp(s, acc) ==
  /\ acc \in [0..Len(s) -> Nat] /\ acc[0] = 0 /\ acc[Len(s)] = Total(s)
  /\ \A n \in 1..Len(s) : acc[n] = acc[n - 1] + s[n]

LEMMA TotalSums ==
  ASSUME NEW s \in Seq(Nat)
  PROVE  \E acc : SumsUp(s, acc)
<1> DEFINE N == Len(s)
           Op(sum, n) == sum + n
           step == [r \in Nat \X (1..N) |-> Op(r[1], s[r[2]])]
           Body(h, T) == IF T = {} THEN 0 ELSE Op(h[T \ {Max(T)}], s[Max(T)])
           Iter(h) == h = [T \in SUBSET (1..N) |-> Body(h, T)]
           h == CHOOSE g : Iter(g)
<1>1. DOMAIN s = 1..N /\ N \in Nat
  OBVIOUS
<1>2. Total(s) = h[1..N]
  BY <1>1 DEF Total, FoldLeft, MapThenFoldSet
<1>3. step \in [Nat \X (1..N) -> Nat]
  <2>1. \A v \in Nat : \A n \in 1..N : Op(v, s[n]) \in Nat
    OBVIOUS
  <2> HIDE DEF Op, N
  <2> QED BY <2>1
<1>4. \A v \in Nat : \A n \in 1..N : step[<<v, n>>] = Op(v, s[n])
  BY <1>1
<1>5. PICK g : Folds(Nat, 0, step, g, N)
  <2> HIDE DEF step, N
  <2> QED BY <1>1, <1>3, FoldExists
<1>6. Iter(g)
  <2>1. ASSUME NEW T \in SUBSET (1..N) PROVE g[T] = Body(g, T)
    <3>1. CASE T = {}
      <4> HIDE DEF step, Op
      <4> QED BY <1>5, <3>1 DEF Folds
    <3>2. CASE T # {}
      <4> HIDE DEF Op, step, N
      <4>1. Max(T) \in 1..N /\ g[T \ {Max(T)}] \in Nat
        BY <1>5, <3>2 DEF Folds
      <4> QED BY <1>4, <1>5, <3>2, <4>1 DEF Folds
    <3> QED BY <3>1, <3>2
  <2> HIDE DEF Body, step
  <2> QED BY <1>5, <2>1 DEF Folds
<1>7. Iter(h)
  <2> HIDE DEF Iter
  <2> QED BY <1>6
<1>8. FoldsTyped(Nat, 0, step, h, N)
  <2>1. \A T \in SUBSET (1..N) : h[T] = Body(h, T)
    BY <1>7
  <2> HIDE DEF h, Op, step
  <2>2. \A T \in SUBSET (1..N) : T # {} => Max(T) \in 1..N
    BY <1>5 DEF Folds
  <2>3. h[{}] = 0
    BY <2>1
  <2> HIDE DEF N
  <2>4. ASSUME NEW T \in SUBSET (1..N), T # {}, h[T \ {Max(T)}] \in Nat
        PROVE  h[T] = step[<<h[T \ {Max(T)}], Max(T)>>]
    BY <1>4, <2>1, <2>2, <2>4
  <2> QED BY <2>3, <2>4 DEF FoldsTyped
<1>9. PICK acc : Runs(Nat, 0, step, acc, N, h[1..N])
  <2> HIDE DEF h, step, N
  <2>2. \E acc : Runs(Nat, 0, step, acc, N, h[1..N])
    BY <1>1, <1>3, <1>8, FoldRuns
  <2> QED BY <2>2
<1>10. /\ acc \in [0..N -> Nat] /\ acc[0] = 0 /\ acc[N] = Total(s)
       /\ \A n \in 1..N : acc[n] = Op(acc[n - 1], s[n])
  <2> HIDE DEF step, Op, h
  <2>1. \A n \in 1..N : n - 1 \in 0..N
    BY <1>1
  <2> HIDE DEF N
  <2> QED BY <1>2, <1>4, <1>9, <2>1 DEF Runs
<1> HIDE DEF h, step
<1> QED BY <1>10 DEF SumsUp

LEMMA TotalOfOne ==
  ASSUME NEW x \in Nat
  PROVE  Total(<< x >>) = x
<1>1. << x >> \in Seq(Nat) /\ Len(<< x >>) = 1 /\ << x >>[1] = x
  OBVIOUS
<1>2. PICK f : SumsUp(<< x >>, f)
  BY <1>1, TotalSums
<1>3. f[0] = 0 /\ f[1] = Total(<< x >>) /\ f[1] = f[0] + x
  <2>1. 1 \in 1..1 /\ 1 - 1 = 0
    OBVIOUS
  <2> QED BY <1>1, <1>2, <2>1 DEF SumsUp
<1> QED BY <1>3

(* One more number is added. *)
LEMMA TotalOfMore ==
  ASSUME NEW s \in Seq(Nat), NEW x \in Nat
  PROVE  Total(s) \in Nat /\ Total(Append(s, x)) = Total(s) + x
<1> DEFINE t == Append(s, x)
           N == Len(s)
<1>1. /\ t \in Seq(Nat) /\ Len(t) = N + 1 /\ t[N + 1] = x
      /\ N \in Nat /\ \A k \in 1..N : t[k] = s[k]
  OBVIOUS
<1> HIDE DEF t, N
<1>2. PICK f : SumsUp(s, f)
  BY TotalSums
<1>3. PICK g : SumsUp(t, g)
  BY <1>1, TotalSums
<1>4. /\ f \in [0..N -> Nat] /\ f[0] = 0 /\ f[N] = Total(s)
      /\ \A n \in 1..N : f[n] = f[n - 1] + s[n]
      /\ g \in [0..(N + 1) -> Nat] /\ g[0] = 0 /\ g[N + 1] = Total(t)
      /\ \A n \in 1..(N + 1) : g[n] = g[n - 1] + t[n]
  BY <1>1, <1>2, <1>3 DEF SumsUp, N
<1> DEFINE G == {n \in 0..N : f[n] = g[n]}
<1>5. 0 \in G
  BY <1>1, <1>4
<1>6. ASSUME NEW n \in 0..(N - 1), n \in G PROVE n + 1 \in G
  <2>1. n + 1 \in 1..N /\ n + 1 \in 1..(N + 1) /\ (n + 1) - 1 = n /\ n + 1 \in 0..N
    BY <1>1
  <2>2. f[n + 1] = f[n] + s[n + 1] /\ g[n + 1] = g[n] + s[n + 1]
    BY <1>1, <1>4, <2>1
  <2> QED BY <1>6, <2>1, <2>2
<1>7. N \in G
  <2>1. Inductive(G, N)
    <3> HIDE DEF G
    <3> QED BY <1>5, <1>6 DEF Inductive
  <2>2. N \in 0..N
    BY <1>1
  <2> HIDE DEF G
  <2> QED BY <1>1, <2>1, <2>2, NatInductionUpTo
<1>8. g[N + 1] = g[N] + x
  <2>1. N + 1 \in 1..(N + 1) /\ (N + 1) - 1 = N
    BY <1>1
  <2> QED BY <1>1, <1>4, <2>1
<1>9. f[N] \in Nat
  BY <1>1, <1>4
<1> QED BY <1>4, <1>7, <1>8, <1>9 DEF t

-----------------------------------------------------------------------------
(* Lists: sequences of whatever they hold.                                 *)

IsList(s) == s \in Seq(Range(s))

LEMMA ListFacts ==
  ASSUME NEW s, IsList(s)
  PROVE  /\ Len(s) \in Nat /\ DOMAIN s = 1..Len(s)
         /\ s = <<>> <=> Len(s) = 0
         /\ Range(s) = {s[k] : k \in DOMAIN s}
<1>1. Range(s) = {s[k] : k \in DOMAIN s}
  BY DEF Range
<1> QED BY <1>1 DEF IsList

LEMMA ListOf ==
  ASSUME NEW T, NEW s \in Seq(T)
  PROVE  IsList(s)
<1>1. \A k \in 1..Len(s) : s[k] \in Range(s)
  BY DEF Range
<1> QED BY <1>1 DEF IsList

LEMMA EmptyList == IsList(<<>>) /\ DOMAIN <<>> = {} /\ Len(<<>>) = 0
<1>1. <<>> \in Seq({}) /\ DOMAIN <<>> = {} /\ Len(<<>>) = 0
  OBVIOUS
<1>2. IsList(<<>>)
  BY <1>1, ListOf
<1> QED BY <1>1, <1>2

LEMMA ListOfOne ==
  ASSUME NEW s, IsList(s), Len(s) = 1
  PROVE  s = << s[1] >>
<1> DEFINE T == Range(s)
<1> HIDE DEF T
<1>1. s \in Seq(T)
  BY DEF IsList, T
<1>2. DOMAIN s = 1..1
  BY <1>1
<1>3. s[1] \in T
  BY <1>1, <1>2
<1>4. << s[1] >> \in Seq(T) /\ Len(<< s[1] >>) = 1
  BY <1>3
<1>5. \A k \in 1..1 : s[k] = << s[1] >>[k]
  OBVIOUS
<1> QED BY <1>1, <1>4, <1>5

LEMMA ListAppend ==
  ASSUME NEW s, IsList(s), NEW x
  PROVE  /\ IsList(Append(s, x))
         /\ Len(Append(s, x)) = Len(s) + 1
         /\ DOMAIN Append(s, x) = 1..(Len(s) + 1)
         /\ \A k \in DOMAIN s : k \in DOMAIN Append(s, x) /\ Append(s, x)[k] = s[k]
         /\ Append(s, x)[Len(s) + 1] = x
         /\ Range(Append(s, x)) = Range(s) \cup {x}
<1> DEFINE T == Range(s) \cup {x}
<1>1. s \in Seq(T) /\ x \in T
  <2>1. \A k \in 1..Len(s) : s[k] \in Range(s)
    BY DEF IsList
  <2> QED BY <2>1 DEF IsList
<1> HIDE DEF T
<1>2. Append(s, x) \in Seq(T)
  BY <1>1
<1>3. IsList(Append(s, x))
  BY <1>2, ListOf
<1>4. /\ Len(Append(s, x)) = Len(s) + 1 /\ Len(s) \in Nat
      /\ DOMAIN Append(s, x) = 1..(Len(s) + 1) /\ DOMAIN s = 1..Len(s)
      /\ \A k \in 1..Len(s) : Append(s, x)[k] = s[k]
      /\ Append(s, x)[Len(s) + 1] = x
  BY <1>1
<1>5. Range(Append(s, x)) = Range(s) \cup {x}
  <2> DEFINE t == Append(s, x)
  <2> HIDE DEF t
  <2>1. \A k \in DOMAIN t : t[k] \in Range(s) \cup {x}
    BY <1>4 DEF t, Range
  <2>2. \A y \in Range(s) \cup {x} : \E k \in DOMAIN t : t[k] = y
    BY <1>4 DEF t, Range
  <2> QED BY <2>1, <2>2 DEF Range, t
<1> QED BY <1>3, <1>4, <1>5

LEMMA ListTail ==
  ASSUME NEW s, IsList(s), s # <<>>
  PROVE  /\ 1 \in DOMAIN s /\ Head(s) = s[1]
         /\ IsList(Tail(s))
         /\ \A k \in DOMAIN Tail(s) : /\ k \in Nat \ {0} /\ k + 1 \in DOMAIN s
                                      /\ Tail(s)[k] = s[k + 1]
<1>1. s \in Seq(Range(s))
  BY DEF IsList
<1> DEFINE T == Range(s)
<1> HIDE DEF T
<1>2. Tail(s) \in Seq(T) /\ s \in Seq(T)
  BY <1>1 DEF T
<1>3. IsList(Tail(s))
  BY <1>2, ListOf
<1>4. 1 \in DOMAIN s /\ Head(s) = s[1]
  BY <1>2
<1>5. Len(s) \in Nat \ {0} /\ DOMAIN s = 1..Len(s) /\ Len(Tail(s)) = Len(s) - 1
  BY <1>2
<1>6. DOMAIN Tail(s) = 1..(Len(s) - 1)
  BY <1>2, <1>5
<1>7. \A k \in 1..(Len(s) - 1) : Tail(s)[k] = s[k + 1]
  BY <1>2, <1>5
<1> QED BY <1>3, <1>4, <1>5, <1>6, <1>7

LEMMA ListSub ==
  ASSUME NEW s, IsList(s), NEW n \in 0..Len(s)
  PROVE  /\ IsList(SubSeq(s, 1, n)) /\ Len(SubSeq(s, 1, n)) = n
         /\ DOMAIN SubSeq(s, 1, n) = 1..n
         /\ \A k \in 1..n : k \in DOMAIN s /\ SubSeq(s, 1, n)[k] = s[k]
<1>1. s \in Seq(Range(s)) /\ n \in Nat /\ n <= Len(s)
  BY DEF IsList
<1> DEFINE T == Range(s)
<1> HIDE DEF T
<1>2. SubSeq(s, 1, n) \in Seq(T) /\ s \in Seq(T)
  BY <1>1 DEF T
<1>3. IsList(SubSeq(s, 1, n))
  BY <1>2, ListOf
<1>4. Len(SubSeq(s, 1, n)) = n /\ \A k \in 1..n : SubSeq(s, 1, n)[k] = s[k]
  BY <1>1, <1>2
<1>5. DOMAIN SubSeq(s, 1, n) = 1..n /\ \A k \in 1..n : k \in DOMAIN s
  BY <1>1, <1>2, <1>4
<1> QED BY <1>3, <1>4, <1>5

LEMMA ListConcat ==
  ASSUME NEW s, IsList(s), NEW t, IsList(t)
  PROVE  /\ IsList(s \o t)
         /\ \A k \in DOMAIN (s \o t) : (s \o t)[k] \in Range(s) \cup Range(t)
<1> DEFINE T == Range(s) \cup Range(t)
<1>1. s \in Seq(T) /\ t \in Seq(T)
  <2>1. \A k \in 1..Len(s) : s[k] \in Range(s)
    BY DEF IsList
  <2>2. \A k \in 1..Len(t) : t[k] \in Range(t)
    BY DEF IsList
  <2> QED BY <2>1, <2>2 DEF IsList
<1> HIDE DEF T
<1>2. s \o t \in Seq(T)
  BY <1>1
<1>3. IsList(s \o t)
  BY <1>2, ListOf
<1> QED BY <1>2, <1>3 DEF T

-----------------------------------------------------------------------------
(* What is left of an element: its headings lie where they are read, its   *)
(* tables come in their order.                                             *)

IsTodoItem(t, i) ==
  /\ t.do \in {"lead", "heading"} =>
       /\ elements[i].tag = "P"
       /\ \E j \in DOMAIN elements[i].parts :
            t.at = <<i, j>> /\ t.head = elements[i].parts[j] /\ t.head.kind = "heading"
  /\ t.do = "table" => t.at \in {i} \X Nat /\ t.table.size \in Nat
  /\ t.do = "text" => t.size \in Nat

LEMMA SectionFacts ==
  ASSUME elements \in Sections
  PROVE  /\ IsList(elements) /\ Len(elements) \in Nat /\ DOMAIN elements = 1..Len(elements)
         /\ \A i \in DOMAIN elements : IsElement(elements[i])
<1>1. elements \in Seq(Range(elements)) /\ \A e \in Range(elements) : IsElement(e)
  BY ParseConstants
<1>2. IsList(elements)
  BY <1>1 DEF IsList
<1>3. \A i \in DOMAIN elements : elements[i] \in Range(elements)
  BY DEF Range
<1> QED BY <1>1, <1>2, <1>3, ListFacts

LEMMA PartFacts ==
  ASSUME elements \in Sections, NEW i \in DOMAIN elements, elements[i].tag = "P"
  PROVE  LET ps == elements[i].parts
         IN  /\ IsList(ps) /\ Len(ps) \in Nat /\ DOMAIN ps = 1..Len(ps)
             /\ \A j \in DOMAIN ps : IsPart(ps[j])
<1> DEFINE ps == elements[i].parts
<1>1. ps \in Seq(Range(ps)) /\ \A p \in Range(ps) : IsPart(p)
  BY SectionFacts DEF IsElement
<1> HIDE DEF ps
<1>2. IsList(ps)
  BY <1>1 DEF IsList
<1>3. \A j \in DOMAIN ps : ps[j] \in Range(ps)
  BY DEF Range
<1>4. /\ IsList(ps) /\ Len(ps) \in Nat /\ DOMAIN ps = 1..Len(ps)
      /\ \A j \in DOMAIN ps : IsPart(ps[j])
  BY <1>1, <1>2, <1>3, ListFacts
<1> QED BY <1>4 DEF ps

Fits(ts, i) ==
  /\ IsList(ts)
  /\ \A a \in DOMAIN ts : IsTodoItem(ts[a], i)
  /\ \A a, c \in DOMAIN ts :
       a < c /\ ts[c].do = "table" => ts[a].do = "table" /\ Before(ts[a].at, ts[c].at)

LEMMA StructuredFits ==
  ASSUME elements \in Sections, NEW i \in DOMAIN elements, elements[i].tag = "P"
  PROVE  Fits(Structured(elements[i], i), i)
<1> DEFINE e == elements[i]
           ps == e.parts
           ts == Structured(e, i)
<1>1. /\ Len(ps) \in Nat /\ DOMAIN ps = 1..Len(ps)
      /\ \A j \in DOMAIN ps : IsPart(ps[j])
  BY PartFacts
<1>2. DOMAIN ts = DOMAIN ps
  BY DEF Structured
<1>3. ASSUME NEW j \in DOMAIN ps
      PROVE  IsTodoItem(ts[j], i) /\ ts[j].do # "table"
  <2>1. CASE ps[j].kind = "text"
    <3>1. ts[j].do = "text" /\ ts[j].size = ps[j].size
      BY <2>1 DEF Structured
    <3>2. ps[j].size \in Nat
      BY <1>1 DEF IsPart
    <3> QED BY <3>1, <3>2 DEF IsTodoItem
  <2>2. CASE ps[j].kind # "text"
    <3>1. ts[j].do \in {"lead", "heading"} /\ ts[j].at = <<i, j>> /\ ts[j].head = ps[j]
      BY <2>2 DEF Structured
    <3>2. ps[j].kind = "heading"
      BY <1>1, <2>2 DEF IsPart
    <3> QED BY <3>1, <3>2 DEF IsTodoItem
  <2> QED BY <2>1, <2>2
<1>4. IsList(ts)
  <2>1. ts = [j \in DOMAIN ps |-> ts[j]]
    BY DEF Structured
  <2> HIDE DEF ts, ps
  <2>2. \A j \in 1..Len(ps) : ts[j] \in Range(ts)
    BY <1>1, <1>2 DEF Range
  <2>3. ts \in Seq(Range(ts))
    BY <1>1, <2>1, <2>2
  <2> QED BY <2>3 DEF IsList
<1> HIDE DEF ts, ps
<1>5. Fits(ts, i)
  BY <1>2, <1>3, <1>4 DEF Fits
<1> QED BY <1>5 DEF ts

LEMMA UnderIsText ==
  ASSUME NEW e, NEW i, NEW j
  PROVE  Under(e, i, j).do = "text"
<1> DEFINE stops == {k \in DOMAIN e.parts : k > j /\ e.parts[k].kind = "heading" /\ e.parts[k].located}
           end == IF stops = {} THEN Len(e.parts) ELSE (CHOOSE k \in stops : \A m \in stops : k <= m) - 1
           size == Total([k \in 1..(end - j + 1) |-> e.parts[j + k - 1].size])
<1>1. Under(e, i, j) =
        [do |-> "text", at |-> [k \in 1..(end - j + 1) |-> <<i, j + k - 1>>],
         size |-> size, whole |-> j = 1 /\ end = Len(e.parts),
         forward |-> j = end /\ e.parts[j].kind = "text" /\ e.parts[j].label]
  BY DEF Under
<1> HIDE DEF end, size
<1> QED BY <1>1

LEMMA UnderIsSized ==
  ASSUME elements \in Sections, NEW i \in DOMAIN elements, elements[i].tag = "P",
         NEW j \in DOMAIN elements[i].parts
  PROVE  Under(elements[i], i, j).size \in Nat
<1> DEFINE e == elements[i]
           L == Len(e.parts)
           stops == {k \in DOMAIN e.parts : k > j /\ e.parts[k].kind = "heading" /\ e.parts[k].located}
           first == CHOOSE k \in stops : \A m \in stops : k <= m
           end == IF stops = {} THEN L ELSE first - 1
           sizes == [k \in 1..(end - j + 1) |-> e.parts[j + k - 1].size]
<1>1. L \in Nat /\ DOMAIN e.parts = 1..L /\ \A k \in 1..L : e.parts[k].size \in Nat
  BY PartFacts DEF IsPart
<1>2. Under(e, i, j).size = Total(sizes)
  <2>1. Under(e, i, j) =
          [do |-> "text", at |-> [k \in 1..(end - j + 1) |-> <<i, j + k - 1>>],
           size |-> Total(sizes), whole |-> j = 1 /\ end = Len(e.parts),
           forward |-> j = end /\ e.parts[j].kind = "text" /\ e.parts[j].label]
    BY DEF Under
  <2> HIDE DEF end, sizes
  <2> QED BY <2>1
<1>3. stops \in SUBSET (1..L) /\ (\A k \in stops : k > j) /\ j \in 1..L
  BY <1>1
<1> HIDE DEF stops, L
<1>4. stops # {} => first \in stops
  <2>1. stops \in SUBSET Nat
    BY <1>1, <1>3
  <2>2. stops # {} => \E k \in stops : \A m \in stops : k <= m
    BY <2>1, LeastNumber
  <2> QED BY <2>2
<1> HIDE DEF first
<1>5. end \in j..L
  <2>1. CASE stops = {}
    <3>1. end = L
      BY <2>1
    <3> HIDE DEF end
    <3> QED BY <1>1, <1>3, <3>1
  <2>2. CASE stops # {}
    <3>1. end = first - 1
      BY <2>2
    <3>2. first \in 1..L /\ first > j
      BY <1>3, <1>4, <2>2
    <3> HIDE DEF end
    <3> QED BY <1>1, <1>3, <3>1, <3>2
  <2> QED BY <2>1, <2>2
<1> HIDE DEF end
<1>6. sizes \in Seq(Nat)
  <2>1. \A k \in 1..(end - j + 1) : j + k - 1 \in 1..L
    BY <1>1, <1>3, <1>5
  <2>2. \A k \in 1..(end - j + 1) : e.parts[j + k - 1].size \in Nat
    BY <1>1, <2>1
  <2>3. end - j + 1 \in Nat
    BY <1>1, <1>3, <1>5
  <2> HIDE DEF e
  <2> QED BY <2>2, <2>3
<1>7. Total(sizes) \in Nat
  <2> HIDE DEF sizes
  <2>1. 0 \in Nat
    OBVIOUS
  <2> QED BY <1>6, <2>1, TotalOfMore
<1> QED BY <1>2, <1>7

LEMMA PlainFits ==
  ASSUME elements \in Sections, NEW i \in DOMAIN elements, elements[i].tag = "P"
  PROVE  Fits(Plain(elements[i], i), i)
<1> DEFINE e == elements[i]
           ps == e.parts
           found == {j \in DOMAIN ps : ps[j].kind = "heading" /\ ps[j].located}
           head(j) == [do |-> IF j = 1 THEN "lead" ELSE "heading", head |-> ps[j],
                       at |-> <<i, j>>, alone |-> FALSE, body |-> TRUE]
           from(j) == IF j \in found THEN << head(j), Under(e, i, j) >>
                      ELSE IF j = 1 THEN << Under(e, i, j) >> ELSE <<>>
           T == {head(j) : j \in found} \cup {Under(e, i, j) : j \in DOMAIN ps}
           ss == [j \in DOMAIN ps |-> from(j)]
           ts == FlattenSeq(ss)
<1>1. CASE OnlyName(e)
  <2>1. Plain(e, i) = Structured(e, i)
    BY <1>1 DEF Plain
  <2> QED BY <2>1, StructuredFits
<1>2. CASE ~OnlyName(e)
  <2>1. Plain(e, i) = ts
    BY <1>2 DEF Plain
  <2>2. Len(ps) \in Nat /\ DOMAIN ps = 1..Len(ps)
    BY PartFacts
  <2>3. ASSUME NEW t \in T PROVE IsTodoItem(t, i) /\ t.do # "table"
    <3>1. CASE \E j \in found : t = head(j)
      <4>1. PICK j \in found : t = head(j)
        BY <3>1
      <4>2. t.do \in {"lead", "heading"} /\ t.at = <<i, j>> /\ t.head = ps[j]
        BY <4>1
      <4>3. j \in DOMAIN ps /\ ps[j].kind = "heading"
        BY <4>1
      <4> QED BY <4>2, <4>3 DEF IsTodoItem
    <3>2. CASE \E j \in DOMAIN ps : t = Under(e, i, j)
      <4>1. t.do = "text" /\ t.size \in Nat
        BY <3>2, UnderIsText, UnderIsSized
      <4> QED BY <4>1 DEF IsTodoItem
    <3> QED BY <2>3, <3>1, <3>2
  <2>4. \A j \in DOMAIN ps : from(j) \in Seq(T)
    <3>1. ASSUME NEW j \in DOMAIN ps PROVE Under(e, i, j) \in T /\ (j \in found => head(j) \in T)
      <4> HIDE DEF found, head, ps, e
      <4> QED OBVIOUS
    <3> HIDE DEF found, head, ps, e, T
    <3> QED BY <3>1
  <2> HIDE DEF T, from
  <2>5. ss \in Seq(Seq(T))
    BY <2>2, <2>4
  <2>6. ts \in Seq(T)
    <3> HIDE DEF ss
    <3> QED BY <2>5, FlattenDraws
  <2> HIDE DEF ts
  <2>7. IsList(ts) /\ \A a \in DOMAIN ts : ts[a] \in T
    BY <2>6, ListOf
  <2>8. Fits(ts, i)
    BY <2>3, <2>7 DEF Fits
  <2> QED BY <2>1, <2>8
<1> QED BY <1>1, <1>2

LEMMA TablesFit ==
  ASSUME elements \in Sections, NEW i \in DOMAIN elements, IsTable(elements[i])
  PROVE  Fits(Tables(elements[i], i), i)
<1> DEFINE e == elements[i]
           xs == IF e.tag = "TABLE" THEN <<e>> ELSE e.tables
           ts == Tables(e, i)
<1>1. i \in Nat
  BY SectionFacts
<1>2. Len(xs) \in Nat /\ DOMAIN xs = 1..Len(xs) /\ \A j \in DOMAIN xs : xs[j].size \in Nat
  <2>1. CASE e.tag = "TABLE"
    <3>1. e.size \in Nat
      BY <2>1, SectionFacts DEF IsElement, IsGrid
    <3> QED BY <2>1, <3>1
  <2>2. CASE e.tag # "TABLE"
    <3>1. e.tag = "TABLE-GROUP"
      BY <2>2 DEF IsTable
    <3>2. e.tables \in Seq(Range(e.tables)) /\ \A t \in Range(e.tables) : t.size \in Nat
      BY <3>1, SectionFacts DEF IsElement, IsGrid
    <3>3. \A j \in DOMAIN e.tables : e.tables[j] \in Range(e.tables)
      BY DEF Range
    <3> QED BY <2>2, <3>2, <3>3
  <2> QED BY <2>1, <2>2
<1>3. DOMAIN ts = DOMAIN xs
  BY DEF Tables
<1>4. \A j \in DOMAIN xs : ts[j].do = "table" /\ ts[j].at = <<i, j>> /\ ts[j].table = xs[j]
  BY DEF Tables
<1>5. ts = [j \in DOMAIN xs |-> ts[j]]
  BY DEF Tables
<1> HIDE DEF xs, ts
<1>6. IsList(ts)
  <2>1. \A j \in 1..Len(xs) : ts[j] \in Range(ts)
    BY <1>2, <1>3 DEF Range
  <2>2. ts \in Seq(Range(ts))
    BY <1>2, <1>5, <2>1
  <2> QED BY <2>2 DEF IsList
<1>7. ASSUME NEW j \in DOMAIN ts PROVE IsTodoItem(ts[j], i)
  <2>1. ts[j].do = "table" /\ ts[j].at = <<i, j>> /\ j \in Nat /\ ts[j].table.size \in Nat
    BY <1>2, <1>3, <1>4
  <2>2. ts[j].at \in {i} \X Nat
    BY <2>1
  <2> QED BY <2>1, <2>2 DEF IsTodoItem
<1>8. \A a, c \in DOMAIN ts : a < c => Before(ts[a].at, ts[c].at)
  BY <1>1, <1>2, <1>3, <1>4 DEF Before
<1>9. Fits(ts, i)
  BY <1>3, <1>4, <1>6, <1>7, <1>8 DEF Fits
<1> QED BY <1>9 DEF ts

LEMMA ItemsFit ==
  ASSUME elements \in Sections, NEW i \in DOMAIN elements, NEW m
  PROVE  Fits(Items(elements[i], i, m), i)
<1>1. CASE IsTable(elements[i])
  BY <1>1, TablesFit DEF Items
<1>2. CASE ~IsTable(elements[i])
  <2>1. elements[i].tag = "P"
    BY <1>2, SectionFacts DEF IsElement, IsTable
  <2> QED BY <1>2, <2>1, StructuredFits, PlainFits DEF Items
<1> QED BY <1>1, <1>2

-----------------------------------------------------------------------------
(* A new heading goes on a start of the open ones.                         *)

PlaceOf(at) == IF elements[at[1]].parts[at[2]].located THEN at ELSE None

IsEntry(h) == h.level \in 0..5 /\ h.at \in Nat \X Nat

Entries(s) == IsList(s) /\ \A k \in DOMAIN s : IsEntry(s[k])

Start(t, s) == \E n \in 0..Len(s) : t = SubSeq(s, 1, n)

LEMMA GreatestIndex ==
  ASSUME NEW N \in Nat, NEW S \in SUBSET (0..N), S # {}
  PROVE  \E m \in S : \A n \in S : n <= m
<1> DEFINE T == {N - n : n \in S}
<1>1. T \in SUBSET Nat /\ T # {}
  <2>1. \A n \in S : N - n \in Nat
    OBVIOUS
  <2>2. PICK n \in S : TRUE
    OBVIOUS
  <2>3. N - n \in T
    OBVIOUS
  <2> QED BY <2>1, <2>3
<1> HIDE DEF T
<1>2. PICK t \in T : \A u \in T : t <= u
  BY <1>1, LeastNumber
<1>3. PICK m \in S : t = N - m
  BY DEF T
<1>4. ASSUME NEW n \in S PROVE n <= m
  <2>1. N - n \in T
    BY DEF T
  <2>2. N - m <= N - n
    BY <1>2, <1>3, <2>1
  <2> QED BY <2>2
<1> QED BY <1>4

LEMMA StartFacts ==
  ASSUME NEW s, Entries(s)
  PROVE  /\ Start(s, s)
         /\ s # <<>> => Start(Front(s), s)
         /\ \A t : Start(t, s) => Entries(t) /\ Len(t) \in 0..Len(s)
         /\ \A t, u : Start(t, s) /\ Start(u, t) => Start(u, s)
<1>1. IsList(s) /\ Len(s) \in Nat /\ s \in Seq(Range(s))
  BY ListFacts DEF Entries, IsList
<1>2. Start(s, s)
  <2>1. s = SubSeq(s, 1, Len(s)) /\ Len(s) \in 0..Len(s)
    BY <1>1
  <2> QED BY <1>1, <2>1 DEF Start
<1>3. s # <<>> => Start(Front(s), s)
  <2>1. s # <<>> => Len(s) - 1 \in 0..Len(s)
    BY <1>1, ListFacts
  <2> QED BY <2>1 DEF Start, Front
<1>4. ASSUME NEW n \in 0..Len(s)
      PROVE  Entries(SubSeq(s, 1, n)) /\ Len(SubSeq(s, 1, n)) = n
  BY <1>1, ListSub DEF Entries
<1>5. ASSUME NEW n \in 0..Len(s), NEW m \in 0..n
      PROVE  SubSeq(SubSeq(s, 1, n), 1, m) = SubSeq(s, 1, m)
  <2> DEFINE t == SubSeq(s, 1, n)
  <2>1. IsList(t) /\ Len(t) = n /\ \A k \in 1..n : t[k] = s[k]
    BY <1>1, ListSub
  <2> HIDE DEF t
  <2> DEFINE u == SubSeq(t, 1, m)
             v == SubSeq(s, 1, m)
  <2>2. IsList(u) /\ Len(u) = m /\ \A k \in 1..m : u[k] = t[k]
    BY <2>1, ListSub
  <2>3. IsList(v) /\ Len(v) = m /\ \A k \in 1..m : v[k] = s[k]
    <3>1. m \in 0..Len(s)
      BY <1>1
    <3> QED BY <1>1, <3>1, ListSub
  <2> HIDE DEF u, v
  <2>4. \A k \in 1..m : u[k] = v[k]
    <3>1. \A k \in 1..m : k \in 1..n
      BY <1>1
    <3> QED BY <2>1, <2>2, <2>3, <3>1
  <2>5. u \in Seq(Range(u)) /\ v \in Seq(Range(v))
    BY <2>2, <2>3 DEF IsList
  <2>6. u = v
    BY <2>2, <2>3, <2>4, <2>5
  <2> QED BY <2>6 DEF u, v, t
<1>6. ASSUME NEW t, NEW u, Start(t, s), Start(u, t) PROVE Start(u, s)
  <2>1. PICK n \in 0..Len(s) : t = SubSeq(s, 1, n)
    BY <1>6 DEF Start
  <2>2. PICK m \in 0..n : u = SubSeq(t, 1, m)
    BY <1>4, <1>6, <2>1 DEF Start
  <2>3. u = SubSeq(s, 1, m) /\ m \in 0..Len(s)
    BY <1>1, <1>5, <2>1, <2>2
  <2> QED BY <2>3 DEF Start
<1>7. ASSUME NEW t, Start(t, s) PROVE Entries(t) /\ Len(t) \in 0..Len(s)
  BY <1>4, <1>7 DEF Start
<1> QED BY <1>2, <1>3, <1>6, <1>7

LEMMA AboveIsStart ==
  ASSUME NEW s, Entries(s), NEW level \in 0..5, NEW floor \in 0..Len(s)
  PROVE  Start(Above(s, level, floor), s)
<1>1. Len(s) \in Nat /\ DOMAIN s = 1..Len(s) /\ \A k \in 1..Len(s) : s[k].level \in 0..5
  BY ListFacts DEF Entries, IsEntry
<1> DEFINE Keeps(n) == /\ n > floor => s[n].level < level
                       /\ \A k \in (n + 1)..Len(s) : s[k].level >= level
           S == {n \in floor..Len(s) : n > floor => s[n].level < level}
<1>2. PICK m \in S : \A n \in S : n <= m
  <2>1. S \in SUBSET (0..Len(s)) /\ floor \in S
    BY <1>1
  <2> HIDE DEF S
  <2> QED BY <1>1, <2>1, GreatestIndex
<1>3. m \in floor..Len(s) /\ Keeps(m)
  <2>1. ASSUME NEW k \in (m + 1)..Len(s) PROVE s[k].level >= level
    <3>1. k \in floor..Len(s) /\ k > m /\ k \in 1..Len(s)
      BY <1>1
    <3>2. k \notin S
      BY <1>2, <3>1
    <3>3. ~(s[k].level < level)
      BY <3>1, <3>2
    <3>4. s[k].level \in 0..5
      BY <1>1, <3>1
    <3> QED BY <3>3, <3>4
  <2> QED BY <2>1
<1> DEFINE keep == CHOOSE n \in floor..Len(s) : Keeps(n)
<1>4. keep \in floor..Len(s)
  <2> HIDE DEF Keeps
  <2> QED BY <1>3
<1>5. keep \in 0..Len(s)
  <2> HIDE DEF keep
  <2> QED BY <1>1, <1>4
<1>6. Above(s, level, floor) = SubSeq(s, 1, keep)
  BY DEF Above
<1> HIDE DEF keep
<1> QED BY <1>5, <1>6 DEF Start

LEMMA NameInStack ==
  ASSUME NEW s, Entries(s), Names(s) # {}
  PROVE  NameIn(s) \in 1..Len(s)
<1>1. Len(s) \in Nat /\ DOMAIN s = 1..Len(s) /\ Names(s) \in SUBSET (1..Len(s))
  BY ListFacts DEF Entries, Names
<1>2. Names(s) \in SUBSET (0..Len(s))
  BY <1>1
<1>3. \E m \in Names(s) : \A n \in Names(s) : n <= m
  BY <1>1, <1>2, GreatestIndex
<1>4. NameIn(s) \in Names(s)
  BY <1>3 DEF NameIn
<1> QED BY <1>1, <1>4

LEMMA PushKeepsStart ==
  ASSUME NEW s, Entries(s), NEW h, IsEntry(h)
  PROVE  \E t : Start(t, s) /\ PushHeading(s, h) = Append(t, h)
<1> DEFINE open == Prepared(s, h)
           n == NameIn(open)
           outer == SubSeq(open, 1, n - 1)
           closes == \E i \in DOMAIN outer : outer[i].level >= h.level
<1>1. Start(open, s) /\ Entries(open) /\ Len(open) \in Nat
  <2>1. open = s \/ (s # <<>> /\ open = Front(s))
    BY DEF Prepared
  <2>2. Start(open, s)
    BY <2>1, StartFacts
  <2>3. Entries(open)
    BY <2>2, StartFacts
  <2> QED BY <2>2, <2>3, ListFacts DEF Entries
<1>2. PushHeading(s, h) =
        IF Bracket(h) THEN Append(IF Names(open) = {} THEN open ELSE outer, h)
        ELSE IF Names(open) = {} THEN Append(Above(open, h.level, 0), h)
        ELSE IF closes THEN Append(Above(outer, h.level, 0), h)
        ELSE Append(Above(open, h.level, n), h)
  BY DEF PushHeading
<1>3. h.level \in 0..5
  BY DEF IsEntry
<1> HIDE DEF closes, open
<1>4. Start(Above(open, h.level, 0), open) /\ Start(open, open)
  <2>1. 0 \in 0..Len(open)
    BY <1>1
  <2> QED BY <1>1, <1>3, <2>1, AboveIsStart, StartFacts
<1>5. CASE Names(open) = {}
  <2>1. \E t : Start(t, open) /\ PushHeading(s, h) = Append(t, h)
    BY <1>2, <1>4, <1>5
  <2> QED BY <1>1, <2>1, StartFacts
<1>6. CASE Names(open) # {}
  <2>1. n \in 1..Len(open)
    BY <1>1, <1>6, NameInStack
  <2> HIDE DEF n
  <2>2. n - 1 \in 0..Len(open) /\ n \in 0..Len(open)
    BY <1>1, <2>1
  <2>3. Start(outer, open)
    BY <2>2 DEF Start
  <2> HIDE DEF outer
  <2>4. Entries(outer) /\ Len(outer) \in Nat
    BY <1>1, <2>3, StartFacts
  <2>5. Start(Above(outer, h.level, 0), open)
    <3>1. 0 \in 0..Len(outer)
      BY <2>4
    <3>2. Start(Above(outer, h.level, 0), outer)
      BY <1>3, <2>4, <3>1, AboveIsStart
    <3> QED BY <1>1, <2>3, <3>2, StartFacts
  <2>6. Start(Above(open, h.level, n), open)
    BY <1>1, <1>3, <2>2, AboveIsStart
  <2>7. \E t : Start(t, open) /\ PushHeading(s, h) = Append(t, h)
    BY <1>2, <1>6, <2>3, <2>5, <2>6
  <2> QED BY <1>1, <2>7, StartFacts
<1> QED BY <1>5, <1>6

-----------------------------------------------------------------------------
(* What two folds of the code come to: the key of a block whose headings   *)
(* all have a place is the list of the places, and the size of one block   *)
(* is its own.                                                             *)

LEMMA KeyOfPlaces ==
  ASSUME NEW P, None \notin P, sources \in Seq(P)
  PROVE  ScopeKey = sources
<1> DEFINE s == sources
           N == Len(s)
           V == Seq(P)
           Op(key, at) == IF at = None THEN key ELSE Append(key, at)
           step == [p \in V \X (1..N) |-> Op(p[1], s[p[2]])]
           Body(h, T) == IF T = {} THEN <<>> ELSE Op(h[T \ {Max(T)}], s[Max(T)])
           Iter(h) == h = [T \in SUBSET (1..N) |-> Body(h, T)]
           h == CHOOSE g : Iter(g)
<1>1. DOMAIN s = 1..N /\ N \in Nat /\ \A n \in 1..N : s[n] \in P
  OBVIOUS
<1>2. ScopeKey = h[1..N]
  BY <1>1 DEF ScopeKey, FoldLeft, MapThenFoldSet
<1>3. step \in [V \X (1..N) -> V] /\ <<>> \in V
  <2>1. \A v \in V : \A n \in 1..N : Op(v, s[n]) \in V
    BY <1>1
  <2> HIDE DEF Op, N
  <2> QED BY <2>1
<1>4. \A v \in V : \A n \in 1..N : step[<<v, n>>] = Append(v, s[n]) /\ Op(v, s[n]) = Append(v, s[n])
  BY <1>1
<1>5. PICK g : Folds(V, <<>>, step, g, N)
  <2> HIDE DEF step, V, N
  <2> QED BY <1>1, <1>3, FoldExists
<1>6. Iter(g)
  <2>1. ASSUME NEW T \in SUBSET (1..N) PROVE g[T] = Body(g, T)
    <3>1. CASE T = {}
      <4> HIDE DEF V, step, Op
      <4> QED BY <1>5, <3>1 DEF Folds
    <3>2. CASE T # {}
      <4> HIDE DEF Op, step, V, N
      <4>1. Max(T) \in 1..N /\ g[T \ {Max(T)}] \in V
        BY <1>5, <3>2 DEF Folds
      <4> QED BY <1>4, <1>5, <3>2, <4>1 DEF Folds
    <3> QED BY <3>1, <3>2
  <2> HIDE DEF Body, V, step
  <2> QED BY <1>5, <2>1 DEF Folds
<1>7. Iter(h)
  <2> HIDE DEF Iter
  <2> QED BY <1>6
<1>8. FoldsTyped(V, <<>>, step, h, N)
  <2>1. \A T \in SUBSET (1..N) : h[T] = Body(h, T)
    BY <1>7
  <2> HIDE DEF h, Op, step, V
  <2>2. \A T \in SUBSET (1..N) : T # {} => Max(T) \in 1..N
    BY <1>5 DEF Folds
  <2>3. h[{}] = <<>>
    BY <2>1
  <2> HIDE DEF N
  <2>4. ASSUME NEW T \in SUBSET (1..N), T # {}, h[T \ {Max(T)}] \in V
        PROVE  h[T] = step[<<h[T \ {Max(T)}], Max(T)>>]
    BY <1>4, <2>1, <2>2, <2>4
  <2> QED BY <2>3, <2>4 DEF FoldsTyped
<1>9. PICK acc : Runs(V, <<>>, step, acc, N, h[1..N])
  <2> HIDE DEF h, step, V, N
  <2>2. \E acc : Runs(V, <<>>, step, acc, N, h[1..N])
    BY <1>1, <1>3, <1>8, FoldRuns
  <2> QED BY <2>2
<1>10. /\ acc[0] = <<>> /\ acc[N] = ScopeKey
       /\ \A n \in 0..N : acc[n] \in V
       /\ \A n \in 1..N : acc[n] = Append(acc[n - 1], s[n])
  <2> HIDE DEF step, Op, V, h
  <2>1. \A n \in 1..N : n - 1 \in 0..N
    BY <1>1
  <2> QED BY <1>2, <1>4, <1>9, <2>1 DEF Runs
<1> HIDE DEF h, step
<1> DEFINE G == {n \in 0..N : acc[n] = SubSeq(s, 1, n)}
<1>11. 0 \in G
  BY <1>1, <1>10
<1>12. ASSUME NEW n \in 0..(N - 1), n \in G PROVE n + 1 \in G
  <2>1. n + 1 \in 1..N /\ (n + 1) - 1 = n /\ n \in 0..N /\ n + 1 \in 0..N
    BY <1>1, <1>12
  <2>2. acc[n + 1] = Append(SubSeq(s, 1, n), s[n + 1])
    BY <1>10, <1>12, <2>1
  <2>3. Append(SubSeq(s, 1, n), s[n + 1]) = SubSeq(s, 1, n + 1)
    <3> DEFINE t == SubSeq(s, 1, n)
               u == SubSeq(s, 1, n + 1)
    <3>0. s \in Seq(P) /\ IsList(s)
      BY ListOf
    <3>1. IsList(t) /\ Len(t) = n /\ DOMAIN t = 1..n /\ \A k \in 1..n : t[k] = s[k]
      <4> HIDE DEF s
      <4> QED BY <2>1, <3>0, ListSub
    <3>2. IsList(u) /\ Len(u) = n + 1 /\ \A k \in 1..(n + 1) : u[k] = s[k]
      <4> HIDE DEF s
      <4> QED BY <2>1, <3>0, ListSub
    <3> HIDE DEF t, u
    <3> DEFINE v == Append(t, s[n + 1])
    <3>3. IsList(v) /\ Len(v) = n + 1 /\ (\A k \in 1..n : v[k] = t[k]) /\ v[n + 1] = s[n + 1]
      BY <3>1, ListAppend
    <3> HIDE DEF v
    <3>4. v \in Seq(Range(v)) /\ u \in Seq(Range(u)) /\ n \in Nat
      BY <2>1, <3>2, <3>3 DEF IsList
    <3>5. \A k \in 1..(n + 1) : v[k] = u[k]
      <4>1. \A k \in 1..(n + 1) : k \in 1..n \/ k = n + 1
        BY <3>4
      <4> QED BY <3>1, <3>2, <3>3, <3>4, <4>1
    <3>6. v = u
      BY <3>2, <3>3, <3>4, <3>5
    <3> QED BY <3>6 DEF t, u, v
  <2> QED BY <2>1, <2>2, <2>3
<1>13. N \in G
  <2>1. Inductive(G, N)
    <3> HIDE DEF G
    <3> QED BY <1>11, <1>12 DEF Inductive
  <2>2. N \in 0..N
    BY <1>1
  <2> HIDE DEF G, N
  <2> QED BY <1>1, <2>1, <2>2, NatInductionUpTo
<1>14. SubSeq(s, 1, N) = s
  OBVIOUS
<1> QED BY <1>10, <1>13, <1>14

(* The size of what waits to be chunked. *)
Sized(s) == \A n \in DOMAIN s : blocks[s[n].block].size \in Nat

LEMMA SizeSame ==
  ASSUME NEW s, blocks' = blocks, pending' = s
  PROVE  Size(pending)' = Size(s)
BY DEF Size

LEMMA SizeOfOne ==
  ASSUME NEW p, blocks[p.block].size \in Nat
  PROVE  Size(<< p >>) = blocks[p.block].size
<1>1. [k \in DOMAIN << p >> |-> blocks[<< p >>[k].block].size] = << blocks[p.block].size >>
  OBVIOUS
<1> QED BY <1>1, TotalOfOne DEF Size

(* One more block adds its size. *)
LEMMA SizeOfMore ==
  ASSUME NEW s, IsList(s), Sized(s), NEW p, blocks[p.block].size \in Nat
  PROVE  Size(s) \in Nat /\ Size(Append(s, p)) = Size(s) + blocks[p.block].size
<1> DEFINE t == Append(s, p)
           N == Len(s)
           x == blocks[p.block].size
           ss == [k \in DOMAIN s |-> blocks[s[k].block].size]
           tt == [k \in DOMAIN t |-> blocks[t[k].block].size]
<1>1. /\ DOMAIN t = 1..(N + 1) /\ t[N + 1] = p
      /\ N \in Nat /\ DOMAIN s = 1..N /\ \A k \in 1..N : t[k] = s[k]
  BY ListAppend, ListFacts
<1> HIDE DEF t, N
<1>2. ss \in Seq(Nat) /\ Len(ss) = N
  BY <1>1 DEF Sized
<1>3. tt = Append(ss, x)
  <2>1. tt \in Seq(Nat) /\ Len(tt) = N + 1
    <3>1. \A k \in 1..(N + 1) : k \in 1..N \/ k = N + 1
      BY <1>1
    <3>2. \A k \in 1..(N + 1) : blocks[t[k].block].size \in Nat
      BY <1>1, <3>1 DEF Sized
    <3> QED BY <1>1, <3>2
  <2>2. Append(ss, x) \in Seq(Nat) /\ Len(Append(ss, x)) = N + 1
    BY <1>2
  <2>3. ASSUME NEW k \in 1..(N + 1) PROVE tt[k] = Append(ss, x)[k]
    <3>1. CASE k = N + 1
      BY <1>1, <1>2, <3>1
    <3>2. CASE k # N + 1
      <4>1. k \in 1..N
        BY <1>1, <3>2
      <4>2. tt[k] = ss[k]
        BY <1>1, <4>1
      <4> HIDE DEF ss, tt
      <4> QED BY <1>2, <4>1, <4>2
    <3> QED BY <3>1, <3>2
  <2> HIDE DEF ss, tt
  <2> QED BY <1>1, <2>1, <2>2, <2>3
<1>4. Total(ss) \in Nat /\ Total(Append(ss, x)) = Total(ss) + x
  <2> HIDE DEF ss
  <2> QED BY <1>2, TotalOfMore
<1> QED BY <1>3, <1>4 DEF Size, t

-----------------------------------------------------------------------------
(* Reading the elements.                                                   *)

TableBlock(b) == b.type = "table"

(* The items of an element are taken up one after the other, each where it *)
(* stands; blocks keep the place of their table.                           *)
Reading ==
  /\ elements \in Sections
  /\ pos \in 0..Len(elements)
  /\ Fits(todo, pos)
  /\ todo # <<>> => pos \in DOMAIN elements
  /\ IsList(blocks)
  /\ \A b \in DOMAIN blocks :
       /\ blocks[b].type \in {"paragraph", "table"} /\ blocks[b].size \in Nat
       /\ TableBlock(blocks[b]) =>
            blocks[b].at[1] \in Nat \X Nat /\ blocks[b].at[1][1] <= pos

LEMMA TodoAdvances ==
  ASSUME Fits(todo, pos), todo # <<>> => pos \in DOMAIN elements, todo # <<>>,
         todo' = Tail(todo), elements' = elements, pos' = pos
  PROVE  /\ Fits(todo, pos)'
         /\ (todo # <<>> => pos \in DOMAIN elements)'
<1>1. /\ IsList(Tail(todo)) /\ 1 \in DOMAIN todo
      /\ \A k \in DOMAIN Tail(todo) :
           k \in Nat \ {0} /\ k + 1 \in DOMAIN todo /\ Tail(todo)[k] = todo[k + 1]
  BY ListTail DEF Fits
<1>2. IsList(todo)'
  BY <1>1 DEF IsList
<1>3. \A k \in DOMAIN todo' : k \in Nat \ {0} /\ k + 1 \in DOMAIN todo /\ todo'[k] = todo[k + 1]
  BY <1>1
<1>4. (\A a \in DOMAIN todo : IsTodoItem(todo[a], pos))'
  <2>1. \A a \in DOMAIN todo' : IsTodoItem(todo[a + 1], pos)
    BY <1>3 DEF Fits
  <2> QED BY <1>3, <2>1 DEF IsTodoItem
<1>5. ASSUME NEW a \in DOMAIN todo', NEW c \in DOMAIN todo', a < c, todo'[c].do = "table"
      PROVE  todo'[a].do = "table" /\ Before(todo'[a].at, todo'[c].at)
  <2>1. a + 1 < c + 1 /\ a + 1 \in DOMAIN todo /\ c + 1 \in DOMAIN todo
    BY <1>3, <1>5
  <2>2. todo'[a] = todo[a + 1] /\ todo'[c] = todo[c + 1]
    BY <1>3
  <2> QED BY <1>5, <2>1, <2>2 DEF Fits
<1>6. Fits(todo, pos)'
  BY <1>2, <1>4, <1>5 DEF Fits
<1> QED BY <1>6

LEMMA BlockAdded ==
  ASSUME IsList(blocks), NEW new, blocks' = Append(blocks, new)
  PROVE  /\ IsList(blocks)'
         /\ DOMAIN blocks \subseteq DOMAIN blocks' /\ Len(blocks) \in Nat
         /\ Len(blocks') = Len(blocks) + 1 /\ DOMAIN blocks = 1..Len(blocks)
         /\ \A b \in DOMAIN blocks : blocks'[b] = blocks[b] /\ b < Len(blocks) + 1
         /\ Len(blocks) + 1 \in DOMAIN blocks' /\ blocks'[Len(blocks) + 1] = new
         /\ \A b \in DOMAIN blocks' : b \in DOMAIN blocks \/ b = Len(blocks) + 1
<1>1. IsList(Append(blocks, new))
  BY ListAppend
<1>2. IsList(blocks)'
  BY <1>1 DEF IsList
<1>3. Len(blocks) \in Nat /\ DOMAIN blocks = 1..Len(blocks)
  BY ListFacts
<1> QED BY <1>2, <1>3, ListAppend

LEMMA ItemRead ==
  ASSUME Reading, NEW kind, Item(kind)
  PROVE  /\ todo # <<>> /\ 1 \in DOMAIN todo /\ Head(todo) = todo[1]
         /\ pos \in DOMAIN elements /\ pos \in Nat
         /\ Head(todo).do = kind /\ IsTodoItem(Head(todo), pos)
<1>1. todo # <<>> /\ Head(todo).do = kind
  BY DEF Item
<1>2. 1 \in DOMAIN todo /\ Head(todo) = todo[1]
  BY <1>1, ListTail DEF Reading, Fits
<1> QED BY <1>1, <1>2, SectionFacts DEF Reading, Fits

LEMMA ReadingStarts == Init => Reading
<1> SUFFICES ASSUME Init PROVE Reading
  OBVIOUS
<1>1. IsList(<<>>)
  BY EmptyList
<1>2. Fits(todo, pos)
  BY EmptyList DEF Init, Fits
<1>3. pos \in 0..Len(elements)
  BY SectionFacts DEF Init
<1> QED BY <1>1, <1>2, <1>3 DEF Init, Reading

LEMMA ReadingGoesOn ==
  ASSUME Reading, [Next]_vars
  PROVE  Reading'
<1>1. CASE NextElement
  <2>1. /\ elements' = elements /\ pos' = pos + 1 /\ blocks' = blocks /\ pos < Len(elements)
        /\ todo' = Items(elements[pos + 1], pos + 1, mode)
    BY <1>1 DEF NextElement, section
  <2>2. pos + 1 \in DOMAIN elements /\ pos + 1 \in 0..Len(elements) /\ pos \in Nat
    BY <2>1, SectionFacts DEF Reading
  <2> DEFINE ts == Items(elements[pos + 1], pos + 1, mode)
  <2>3. Fits(ts, pos + 1)
    BY <2>2, ItemsFit DEF Reading
  <2> HIDE DEF ts
  <2>4. Fits(todo, pos)'
    BY <2>1, <2>3 DEF Fits, IsTodoItem, IsList, ts
  <2>5. \A b \in DOMAIN blocks : TableBlock(blocks[b]) => blocks[b].at[1][1] <= pos + 1
    <3>1. \A b \in DOMAIN blocks : TableBlock(blocks[b]) =>
            blocks[b].at[1] \in Nat \X Nat /\ blocks[b].at[1][1] <= pos
      BY DEF Reading
    <3> QED BY <2>2, <3>1
  <2> QED BY <2>1, <2>2, <2>4, <2>5 DEF Reading, IsList, TableBlock
<1>2. CASE LeadHeading \/ BodyHeading
  <2>1. todo # <<>> /\ todo' = Tail(todo) /\ elements' = elements /\ pos' = pos /\ blocks' = blocks
    BY <1>2 DEF LeadHeading, BodyHeading, Item, section
  <2>2. Fits(todo, pos)' /\ (todo # <<>> => pos \in DOMAIN elements)'
    BY <2>1, TodoAdvances DEF Reading
  <2> QED BY <2>1, <2>2 DEF Reading, IsList, TableBlock
<1>3. CASE BodyText
  <2> DEFINE item == Head(todo)
             new == Block("paragraph", item.at, item.size, item.whole, item.forward, None, None)
  <2>1. /\ todo # <<>> /\ todo' = Tail(todo) /\ elements' = elements /\ pos' = pos
        /\ blocks' = Append(blocks, new)
    BY <1>3 DEF BodyText, Item, section
  <2>2. Fits(todo, pos)' /\ (todo # <<>> => pos \in DOMAIN elements)'
    BY <2>1, TodoAdvances DEF Reading
  <2>3. new.type = "paragraph" /\ new.size \in Nat
    <3>1. new.type = "paragraph" /\ new.size = item.size
      BY DEF Block
    <3>2. item.size \in Nat
      <4>1. Item("text")
        BY <1>3 DEF BodyText
      <4> QED BY <4>1, ItemRead DEF IsTodoItem
    <3> QED BY <3>1, <3>2
  <2> HIDE DEF new
  <2>4. \A b \in DOMAIN blocks' :
          (b \in DOMAIN blocks /\ blocks'[b] = blocks[b]) \/ blocks'[b] = new
    BY <2>1, BlockAdded DEF Reading
  <2>5. IsList(blocks)'
    BY <2>1, BlockAdded DEF Reading
  <2> QED BY <2>1, <2>2, <2>3, <2>4, <2>5 DEF Reading, TableBlock
<1>4. CASE ReadTable
  <2> DEFINE item == Head(todo)
             t == item.table
             new == Block("table", <<item.at>>, t.size, TRUE, Forward(t), caption, hint)
  <2>1. /\ todo # <<>> /\ todo' = Tail(todo) /\ elements' = elements /\ pos' = pos
        /\ blocks' = blocks \/ blocks' = Append(blocks, new)
    BY <1>4 DEF ReadTable, Item, section
  <2>2. Fits(todo, pos)' /\ (todo # <<>> => pos \in DOMAIN elements)'
    BY <2>1, TodoAdvances DEF Reading
  <2>3. Item("table")
    BY <1>4 DEF ReadTable
  <2>4. item.at \in {pos} \X Nat /\ t.size \in Nat /\ pos \in Nat
    BY <2>3, ItemRead DEF IsTodoItem
  <2>5. new.type = "table" /\ new.size = t.size /\ new.at[1] = item.at
    BY DEF Block
  <2>6. new.at[1] \in Nat \X Nat /\ new.at[1][1] <= pos /\ new.size \in Nat
    <3> HIDE DEF new
    <3> QED BY <2>4, <2>5
  <2> HIDE DEF new
  <2>7. CASE blocks' = blocks
    BY <2>1, <2>2, <2>7 DEF Reading, IsList, TableBlock
  <2>8. CASE blocks' = Append(blocks, new)
    <3>1. \A b \in DOMAIN blocks' :
            (b \in DOMAIN blocks /\ blocks'[b] = blocks[b]) \/ blocks'[b] = new
      BY <2>8, BlockAdded DEF Reading
    <3>2. IsList(blocks)'
      BY <2>8, BlockAdded DEF Reading
    <3> QED BY <2>1, <2>2, <2>5, <2>6, <3>1, <3>2 DEF Reading, TableBlock
  <2> QED BY <2>1, <2>7, <2>8
<1>5. CASE Timeout
  <2>1. elements' = elements /\ pos' = 0 /\ todo' = <<>> /\ blocks' = <<>>
    BY <1>5 DEF Timeout, section, Restarted
  <2>2. IsList(<<>>)
    BY EmptyList
  <2>3. Fits(todo, pos)' /\ IsList(blocks)'
    BY <2>1, <2>2 DEF Fits, IsList
  <2>4. 0 \in 0..Len(elements)
    BY SectionFacts DEF Reading
  <2> QED BY <2>1, <2>3, <2>4 DEF Reading
<1>6. CASE EndOfSection \/ Link \/ ChunkBlock \/ Finish \/ UNCHANGED vars
  <2>1. elements' = elements /\ pos' = pos /\ todo' = todo /\ blocks' = blocks
    BY <1>6 DEF EndOfSection, Link, ChunkBlock, Finish, vars, section
  <2> QED BY <2>1 DEF Reading, Fits, IsList, IsTodoItem, TableBlock
<1> QED BY <1>1, <1>2, <1>3, <1>4, <1>5, <1>6 DEF Next

(* What has been read is where it stands: the types of blocks and items.   *)
THEOREM ReadingTyped == Spec => []Reading
BY ReadingStarts, ReadingGoesOn, PTL DEF Spec

-----------------------------------------------------------------------------
(* Labels.                                                                 *)

(* Nothing but tables and empty paragraphs was taken up since element i.   *)
Clear(i, j) == \A k \in (i + 1)..j : elements[k].tag = "P" => elements[k].parts = <<>>

(* The tables that are still to come are later than those of the blocks.   *)
TablesInOrder ==
  \A b \in DOMAIN blocks : TableBlock(blocks[b]) =>
    \A a \in DOMAIN todo : todo[a].do = "table" => Before(blocks[b].at[1], todo[a].at)

(* What waits for a table still stands right before it.                    *)
LabelsWait ==
  /\ caption # None => Clear(caption.at[1], pos)
  /\ hint # None =>
       /\ Clear(hint[1], pos)
       /\ \A b \in DOMAIN blocks : TableBlock(blocks[b]) => ~Before(hint, blocks[b].at[1])

Labelled(i) ==
  LET b == blocks[i]
  IN  /\ b.caption # None => Clear(b.caption[1], b.at[1][1])
      /\ b.hint # None =>
           /\ Clear(b.hint[1], b.at[1][1])
           /\ \A j \in DOMAIN blocks : j < i /\ TableBlock(blocks[j]) => ~Before(b.hint, blocks[j].at[1])

LabelsInv == TablesInOrder /\ LabelsWait /\ \A i \in DOMAIN blocks : Labelled(i)

LEMMA ItemDone ==
  ASSUME Reading, todo # <<>>, todo' = Tail(todo)
  PROVE  \A a \in DOMAIN todo' :
           /\ a + 1 \in DOMAIN todo /\ todo'[a] = todo[a + 1]
           /\ todo'[a].do = "table" => Before(Head(todo).at, todo'[a].at)
<1>1. /\ 1 \in DOMAIN todo /\ Head(todo) = todo[1]
      /\ \A k \in DOMAIN Tail(todo) :
           k \in Nat \ {0} /\ k + 1 \in DOMAIN todo /\ Tail(todo)[k] = todo[k + 1]
  BY ListTail DEF Reading, Fits
<1>2. ASSUME NEW a \in DOMAIN todo', todo'[a].do = "table"
      PROVE  Before(Head(todo).at, todo'[a].at)
  <2>1. 1 < a + 1 /\ a + 1 \in DOMAIN todo /\ todo'[a] = todo[a + 1]
    BY <1>1
  <2> QED BY <1>1, <1>2, <2>1 DEF Reading, Fits
<1> QED BY <1>1, <1>2

LEMMA LabelsKeep ==
  ASSUME Reading, LabelsInv, elements' = elements, pos' = pos, blocks' = blocks, hint' = hint,
         todo # <<>>, todo' = Tail(todo), caption' # None => Clear(caption'.at[1], pos)
  PROVE  LabelsInv'
<1>1. TablesInOrder'
  BY ItemDone DEF LabelsInv, TablesInOrder, TableBlock, Before
<1>2. LabelsWait'
  BY DEF LabelsInv, LabelsWait, Clear, TableBlock, Before
<1>3. (\A i \in DOMAIN blocks : Labelled(i))'
  BY DEF LabelsInv, Labelled, Clear, TableBlock, Before
<1> QED BY <1>1, <1>2, <1>3 DEF LabelsInv

LEMMA LabelsGoOn ==
  ASSUME Reading, LabelsInv, [Next]_vars
  PROVE  LabelsInv'
<1>1. CASE NextElement
  <2> DEFINE e == elements[pos + 1]
             ts == Items(e, pos + 1, mode)
  <2>1. /\ elements' = elements /\ pos' = pos + 1 /\ blocks' = blocks /\ pos < Len(elements)
        /\ todo' = ts
        /\ \/ caption' = None /\ hint' = None
           \/ caption' = caption /\ hint' = hint /\ (e.tag = "P" => e.parts = <<>>)
    BY <1>1 DEF NextElement, section
  <2>2. pos + 1 \in DOMAIN elements /\ pos \in Nat
    BY <2>1, SectionFacts DEF Reading
  <2>3. Fits(ts, pos + 1)
    BY <2>2, ItemsFit DEF Reading
  <2> HIDE DEF ts
  <2>4. TablesInOrder'
    <3>1. ASSUME NEW b \in DOMAIN blocks, TableBlock(blocks[b]),
                 NEW a \in DOMAIN ts, ts[a].do = "table"
          PROVE  Before(blocks[b].at[1], ts[a].at)
      <4>1. ts[a].at \in {pos + 1} \X Nat
        BY <2>3, <3>1 DEF Fits, IsTodoItem
      <4>2. blocks[b].at[1] \in Nat \X Nat /\ blocks[b].at[1][1] <= pos
        BY <3>1 DEF Reading
      <4> QED BY <2>2, <4>1, <4>2 DEF Before
    <3> QED BY <2>1, <3>1 DEF TablesInOrder, TableBlock, Before
  <2>5. \A i : (e.tag = "P" => e.parts = <<>>) /\ Clear(i, pos) => Clear(i, pos + 1)
    <3> SUFFICES ASSUME NEW i, e.tag = "P" => e.parts = <<>>, Clear(i, pos),
                        NEW k \in (i + 1)..(pos + 1), elements[k].tag = "P"
                 PROVE  elements[k].parts = <<>>
      BY DEF Clear
    <3>1. k = pos + 1 \/ k \in (i + 1)..pos
      BY <2>2
    <3> QED BY <3>1 DEF Clear
  <2>6. LabelsWait'
    <3>1. CASE caption' = None /\ hint' = None
      BY <3>1 DEF LabelsWait
    <3>2. CASE caption' = caption /\ hint' = hint /\ (e.tag = "P" => e.parts = <<>>)
      <4>1. caption # None => Clear(caption.at[1], pos + 1)
        BY <2>5, <3>2 DEF LabelsInv, LabelsWait
      <4>2. hint # None => Clear(hint[1], pos + 1)
        BY <2>5, <3>2 DEF LabelsInv, LabelsWait
      <4> QED BY <2>1, <3>2, <4>1, <4>2 DEF LabelsInv, LabelsWait, Clear, TableBlock, Before
    <3> QED BY <2>1, <3>1, <3>2
  <2>7. (\A i \in DOMAIN blocks : Labelled(i))'
    BY <2>1 DEF LabelsInv, Labelled, Clear, TableBlock, Before
  <2> QED BY <2>4, <2>6, <2>7 DEF LabelsInv
<1>2. CASE LeadHeading
  <2> DEFINE item == Head(todo)
  <2>1. /\ todo # <<>> /\ todo' = Tail(todo) /\ elements' = elements /\ pos' = pos
        /\ blocks' = blocks /\ hint' = hint
        /\ caption' = caption \/ caption' = [name |-> item.head.name, at |-> item.at]
    BY <1>2 DEF LeadHeading, Item, section
  <2>2. item.at[1] = pos /\ pos \in Nat
    <3>1. Item("lead")
      BY <1>2 DEF LeadHeading
    <3> QED BY <3>1, ItemRead DEF IsTodoItem
  <2>3. Clear(item.at[1], pos)
    BY <2>2 DEF Clear
  <2>4. caption' # None => Clear(caption'.at[1], pos)
    BY <2>1, <2>3 DEF LabelsInv, LabelsWait
  <2> QED BY <2>1, <2>4, LabelsKeep
<1>3. CASE BodyHeading
  <2>1. /\ todo # <<>> /\ todo' = Tail(todo) /\ elements' = elements /\ pos' = pos
        /\ blocks' = blocks /\ hint' = hint /\ caption' = caption
    BY <1>3 DEF BodyHeading, Item, section
  <2>2. caption' # None => Clear(caption'.at[1], pos)
    BY <2>1 DEF LabelsInv, LabelsWait
  <2> QED BY <2>1, <2>2, LabelsKeep
<1>4. CASE BodyText
  <2> DEFINE item == Head(todo)
             new == Block("paragraph", item.at, item.size, item.whole, item.forward, None, None)
  <2> PICK n : n = Len(blocks) + 1
    OBVIOUS
  <2>1. /\ todo # <<>> /\ todo' = Tail(todo) /\ elements' = elements /\ pos' = pos
        /\ hint' = hint /\ caption' = caption /\ blocks' = Append(blocks, new)
    BY <1>4 DEF BodyText, Item, section
  <2>2. new.type = "paragraph" /\ new.caption = None /\ new.hint = None
    BY DEF Block
  <2> HIDE DEF new
  <2>3. /\ \A b \in DOMAIN blocks' : b \in DOMAIN blocks \/ b = n
        /\ \A b \in DOMAIN blocks : blocks'[b] = blocks[b] /\ b < n
        /\ blocks'[n] = new
    BY <2>1, BlockAdded DEF Reading
  <2>4. ~TableBlock(new)
    BY <2>2 DEF TableBlock
  <2>5. TablesInOrder'
    <3>1. \A b \in DOMAIN blocks' : TableBlock(blocks'[b]) =>
            \A a \in DOMAIN todo' : todo'[a].do = "table" => Before(blocks'[b].at[1], todo'[a].at)
      BY <2>1, <2>3, <2>4, ItemDone DEF LabelsInv, TablesInOrder
    <3> QED BY <3>1 DEF TablesInOrder, TableBlock, Before
  <2>6. LabelsWait'
    BY <2>1, <2>3, <2>4 DEF LabelsInv, LabelsWait, Clear, TableBlock, Before
  <2>7. (\A i \in DOMAIN blocks : Labelled(i))'
    <3>1. ASSUME NEW i \in DOMAIN blocks PROVE Labelled(i)'
      BY <2>1, <2>3, <2>4 DEF LabelsInv, Labelled, Clear, TableBlock, Before
    <3>2. Labelled(n)'
      BY <2>2, <2>3 DEF Labelled
    <3> QED BY <2>3, <3>1, <3>2
  <2> QED BY <2>5, <2>6, <2>7 DEF LabelsInv
<1>5. CASE ReadTable
  <2> DEFINE item == Head(todo)
             t == item.table
             new == Block("table", <<item.at>>, t.size, TRUE, Forward(t), caption, hint)
  <2> PICK n : n = Len(blocks) + 1
    OBVIOUS
  <2>1. /\ todo # <<>> /\ todo' = Tail(todo) /\ elements' = elements /\ pos' = pos
        /\ caption' = caption /\ hint' = NextHint(t, item.at)
        /\ blocks' = IF HintTable(t) \/ t.role = "empty" THEN blocks ELSE Append(blocks, new)
    BY <1>5 DEF ReadTable, Item, section
  <2>2. item.at \in {pos} \X Nat /\ pos \in Nat /\ 1 \in DOMAIN todo /\ item = todo[1] /\ item.do = "table"
    <3>1. Item("table")
      BY <1>5 DEF ReadTable
    <3> QED BY <3>1, ItemRead DEF IsTodoItem
  <2>3. /\ new.type = "table" /\ new.at[1] = item.at /\ new.hint = hint
        /\ new.caption = (IF caption = None THEN None ELSE caption.at)
    BY DEF Block
  <2> HIDE DEF new, t
  <2>4. \A b \in DOMAIN blocks : TableBlock(blocks[b]) =>
          Before(blocks[b].at[1], item.at) /\ blocks[b].at[1] \in Nat \X Nat
    BY <2>2 DEF LabelsInv, TablesInOrder, Reading
  <2>5. \A b \in DOMAIN blocks : TableBlock(blocks[b]) => ~Before(item.at, blocks[b].at[1])
    <3>1. item.at[1] \in Nat /\ item.at[2] \in Nat
      BY <2>2
    <3> HIDE DEF item
    <3> QED BY <2>4, <3>1 DEF Before
  <2>6. ~Before(item.at, item.at) /\ Clear(item.at[1], pos)
    BY <2>2 DEF Before, Clear
  <2>7. CASE blocks' = blocks
    <3>1. TablesInOrder'
      BY <2>1, <2>7, ItemDone DEF LabelsInv, TablesInOrder, TableBlock, Before
    <3>2. hint' = None \/ hint' = hint \/ hint' = item.at
      BY <2>1 DEF NextHint
    <3>3. LabelsWait'
      BY <2>1, <2>5, <2>6, <2>7, <3>2 DEF LabelsInv, LabelsWait, Clear, TableBlock, Before
    <3>4. (\A i \in DOMAIN blocks : Labelled(i))'
      BY <2>1, <2>7 DEF LabelsInv, Labelled, Clear, TableBlock, Before
    <3> QED BY <3>1, <3>3, <3>4 DEF LabelsInv
  <2>8. CASE ~(HintTable(t) \/ t.role = "empty") /\ blocks' = Append(blocks, new)
    <3>1. /\ \A b \in DOMAIN blocks' : b \in DOMAIN blocks \/ b = n
          /\ \A b \in DOMAIN blocks : blocks'[b] = blocks[b] /\ b < n
          /\ blocks'[n] = new
      BY <2>8, BlockAdded DEF Reading
    <3>2. \A b \in DOMAIN blocks : ~(n < b) /\ ~(n < n)
      BY <2>8, BlockAdded DEF Reading
    <3>3. TablesInOrder'
      <4>1. \A b \in DOMAIN blocks' : TableBlock(blocks'[b]) =>
              \A a \in DOMAIN todo' : todo'[a].do = "table" => Before(blocks'[b].at[1], todo'[a].at)
        <5>1. \A a \in DOMAIN todo' : todo'[a].do = "table" => Before(item.at, todo'[a].at)
          BY <2>1, ItemDone
        <5>2. \A b \in DOMAIN blocks : TableBlock(blocks[b]) =>
                \A a \in DOMAIN todo' : todo'[a].do = "table" => Before(blocks[b].at[1], todo'[a].at)
          BY <2>1, ItemDone DEF LabelsInv, TablesInOrder
        <5> HIDE DEF item
        <5> QED BY <2>3, <3>1, <5>1, <5>2
      <4> QED BY <4>1 DEF TablesInOrder, TableBlock, Before
    <3>4. hint' = None \/ hint' = item.at
      BY <2>1, <2>8 DEF NextHint
    <3>5. LabelsWait'
      <4>1. caption' # None => Clear(caption'.at[1], pos)
        BY <2>1 DEF LabelsInv, LabelsWait
      <4>2. \A b \in DOMAIN blocks' : TableBlock(blocks'[b]) => ~Before(item.at, blocks'[b].at[1])
        BY <2>3, <2>5, <2>6, <3>1
      <4> QED BY <2>1, <2>6, <3>4, <4>1, <4>2 DEF LabelsWait, Clear, TableBlock, Before
    <3>6. ASSUME NEW i \in DOMAIN blocks PROVE Labelled(i)'
      BY <2>1, <3>1, <3>2 DEF LabelsInv, Labelled, Clear, TableBlock, Before
    <3>7. Labelled(n)'
      <4>1. new.caption # None => Clear(new.caption[1], new.at[1][1])
        BY <2>2, <2>3 DEF LabelsInv, LabelsWait
      <4>2. new.hint # None =>
              /\ Clear(new.hint[1], new.at[1][1])
              /\ \A j \in DOMAIN blocks : TableBlock(blocks[j]) => ~Before(new.hint, blocks[j].at[1])
        BY <2>2, <2>3 DEF LabelsInv, LabelsWait
      <4>3. \A j \in DOMAIN blocks' : j < n => j \in DOMAIN blocks /\ blocks'[j] = blocks[j]
        BY <3>1, <3>2
      <4> QED BY <2>1, <3>1, <4>1, <4>2, <4>3 DEF Labelled, Clear, TableBlock, Before
    <3> QED BY <3>1, <3>3, <3>5, <3>6, <3>7 DEF LabelsInv
  <2> QED BY <2>1, <2>7, <2>8
<1>6. CASE Timeout
  <2>1. blocks' = <<>> /\ caption' = None /\ hint' = None
    BY <1>6 DEF Timeout, Restarted
  <2> QED BY <2>1 DEF LabelsInv, TablesInOrder, LabelsWait
<1>7. CASE EndOfSection \/ Link \/ ChunkBlock \/ Finish \/ UNCHANGED vars
  <2>1. /\ elements' = elements /\ pos' = pos /\ todo' = todo /\ blocks' = blocks
        /\ caption' = caption /\ hint' = hint
    BY <1>7 DEF EndOfSection, Link, ChunkBlock, Finish, vars, section, labels
  <2> QED BY <2>1 DEF LabelsInv, TablesInOrder, LabelsWait, Labelled, Clear, TableBlock, Before
<1> QED BY <1>1, <1>2, <1>3, <1>4, <1>5, <1>6, <1>7 DEF Next

(* Whatever the elements of a section are, what labels a table was written *)
(* right before it (pending_table_heading, _context_hint).                 *)
THEOREM LabelsAreAlwaysAdjacent == Spec => []LabelsAreAdjacent
<1>1. Init => LabelsInv
  BY DEF Init, LabelsInv, TablesInOrder, LabelsWait
<1>2. LabelsInv => LabelsAreAdjacent
  BY DEF LabelsInv, Labelled, LabelsAreAdjacent, Clear, TableBlock
<1> QED BY <1>1, <1>2, ReadingTyped, LabelsGoOn, PTL DEF Spec

-----------------------------------------------------------------------------
(* Headings and their places.                                              *)

(* The places follow the headings.                                         *)
Placed(s, src) ==
  /\ Entries(s) /\ IsList(src) /\ Len(src) = Len(s)
  /\ \A k \in DOMAIN s : src[k] = PlaceOf(s[k].at)

PlacesFollow ==
  /\ Placed(stack, sources)
  /\ label # None => IsEntry(label.head) /\ label.place = PlaceOf(label.head.at)

(* The key of a block under located headings is the list of their places.  *)
ScopesPlaced == \A b \in DOMAIN blocks : LocatedHeadings(blocks[b]) => blocks[b].scope = blocks[b].open

LEMMA AppendToStart ==
  ASSUME NEW s, NEW t, Entries(s), Start(t, s), NEW x
  PROVE  /\ IsList(t) /\ Len(t) \in 0..Len(s) /\ Len(s) \in Nat
         /\ \A k \in 1..Len(t) : k \in DOMAIN s /\ t[k] = s[k]
         /\ IsList(Append(t, x)) /\ Len(Append(t, x)) = Len(t) + 1
         /\ DOMAIN Append(t, x) = 1..(Len(t) + 1)
         /\ \A k \in 1..Len(t) : Append(t, x)[k] = s[k]
         /\ Append(t, x)[Len(t) + 1] = x
<1>1. PICK n \in 0..Len(s) : t = SubSeq(s, 1, n)
  BY DEF Start
<1>2. /\ IsList(t) /\ Len(t) = n /\ DOMAIN t = 1..n
      /\ \A k \in 1..n : k \in DOMAIN s /\ t[k] = s[k]
  BY <1>1, ListSub DEF Entries
<1>3. Len(s) \in Nat
  BY ListFacts DEF Entries
<1> QED BY <1>2, <1>3, ListAppend

LEMMA PushPlaces ==
  ASSUME NEW s, NEW src, Placed(s, src), NEW h, IsEntry(h)
  PROVE  LET p == Push(s, src, h, PlaceOf(h.at)) IN Placed(p.stack, p.sources)
<1> DEFINE next == PushHeading(s, h)
           place == PlaceOf(h.at)
           kept == SubSeq(src, 1, Len(next) - 1)
           after == Append(kept, place)
<1>1. PICK t : Start(t, s) /\ next = Append(t, h)
  BY PushKeepsStart DEF Placed
<1>2. /\ Len(t) \in 0..Len(s) /\ Len(s) \in Nat /\ IsList(next) /\ Len(next) = Len(t) + 1
      /\ DOMAIN next = 1..(Len(t) + 1)
      /\ \A k \in 1..Len(t) : k \in DOMAIN s /\ next[k] = s[k]
      /\ next[Len(t) + 1] = h
  BY <1>1, AppendToStart DEF Placed
<1> HIDE DEF next
<1>3. Len(next) - 1 = Len(t) /\ Len(t) \in 0..Len(src)
  BY <1>2 DEF Placed
<1>4. /\ IsList(kept) /\ Len(kept) = Len(t) /\ DOMAIN kept = 1..Len(t)
      /\ \A k \in 1..Len(t) : kept[k] = src[k]
  <2> PICK m : m = Len(t)
    OBVIOUS
  <2>1. m \in 0..Len(src) /\ kept = SubSeq(src, 1, m)
    BY <1>3
  <2> QED BY <2>1, ListSub DEF Placed
<1> HIDE DEF kept, place
<1>5. /\ IsList(after) /\ Len(after) = Len(t) + 1
      /\ \A k \in 1..Len(t) : after[k] = src[k]
      /\ after[Len(t) + 1] = place
  BY <1>4, ListAppend
<1> HIDE DEF after
<1>6. \A k \in DOMAIN next : k \in 1..Len(t) \/ k = Len(t) + 1
  BY <1>2
<1>7. Entries(next)
  BY <1>2, <1>6 DEF Entries, Placed
<1>8. \A k \in DOMAIN next : after[k] = PlaceOf(next[k].at)
  BY <1>2, <1>5, <1>6 DEF Placed, place
<1>9. Placed(next, after)
  BY <1>2, <1>5, <1>7, <1>8 DEF Placed
<1> QED BY <1>9 DEF Push, next, after, kept, place

LEMMA HeadingRead ==
  ASSUME Reading, NEW kind \in {"lead", "heading"}, Item(kind)
  PROVE  LET item == Head(todo)
         IN  /\ item.at \in Nat \X Nat /\ item.head.level \in 0..5
             /\ Located(item) = PlaceOf(item.at)
<1> DEFINE item == Head(todo)
<1>1. /\ pos \in DOMAIN elements /\ pos \in Nat /\ elements[pos].tag = "P"
      /\ item.do = kind /\ IsTodoItem(item, pos)
  BY ItemRead DEF IsTodoItem
<1> HIDE DEF item
<1>2. PICK j \in DOMAIN elements[pos].parts :
        item.at = <<pos, j>> /\ item.head = elements[pos].parts[j] /\ item.head.kind = "heading"
  BY <1>1 DEF IsTodoItem
<1>3. j \in Nat /\ IsPart(item.head)
  BY <1>1, <1>2, PartFacts DEF Reading
<1>4. item.head.level \in 0..5
  BY <1>2, <1>3 DEF IsPart
<1>5. Located(item) = PlaceOf(item.at)
  BY <1>2 DEF Located, PlaceOf
<1>6. item.at \in Nat \X Nat
  BY <1>1, <1>2, <1>3
<1> QED BY <1>4, <1>5, <1>6 DEF item

LEMMA OpenPlaces ==
  ASSUME Reading, PlacesFollow, NEW kind \in {"lead", "heading"}, Item(kind), OpenHeading(Head(todo)),
         elements' = elements
  PROVE  PlacesFollow'
<1> DEFINE item == Head(todo)
           h == item.head
           entry == [level |-> h.level, name |-> h.name, at |-> item.at]
           under == IF label # None /\ Promotes(h) THEN Push(stack, sources, label.head, label.place)
                    ELSE [stack |-> stack, sources |-> sources]
           now == Push(under.stack, under.sources, entry, Located(item))
<1>1. item.at \in Nat \X Nat /\ h.level \in 0..5 /\ Located(item) = PlaceOf(item.at)
  BY HeadingRead
<1>2. IsEntry(entry) /\ Located(item) = PlaceOf(entry.at)
  BY <1>1 DEF IsEntry
<1>3. stack' = now.stack /\ sources' = now.sources /\ label' = None
  BY DEF OpenHeading
<1> HIDE DEF item, h, entry
<1>4. Placed(under.stack, under.sources)
  <2>1. CASE label # None /\ Promotes(h)
    <3>1. IsEntry(label.head) /\ label.place = PlaceOf(label.head.at)
      BY <2>1 DEF PlacesFollow
    <3> QED BY <2>1, <3>1, PushPlaces DEF PlacesFollow
  <2>2. CASE ~(label # None /\ Promotes(h))
    BY <2>2 DEF PlacesFollow
  <2> QED BY <2>1, <2>2
<1> HIDE DEF under
<1>5. Placed(now.stack, now.sources)
  BY <1>2, <1>4, PushPlaces
<1> HIDE DEF now
<1>6. Placed(stack, sources)'
  BY <1>3, <1>5 DEF Placed, Entries, IsList, IsEntry, PlaceOf
<1> QED BY <1>3, <1>6 DEF PlacesFollow

LEMMA BlockPlaced ==
  ASSUME PlacesFollow,
         NEW type, NEW at, NEW size, NEW whole, NEW forward, NEW named, NEW unit
  PROVE  LET b == Block(type, at, size, whole, forward, named, unit)
         IN  LocatedHeadings(b) => b.scope = b.open
<1> DEFINE b == Block(type, at, size, whole, forward, named, unit)
           open == [i \in DOMAIN stack |-> stack[i].at]
<1>1. b.open = open /\ b.scope = ScopeKey
  BY DEF Block
<1> HIDE DEF b
<1> SUFFICES ASSUME LocatedHeadings(b) PROVE ScopeKey = open
  BY <1>1 DEF b
<1>2. /\ DOMAIN stack = 1..Len(stack) /\ Len(stack) \in Nat /\ Len(sources) = Len(stack)
      /\ sources \in Seq(Range(sources)) /\ DOMAIN sources = 1..Len(sources)
      /\ \A k \in DOMAIN stack : stack[k].at \in Nat \X Nat /\ sources[k] = PlaceOf(stack[k].at)
  BY ListFacts DEF PlacesFollow, Placed, Entries, IsEntry, IsList
<1>3. \A k \in DOMAIN stack : sources[k] = stack[k].at
  <2>1. \A k \in DOMAIN stack : elements[stack[k].at[1]].parts[stack[k].at[2]].located
    BY <1>1 DEF LocatedHeadings
  <2> QED BY <1>2, <2>1 DEF PlaceOf
<1>4. sources \in Seq(Nat \X Nat)
  BY <1>2, <1>3
<1>5. ScopeKey = sources
  BY <1>4, KeyOfPlaces, ParseConstants
<1>6. sources = open
  BY <1>2, <1>3
<1> QED BY <1>5, <1>6

LEMMA PlacesGoOn ==
  ASSUME Reading, PlacesFollow, ScopesPlaced, [Next]_vars
  PROVE  PlacesFollow' /\ ScopesPlaced'
<1>1. ASSUME elements' = elements, stack' = stack, sources' = sources, label' \in {None, label}
      PROVE  PlacesFollow'
  BY <1>1 DEF PlacesFollow, Placed, Entries, IsList, IsEntry, PlaceOf
<1>2. ASSUME elements' = elements, blocks' = blocks
      PROVE  ScopesPlaced'
  BY <1>2 DEF ScopesPlaced, LocatedHeadings
<1>3. ASSUME elements' = elements, NEW new, blocks' = Append(blocks, new),
             LocatedHeadings(new) => new.scope = new.open
      PROVE  ScopesPlaced'
  <2>1. \A b \in DOMAIN blocks' : (b \in DOMAIN blocks /\ blocks'[b] = blocks[b]) \/ blocks'[b] = new
    BY <1>3, BlockAdded DEF Reading
  <2> QED BY <1>3, <2>1 DEF ScopesPlaced, LocatedHeadings
<1>4. ASSUME NEW kind \in {"lead", "heading"}, Item(kind), elements' = elements, stack' = stack,
             sources' = sources,
             label' = [head |-> [level |-> 0, name |-> Head(todo).head.name, at |-> Head(todo).at],
                       place |-> Located(Head(todo))]
      PROVE  PlacesFollow'
  <2> DEFINE item == Head(todo)
             head == [level |-> 0, name |-> item.head.name, at |-> item.at]
  <2>1. item.at \in Nat \X Nat /\ Located(item) = PlaceOf(item.at)
    BY <1>4, HeadingRead
  <2>2. label'.head = head /\ label'.place = PlaceOf(item.at) /\ head.at = item.at /\ head.level = 0
    BY <1>4, <2>1
  <2> HIDE DEF item, head
  <2>3. (IsEntry(label.head) /\ label.place = PlaceOf(label.head.at))'
    BY <1>4, <2>1, <2>2 DEF IsEntry, PlaceOf
  <2>4. Placed(stack, sources)'
    BY <1>4 DEF PlacesFollow, Placed, Entries, IsList, IsEntry, PlaceOf
  <2> QED BY <2>3, <2>4 DEF PlacesFollow
<1>5. CASE LeadHeading
  <2>1. Item("lead") /\ elements' = elements /\ blocks' = blocks
    BY <1>5 DEF LeadHeading, section
  <2>2. \/ stack' = stack /\ sources' = sources /\ label' = label
        \/ OpenHeading(Head(todo))
        \/ /\ stack' = stack /\ sources' = sources
           /\ label' = [head |-> [level |-> 0, name |-> Head(todo).head.name, at |-> Head(todo).at],
                        place |-> Located(Head(todo))]
    BY <1>5 DEF LeadHeading, heads
  <2> QED BY <1>1, <1>2, <1>4, <2>1, <2>2, OpenPlaces
<1>6. CASE BodyHeading
  <2>1. Item("heading") /\ elements' = elements /\ blocks' = blocks
    BY <1>6 DEF BodyHeading, section
  <2>2. \/ stack' = stack /\ sources' = sources /\ label' = label
        \/ OpenHeading(Head(todo))
        \/ /\ stack' = stack /\ sources' = sources
           /\ label' = [head |-> [level |-> 0, name |-> Head(todo).head.name, at |-> Head(todo).at],
                        place |-> Located(Head(todo))]
    BY <1>6 DEF BodyHeading, heads
  <2> QED BY <1>1, <1>2, <1>4, <2>1, <2>2, OpenPlaces
<1>7. CASE BodyText
  <2>1. /\ elements' = elements /\ stack' = stack /\ sources' = sources /\ label' \in {None, label}
        /\ \E at, size, whole, forward :
             blocks' = Append(blocks, Block("paragraph", at, size, whole, forward, None, None))
    BY <1>7 DEF BodyText, section, heads
  <2>2. PICK at, size, whole, forward :
          blocks' = Append(blocks, Block("paragraph", at, size, whole, forward, None, None))
    BY <2>1
  <2> QED BY <1>1, <1>3, <2>1, <2>2, BlockPlaced
<1>8. CASE ReadTable
  <2>1. /\ elements' = elements /\ stack' = stack /\ sources' = sources /\ label' \in {None, label}
        /\ \/ blocks' = blocks
           \/ \E at, size, forward :
                blocks' = Append(blocks, Block("table", at, size, TRUE, forward, caption, hint))
    BY <1>8 DEF ReadTable, section, heads
  <2>2. CASE blocks' = blocks
    BY <1>1, <1>2, <2>1, <2>2
  <2>3. ASSUME NEW at, NEW size, NEW forward,
               blocks' = Append(blocks, Block("table", at, size, TRUE, forward, caption, hint))
        PROVE  ScopesPlaced'
    BY <1>3, <2>1, <2>3, BlockPlaced
  <2> QED BY <1>1, <2>1, <2>2, <2>3
<1>9. CASE Timeout
  <2>1. stack' = <<>> /\ sources' = <<>> /\ label' = None /\ blocks' = <<>>
    BY <1>9 DEF Timeout, Restarted
  <2>2. Placed(<<>>, <<>>)
    BY EmptyList DEF Placed, Entries
  <2>3. Placed(stack, sources)'
    BY <2>1, <2>2 DEF Placed, Entries, IsList
  <2> QED BY <2>1, <2>3 DEF PlacesFollow, ScopesPlaced
<1>10. CASE NextElement \/ EndOfSection \/ Link \/ ChunkBlock \/ Finish \/ UNCHANGED vars
  <2>1. /\ elements' = elements /\ stack' = stack /\ sources' = sources /\ label' = label
        /\ blocks' = blocks
    BY <1>10 DEF NextElement, EndOfSection, Link, ChunkBlock, Finish, vars, section, labels, heads
  <2> QED BY <1>1, <1>2, <2>1
<1> QED BY <1>5, <1>6, <1>7, <1>8, <1>9, <1>10 DEF Next

(* Every open heading has the place it was found at beside it, and the key *)
(* of a block names the places of its headings if they all have one        *)
(* (push_located_heading, heading_scope_key).                              *)
THEOREM PlacesAlwaysFollow == Spec => [](PlacesFollow /\ ScopesPlaced)
<1>1. Init => PlacesFollow /\ ScopesPlaced
  <2> SUFFICES ASSUME Init PROVE PlacesFollow /\ ScopesPlaced
    OBVIOUS
  <2>1. Placed(<<>>, <<>>)
    BY EmptyList DEF Placed, Entries
  <2> QED BY <2>1 DEF Init, PlacesFollow, ScopesPlaced
<1> QED BY <1>1, ReadingTyped, PlacesGoOn, PTL DEF Spec

-----------------------------------------------------------------------------
(* Chunks.                                                                 *)

(* Block i stands over block t: what is between them are tables under the  *)
(* headings of block i.                                                    *)
StandsOver(i, t) ==
  /\ i \in DOMAIN blocks /\ blocks[i].type = "paragraph"
  /\ \A k \in DOMAIN blocks : i < k /\ k <= t =>
       /\ TableBlock(blocks[k])
       /\ blocks[k].enclosing = blocks[i].enclosing
       /\ blocks[k].scope = blocks[i].scope

ContextStands(context, i) == context # 0 /\ context \notin prefixes => StandsOver(context, i)

(* A block that waits has the context it must have, and is no table that   *)
(* gets a chunk of its own.                                                *)
Waits(p) ==
  /\ p.block \in DOMAIN blocks /\ p.block <= taken
  /\ ~Standalone(p.block)
  /\ ContextStands(p.context, p.block)
  /\ TableBlock(blocks[p.block]) /\ p.block - 1 \in prefixes => p.context = p.block - 1

(* What waits to be chunked is the start of a chunk: one scope, one table, *)
(* no caption but as its first block, and of two blocks or more no more    *)
(* than fits without a cut.                                                *)
PendingStarts ==
  /\ IsList(pending)
  /\ Len(pending) > 1 => Size(pending) <= ChunkSize
  /\ \A k \in DOMAIN pending :
       Waits(pending[k]) /\ blocks[pending[k].block].scope = blocks[pending[1].block].scope
  /\ \A k, l \in DOMAIN pending : k < l =>
       /\ pending[k].block < pending[l].block
       /\ pending[l].block \notin prefixes
       /\ TableBlock(blocks[pending[k].block]) => ~TableBlock(blocks[pending[l].block])

(* The last paragraph stands over the tables that may take it.             *)
NearestStands ==
  nearest.block # 0 =>
    /\ StandsOver(nearest.block, taken)
    /\ nearest.heading = blocks[nearest.block].enclosing
    /\ nearest.scope = blocks[nearest.block].scope

ChunkStands(c) ==
  /\ Range(c.of) \subseteq DOMAIN blocks
  /\ \A i, j \in Range(c.of) :
       /\ blocks[i].scope = blocks[j].scope
       /\ i < j /\ TableBlock(blocks[i]) => blocks[j].type = "paragraph" /\ j \notin prefixes
  /\ ContextStands(c.context, c.table)
  /\ c.table - 1 \in prefixes => c.context = c.table - 1

ChunksStand(cs) == IsList(cs) /\ \A n \in DOMAIN cs : ChunkStands(cs[n])

Chunking ==
  /\ taken \in Nat /\ taken <= Len(blocks)
  /\ phase \in {"collect", "link"} =>
       taken = 0 /\ pending = <<>> /\ chunks = <<>> /\ nearest.block = 0
  /\ phase \notin {"collect", "link"} => prefixes \subseteq DOMAIN blocks
  /\ PendingStarts /\ NearestStands /\ ChunksStand(chunks)

LEMMA ChunksJoin ==
  ASSUME NEW cs, NEW ds, ChunksStand(cs), ChunksStand(ds)
  PROVE  ChunksStand(cs \o ds)
<1>1. \A c \in Range(cs) \cup Range(ds) : ChunkStands(c)
  BY DEF ChunksStand, Range
<1>2. IsList(cs \o ds) /\ \A k \in DOMAIN (cs \o ds) : (cs \o ds)[k] \in Range(cs) \cup Range(ds)
  BY ListConcat DEF ChunksStand
<1> DEFINE es == cs \o ds
<1> HIDE DEF es
<1>3. ChunksStand(es)
  BY <1>1, <1>2 DEF ChunksStand, es
<1> QED BY <1>3 DEF es

(* The pieces of a chunk are as good as the chunk, unless it is a table    *)
(* under its caption that would lose it.                                   *)
LEMMA CutStands ==
  ASSUME NEW of, NEW heading, NEW scope, NEW table, NEW context, NEW size, NEW kept \in BOOLEAN,
         ChunkStands([of |-> of, heading |-> heading, scope |-> scope, table |-> table,
                      context |-> context, piece |-> "whole"]),
         kept \/ size <= ChunkSize \/ table - 1 \notin prefixes
  PROVE  ChunksStand(Cut([of |-> of, heading |-> heading, scope |-> scope, table |-> table,
                          context |-> context, piece |-> "whole"], size, kept))
<1> DEFINE c == [of |-> of, heading |-> heading, scope |-> scope, table |-> table,
                 context |-> context, piece |-> "whole"]
           first == [c EXCEPT !.piece = "first"]
           rest == [c EXCEPT !.piece = "rest", !.context = IF kept THEN @ ELSE 0]
<1>1. Cut(c, size, kept) = IF size <= ChunkSize THEN << c >> ELSE << first, rest >>
  BY DEF Cut
<1>2. /\ first.of = of /\ first.table = table /\ first.context = context
      /\ rest.of = of /\ rest.table = table /\ rest.context = (IF kept THEN context ELSE 0)
      /\ c.of = of /\ c.table = table /\ c.context = context
  OBVIOUS
<1> HIDE DEF c, first, rest
<1>3. ChunkStands(first)
  BY <1>2 DEF ChunkStands, c
<1>4. ASSUME ~(size <= ChunkSize) PROVE ChunkStands(rest)
  <2>1. CASE kept
    BY <1>2, <2>1 DEF ChunkStands, c
  <2>2. CASE ~kept
    BY <1>2, <1>4, <2>2 DEF ChunkStands, ContextStands, c
  <2> QED BY <2>1, <2>2
<1>5. IsList(<< c >>) /\ IsList(<< first, rest >>)
  <2>1. << c >> \in Seq({c}) /\ << first, rest >> \in Seq({first, rest})
    OBVIOUS
  <2> QED BY <2>1, ListOf
<1>6. ChunkStands(c)
  BY DEF c
<1>7. ChunksStand(Cut(c, size, kept))
  BY <1>1, <1>3, <1>4, <1>5, <1>6 DEF ChunksStand
<1> QED BY <1>7 DEF c

LEMMA FlushedStands ==
  ASSUME Reading, Chunking, phase \notin {"collect", "link"}
  PROVE  ChunksStand(Flushed)
<1> DEFINE ts == TablesIn(pending)
           first == IF ts = {} THEN [block |-> 0, context |-> 0] ELSE pending[Min(ts)]
           of == [i \in DOMAIN pending |-> pending[i].block]
           heading == FirstHeading(pending)
           scope == blocks[pending[1].block].scope
           chunk == [of |-> of, heading |-> heading, scope |-> scope,
                     table |-> first.block, context |-> first.context, piece |-> "whole"]
<1>1. CASE pending = <<>>
  BY <1>1 DEF Flushed, Chunking
<1>2. CASE pending # <<>>
  <2>1. Flushed = chunks \o Cut(chunk, Size(pending), FALSE)
    BY <1>2 DEF Flushed
  <2>2. Len(pending) \in Nat /\ DOMAIN pending = 1..Len(pending) /\ pending \in Seq(Range(pending))
    BY ListFacts DEF Chunking, PendingStarts, IsList
  <2>3. ts # {} => Min(ts) \in ts
    <3>1. ts \in SUBSET Nat
      BY <2>2 DEF TablesIn
    <3> HIDE DEF ts
    <3>2. ASSUME ts # {} PROVE \E m \in ts : \A n \in ts : m <= n
      BY <3>1, <3>2, LeastNumber
    <3> QED BY <3>2 DEF Min
  <2>4. \/ first.block = 0 /\ first.context = 0 /\ ts = {}
        \/ \E m \in DOMAIN pending :
             first = pending[m] /\ TableBlock(blocks[pending[m].block])
    <3>1. CASE ts = {}
      BY <3>1
    <3>2. CASE ts # {}
      <4>1. first = pending[Min(ts)] /\ Min(ts) \in DOMAIN pending
            /\ TableBlock(blocks[pending[Min(ts)].block])
        BY <2>3, <3>2 DEF TablesIn, IsTableBlock, TableBlock
      <4> HIDE DEF ts, first
      <4> QED BY <4>1
    <3> QED BY <3>1, <3>2
  <2>5. \A i \in Range(of) : \E k \in DOMAIN pending : i = pending[k].block
    BY DEF Range
  <2> HIDE DEF of, heading, scope, first, ts
  <2>7. Range(of) \subseteq DOMAIN blocks
    BY <2>5 DEF Chunking, PendingStarts, Waits
  <2>8. \A i, j \in Range(of) : blocks[i].scope = blocks[j].scope
    BY <2>5 DEF Chunking, PendingStarts
  <2>9. ASSUME NEW i \in Range(of), NEW j \in Range(of), i < j, TableBlock(blocks[i])
        PROVE  blocks[j].type = "paragraph" /\ j \notin prefixes
    <3>1. PICK k \in DOMAIN pending : i = pending[k].block
      BY <2>5
    <3>2. PICK l \in DOMAIN pending : j = pending[l].block
      BY <2>5
    <3>3. i \in Nat /\ j \in Nat /\ k \in Nat /\ l \in Nat /\ j \in DOMAIN blocks
      <4>1. DOMAIN blocks = 1..Len(blocks)
        BY ListFacts DEF Reading
      <4> QED BY <2>2, <2>7, <4>1
    <3>4. k < l
      <4>1. CASE l < k
        <5>1. j < i
          BY <3>1, <3>2, <4>1 DEF Chunking, PendingStarts
        <5> QED BY <2>9, <3>3, <5>1
      <4>2. CASE l = k
        BY <2>9, <3>1, <3>2, <3>3, <4>2
      <4> QED BY <3>3, <4>1, <4>2
    <3>5. ~TableBlock(blocks[j]) /\ j \notin prefixes
      BY <2>9, <3>1, <3>2, <3>4 DEF Chunking, PendingStarts
    <3> QED BY <3>3, <3>5 DEF Reading, TableBlock
  <2>10. ContextStands(first.context, first.block)
    <3>1. CASE first.context = 0
      BY <3>1 DEF ContextStands
    <3>2. CASE \E m \in DOMAIN pending : first = pending[m]
      BY <3>2 DEF Chunking, PendingStarts, Waits
    <3> QED BY <2>4, <3>1, <3>2
  <2>11. ASSUME first.block - 1 \in prefixes
         PROVE  /\ first.context = first.block - 1
                /\ \E m \in DOMAIN pending : first = pending[m] /\ TableBlock(blocks[pending[m].block])
    <3>1. prefixes \subseteq 1..Len(blocks)
      BY ListFacts DEF Chunking, Reading
    <3>2. first.block # 0
      BY <2>11, <3>1
    <3>3. PICK m \in DOMAIN pending : first = pending[m] /\ TableBlock(blocks[pending[m].block])
      BY <2>4, <3>2
    <3> QED BY <2>11, <3>3 DEF Chunking, PendingStarts, Waits
  <2>12. ChunkStands(chunk)
    <3>1. chunk.of = of /\ chunk.table = first.block /\ chunk.context = first.context
      OBVIOUS
    <3> HIDE DEF chunk
    <3> QED BY <2>7, <2>8, <2>9, <2>10, <2>11, <3>1 DEF ChunkStands
  <2>13. Size(pending) <= ChunkSize \/ first.block - 1 \notin prefixes
    <3> SUFFICES ASSUME first.block - 1 \in prefixes, Len(pending) = 1
                 PROVE  Size(pending) <= ChunkSize
      <4>1. Len(pending) # 0
        BY <1>2, ListFacts DEF Chunking, PendingStarts
      <4>2. Len(pending) > 1 => Size(pending) <= ChunkSize
        BY DEF Chunking, PendingStarts
      <4> QED BY <2>2, <4>1, <4>2
    <3>1. PICK m \in DOMAIN pending : TableBlock(blocks[pending[m].block])
      BY <2>11
    <3>2. m = 1 /\ pending = << pending[1] >>
      <4>1. m \in 1..1
        BY <2>2
      <4> QED BY <4>1, ListOfOne DEF Chunking, PendingStarts
    <3> DEFINE p == pending[1]
    <3>3. /\ p.block \in DOMAIN blocks /\ ~Standalone(p.block) /\ blocks[p.block].size \in Nat
          /\ blocks[p.block].type = "table"
      BY <3>1, <3>2 DEF Chunking, PendingStarts, Waits, Reading, TableBlock
    <3>4. Size(<< p >>) = blocks[p.block].size
      BY <3>3, SizeOfOne
    <3>5. ~(blocks[p.block].size >= ChunkSize \div 2)
      BY <3>3 DEF Standalone
    <3>6. ChunkSize \in Nat \ {0}
      BY ParseConstants
    <3> QED BY <3>2, <3>3, <3>4, <3>5, <3>6
  <2>14. ChunksStand(Cut(chunk, Size(pending), FALSE))
    BY <2>12, <2>13, CutStands
  <2> QED BY <2>1, <2>14, ChunksJoin DEF Chunking
<1> QED BY <1>1, <1>2

LEMMA NearGoesOn ==
  ASSUME Reading, NearestStands, taken \in Nat, taken + 1 \in DOMAIN blocks
  PROVE  LET i == taken + 1
             n == Near(i)
         IN  n.block # 0 =>
               /\ StandsOver(n.block, i)
               /\ n.heading = blocks[n.block].enclosing
               /\ n.scope = blocks[n.block].scope
<1> DEFINE i == taken + 1
           b == blocks[i]
           n == Near(i)
           here == [block |-> 0, heading |-> b.enclosing, scope |-> b.scope]
<1>0. DOMAIN blocks \subseteq Nat /\ i \in Nat
  <2>1. DOMAIN blocks = 1..Len(blocks)
    BY ListFacts DEF Reading
  <2> QED BY <2>1
<1>1. CASE b.type = "paragraph"
  <2>1. n = [here EXCEPT !.block = i]
    BY <1>1 DEF Near
  <2>2. n.block = i /\ n.heading = b.enclosing /\ n.scope = b.scope
    BY <2>1
  <2> HIDE DEF n
  <2>3. \A k \in DOMAIN blocks : ~(i < k /\ k <= i)
    BY <1>0
  <2>4. StandsOver(n.block, i)
    BY <1>1, <2>2, <2>3 DEF StandsOver
  <2> QED BY <2>2, <2>4 DEF n
<1>2. CASE b.type # "paragraph" /\ n = here
  BY <1>2
<1>3. CASE b.type # "paragraph" /\ nearest.heading = b.enclosing /\ nearest.scope = b.scope /\ n = nearest
  <2> SUFFICES ASSUME nearest.block # 0
               PROVE  /\ StandsOver(nearest.block, i)
                      /\ nearest.heading = blocks[nearest.block].enclosing
                      /\ nearest.scope = blocks[nearest.block].scope
    BY <1>3
  <2>1. /\ StandsOver(nearest.block, taken)
        /\ nearest.heading = blocks[nearest.block].enclosing
        /\ nearest.scope = blocks[nearest.block].scope
    BY DEF NearestStands
  <2>2. \A k \in DOMAIN blocks : k <= i => k <= taken \/ k = i
    BY <1>0
  <2>3. TableBlock(b)
    BY <1>3 DEF Reading, TableBlock
  <2>4. StandsOver(nearest.block, i)
    BY <1>3, <2>1, <2>2, <2>3 DEF StandsOver
  <2> QED BY <2>1, <2>4
<1>4. b.type = "paragraph" \/ n = here
      \/ (nearest.heading = b.enclosing /\ nearest.scope = b.scope /\ n = nearest)
  BY DEF Near
<1> QED BY <1>1, <1>2, <1>3, <1>4

LEMMA ChunkBlockGoesOn ==
  ASSUME Reading, Chunking, ChunkBlock
  PROVE  Chunking'
<1> DEFINE i == taken + 1
           b == blocks[i]
           linked == i - 1 \in prefixes
           context == IF b.type = "paragraph" THEN 0
                      ELSE IF linked THEN i - 1 ELSE Near(i).block
           breaks == pending # <<>> /\ Breaks(i)
           done == IF breaks THEN Flushed ELSE chunks
           left == IF breaks THEN <<>> ELSE pending
           alone == [of |-> <<i>>, heading |-> b.heading, scope |-> b.scope, table |-> i,
                     context |-> context, piece |-> "whole"]
           new == [block |-> i, context |-> context]
<1>1. /\ phase = "chunk" /\ phase' = phase /\ taken < Len(blocks)
      /\ nearest' = Near(i) /\ taken' = i /\ blocks' = blocks /\ prefixes' = prefixes
      /\ IF Standalone(i)
         THEN chunks' = done \o Cut(alone, b.size, linked) /\ pending' = left
         ELSE chunks' = done /\ pending' = Append(left, new)
  BY DEF ChunkBlock
<1>2. /\ i \in DOMAIN blocks /\ DOMAIN blocks \subseteq Nat \ {0} /\ i \in Nat /\ i <= Len(blocks)
      /\ taken \in Nat
  <2>1. DOMAIN blocks = 1..Len(blocks) /\ Len(blocks) \in Nat
    BY ListFacts DEF Reading
  <2> QED BY <1>1, <2>1 DEF Chunking
<1>3. NearestStands'
  <2>1. Near(i).block # 0 =>
          /\ StandsOver(Near(i).block, i)
          /\ Near(i).heading = blocks[Near(i).block].enclosing
          /\ Near(i).scope = blocks[Near(i).block].scope
    BY <1>2, NearGoesOn DEF Chunking
  <2> HIDE DEF i
  <2> QED BY <1>1, <2>1 DEF NearestStands, StandsOver, TableBlock
<1>4. ContextStands(context, i)
  <2>1. Near(i).block # 0 => StandsOver(Near(i).block, i)
    BY <1>2, NearGoesOn DEF Chunking
  <2>2. context = 0 \/ context \in prefixes \/ context = Near(i).block
    OBVIOUS
  <2> HIDE DEF i, context
  <2> QED BY <2>1, <2>2 DEF ContextStands
<1>5. TableBlock(b) /\ linked => context = i - 1
  BY DEF TableBlock
<1> HIDE DEF context
<1>6. ChunksStand(done)
  <2>1. ChunksStand(Flushed)
    BY <1>1, FlushedStands
  <2> QED BY <2>1 DEF Chunking
<1>7. /\ IsList(left)
      /\ \A k \in DOMAIN left : k \in DOMAIN pending /\ left[k] = pending[k]
      /\ left = <<>> \/ (left = pending /\ ~Breaks(i))
  <2>1. CASE breaks
    <3>1. left = <<>>
      BY <2>1
    <3> QED BY <3>1, EmptyList
  <2>2. CASE ~breaks
    <3>1. left = pending /\ (pending = <<>> \/ ~Breaks(i))
      BY <2>2
    <3> HIDE DEF left
    <3> QED BY <3>1 DEF Chunking, PendingStarts
  <2> QED BY <2>1, <2>2
<1> HIDE DEF done, left
<1>8. CASE Standalone(i)
  <2>1. TableBlock(b)
    BY <1>8 DEF Standalone, TableBlock
  <2>2. ChunkStands(alone)
    <3>1. /\ alone.of = <<i>> /\ alone.table = i /\ alone.context = context
          /\ Range(<<i>>) = {i}
      BY DEF Range
    <3> HIDE DEF alone
    <3>2. ~(i < i) /\ (i - 1 \in prefixes => context = i - 1)
      BY <1>2, <1>5, <2>1
    <3> HIDE DEF i
    <3> QED BY <1>2, <1>4, <3>1, <3>2 DEF ChunkStands
  <2>3. ChunksStand(Cut(alone, b.size, linked))
    <3>1. linked \in BOOLEAN
      OBVIOUS
    <3>2. linked \/ ~(i - 1 \in prefixes /\ Len(<<i>>) = 1)
      OBVIOUS
    <3> PICK kept \in BOOLEAN : kept = linked
      BY <3>1
    <3>3. kept \/ ~(i - 1 \in prefixes /\ Len(<<i>>) = 1)
      BY <3>2
    <3> HIDE DEF linked, i, b
    <3> QED BY <2>2, <3>3, CutStands
  <2>4. ChunksStand(chunks')
    BY <1>1, <1>6, <1>8, <2>3, ChunksJoin
  <2>5. ChunksStand(chunks)'
    BY <1>1, <2>4 DEF ChunksStand, ChunkStands, ContextStands, StandsOver, IsList, TableBlock
  <2>6. pending' = left
    BY <1>1, <1>8
  <2>7. PendingStarts'
    <3>1. left = <<>> \/ left = pending
      BY <1>7
    <3>2. CASE left = <<>>
      <4>1. pending' = <<>>
        BY <2>6, <3>2
      <4>2. IsList(pending)'
        BY <4>1, EmptyList DEF IsList
      <4> QED BY <4>1, <4>2, EmptyList DEF PendingStarts
    <3>3. CASE left = pending
      <4>1. pending' = pending /\ taken <= taken'
        BY <1>1, <1>2, <2>6, <3>3
      <4>2. \A k \in DOMAIN pending : pending[k].block \in Nat /\ pending[k].block <= taken'
        BY <1>1, <1>2 DEF Chunking, PendingStarts, Waits
      <4>3. Size(pending)' = Size(pending)
        BY <1>1, <4>1, SizeSame
      <4> HIDE DEF i
      <4> QED BY <1>1, <4>1, <4>2, <4>3 DEF Chunking, PendingStarts, Waits, Standalone,
                                            ContextStands, StandsOver, IsList, TableBlock
    <3> QED BY <3>1, <3>2, <3>3
  <2> HIDE DEF i
  <2> QED BY <1>1, <1>2, <1>3, <2>5, <2>7 DEF Chunking
<1>9. CASE ~Standalone(i)
  <2>1. chunks' = done /\ pending' = Append(left, new)
    BY <1>1, <1>9
  <2>2. ChunksStand(chunks)'
    BY <1>1, <1>6, <2>1 DEF ChunksStand, ChunkStands, ContextStands, StandsOver, IsList, TableBlock
  <2> PICK m : m = Len(left) + 1
    OBVIOUS
  <2>3. /\ IsList(Append(left, new))
        /\ Len(left) \in Nat /\ DOMAIN left = 1..Len(left)
        /\ DOMAIN pending' = 1..m
        /\ \A k \in DOMAIN left : pending'[k] = pending[k] /\ k < m
        /\ pending'[m] = new
    BY <1>7, <2>1, ListAppend, ListFacts
  <2>4. IsList(pending)'
    BY <2>1, <2>3 DEF IsList
  <2>5. \A k \in DOMAIN pending' : k \in DOMAIN left \/ k = m
    BY <2>3
  <2>6. new.block = i /\ new.context = context
    OBVIOUS
  <2> HIDE DEF new
  <2>7. ASSUME NEW k \in DOMAIN left
        PROVE  Waits(pending[k])' /\ pending[k].block \in Nat /\ pending[k].block < i
    <3>1. Waits(pending[k]) /\ pending'[k] = pending[k]
      BY <1>7, <2>3 DEF Chunking, PendingStarts
    <3>2. pending[k].block \in Nat /\ pending[k].block <= taken' /\ pending[k].block < i
      BY <1>1, <1>2, <3>1 DEF Waits
    <3> HIDE DEF i
    <3> QED BY <1>1, <3>1, <3>2 DEF Waits, Standalone, ContextStands, StandsOver, TableBlock
  <2>8. (Waits(pending[m]))'
    <3>1. i <= taken' /\ (i - 1 \in prefixes /\ TableBlock(b) => context = i - 1)
      BY <1>1, <1>2, <1>5
    <3> HIDE DEF i
    <3>2. pending'[m].block = i /\ pending'[m].context = context
      BY <2>3, <2>6
    <3> QED BY <1>1, <1>2, <1>4, <1>9, <3>1, <3>2
         DEF Waits, Standalone, ContextStands, StandsOver, TableBlock
  <2>9. ASSUME left # <<>>
        PROVE  /\ 1 \in DOMAIN left /\ left = pending /\ i \notin prefixes
               /\ Size(pending) + b.size <= ChunkSize
               /\ blocks[pending[1].block].scope = b.scope
               /\ \A k \in DOMAIN pending : TableBlock(blocks[pending[k].block]) => ~TableBlock(b)
    <3>1. left = pending /\ ~Breaks(i)
      BY <1>7, <2>9
    <3>2. /\ i \notin prefixes /\ blocks[pending[1].block].scope = b.scope
          /\ b.type = "table" => TablesIn(pending) = {}
      BY <3>1 DEF Breaks
    <3>3. 1 \in DOMAIN left
      <4>1. Len(left) # 0
        BY <1>7, <2>9, ListFacts
      <4> QED BY <2>3, <4>1
    <3>4. Size(pending) + b.size <= ChunkSize
      <4>1. ~(Size(pending) + b.size > ChunkSize)
        BY <3>1 DEF Breaks
      <4>2. Size(pending) \in Nat /\ b.size \in Nat
        <5>1. Sized(pending)
          BY DEF Chunking, PendingStarts, Waits, Reading, Sized
        <5>2. b.size \in Nat
          BY <1>2 DEF Reading
        <5> QED BY <5>1, <5>2, <2>6, SizeOfMore DEF Chunking, PendingStarts
      <4> QED BY <4>1, <4>2, ParseConstants
    <3> QED BY <3>1, <3>2, <3>3, <3>4 DEF TablesIn, IsTableBlock, TableBlock
  <2>10. \A k \in DOMAIN pending' :
           blocks'[pending'[k].block].scope = blocks'[pending'[1].block].scope
    <3>1. CASE left = <<>>
      <4>1. \A k \in DOMAIN pending' : k = 1
        <5>1. m = 1
          BY <3>1, EmptyList
        <5> QED BY <2>3, <5>1
      <4> QED BY <4>1
    <3>2. CASE left # <<>>
      <4>1. pending'[1] = pending[1]
        BY <2>3, <2>9, <3>2
      <4>2. \A k \in DOMAIN left : blocks[pending[k].block].scope = blocks[pending[1].block].scope
        BY <1>7 DEF Chunking, PendingStarts
      <4>3. blocks[new.block].scope = blocks[pending[1].block].scope
        BY <2>6, <2>9, <3>2
      <4> QED BY <1>1, <2>3, <2>5, <4>1, <4>2, <4>3
    <3> QED BY <3>1, <3>2
  <2>11. ASSUME NEW k \in DOMAIN pending', NEW l \in DOMAIN pending', k < l
         PROVE  /\ pending'[k].block < pending'[l].block
                /\ pending'[l].block \notin prefixes
                /\ TableBlock(blocks[pending'[k].block]) => ~TableBlock(blocks[pending'[l].block])
    <3>1. k \in DOMAIN left
      <4>1. CASE k = m
        BY <2>3, <2>11, <4>1
      <4> QED BY <2>5, <4>1
    <3>2. left # <<>> /\ left = pending /\ k \in DOMAIN pending
      <4>1. left # <<>>
        BY <3>1, EmptyList
      <4> QED BY <2>9, <3>1, <4>1
    <3>3. CASE l \in DOMAIN left
      <4>1. pending'[k] = pending[k] /\ pending'[l] = pending[l] /\ l \in DOMAIN pending
        BY <2>3, <3>1, <3>2, <3>3
      <4> QED BY <2>11, <3>2, <4>1 DEF Chunking, PendingStarts
    <3>4. CASE l = m
      <4>1. pending'[k] = pending[k] /\ pending'[l].block = i
        BY <2>3, <2>6, <3>1, <3>4
      <4> QED BY <2>7, <2>9, <3>1, <3>2, <4>1
    <3> QED BY <2>5, <3>3, <3>4
  <2>12. PendingStarts'
    <3>1. (\A k \in DOMAIN pending : Waits(pending[k]))'
      BY <2>5, <2>7, <2>8
    <3>2. (\A k, l \in DOMAIN pending : k < l =>
             /\ pending[k].block < pending[l].block
             /\ pending[l].block \notin prefixes
             /\ TableBlock(blocks[pending[k].block]) => ~TableBlock(blocks[pending[l].block]))'
      BY <1>1, <2>11 DEF TableBlock
    <3>3. (Len(pending) > 1 => Size(pending) <= ChunkSize)'
      <4> SUFFICES ASSUME Len(pending') > 1
                   PROVE  (Size(pending) <= ChunkSize)'
        OBVIOUS
      <4>1. left # <<>>
        <5>1. Len(Append(left, new)) = Len(left) + 1
          BY <1>7, ListAppend
        <5> QED BY <2>1, <5>1, EmptyList
      <4>2. Sized(pending)
        BY DEF Chunking, PendingStarts, Waits, Reading, Sized
      <4>3. blocks[new.block].size = b.size /\ b.size \in Nat
        BY <1>2, <2>6 DEF Reading
      <4>4. Size(Append(pending, new)) = Size(pending) + b.size
        BY <4>2, <4>3, SizeOfMore DEF Chunking, PendingStarts
      <4>5. Size(pending)' = Size(Append(pending, new))
        BY <1>1, <2>1, <2>9, <4>1, SizeSame
      <4> QED BY <2>9, <4>1, <4>4, <4>5
    <3> QED BY <2>4, <2>10, <3>1, <3>2, <3>3 DEF PendingStarts
  <2> HIDE DEF i
  <2> QED BY <1>1, <1>2, <1>3, <2>2, <2>12 DEF Chunking
<1> QED BY <1>8, <1>9

(* While blocks are collected nothing is chunked.                          *)
NothingChunked ==
  taken = 0 /\ pending = <<>> /\ chunks = <<>> /\ nearest.block = 0

LEMMA NothingStands ==
  ASSUME NothingChunked, IsList(blocks), phase \in {"collect", "link"} \/ prefixes \subseteq DOMAIN blocks
  PROVE  Chunking
<1>1. 0 \in Nat /\ 0 <= Len(blocks)
  BY ListFacts
<1> QED BY <1>1, EmptyList
     DEF NothingChunked, Chunking, PendingStarts, NearestStands, ChunksStand

LEMMA ChunkingGoesOn ==
  ASSUME Reading, Reading', Chunking, [Next]_vars
  PROVE  Chunking'
<1>1. ASSUME phase \in {"collect", "link"}, UNCHANGED <<taken, pending, chunks, nearest>>,
             phase' \in {"collect", "link"} \/ prefixes' \subseteq DOMAIN blocks'
      PROVE  Chunking'
  <2>1. NothingChunked'
    BY <1>1 DEF Chunking, NothingChunked
  <2>2. 0 \in Nat /\ 0 <= Len(blocks')
    BY ListFacts DEF Reading, IsList
  <2>3. PendingStarts'
    BY <2>1, EmptyList DEF NothingChunked, PendingStarts, IsList
  <2>4. ChunksStand(chunks)'
    BY <2>1, EmptyList DEF NothingChunked, ChunksStand, IsList
  <2> QED BY <1>1, <2>1, <2>2, <2>3, <2>4 DEF NothingChunked, Chunking, NearestStands
<1>2. CASE NextElement \/ LeadHeading \/ BodyHeading \/ BodyText \/ ReadTable \/ EndOfSection \/ Timeout
  <2>1. /\ phase \in {"collect", "link"} /\ phase' \in {"collect", "link"}
        /\ UNCHANGED <<taken, pending, chunks, nearest>>
    BY <1>2 DEF NextElement, LeadHeading, BodyHeading, BodyText, ReadTable, EndOfSection, Timeout,
                Item, packing
  <2> QED BY <1>1, <2>1
<1>3. CASE Link
  <2>1. /\ phase = "link" /\ UNCHANGED <<taken, pending, chunks, nearest>>
        /\ prefixes' \subseteq DOMAIN blocks'
    BY <1>3 DEF Link
  <2> QED BY <1>1, <2>1
<1>4. CASE ChunkBlock
  BY <1>4, ChunkBlockGoesOn
<1>5. CASE Finish
  <2>1. /\ phase = "chunk" /\ phase' = "done" /\ chunks' = Flushed /\ pending' = <<>>
        /\ blocks' = blocks /\ prefixes' = prefixes /\ taken' = taken /\ nearest' = nearest
    BY <1>5 DEF Finish
  <2>2. ChunksStand(Flushed)
    BY <2>1, FlushedStands
  <2>3. ChunksStand(chunks)'
    BY <2>1, <2>2 DEF ChunksStand, ChunkStands, ContextStands, StandsOver, IsList, TableBlock
  <2>4. IsList(pending)'
    BY <2>1, EmptyList DEF IsList
  <2>5. PendingStarts'
    BY <2>1, <2>4, EmptyList DEF PendingStarts
  <2> QED BY <2>1, <2>3, <2>5 DEF Chunking, NearestStands, StandsOver, TableBlock
<1>6. CASE UNCHANGED vars
  <2>1. /\ phase' = phase /\ blocks' = blocks /\ prefixes' = prefixes /\ taken' = taken
        /\ pending' = pending /\ nearest' = nearest /\ chunks' = chunks
    BY <1>6 DEF vars, packing
  <2>2. ChunksStand(chunks)'
    BY <2>1 DEF Chunking, ChunksStand, ChunkStands, ContextStands, StandsOver, IsList, TableBlock
  <2>3. PendingStarts'
    <3>1. Size(pending)' = Size(pending)
      BY <2>1, SizeSame
    <3> QED BY <2>1, <3>1 DEF Chunking, PendingStarts, Waits, Standalone, ContextStands, StandsOver,
                              IsList, TableBlock
  <2> QED BY <2>1, <2>2, <2>3 DEF Chunking, NearestStands, StandsOver, TableBlock
<1> QED BY <1>2, <1>3, <1>4, <1>5, <1>6 DEF Next

(* What waits is always the start of a chunk, and what was chunked stands. *)
LEMMA ChunkingAlwaysStands == Spec => []Chunking
<1>1. Init => Chunking
  <2> SUFFICES ASSUME Init PROVE Chunking
    OBVIOUS
  <2>1. NothingChunked /\ phase \in {"collect", "link"}
    BY DEF Init, NothingChunked
  <2>2. IsList(blocks)
    BY EmptyList DEF Init
  <2> QED BY <2>1, <2>2, NothingStands
<1> QED BY <1>1, ReadingTyped, ChunkingGoesOn, PTL DEF Spec

(* Whatever the elements of a section are, the paragraph a table takes as  *)
(* its context stands right over it (last_paragraph_context).              *)
THEOREM ContextIsAlwaysLocal == Spec => []ContextIsLocal
<1>1. Reading /\ ScopesPlaced /\ Chunking => ContextIsLocal
  <2> SUFFICES ASSUME Reading, ScopesPlaced, Chunking, NEW n \in DOMAIN chunks,
                      chunks[n].context # 0, chunks[n].context \notin prefixes
               PROVE  LET c == chunks[n]
                          between == {i \in DOMAIN blocks : c.context < i /\ i <= c.table}
                      IN  /\ blocks[c.context].type = "paragraph"
                          /\ \A i \in between :
                               /\ blocks[i].type = "table"
                               /\ blocks[i].enclosing = blocks[c.context].enclosing
                               /\ LocatedHeadings(blocks[i]) /\ LocatedHeadings(blocks[c.context])
                                    => blocks[i].open = blocks[c.context].open
    BY DEF ContextIsLocal
  <2>1. StandsOver(chunks[n].context, chunks[n].table)
    BY DEF Chunking, ChunksStand, ChunkStands, ContextStands
  <2>2. \A i, j \in DOMAIN blocks :
          blocks[i].scope = blocks[j].scope /\ LocatedHeadings(blocks[i]) /\ LocatedHeadings(blocks[j])
            => blocks[i].open = blocks[j].open
    BY DEF ScopesPlaced
  <2> QED BY <2>1, <2>2 DEF StandsOver, TableBlock
<1> QED BY <1>1, ReadingTyped, PlacesAlwaysFollow, ChunkingAlwaysStands, PTL

(* Blocks of one chunk stand under the same headings, as far as those      *)
(* could be located (the scope comparison of chunk_blocks).                *)
THEOREM ScopesAlwaysStayApart == Spec => []ScopesStayApart
<1>1. ScopesPlaced /\ Chunking => ScopesStayApart
  <2> SUFFICES ASSUME ScopesPlaced, Chunking, NEW n \in DOMAIN chunks,
                      NEW i \in Range(chunks[n].of), NEW j \in Range(chunks[n].of),
                      LocatedHeadings(blocks[i]), LocatedHeadings(blocks[j])
               PROVE  blocks[i].open = blocks[j].open
    BY DEF ScopesStayApart
  <2>1. /\ i \in DOMAIN blocks /\ j \in DOMAIN blocks
        /\ blocks[i].scope = blocks[j].scope
    BY DEF Chunking, ChunksStand, ChunkStands
  <2> QED BY <2>1 DEF ScopesPlaced
<1> QED BY <1>1, PlacesAlwaysFollow, ChunkingAlwaysStands, PTL

(* A linked caption is the context of its table, and no chunk holds two    *)
(* tables or a caption that trails (table_prefix_target, flush_pending).   *)
THEOREM CaptionsAlwaysMeetTheirTable == Spec => []CaptionsMeetTheirTable
<1>1. Chunking => CaptionsMeetTheirTable
  BY DEF Chunking, ChunksStand, ChunkStands, CaptionsMeetTheirTable, TableBlock
<1> QED BY <1>1, ChunkingAlwaysStands, PTL

-----------------------------------------------------------------------------
(* Flattening and mapping.                                                 *)

Agree(ss, tt, n) == \A k \in 1..n : ss[k] = tt[k]

LEMMA JoinsAgree ==
  ASSUME NEW V, NEW f, NEW g, NEW ss, NEW tt, NEW n \in Nat, NEW m \in Nat, n <= m,
         Joins(f, ss, n, V), Joins(g, tt, m, V), Agree(ss, tt, n)
  PROVE  f[n] = g[n]
<1> DEFINE G == {k \in 0..n : f[k] = g[k]}
<1>1. 0 \in G
  BY DEF Joins
<1>2. ASSUME NEW k \in 0..(n - 1), k \in G PROVE k + 1 \in G
  <2>1. k + 1 \in 1..n /\ k + 1 \in 1..m /\ (k + 1) - 1 = k /\ k + 1 \in 0..n
    OBVIOUS
  <2>2. f[k + 1] = f[k] \o ss[k + 1] /\ g[k + 1] = g[k] \o tt[k + 1]
    BY <2>1 DEF Joins
  <2> QED BY <1>2, <2>1, <2>2 DEF Agree
<1>3. Inductive(G, n)
  <2> HIDE DEF G
  <2> QED BY <1>1, <1>2 DEF Inductive
<1>4. n \in G
  <2> HIDE DEF G
  <2>1. \A k \in 0..n : k \in G
    BY <1>3, NatInductionUpTo
  <2> QED BY <2>1
<1> QED BY <1>4

(* What flattens to the parts of a whole flattens to the whole. *)
LEMMA FlattenConcat ==
  ASSUME NEW S, NEW ss \in Seq(Seq(S)), NEW tt \in Seq(Seq(S))
  PROVE  FlattenSeq(ss \o tt) = FlattenSeq(ss) \o FlattenSeq(tt)
<1> DEFINE V == Seq(S)
           N == Len(ss)
           M == Len(tt)
           uu == ss \o tt
<1>1. /\ N \in Nat /\ M \in Nat /\ uu \in Seq(V) /\ Len(uu) = N + M
      /\ \A k \in 1..N : uu[k] = ss[k]
      /\ \A k \in 1..M : uu[N + k] = tt[k]
      /\ \A k \in 1..M : tt[k] \in V
  <2> HIDE DEF V
  <2>1. ss \in Seq(V) /\ tt \in Seq(V)
    BY DEF V
  <2> QED BY <2>1
<1> HIDE DEF N, M, uu
<1>2. PICK f : Joins(f, ss, N, V) /\ f[N] = FlattenSeq(ss)
  BY FlattenJoins DEF N
<1>3. PICK g : Joins(g, tt, M, V) /\ g[M] = FlattenSeq(tt)
  BY FlattenJoins DEF M
<1>4. PICK h : Joins(h, uu, N + M, V) /\ h[N + M] = FlattenSeq(uu)
  BY <1>1, FlattenJoins
<1> HIDE DEF V
<1>5. f[N] = h[N]
  <2>1. N + M \in Nat /\ N <= N + M /\ Agree(ss, uu, N)
    BY <1>1 DEF Agree
  <2>2. Joins(f, ss, N, V) /\ Joins(h, uu, N + M, V) /\ N \in Nat
    BY <1>1, <1>2, <1>4
  <2> QED BY <2>1, <2>2, JoinsAgree
<1> DEFINE G == {k \in 0..M : h[N + k] = f[N] \o g[k]}
<1>6. 0 \in G
  <2>1. N \in 0..N /\ N + 0 = N /\ f[N] \in V /\ g[0] = <<>>
    BY <1>1, <1>2, <1>3 DEF Joins
  <2>2. f[N] \o <<>> = f[N]
    BY <2>1, ConcatEmptySeq DEF V
  <2>3. 0 \in 0..M /\ h[N + 0] = f[N] \o g[0]
    BY <1>1, <1>5, <2>1, <2>2
  <2> QED BY <2>3
<1>7. ASSUME NEW k \in 0..(M - 1), k \in G PROVE k + 1 \in G
  <2>1. /\ k + 1 \in 1..M /\ (k + 1) - 1 = k /\ k + 1 \in 0..M /\ k \in 0..M
        /\ N + (k + 1) \in 1..(N + M) /\ (N + (k + 1)) - 1 = N + k
    BY <1>1
  <2>2. g[k + 1] = g[k] \o tt[k + 1]
    BY <1>3, <2>1 DEF Joins
  <2>3. h[N + (k + 1)] = h[N + k] \o tt[k + 1]
    <3>1. h[N + (k + 1)] = h[(N + (k + 1)) - 1] \o uu[N + (k + 1)]
      BY <1>4, <2>1 DEF Joins
    <3> QED BY <1>1, <2>1, <3>1
  <2>4. f[N] \in V /\ g[k] \in V /\ tt[k + 1] \in V
    <3>1. N \in 0..N
      BY <1>1
    <3> QED BY <1>1, <1>2, <1>3, <2>1, <3>1 DEF Joins
  <2>5. (f[N] \o g[k]) \o tt[k + 1] = f[N] \o (g[k] \o tt[k + 1])
    <3>1. \A a, b, c \in V : (a \o b) \o c = a \o (b \o c)
      BY ConcatAssociative DEF V
    <3> QED BY <2>4, <3>1
  <2> QED BY <1>7, <2>1, <2>2, <2>3, <2>5
<1>8. Inductive(G, M)
  <2> HIDE DEF G
  <2> QED BY <1>6, <1>7 DEF Inductive
<1>9. M \in G
  <2> HIDE DEF G
  <2>1. \A k \in 0..M : k \in G
    BY <1>1, <1>8, NatInductionUpTo
  <2> QED BY <1>1, <2>1
<1> QED BY <1>2, <1>3, <1>4, <1>9 DEF uu

LEMMA FlattenOne ==
  ASSUME NEW S, NEW s \in Seq(S)
  PROVE  FlattenSeq(<< s >>) = s
<1> DEFINE V == Seq(S)
           ss == << s >>
<1>1. ss \in Seq(V) /\ Len(ss) = 1 /\ ss[1] = s /\ s \in V
  OBVIOUS
<1> HIDE DEF ss
<1>2. PICK f : Joins(f, ss, 1, V) /\ f[1] = FlattenSeq(ss)
  BY <1>1, FlattenJoins
<1>3. 1 \in 1..1 /\ 1 - 1 = 0
  OBVIOUS
<1>4. f[1] = <<>> \o s
  BY <1>1, <1>2, <1>3 DEF Joins
<1>5. <<>> \o s = s
  BY ConcatEmptySeq
<1> QED BY <1>2, <1>4, <1>5 DEF ss

LEMMA FlattenNone == FlattenSeq(<<>>) = <<>>
BY DEF FlattenSeq

LEMMA FlattenAppend ==
  ASSUME NEW S, NEW ss \in Seq(Seq(S)), NEW s \in Seq(S)
  PROVE  FlattenSeq(Append(ss, s)) = FlattenSeq(ss) \o s
<1> DEFINE V == Seq(S)
<1>1. << s >> \in Seq(V) /\ Append(ss, s) = ss \o << s >>
  <2> HIDE DEF V
  <2>1. ss \in Seq(V) /\ s \in V
    BY DEF V
  <2> QED BY <2>1
<1>2. FlattenSeq(ss \o << s >>) = FlattenSeq(ss) \o FlattenSeq(<< s >>)
  BY <1>1, FlattenConcat, Zenon
<1>3. FlattenSeq(<< s >>) = s
  BY FlattenOne, Zenon
<1> QED BY <1>1, <1>2, <1>3, Zenon

LEMMA FlattenTail ==
  ASSUME NEW S, NEW ss \in Seq(Seq(S)), ss # <<>>
  PROVE  ss[1] \in Seq(S) /\ Tail(ss) \in Seq(Seq(S)) /\ FlattenSeq(ss) = ss[1] \o FlattenSeq(Tail(ss))
<1> DEFINE V == Seq(S)
<1>1. ss[1] \in V /\ << ss[1] >> \in Seq(V) /\ Tail(ss) \in Seq(V) /\ ss = << ss[1] >> \o Tail(ss)
  <2> HIDE DEF V
  <2>1. ss \in Seq(V)
    BY DEF V
  <2>2. ss[1] \in V /\ Len(ss) \in Nat \ {0} /\ Tail(ss) \in Seq(V)
    BY <2>1
  <2>3. << ss[1] >> \in Seq(V) /\ Len(<< ss[1] >>) = 1 /\ << ss[1] >>[1] = ss[1]
    BY <2>2
  <2> DEFINE tt == << ss[1] >>
             uu == tt \o Tail(ss)
  <2>4. tt \in Seq(V) /\ Len(tt) = 1 /\ tt[1] = ss[1]
    BY <2>3
  <2> HIDE DEF tt
  <2>5. /\ Len(Tail(ss)) = Len(ss) - 1
        /\ \A k \in 1..Len(Tail(ss)) : Tail(ss)[k] = ss[k + 1]
    BY <2>1, HeadTailProperties
  <2>6. /\ uu \in Seq(V) /\ Len(uu) = Len(ss)
        /\ \A k \in 1..Len(ss) : uu[k] = IF k <= 1 THEN tt[k] ELSE Tail(ss)[k - 1]
    <3>1. Len(tt) + Len(Tail(ss)) = Len(ss)
      BY <2>2, <2>4, <2>5
    <3>2. /\ uu \in Seq(V) /\ Len(uu) = Len(tt) + Len(Tail(ss))
          /\ \A k \in 1..(Len(tt) + Len(Tail(ss))) :
               uu[k] = IF k <= Len(tt) THEN tt[k] ELSE Tail(ss)[k - Len(tt)]
      BY <2>2, <2>4, ConcatProperties
    <3> HIDE DEF uu
    <3> QED BY <2>4, <3>1, <3>2
  <2> HIDE DEF uu
  <2>7. \A k \in 1..Len(ss) : uu[k] = ss[k]
    <3>1. \A k \in 1..Len(ss) : k <= 1 => k = 1
      OBVIOUS
    <3>2. \A k \in 1..Len(ss) : ~(k <= 1) => k - 1 \in 1..Len(Tail(ss)) /\ (k - 1) + 1 = k
      BY <2>2, <2>5
    <3> QED BY <2>4, <2>5, <2>6, <3>1, <3>2
  <2>8. uu = ss
    BY <2>1, <2>6, <2>7, SeqEqual
  <2> QED BY <2>2, <2>4, <2>8 DEF uu, tt
<1>2. FlattenSeq(<< ss[1] >> \o Tail(ss)) = FlattenSeq(<< ss[1] >>) \o FlattenSeq(Tail(ss))
  BY <1>1, FlattenConcat, Zenon
<1>3. FlattenSeq(<< ss[1] >>) = ss[1]
  BY <1>1, FlattenOne, Zenon
<1>4. FlattenSeq(ss) = ss[1] \o FlattenSeq(Tail(ss))
  BY <1>1, <1>2, <1>3, Zenon
<1> QED BY <1>1, <1>4

(* Each element is replaced by a sequence. *)
Spread(g, s) == FlattenSeq([k \in DOMAIN s |-> g[s[k]]])

Spreads(g, A, B) == g \in [A -> Seq(B)]

LEMMA SpreadTyped ==
  ASSUME NEW A, NEW B, NEW g, Spreads(g, A, B), NEW s \in Seq(A)
  PROVE  /\ [k \in DOMAIN s |-> g[s[k]]] \in Seq(Seq(B))
         /\ Spread(g, s) \in Seq(B)
<1> DEFINE V == Seq(B)
<1>1. [k \in DOMAIN s |-> g[s[k]]] \in Seq(V)
  <2> HIDE DEF V
  <2>1. g \in [A -> V]
    BY DEF V, Spreads
  <2>2. Len(s) \in Nat /\ DOMAIN s = 1..Len(s) /\ \A k \in 1..Len(s) : g[s[k]] \in V
    BY <2>1
  <2> QED BY <2>2
<1> QED BY <1>1, FlattenDraws DEF Spread

LEMMA SpreadNone ==
  ASSUME NEW g
  PROVE  Spread(g, <<>>) = <<>>
<1>1. [k \in DOMAIN <<>> |-> g[<<>>[k]]] = <<>>
  OBVIOUS
<1> QED BY <1>1, FlattenNone DEF Spread

LEMMA SpreadOne ==
  ASSUME NEW A, NEW B, NEW g, Spreads(g, A, B), NEW a \in A
  PROVE  Spread(g, << a >>) = g[a]
<1> DEFINE s == << a >>
<1>1. DOMAIN s = 1..1 /\ s[1] = a
  OBVIOUS
<1> HIDE DEF s
<1>2. [k \in DOMAIN s |-> g[s[k]]] = << g[a] >>
  BY <1>1
<1>3. g[a] \in Seq(B)
  BY DEF Spreads
<1> QED BY <1>2, <1>3, FlattenOne DEF Spread, s

LEMMA SpreadConcat ==
  ASSUME NEW A, NEW B, NEW g, Spreads(g, A, B), NEW s \in Seq(A), NEW t \in Seq(A)
  PROVE  Spread(g, s \o t) = Spread(g, s) \o Spread(g, t)
<1> DEFINE V == Seq(B)
           gs == [k \in DOMAIN s |-> g[s[k]]]
           gt == [k \in DOMAIN t |-> g[t[k]]]
           u == s \o t
           gu == [k \in DOMAIN u |-> g[u[k]]]
           w == gs \o gt
<1>1. /\ u \in Seq(A) /\ Len(u) = Len(s) + Len(t) /\ Len(s) \in Nat /\ Len(t) \in Nat
      /\ \A k \in 1..(Len(s) + Len(t)) : u[k] = IF k <= Len(s) THEN s[k] ELSE t[k - Len(s)]
  BY ConcatProperties
<1>2. gs \in Seq(V) /\ gt \in Seq(V) /\ gu \in Seq(V)
  <2> HIDE DEF u
  <2>1. \A x \in Seq(A) : [k \in DOMAIN x |-> g[x[k]]] \in Seq(V)
    BY SpreadTyped DEF V
  <2> QED BY <1>1, <2>1, Zenon
<1>3. /\ DOMAIN s = 1..Len(s) /\ DOMAIN t = 1..Len(t) /\ DOMAIN u = 1..Len(u)
  <2> HIDE DEF u
  <2> QED BY <1>1
<1> HIDE DEF V, u
<1>4. /\ Len(gs) = Len(s) /\ Len(gt) = Len(t) /\ Len(gu) = Len(u)
      /\ \A k \in 1..Len(s) : gs[k] = g[s[k]]
      /\ \A k \in 1..Len(t) : gt[k] = g[t[k]]
      /\ \A k \in 1..Len(u) : gu[k] = g[u[k]]
  BY <1>1, <1>3
<1> HIDE DEF gs, gt, gu
<1>5. /\ w \in Seq(V) /\ Len(w) = Len(s) + Len(t)
      /\ \A k \in 1..(Len(s) + Len(t)) : w[k] = IF k <= Len(s) THEN gs[k] ELSE gt[k - Len(s)]
  <2>1. /\ w \in Seq(V) /\ Len(w) = Len(gs) + Len(gt)
        /\ \A k \in 1..(Len(gs) + Len(gt)) : w[k] = IF k <= Len(gs) THEN gs[k] ELSE gt[k - Len(gs)]
    BY <1>2, ConcatProperties
  <2> QED BY <1>4, <2>1
<1> HIDE DEF w
<1>6. \A k \in 1..Len(gu) : gu[k] = w[k]
  <2>1. \A k \in 1..Len(u) : k <= Len(s) => k \in 1..Len(s)
    OBVIOUS
  <2>2. \A k \in 1..Len(u) : ~(k <= Len(s)) => k - Len(s) \in 1..Len(t)
    BY <1>1
  <2>3. SUFFICES ASSUME NEW k \in 1..Len(u) PROVE gu[k] = w[k]
    BY <1>4
  <2>4. /\ gu[k] = g[u[k]] /\ u[k] = IF k <= Len(s) THEN s[k] ELSE t[k - Len(s)]
        /\ w[k] = IF k <= Len(s) THEN gs[k] ELSE gt[k - Len(s)]
    BY <1>1, <1>4, <1>5
  <2>5. CASE k <= Len(s)
    BY <1>4, <2>1, <2>4, <2>5
  <2>6. CASE ~(k <= Len(s))
    BY <1>4, <2>2, <2>4, <2>6
  <2> QED BY <2>5, <2>6
<1>7. gu = w
  BY <1>1, <1>2, <1>4, <1>5, <1>6, SeqEqual
<1> QED BY <1>2, <1>7, FlattenConcat DEF V, Spread, gs, gt, gu, u, w

(* Spreading a flattened sequence spreads its parts. *)
LEMMA SpreadFlatten ==
  ASSUME NEW A, NEW B, NEW g, Spreads(g, A, B), NEW ss \in Seq(Seq(A))
  PROVE  /\ [n \in DOMAIN ss |-> Spread(g, ss[n])] \in Seq(Seq(B))
         /\ Spread(g, FlattenSeq(ss)) = FlattenSeq([n \in DOMAIN ss |-> Spread(g, ss[n])])
<1> DEFINE U == Seq(A)
           V == Seq(B)
           N == Len(ss)
           tt == [n \in DOMAIN ss |-> Spread(g, ss[n])]
<1>1. N \in Nat /\ DOMAIN ss = 1..N /\ \A n \in 1..N : ss[n] \in U
  <2> HIDE DEF U
  <2>1. ss \in Seq(U)
    BY DEF U
  <2> QED BY <2>1
<1>2. \A n \in 1..N : Spread(g, ss[n]) \in V
  BY <1>1, SpreadTyped
<1>3. tt \in Seq(V) /\ Len(tt) = N /\ \A n \in 1..N : tt[n] = Spread(g, ss[n])
  <2> HIDE DEF V, N
  <2> QED BY <1>1, <1>2
<1> HIDE DEF tt, N
<1>4. PICK f : Joins(f, ss, N, U) /\ f[N] = FlattenSeq(ss)
  BY FlattenJoins DEF N
<1>5. PICK h : Joins(h, tt, N, V) /\ h[N] = FlattenSeq(tt)
  BY <1>3, FlattenJoins
<1> DEFINE G == {n \in 0..N : Spread(g, f[n]) = h[n]}
<1>6. 0 \in G
  BY <1>1, <1>4, <1>5, SpreadNone DEF Joins
<1>7. ASSUME NEW n \in 0..(N - 1), n \in G PROVE n + 1 \in G
  <2>1. n + 1 \in 1..N /\ (n + 1) - 1 = n /\ n + 1 \in 0..N /\ n \in 0..N
    BY <1>1
  <2>2. f[n + 1] = f[n] \o ss[n + 1] /\ h[n + 1] = h[n] \o tt[n + 1]
    BY <1>4, <1>5, <2>1 DEF Joins
  <2>3. f[n] \in U /\ ss[n + 1] \in U
    BY <1>1, <1>4, <2>1 DEF Joins
  <2>4. Spread(g, f[n] \o ss[n + 1]) = Spread(g, f[n]) \o Spread(g, ss[n + 1])
    <3>1. ASSUME NEW a \in U, NEW b \in U
          PROVE  Spread(g, a \o b) = Spread(g, a) \o Spread(g, b)
      <4>1. a \in Seq(A) /\ b \in Seq(A)
        OBVIOUS
      <4> QED BY ONLY <4>1, Spreads(g, A, B), SpreadConcat
    <3> QED BY ONLY <2>3, <3>1
  <2> QED BY <1>3, <1>7, <2>1, <2>2, <2>4
<1>8. Inductive(G, N)
  <2> HIDE DEF G
  <2> QED BY <1>6, <1>7 DEF Inductive
<1>9. N \in G
  <2> HIDE DEF G
  <2>1. \A n \in 0..N : n \in G
    BY <1>1, <1>8, NatInductionUpTo
  <2> QED BY <1>1, <2>1
<1> QED BY <1>3, <1>4, <1>5, <1>9 DEF tt

-----------------------------------------------------------------------------
(* Texts: what is left in a sequence of places without those of headings.  *)

Place == Nat \X Nat

LEMMA OnlySpreads ==
  LET g == [at \in Place |-> IF Textual(at) THEN << at >> ELSE <<>>]
  IN  Spreads(g, Place, Place) /\ \A ats \in Seq(Place) : Only(ats) = Spread(g, ats)
<1> DEFINE g == [at \in Place |-> IF Textual(at) THEN << at >> ELSE <<>>]
<1>1. Spreads(g, Place, Place)
  <2> HIDE DEF Place
  <2>1. \A at \in Place : << at >> \in Seq(Place) /\ <<>> \in Seq(Place)
    OBVIOUS
  <2> QED BY <2>1 DEF Spreads
<1>2. ASSUME NEW ats \in Seq(Place) PROVE Only(ats) = Spread(g, ats)
  <2>1. \A k \in DOMAIN ats : ats[k] \in Place
    <3> HIDE DEF Place
    <3> QED OBVIOUS
  <2>2. \A k \in DOMAIN ats : g[ats[k]] = IF Textual(ats[k]) THEN << ats[k] >> ELSE <<>>
    BY <2>1
  <2> HIDE DEF g
  <2>3. [k \in DOMAIN ats |-> IF Textual(ats[k]) THEN << ats[k] >> ELSE <<>>]
          = [k \in DOMAIN ats |-> g[ats[k]]]
    BY <2>2
  <2> QED BY <2>3 DEF Only, Spread
<1> QED BY <1>1, <1>2

LEMMA OnlyParts ==
  /\ \A a \in Seq(Place) : Only(a) \in Seq(Place)
  /\ \A a, b \in Seq(Place) : Only(a \o b) = Only(a) \o Only(b)
  /\ Only(<<>>) = <<>>
  /\ \A p \in Place : Only(<< p >>) = IF Textual(p) THEN << p >> ELSE <<>>
<1> PICK g : g = [at \in Place |-> IF Textual(at) THEN << at >> ELSE <<>>]
  OBVIOUS
<1>1. Spreads(g, Place, Place) /\ \A ats \in Seq(Place) : Only(ats) = Spread(g, ats)
  BY OnlySpreads
<1>2. ASSUME NEW a \in Seq(Place) PROVE Only(a) \in Seq(Place)
  <2>1. Spread(g, a) \in Seq(Place)
    BY ONLY <1>1, SpreadTyped, a \in Seq(Place)
  <2> QED BY <1>1, <2>1
<1>3. ASSUME NEW a \in Seq(Place), NEW b \in Seq(Place)
      PROVE  Only(a \o b) = Only(a) \o Only(b)
  <2> HIDE DEF Place
  <2>1. a \o b \in Seq(Place)
    OBVIOUS
  <2>2. Spread(g, a \o b) = Spread(g, a) \o Spread(g, b)
    BY ONLY <1>1, SpreadConcat, a \in Seq(Place), b \in Seq(Place)
  <2> QED BY <1>1, <2>1, <2>2
<1>4. Only(<<>>) = <<>>
  <2>1. <<>> \in Seq(Place)
    OBVIOUS
  <2> QED BY <1>1, <2>1, SpreadNone
<1>5. ASSUME NEW p \in Place PROVE Only(<< p >>) = IF Textual(p) THEN << p >> ELSE <<>>
  <2>1. g[p] = IF Textual(p) THEN << p >> ELSE <<>>
    OBVIOUS
  <2>2. << p >> \in Seq(Place)
    <3> HIDE DEF Place
    <3> QED OBVIOUS
  <2>3. Spread(g, << p >>) = g[p]
    BY ONLY <1>1, p \in Place, SpreadOne
  <2> QED BY <1>1, <2>1, <2>2, <2>3
<1> QED BY <1>2, <1>3, <1>4, <1>5

LEMMA OnlyFlatten ==
  ASSUME NEW ss \in Seq(Seq(Place))
  PROVE  Only(FlattenSeq(ss)) = FlattenSeq([n \in DOMAIN ss |-> Only(ss[n])])
<1> PICK g : g = [at \in Place |-> IF Textual(at) THEN << at >> ELSE <<>>]
  OBVIOUS
<1>1. Spreads(g, Place, Place) /\ \A ats \in Seq(Place) : Only(ats) = Spread(g, ats)
  BY OnlySpreads
<1>2. Spread(g, FlattenSeq(ss)) = FlattenSeq([n \in DOMAIN ss |-> Spread(g, ss[n])])
  <2> HIDE DEF Place
  <2> QED BY <1>1, SpreadFlatten
<1>3. FlattenSeq(ss) \in Seq(Place)
  BY FlattenDraws
<1>4. \A n \in DOMAIN ss : ss[n] \in Seq(Place)
  <2> DEFINE V == Seq(Place)
  <2>1. ss \in Seq(V)
    OBVIOUS
  <2> HIDE DEF V
  <2>2. \A n \in DOMAIN ss : ss[n] \in V
    BY <2>1
  <2> QED BY <2>2 DEF V
<1>5. [n \in DOMAIN ss |-> Only(ss[n])] = [n \in DOMAIN ss |-> Spread(g, ss[n])]
  BY <1>1, <1>4
<1> QED BY <1>1, <1>2, <1>3, <1>5

(* Where each part is a text or nothing, nothing is left out. *)
LEMMA TextsStand ==
  ASSUME NEW ss \in Seq(Seq(Place)),
         \A n \in DOMAIN ss : ss[n] = <<>> \/ \E p \in Place : Textual(p) /\ ss[n] = << p >>
  PROVE  Only(FlattenSeq(ss)) = FlattenSeq(ss)
<1>1. \A n \in DOMAIN ss : Only(ss[n]) = ss[n]
  BY OnlyParts
<1> DEFINE tt == [n \in DOMAIN ss |-> Only(ss[n])]
<1>2. ss = [n \in DOMAIN ss |-> ss[n]]
  <2> DEFINE V == Seq(Place)
  <2>1. ss \in Seq(V)
    OBVIOUS
  <2> HIDE DEF V
  <2> QED BY <2>1
<1>3. tt = ss
  BY <1>1, <1>2
<1> QED BY <1>3, OnlyFlatten

-----------------------------------------------------------------------------
(* What the items of an element bring to the blocks.                       *)

Yields(t) ==
  IF t.do = "text" THEN t.at
  ELSE IF t.do = "table" /\ ~HintTable(t.table) /\ t.table.role # "empty" THEN << t.at >>
  ELSE <<>>

Brought(ts) == FlattenSeq([k \in DOMAIN ts |-> Yields(ts[k])])

YieldsPlaces(ts) == IsList(ts) /\ \A k \in DOMAIN ts : Yields(ts[k]) \in Seq(Place)

LEMMA BroughtTyped ==
  ASSUME NEW ts, YieldsPlaces(ts)
  PROVE  /\ [k \in DOMAIN ts |-> Yields(ts[k])] \in Seq(Seq(Place))
         /\ Brought(ts) \in Seq(Place)
<1> DEFINE V == Seq(Place)
<1>1. Len(ts) \in Nat /\ DOMAIN ts = 1..Len(ts) /\ \A k \in DOMAIN ts : Yields(ts[k]) \in V
  BY ListFacts DEF YieldsPlaces
<1>2. [k \in DOMAIN ts |-> Yields(ts[k])] \in Seq(V)
  <2> HIDE DEF V
  <2> QED BY <1>1
<1> QED BY <1>2, FlattenDraws DEF Brought

LEMMA BroughtTail ==
  ASSUME NEW ts, YieldsPlaces(ts), ts # <<>>
  PROVE  /\ Yields(Head(ts)) \in Seq(Place)
         /\ YieldsPlaces(Tail(ts))
         /\ Brought(ts) = Yields(Head(ts)) \o Brought(Tail(ts))
<1> DEFINE V == Seq(Place)
           ys == [k \in DOMAIN ts |-> Yields(ts[k])]
           zs == [k \in DOMAIN Tail(ts) |-> Yields(Tail(ts)[k])]
<1>1. /\ 1 \in DOMAIN ts /\ Head(ts) = ts[1] /\ IsList(Tail(ts))
      /\ \A k \in DOMAIN Tail(ts) : k \in Nat \ {0} /\ k + 1 \in DOMAIN ts /\ Tail(ts)[k] = ts[k + 1]
  BY ListTail DEF YieldsPlaces
<1>2. YieldsPlaces(Tail(ts))
  BY <1>1 DEF YieldsPlaces
<1>3. Yields(Head(ts)) \in V /\ Len(ts) \in Nat \ {0} /\ DOMAIN ts = 1..Len(ts)
  BY <1>1, ListFacts DEF YieldsPlaces
<1>4. ys \in Seq(V) /\ zs \in Seq(V)
  <2> HIDE DEF YieldsPlaces
  <2> QED BY <1>2, BroughtTyped
<1>5. Len(ys) = Len(ts) /\ \A k \in 1..Len(ts) : ys[k] = Yields(ts[k])
  BY <1>3
<1>6. DOMAIN Tail(ts) = 1..(Len(ts) - 1)
  <2> DEFINE T == Range(ts)
  <2>1. ts \in Seq(T)
    BY DEF YieldsPlaces, IsList
  <2> HIDE DEF T
  <2> QED BY <2>1, <1>3
<1>7. Len(zs) = Len(ts) - 1 /\ \A k \in 1..(Len(ts) - 1) : zs[k] = Yields(ts[k + 1])
  BY <1>1, <1>3, <1>6
<1> HIDE DEF ys, zs, V
<1>8. ys # <<>> /\ Tail(ys) \in Seq(V) /\ Len(Tail(ys)) = Len(ts) - 1
      /\ \A k \in 1..(Len(ts) - 1) : Tail(ys)[k] = ys[k + 1]
  <2>1. ys # <<>>
    BY <1>3, <1>4, <1>5
  <2> QED BY <1>4, <1>5, <2>1, HeadTailProperties
<1>9. \A k \in 1..(Len(ts) - 1) : zs[k] = Tail(ys)[k]
  BY <1>3, <1>5, <1>7, <1>8
<1>10. zs = Tail(ys)
  BY <1>4, <1>7, <1>8, <1>9, SeqEqual
<1>11. FlattenSeq(ys) = ys[1] \o FlattenSeq(Tail(ys))
  BY <1>4, <1>8, FlattenTail DEF V
<1>12. ys[1] = Yields(Head(ts))
  BY <1>1, <1>3, <1>5
<1> QED BY <1>2, <1>3, <1>10, <1>11, <1>12 DEF Brought, ys, zs, V

(* The items of an element bring its texts, and of headings only places.   *)
Complete(ts, i) == YieldsPlaces(ts) /\ Only(Brought(ts)) = Kept(elements[i], i)

LEMMA TablesComplete ==
  ASSUME elements \in Sections, NEW i \in DOMAIN elements, IsTable(elements[i])
  PROVE  Complete(Tables(elements[i], i), i)
<1> DEFINE e == elements[i]
           ts == Tables(e, i)
           xs == IF e.tag = "TABLE" THEN << e >> ELSE e.tables
           ys == [k \in DOMAIN ts |-> Yields(ts[k])]
<1>1. i \in Nat /\ IsList(ts)
  BY SectionFacts, TablesFit DEF Fits
<1>2. \A j \in DOMAIN ts : ts[j].do = "table" /\ ts[j].at = <<i, j>>
  BY DEF Tables
<1>3. Len(ts) \in Nat /\ DOMAIN ts = 1..Len(ts)
  BY <1>1, ListFacts
<1>4. e.tag # "P"
  BY DEF IsTable
<1> HIDE DEF ts
<1>5. \A j \in DOMAIN ts : Yields(ts[j]) = IF ts[j].table.role \in {"unit", "period", "empty"}
                                         THEN <<>> ELSE << <<i, j>> >>
  BY <1>2 DEF Yields, HintTable
<1>6. \A j \in DOMAIN ts : <<i, j>> \in Place /\ Textual(<<i, j>>)
  BY <1>1, <1>3 DEF Place, Textual
<1>7. \A j \in DOMAIN ts : Yields(ts[j]) = <<>> \/ \E p \in Place : Textual(p) /\ Yields(ts[j]) = << p >>
  BY <1>5, <1>6
<1>8. YieldsPlaces(ts)
  <2>1. \A p \in Place : << p >> \in Seq(Place) /\ <<>> \in Seq(Place)
    OBVIOUS
  <2>2. <<>> \in Seq(Place)
    OBVIOUS
  <2>3. \A j \in DOMAIN ts : Yields(ts[j]) \in Seq(Place)
    BY <1>7, <2>1, <2>2
  <2> QED BY <1>1, <2>3 DEF YieldsPlaces
<1>9. ys \in Seq(Seq(Place))
  BY <1>8, BroughtTyped
<1>10. Only(FlattenSeq(ys)) = FlattenSeq(ys)
  <2>1. \A j \in DOMAIN ys : ys[j] = <<>> \/ \E p \in Place : Textual(p) /\ ys[j] = << p >>
    BY <1>7
  <2> HIDE DEF ys
  <2> QED BY <1>9, <2>1, TextsStand
<1>11. Kept(e, i) = FlattenSeq([j \in DOMAIN ts |->
         IF ts[j].table.role \in {"unit", "period", "empty"} THEN <<>> ELSE << <<i, j>> >>])
  BY <1>4 DEF Kept, ts
<1>12. Kept(e, i) = FlattenSeq(ys)
  <2>1. ys = [j \in DOMAIN ts |->
              IF ts[j].table.role \in {"unit", "period", "empty"} THEN <<>> ELSE << <<i, j>> >>]
    BY <1>5
  <2> QED BY <1>11, <2>1
<1> QED BY <1>8, <1>10, <1>12 DEF Complete, Brought, ts

LEMMA KeptOfParagraph ==
  ASSUME elements \in Sections, NEW i \in DOMAIN elements, elements[i].tag = "P"
  PROVE  LET ps == elements[i].parts
             ys == [j \in DOMAIN ps |-> IF ps[j].kind = "text" THEN << <<i, j>> >> ELSE <<>>]
         IN  /\ Kept(elements[i], i) = FlattenSeq(ys) /\ ys \in Seq(Seq(Place))
             /\ \A j \in DOMAIN ps : <<i, j>> \in Place /\ (Textual(<<i, j>>) <=> ps[j].kind = "text")
             /\ Only(FlattenSeq(ys)) = FlattenSeq(ys)
<1> DEFINE ps == elements[i].parts
           ys == [j \in DOMAIN ps |-> IF ps[j].kind = "text" THEN << <<i, j>> >> ELSE <<>>]
           V == Seq(Place)
<1>1. i \in Nat /\ Len(ps) \in Nat /\ DOMAIN ps = 1..Len(ps)
  BY SectionFacts, PartFacts
<1>2. Kept(elements[i], i) = FlattenSeq(ys)
  BY DEF Kept
<1>3. \A j \in DOMAIN ps : <<i, j>> \in Place /\ (Textual(<<i, j>>) <=> ps[j].kind = "text")
  BY <1>1 DEF Place, Textual, IsTable
<1>4. ys \in Seq(V)
  <2>1. \A j \in DOMAIN ps : << <<i, j>> >> \in V /\ <<>> \in V
    <3>1. \A p \in Place : << p >> \in V
      OBVIOUS
    <3>2. <<>> \in V
      OBVIOUS
    <3> HIDE DEF V
    <3> QED BY <1>3, <3>1, <3>2
  <2>2. \A j \in 1..Len(ps) : ys[j] \in V
    <3> HIDE DEF V
    <3> QED BY <1>1, <2>1
  <2>3. ys = [j \in 1..Len(ps) |-> ys[j]]
    BY <1>1
  <2> HIDE DEF V, ys
  <2> QED BY <1>1, <2>2, <2>3
<1>5. Only(FlattenSeq(ys)) = FlattenSeq(ys)
  <2>1. \A j \in DOMAIN ys : ys[j] = <<>> \/ \E p \in Place : Textual(p) /\ ys[j] = << p >>
    BY <1>3
  <2> HIDE DEF ys
  <2> QED BY <1>4, <2>1, TextsStand
<1> QED BY <1>2, <1>3, <1>4, <1>5

LEMMA StructuredComplete ==
  ASSUME elements \in Sections, NEW i \in DOMAIN elements, elements[i].tag = "P"
  PROVE  Complete(Structured(elements[i], i), i)
<1> DEFINE ps == elements[i].parts
           ts == Structured(elements[i], i)
           ys == [j \in DOMAIN ps |-> IF ps[j].kind = "text" THEN << <<i, j>> >> ELSE <<>>]
<1>1. IsList(ts) /\ DOMAIN ts = DOMAIN ps
  BY StructuredFits DEF Fits, Structured
<1>2. ASSUME NEW j \in DOMAIN ps
      PROVE  Yields(ts[j]) = IF ps[j].kind = "text" THEN << <<i, j>> >> ELSE <<>>
  <2>1. CASE ps[j].kind = "text"
    BY <2>1 DEF Structured, Yields
  <2>2. CASE ps[j].kind # "text"
    <3>1. ts[j].do \in {"lead", "heading"}
      BY <2>2 DEF Structured
    <3> QED BY <2>2, <3>1 DEF Yields
  <2> QED BY <2>1, <2>2
<1>3. /\ Kept(elements[i], i) = FlattenSeq(ys)
      /\ \A j \in DOMAIN ps : <<i, j>> \in Place
      /\ Only(FlattenSeq(ys)) = FlattenSeq(ys)
  BY KeptOfParagraph
<1> HIDE DEF ts
<1>4. YieldsPlaces(ts)
  <2>1. \A p \in Place : << p >> \in Seq(Place)
    OBVIOUS
  <2>2. <<>> \in Seq(Place)
    OBVIOUS
  <2>3. \A j \in DOMAIN ts : Yields(ts[j]) \in Seq(Place)
    BY <1>1, <1>2, <1>3, <2>1, <2>2
  <2> QED BY <1>1, <2>3 DEF YieldsPlaces
<1>5. [k \in DOMAIN ts |-> Yields(ts[k])] = ys
  BY <1>1, <1>2
<1> QED BY <1>3, <1>4, <1>5 DEF Complete, Brought, ts

(* Stretches of a sequence, each from its start up to the next one, join   *)
(* to the whole sequence.                                                  *)
Stretches(starts, end, L) ==
  /\ starts \in SUBSET (1..L) /\ (L > 0 => 1 \in starts)
  /\ \A j \in starts : /\ end[j] \in j..L
                       /\ end[j] = L \/ end[j] + 1 \in starts
                       /\ \A k \in starts : k > j => k > end[j]

LEMMA StretchesJoin ==
  ASSUME NEW S, NEW s \in Seq(S), NEW starts, NEW end, Stretches(starts, end, Len(s))
  PROVE  LET ss == [j \in 1..Len(s) |-> IF j \in starts THEN SubSeq(s, j, end[j]) ELSE <<>>]
         IN  ss \in Seq(Seq(S)) /\ FlattenSeq(ss) = s
<1> DEFINE V == Seq(S)
           L == Len(s)
           ss == [j \in 1..L |-> IF j \in starts THEN SubSeq(s, j, end[j]) ELSE <<>>]
<1>1. L \in Nat /\ \A k \in 1..L : s[k] \in S
  OBVIOUS
<1>2. ASSUME NEW j \in 1..L, NEW r \in 0..L PROVE SubSeq(s, j, r) \in V
  <2>1. \A k \in j..r : k \in 1..L
    BY <1>1
  <2> QED BY <1>1, <2>1, SubSeqProperties
<1>3. \A j \in starts : j \in 1..L /\ end[j] \in 0..L /\ end[j] \in j..L
  BY <1>1 DEF Stretches
<1>4. <<>> \in V
  OBVIOUS
<1>5. ss \in Seq(V) /\ Len(ss) = L
  <2>1. \A j \in 1..L : ss[j] \in V
    <3> HIDE DEF V
    <3> QED BY <1>2, <1>3, <1>4
  <2> HIDE DEF V
  <2> QED BY <1>1, <2>1
<1>6. \A j \in 1..L : ss[j] = IF j \in starts THEN SubSeq(s, j, end[j]) ELSE <<>>
  OBVIOUS
<1> HIDE DEF ss, L
<1>7. PICK f : Joins(f, ss, L, V) /\ f[L] = FlattenSeq(ss)
  BY <1>5, FlattenJoins
<1> DEFINE Reaches(n, r) == /\ r \in n..L
                            /\ n = 0 => r = 0
                            /\ n > 0 => r = L \/ r + 1 \in starts
                            /\ \A k \in starts : k > n => k > r
           G == {n \in 0..L : \E r \in 0..L : Reaches(n, r) /\ f[n] = SubSeq(s, 1, r)}
<1>8. 0 \in G
  <2>1. f[0] = <<>> /\ SubSeq(s, 1, 0) = <<>>
    <3>1. SubSeq(s, 1, 0) = <<>>
      <4>1. 1 \in Int /\ 0 \in Int /\ 0 < 1
        OBVIOUS
      <4> QED BY <4>1, SubSeqEmpty
    <3> QED BY <1>7, <3>1 DEF Joins
  <2>2. 0 \in 0..L /\ Reaches(0, 0)
    BY <1>1
  <2> HIDE DEF Reaches
  <2> QED BY <2>1, <2>2
<1>9. ASSUME NEW n \in 0..(L - 1), n \in G PROVE n + 1 \in G
  <2>1. n + 1 \in 1..L /\ n + 1 \in 0..L /\ (n + 1) - 1 = n /\ n \in Nat
    BY <1>1
  <2>2. PICK r \in 0..L : Reaches(n, r) /\ f[n] = SubSeq(s, 1, r)
    BY <1>9
  <2>3. f[n + 1] = f[n] \o ss[n + 1]
    BY <1>7, <2>1 DEF Joins
  <2>4. CASE n + 1 \in starts
    <3>1. r = n
      BY <1>1, <2>1, <2>2, <2>4
    <3>2. end[n + 1] \in (n + 1)..L /\ end[n + 1] \in 0..L
      BY <1>3, <2>4
    <3>3. Reaches(n + 1, end[n + 1])
      <4>1. n + 1 # 0 /\ n + 1 > 0
        BY <2>1
      <4>2. /\ end[n + 1] = L \/ end[n + 1] + 1 \in starts
            /\ \A k \in starts : k > n + 1 => k > end[n + 1]
        BY <2>4 DEF Stretches, L
      <4> QED BY <3>2, <4>1, <4>2
    <3>4. SubSeq(s, 1, n) \o SubSeq(s, n + 1, end[n + 1]) = SubSeq(s, 1, end[n + 1])
      <4>1. 1 \in 1..(Len(s) + 1) /\ n \in 0..Len(s) /\ 1 - 1 = 0 /\ end[n + 1] \in n..Len(s)
        BY <1>1, <2>1, <3>2 DEF L
      <4> QED BY <4>1, ConcatAdjacentSubSeq
    <3>5. f[n + 1] = SubSeq(s, 1, end[n + 1])
      BY <1>6, <2>1, <2>2, <2>3, <2>4, <3>1, <3>4
    <3> HIDE DEF Reaches
    <3> QED BY <2>1, <3>2, <3>3, <3>5
  <2>5. CASE n + 1 \notin starts
    <3>1. n > 0
      <4>1. L > 0
        BY <1>1, <2>1
      <4>2. 1 \in starts
        BY <4>1 DEF Stretches, L
      <4> QED BY <2>1, <2>5, <4>2
    <3>2. r # n
      BY <1>1, <2>1, <2>2, <2>5, <3>1
    <3>3. Reaches(n + 1, r)
      <4>1. r \in (n + 1)..L /\ (r = L \/ r + 1 \in starts)
        BY <1>1, <2>1, <2>2, <3>1, <3>2
      <4>2. ASSUME NEW k \in starts, k > n + 1 PROVE k > r
        <5>1. k \in 1..L
          BY <1>3
        <5>2. k > n
          BY <1>1, <2>1, <4>2, <5>1
        <5> QED BY <2>2, <5>2
      <4>3. n + 1 # 0
        BY <2>1
      <4> HIDE DEF L
      <4> QED BY <4>1, <4>2, <4>3
    <3>4. f[n + 1] = f[n]
      <4>1. n \in 0..L
        BY <1>1
      <4>2. ss[n + 1] = <<>>
        BY <1>6, <2>1, <2>5
      <4>3. f[n] \in V
        BY <1>7, <4>1 DEF Joins
      <4> QED BY <2>3, <4>2, <4>3, ConcatEmptySeq
    <3> HIDE DEF Reaches
    <3> QED BY <2>1, <2>2, <3>3, <3>4
  <2> QED BY <2>4, <2>5
<1>10. Inductive(G, L)
  <2> HIDE DEF G
  <2> QED BY <1>8, <1>9 DEF Inductive
<1>11. L \in G
  <2> HIDE DEF G
  <2>1. \A n \in 0..L : n \in G
    BY <1>1, <1>10, NatInductionUpTo
  <2> QED BY <1>1, <2>1
<1>12. PICK r \in 0..L : Reaches(L, r) /\ f[L] = SubSeq(s, 1, r)
  BY <1>11
<1>13. r = L
  BY <1>1, <1>12
<1>14. SubSeq(s, 1, Len(s)) = s
  BY SubSeqFull
<1> QED BY <1>5, <1>7, <1>12, <1>13, <1>14 DEF ss, L

(* The text under a heading runs up to the next heading that is found.     *)
FoundIn(e) == {j \in DOMAIN e.parts : e.parts[j].kind = "heading" /\ e.parts[j].located}

Stretch(e, j, r) ==
  /\ r \in j..Len(e.parts)
  /\ r = Len(e.parts) \/ r + 1 \in FoundIn(e)
  /\ \A k \in FoundIn(e) : k > j => k > r

LEMMA UnderStretches ==
  ASSUME elements \in Sections, NEW i \in DOMAIN elements, elements[i].tag = "P",
         NEW j \in DOMAIN elements[i].parts
  PROVE  \E r : /\ Stretch(elements[i], j, r)
                /\ Under(elements[i], i, j).at
                     = SubSeq([k \in 1..Len(elements[i].parts) |-> <<i, k>>], j, r)
<1> DEFINE e == elements[i]
           L == Len(e.parts)
           places == [k \in 1..L |-> <<i, k>>]
           stops == {k \in DOMAIN e.parts : k > j /\ e.parts[k].kind = "heading" /\ e.parts[k].located}
           first == CHOOSE k \in stops : \A m \in stops : k <= m
           end == IF stops = {} THEN L ELSE first - 1
           size == Total([k \in 1..(end - j + 1) |-> e.parts[j + k - 1].size])
<1>1. L \in Nat /\ DOMAIN e.parts = 1..L
  BY PartFacts
<1>2. Under(e, i, j).at = [k \in 1..(end - j + 1) |-> <<i, j + k - 1>>]
  <2>1. Under(e, i, j) =
          [do |-> "text", at |-> [k \in 1..(end - j + 1) |-> <<i, j + k - 1>>],
           size |-> size, whole |-> j = 1 /\ end = Len(e.parts),
           forward |-> j = end /\ e.parts[j].kind = "text" /\ e.parts[j].label]
    BY DEF Under
  <2> HIDE DEF end, size
  <2> QED BY <2>1
<1>3. stops = {k \in FoundIn(e) : k > j}
  BY DEF FoundIn
<1>4. FoundIn(e) \in SUBSET (1..L)
  BY <1>1 DEF FoundIn
<1> HIDE DEF stops, L
<1>5. stops # {} => first \in stops /\ \A m \in stops : first <= m
  <2>1. stops \in SUBSET Nat
    BY <1>1, <1>3, <1>4
  <2>2. stops # {} => \E k \in stops : \A m \in stops : k <= m
    BY <2>1, LeastNumber
  <2> QED BY <2>2
<1> HIDE DEF first
<1>6. Stretch(e, j, end)
  <2>1. CASE stops = {}
    <3>1. end = L
      BY <2>1
    <3> QED BY <1>1, <1>3, <2>1, <3>1 DEF Stretch, L
  <2>2. CASE stops # {}
    <3>1. first \in FoundIn(e) /\ first > j /\ first \in 1..L /\ end = first - 1
      BY <1>3, <1>4, <1>5, <2>2
    <3>2. \A k \in FoundIn(e) : k > j => k > end
      BY <1>3, <1>4, <1>5, <2>2, <3>1
    <3>3. end \in j..L /\ end + 1 = first
      BY <1>1, <3>1
    <3> QED BY <3>1, <3>2, <3>3 DEF Stretch, L
  <2> QED BY <2>1, <2>2
<1>7. [k \in 1..(end - j + 1) |-> <<i, j + k - 1>>] = SubSeq(places, j, end)
  <2> HIDE DEF end
  <2>1. end \in j..L
    BY <1>6 DEF Stretch, L
  <2>2. \A k \in 1..(end - j + 1) : k + j - 1 \in 1..L /\ k + j - 1 = j + k - 1
    BY <1>1, <2>1
  <2>3. \A k \in 1..(end - j + 1) : places[k + j - 1] = <<i, j + k - 1>>
    BY <2>2
  <2> HIDE DEF places
  <2>4. \A k \in 1..(end - j + 1) : j + k - 1 = k + j - 1
    BY <2>2
  <2>5. SubSeq(places, j, end) = [k \in 1..(end - j + 1) |-> places[j + k - 1]]
    BY <1>1, <2>1
  <2> QED BY <2>3, <2>4, <2>5
<1> QED BY <1>2, <1>6, <1>7 DEF L

LEMMA SpreadPair ==
  ASSUME NEW A, NEW B, NEW g, Spreads(g, A, B), NEW a \in A, NEW b \in A
  PROVE  Spread(g, << a, b >>) = g[a] \o g[b]
<1> DEFINE s == << a >>
           t == << b >>
<1>1. s \in Seq(A) /\ t \in Seq(A) /\ t = << b >> /\ << a, b >> = Append(s, b)
  OBVIOUS
<1>2. Spread(g, s) = g[a] /\ Spread(g, t) = g[b]
  BY SpreadOne
<1> HIDE DEF s, t
<1>3. Append(s, b) = s \o t
  BY <1>1
<1>4. Spread(g, s \o t) = Spread(g, s) \o Spread(g, t)
  <2>1. s \in Seq(A) /\ t \in Seq(A)
    BY <1>1
  <2> QED BY ONLY <2>1, Spreads(g, A, B), SpreadConcat
<1> QED BY <1>1, <1>2, <1>3, <1>4

LEMMA PlainComplete ==
  ASSUME elements \in Sections, NEW i \in DOMAIN elements, elements[i].tag = "P"
  PROVE  Complete(Plain(elements[i], i), i)
<1> DEFINE e == elements[i]
           ps == e.parts
           L == Len(ps)
           found == {j \in DOMAIN ps : ps[j].kind = "heading" /\ ps[j].located}
           head(j) == [do |-> IF j = 1 THEN "lead" ELSE "heading", head |-> ps[j],
                       at |-> <<i, j>>, alone |-> FALSE, body |-> TRUE]
           from(j) == IF j \in found THEN << head(j), Under(e, i, j) >>
                      ELSE IF j = 1 THEN << Under(e, i, j) >> ELSE <<>>
           starts == found \cup {j \in DOMAIN ps : j = 1}
           T == {head(j) : j \in found} \cup {Under(e, i, j) : j \in starts}
           ss == [j \in DOMAIN ps |-> from(j)]
           ts == FlattenSeq(ss)
           places == [k \in 1..L |-> <<i, k>>]
           Reads(j, r) == Stretch(e, j, r) /\ Under(e, i, j).at = SubSeq(places, j, r)
           end == [j \in starts |-> CHOOSE r : Reads(j, r)]
           y == [t \in T |-> Yields(t)]
           V == Seq(Place)
<1>1. CASE OnlyName(e)
  <2>1. Plain(e, i) = Structured(e, i)
    BY <1>1 DEF Plain
  <2> QED BY <2>1, StructuredComplete
<1>2. CASE ~OnlyName(e)
  <2>1. Plain(e, i) = ts
    BY <1>2 DEF Plain
  <2>2. i \in Nat /\ L \in Nat /\ DOMAIN ps = 1..L
    BY PartFacts, SectionFacts
  <2>3. \A j \in found : Yields(head(j)) = <<>>
    BY DEF Yields
  <2>4. \A j \in DOMAIN ps : Yields(Under(e, i, j)) = Under(e, i, j).at
    BY UnderIsText DEF Yields
  <2>5. found = FoundIn(e)
    BY DEF FoundIn
  <2>6. places \in V /\ Len(places) = L
    <3>1. \A k \in 1..L : <<i, k>> \in Place
      BY <2>2 DEF Place
    <3> HIDE DEF Place, L
    <3> QED BY <2>2, <3>1
  <2>7. \A j \in starts : /\ Stretch(e, j, end[j]) /\ j \in DOMAIN ps
                          /\ Under(e, i, j).at = SubSeq(places, j, end[j])
    <3>1. \A j \in starts : j \in DOMAIN ps
      OBVIOUS
    <3>2. ASSUME NEW j \in starts PROVE \E r : Reads(j, r)
      BY UnderStretches
    <3>3. \A j \in starts : Reads(j, end[j])
      <4> HIDE DEF Runs, starts
      <4> QED BY <3>2
    <3> HIDE DEF end, starts
    <3> QED BY <3>1, <3>3
  <2>8. Stretches(starts, end, Len(places))
    <3> HIDE DEF end, places
    <3>1. starts \in SUBSET (1..L) /\ (L > 0 => 1 \in starts)
      BY <2>2
    <3>2. \A j \in starts : 1 > j => FALSE
      BY <3>1
    <3>3. \A j, k \in starts : k > j => k \in found
      <4>1. \A j \in starts : j \in 1..L
        BY <3>1
      <4>2. \A k \in starts : k \notin found => k = 1
        OBVIOUS
      <4> QED BY <4>1, <4>2, <3>2
    <3>4. found \subseteq starts
      OBVIOUS
    <3> HIDE DEF found, starts, L, ps, e
    <3> QED BY <2>5, <2>6, <2>7, <3>1, <3>3, <3>4 DEF Stretch, Stretches, L, ps
  <2>9. \A j \in starts : Under(e, i, j).at \in V
    <3>1. ASSUME NEW j \in starts PROVE SubSeq(places, j, end[j]) \in V
      <4> HIDE DEF end, places, V, found, starts, Place
      <4>1. end[j] \in j..L /\ j \in 1..L
        BY <2>2, <2>7 DEF Stretch, L
      <4>2. \A k \in j..end[j] : places[k] \in Place
        BY <2>2, <2>6, <4>1 DEF V
      <4>3. j \in Int /\ end[j] \in Int
        BY <2>2, <4>1
      <4>4. SubSeq(places, j, end[j]) \in Seq(Place)
        BY ONLY <4>2, <4>3, SubSeqProperties
      <4> QED BY <4>4 DEF V
    <3> HIDE DEF end, places, V
    <3> QED BY <2>7, <3>1
  <2>10. \A j \in found : j \in starts
    OBVIOUS
  <2>11. \A j \in DOMAIN ps : ss[j] = from(j) /\ (j \in starts <=> j \in found \/ j = 1)
    OBVIOUS
  <2>12. \A j \in DOMAIN ps : from(j) \in Seq(T)
    <3>1. ASSUME NEW j \in DOMAIN ps
          PROVE  (j \in starts => Under(e, i, j) \in T) /\ (j \in found => head(j) \in T)
      <4> HIDE DEF found, starts, head, ps, e
      <4> QED OBVIOUS
    <3> HIDE DEF found, starts, head, ps, e, T
    <3> QED BY <2>11, <3>1
  <2>13. ss \in Seq(Seq(T))
    <3> HIDE DEF T, from
    <3> QED BY <2>2, <2>12
  <2>14. IsList(ts) /\ \A a \in DOMAIN ts : ts[a] \in T
    <3>1. ts \in Seq(T)
      <4> HIDE DEF ss, T
      <4> QED BY <2>13, FlattenDraws
    <3> HIDE DEF ts, T
    <3> QED BY <3>1, ListOf
  <2>15. <<>> \in V
    OBVIOUS
  <2>16. Spreads(y, T, Place)
    <3>1. ASSUME NEW t \in T PROVE Yields(t) \in V
      <4>1. \/ \E j \in found : t = head(j)
            \/ \E j \in starts : t = Under(e, i, j)
        <5> HIDE DEF found, starts, head, ps, e
        <5> QED OBVIOUS
      <4> HIDE DEF found, starts, head, e, V, T
      <4> QED BY <2>3, <2>4, <2>7, <2>9, <2>15, <4>1
    <3> HIDE DEF T
    <3> QED BY <3>1 DEF Spreads
  <2>17. \A t \in T : y[t] = Yields(t)
    OBVIOUS
  <2>18. \A j \in found : head(j) \in T /\ y[head(j)] = <<>>
    <3> HIDE DEF head, found, Yields
    <3> QED BY <2>3
  <2>19. \A j \in starts : Under(e, i, j) \in T /\ y[Under(e, i, j)] = SubSeq(places, j, end[j])
    <3>1. \A j \in starts : Under(e, i, j) \in T
      <4> HIDE DEF starts, e
      <4> QED OBVIOUS
    <3>2. \A j \in starts : Yields(Under(e, i, j)) = SubSeq(places, j, end[j])
      <4> HIDE DEF starts, e, places, end, Yields
      <4> QED BY <2>4, <2>7
    <3> HIDE DEF T, starts, y, e, places, end
    <3> QED BY <2>17, <3>1, <3>2
  <2> DEFINE zs == [j \in 1..Len(places) |-> IF j \in starts THEN SubSeq(places, j, end[j]) ELSE <<>>]
  <2>20. \A j \in DOMAIN ps : Spread(y, ss[j]) = IF j \in starts THEN SubSeq(places, j, end[j]) ELSE <<>>
    <3>1. ASSUME NEW j \in found PROVE Spread(y, << head(j), Under(e, i, j) >>) = SubSeq(places, j, end[j])
      <4>1. head(j) \in T /\ Under(e, i, j) \in T /\ y[head(j)] = <<>>
            /\ y[Under(e, i, j)] = SubSeq(places, j, end[j]) /\ SubSeq(places, j, end[j]) \in V
        <5> HIDE DEF T, starts, head, y, e, places, end, V, found
        <5> QED BY <2>7, <2>9, <2>10, <2>18, <2>19
      <4> HIDE DEF T, starts, head, y, e, places, end, V, found
      <4>2. Spread(y, << head(j), Under(e, i, j) >>) = <<>> \o SubSeq(places, j, end[j])
        BY ONLY <2>16, <4>1, SpreadPair
      <4> QED BY <4>1, <4>2, ConcatEmptySeq DEF V
    <3>2. ASSUME NEW j \in starts PROVE Spread(y, << Under(e, i, j) >>) = SubSeq(places, j, end[j])
      <4> HIDE DEF T, starts, y, e, places, end
      <4> QED BY ONLY <2>16, <2>19, j \in starts, SpreadOne
    <3>3. Spread(y, <<>>) = <<>>
      <4> HIDE DEF y
      <4> QED BY SpreadNone
    <3> HIDE DEF T, starts, head, y, ss, e, places, end, found, ps
    <3> QED BY <2>10, <2>11, <3>1, <3>2, <3>3
  <2>21. Spread(y, ts) = places
    <3>1. zs = [j \in DOMAIN ss |-> Spread(y, ss[j])]
      <4>1. DOMAIN ss = 1..Len(places)
        BY <2>2, <2>6
      <4> HIDE DEF ss, starts, y, places, end
      <4> QED BY <2>2, <2>6, <2>20, <4>1
    <3>2. Spread(y, ts) = FlattenSeq([j \in DOMAIN ss |-> Spread(y, ss[j])])
      <4> HIDE DEF ss, T, y
      <4> QED BY ONLY <2>13, <2>16, SpreadFlatten
    <3>3. FlattenSeq(zs) = places
      <4> HIDE DEF starts, places, end
      <4> QED BY <2>6, <2>8, StretchesJoin DEF V
    <3> QED BY <3>1, <3>2, <3>3
  <2> HIDE DEF places, y, T
  <2>22. YieldsPlaces(ts) /\ Brought(ts) = places
    <3> HIDE DEF ts
    <3>1. \A a \in DOMAIN ts : Yields(ts[a]) = y[ts[a]] /\ y[ts[a]] \in Seq(Place)
      BY <2>14, <2>16, <2>17 DEF Spreads
    <3>2. [a \in DOMAIN ts |-> Yields(ts[a])] = [a \in DOMAIN ts |-> y[ts[a]]]
      BY <3>1
    <3> QED BY <2>14, <2>21, <3>1, <3>2 DEF YieldsPlaces, Brought, Spread
  <2>23. Only(places) = Kept(e, i)
    <3>1. DOMAIN places = DOMAIN ps /\ \A j \in DOMAIN ps : places[j] = <<i, j>>
      BY <2>2 DEF places
    <3>2. \A j \in DOMAIN ps : Textual(<<i, j>>) <=> ps[j].kind = "text"
      BY KeptOfParagraph
    <3>3. [k \in DOMAIN places |-> IF Textual(places[k]) THEN << places[k] >> ELSE <<>>]
            = [j \in DOMAIN ps |-> IF ps[j].kind = "text" THEN << <<i, j>> >> ELSE <<>>]
      BY <3>1, <3>2
    <3>4. Kept(e, i) = FlattenSeq([j \in DOMAIN ps |-> IF ps[j].kind = "text" THEN << <<i, j>> >> ELSE <<>>])
      BY KeptOfParagraph
    <3> QED BY <3>3, <3>4 DEF Only
  <2> HIDE DEF ts, e
  <2>24. Complete(Plain(e, i), i)
    BY <2>1, <2>22, <2>23 DEF Complete, e
  <2> QED BY <2>24 DEF e
<1> QED BY <1>1, <1>2

LEMMA ItemsComplete ==
  ASSUME elements \in Sections, NEW i \in DOMAIN elements, NEW m
  PROVE  Complete(Items(elements[i], i, m), i)
<1>1. CASE IsTable(elements[i])
  BY <1>1, TablesComplete DEF Items
<1>2. CASE ~IsTable(elements[i])
  <2>1. elements[i].tag = "P"
    BY <1>2, SectionFacts DEF IsElement, IsTable
  <2> QED BY <1>2, <2>1, StructuredComplete, PlainComplete DEF Items
<1> QED BY <1>1, <1>2

LEMMA KeptTyped ==
  ASSUME elements \in Sections, NEW i \in DOMAIN elements
  PROVE  Kept(elements[i], i) \in Seq(Place)
<1> PICK ts : Complete(ts, i)
  BY ItemsComplete
<1>1. Brought(ts) \in Seq(Place) /\ Only(Brought(ts)) = Kept(elements[i], i)
  BY BroughtTyped DEF Complete
<1> QED BY <1>1, OnlyParts

-----------------------------------------------------------------------------
(* Collecting: the places of the blocks, with what is left of the element, *)
(* are the content of what was taken up.                                   *)

Collected(bs) == FlattenSeq([b \in DOMAIN bs |-> bs[b].at])

Taken(n) == FlattenSeq([i \in 1..n |-> Kept(elements[i], i)])

BlocksAt(bs) == IsList(bs) /\ \A b \in DOMAIN bs : bs[b].at \in Seq(Place)

Gathers(bs, ts, n) ==
  /\ BlocksAt(bs) /\ YieldsPlaces(ts)
  /\ Only(Collected(bs)) \o Only(Brought(ts)) = Taken(n)

(* The same of any section s. *)
TextIn(s, at) == IsTable(s[at[1]]) \/ s[at[1]].parts[at[2]].kind = "text"

OnlyIn(s, ats) == FlattenSeq([k \in DOMAIN ats |-> IF TextIn(s, ats[k]) THEN << ats[k] >> ELSE <<>>])

Gathered(s, bs, ts, n) ==
  /\ BlocksAt(bs) /\ YieldsPlaces(ts)
  /\ OnlyIn(s, Collected(bs)) \o OnlyIn(s, Brought(ts)) = FlattenSeq([i \in 1..n |-> Kept(s[i], i)])

Gathering ==
  /\ Gathered(elements, blocks, todo, pos)
  /\ phase # "collect" => pos = Len(elements) /\ todo = <<>>

LEMMA GatheredHere ==
  ASSUME NEW bs, NEW ts, NEW n
  PROVE  Gathered(elements, bs, ts, n) <=> Gathers(bs, ts, n)
<1>1. ASSUME NEW c PROVE OnlyIn(elements, c) = Only(c)
  <2>1. \A k : TextIn(elements, c[k]) <=> Textual(c[k])
    BY DEF TextIn, Textual
  <2>2. [k \in DOMAIN c |-> IF TextIn(elements, c[k]) THEN << c[k] >> ELSE <<>>]
          = [k \in DOMAIN c |-> IF Textual(c[k]) THEN << c[k] >> ELSE <<>>]
    BY <2>1
  <2> QED BY <2>2 DEF OnlyIn, Only
<1>2. OnlyIn(elements, Collected(bs)) = Only(Collected(bs)) /\ OnlyIn(elements, Brought(ts)) = Only(Brought(ts))
  BY <1>1
<1> QED BY <1>2 DEF Gathered, Gathers, Taken

LEMMA CollectedTyped ==
  ASSUME NEW bs, BlocksAt(bs)
  PROVE  /\ [b \in DOMAIN bs |-> bs[b].at] \in Seq(Seq(Place))
         /\ Collected(bs) \in Seq(Place)
<1> DEFINE V == Seq(Place)
<1>1. Len(bs) \in Nat /\ DOMAIN bs = 1..Len(bs) /\ \A b \in DOMAIN bs : bs[b].at \in V
  BY ListFacts DEF BlocksAt
<1>2. [b \in DOMAIN bs |-> bs[b].at] \in Seq(V)
  <2> HIDE DEF V
  <2> QED BY <1>1
<1> QED BY <1>2, FlattenDraws DEF Collected

LEMMA CollectedAppend ==
  ASSUME NEW bs, BlocksAt(bs), NEW new, new.at \in Seq(Place)
  PROVE  /\ BlocksAt(Append(bs, new))
         /\ Collected(Append(bs, new)) = Collected(bs) \o new.at
<1> DEFINE V == Seq(Place)
           cs == Append(bs, new)
           N == Len(bs)
           qs == [b \in DOMAIN bs |-> bs[b].at]
           zs == [b \in DOMAIN cs |-> cs[b].at]
           ws == Append(qs, new.at)
<1>1. /\ IsList(cs) /\ N \in Nat /\ DOMAIN bs = 1..N /\ DOMAIN cs = 1..(N + 1)
      /\ \A k \in 1..N : cs[k] = bs[k]
      /\ cs[N + 1] = new
  BY ListAppend, ListFacts DEF BlocksAt
<1> HIDE DEF cs, N
<1>2. \A k \in 1..(N + 1) : k \in 1..N \/ k = N + 1
  BY <1>1
<1>3. BlocksAt(cs)
  BY <1>1, <1>2 DEF BlocksAt
<1>4. qs \in Seq(V) /\ zs \in Seq(V) /\ new.at \in V
  BY <1>3, CollectedTyped
<1>5. Len(qs) = N /\ Len(zs) = N + 1 /\ (\A k \in 1..N : qs[k] = bs[k].at) /\ \A k \in 1..(N + 1) : zs[k] = cs[k].at
  BY <1>1
<1> HIDE DEF V, qs, zs, ws
<1>6. ws \in Seq(V) /\ Len(ws) = N + 1 /\ (\A k \in 1..N : ws[k] = qs[k]) /\ ws[N + 1] = new.at
  <2> PICK x : x = new.at
    OBVIOUS
  <2>1. x \in V /\ ws = Append(qs, x)
    BY <1>4 DEF ws
  <2>2. /\ Append(qs, x) \in Seq(V) /\ Len(Append(qs, x)) = Len(qs) + 1
        /\ \A k \in 1..Len(qs) : Append(qs, x)[k] = qs[k]
        /\ Append(qs, x)[Len(qs) + 1] = x
    <3>1. qs \in Seq(V) /\ x \in V
      BY <1>4, <2>1
    <3> QED BY ONLY <3>1
  <2> QED BY <1>5, <2>1, <2>2
<1>7. \A k \in 1..(N + 1) : zs[k] = ws[k]
  BY <1>1, <1>2, <1>5, <1>6
<1>8. zs = ws
  BY <1>1, <1>4, <1>5, <1>6, <1>7, SeqEqual
<1>9. FlattenSeq(ws) = FlattenSeq(qs) \o new.at
  <2>1. qs \in Seq(Seq(Place)) /\ new.at \in Seq(Place)
    BY <1>4 DEF V
  <2> QED BY <2>1, FlattenAppend DEF ws
<1> QED BY <1>3, <1>8, <1>9 DEF Collected, cs, qs, zs

LEMMA TakenOn ==
  ASSUME elements \in Sections, NEW n \in Nat, n < Len(elements)
  PROVE  /\ Taken(n) \in Seq(Place)
         /\ Taken(n + 1) = Taken(n) \o Kept(elements[n + 1], n + 1)
<1> DEFINE V == Seq(Place)
           k(i) == Kept(elements[i], i)
           qs == [i \in 1..n |-> k(i)]
           zs == [i \in 1..(n + 1) |-> k(i)]
           ws == Append(qs, k(n + 1))
<1>1. \A i \in 1..(n + 1) : k(i) \in V
  <2>1. \A i \in 1..(n + 1) : i \in DOMAIN elements
    BY SectionFacts
  <2> QED BY <2>1, KeptTyped
<1> HIDE DEF V, k
<1>2. /\ qs \in Seq(V) /\ Len(qs) = n /\ \A i \in 1..n : qs[i] = k(i)
  BY <1>1
<1>3. zs \in Seq(V) /\ Len(zs) = n + 1 /\ \A i \in 1..(n + 1) : zs[i] = k(i)
  BY <1>1
<1>4. k(n + 1) \in V
  BY <1>1
<1> HIDE DEF qs, zs
<1>5. ws \in Seq(V) /\ Len(ws) = n + 1 /\ (\A i \in 1..n : ws[i] = qs[i]) /\ ws[n + 1] = k(n + 1)
  <2> PICK x : x = k(n + 1)
    OBVIOUS
  <2>1. x \in V /\ ws = Append(qs, x)
    BY <1>4
  <2> HIDE DEF ws
  <2>2. /\ Append(qs, x) \in Seq(V) /\ Len(Append(qs, x)) = Len(qs) + 1
        /\ \A i \in 1..Len(qs) : Append(qs, x)[i] = qs[i]
        /\ Append(qs, x)[Len(qs) + 1] = x
    <3>1. qs \in Seq(V) /\ x \in V
      BY <1>2, <2>1
    <3> QED BY ONLY <3>1
  <2> QED BY <1>2, <2>1, <2>2
<1> HIDE DEF ws
<1>6. zs = ws
  <2>1. \A i \in 1..(n + 1) : i \in 1..n \/ i = n + 1
    OBVIOUS
  <2>2. \A i \in 1..(n + 1) : zs[i] = ws[i]
    BY <1>2, <1>3, <1>5, <2>1
  <2> QED BY <1>3, <1>5, <2>2, SeqEqual
<1>7. qs \in Seq(Seq(Place)) /\ k(n + 1) \in Seq(Place)
  BY <1>2, <1>4 DEF V
<1>8. FlattenSeq(ws) = FlattenSeq(qs) \o k(n + 1) /\ FlattenSeq(qs) \in Seq(Place)
  BY <1>7, FlattenAppend, FlattenDraws DEF ws
<1> QED BY <1>6, <1>8 DEF Taken, qs, zs, k

LEMMA GatherItem ==
  ASSUME NEW bs, NEW cs, NEW ts, NEW n, elements \in Sections, n \in 0..Len(elements),
         Gathers(bs, ts, n), ts # <<>>,
         \/ cs = bs /\ Yields(Head(ts)) = <<>>
         \/ \E new : cs = Append(bs, new) /\ new.at = Yields(Head(ts))
  PROVE  Gathers(cs, Tail(ts), n)
<1> DEFINE y == Yields(Head(ts))
           c == Collected(bs)
           b == Brought(Tail(ts))
<1>1. y \in Seq(Place) /\ YieldsPlaces(Tail(ts)) /\ Brought(ts) = y \o b
  BY BroughtTail DEF Gathers
<1>2. c \in Seq(Place) /\ b \in Seq(Place)
  BY <1>1, CollectedTyped, BroughtTyped DEF Gathers
<1>3. BlocksAt(cs) /\ Collected(cs) = c \o y
  <2>1. CASE cs = bs /\ y = <<>>
    <3>1. c \o <<>> = c
      BY <1>2, ConcatEmptySeq
    <3> QED BY <2>1, <3>1 DEF Gathers
  <2>2. CASE \E new : cs = Append(bs, new) /\ new.at = y
    BY <1>1, <2>2, CollectedAppend DEF Gathers
  <2> QED BY <2>1, <2>2
<1> HIDE DEF y, c, b
<1>4. Only(Brought(ts)) = Only(y) \o Only(b) /\ Only(Collected(cs)) = Only(c) \o Only(y)
  BY <1>1, <1>2, <1>3, OnlyParts
<1>5. (Only(c) \o Only(y)) \o Only(b) = Only(c) \o (Only(y) \o Only(b))
  <2>1. Only(c) \in Seq(Place) /\ Only(y) \in Seq(Place) /\ Only(b) \in Seq(Place)
    BY <1>1, <1>2, OnlyParts
  <2> QED BY <2>1, ConcatAssociative
<1>6. Only(c) \o Only(Brought(ts)) = Taken(n)
  BY DEF Gathers, c
<1> QED BY <1>1, <1>3, <1>4, <1>5, <1>6 DEF Gathers, b

LEMMA GatherElement ==
  ASSUME NEW bs, NEW ts, NEW n \in Nat, elements \in Sections, n < Len(elements),
         Gathers(bs, <<>>, n), Complete(ts, n + 1)
  PROVE  Gathers(bs, ts, n + 1)
<1>1. Only(Brought(<<>>)) = <<>>
  <2>1. [k \in DOMAIN <<>> |-> Yields(<<>>[k])] = <<>>
    OBVIOUS
  <2> QED BY <2>1, FlattenNone, OnlyParts DEF Brought
<1>2. Only(Collected(bs)) \in Seq(Place)
  BY CollectedTyped, OnlyParts DEF Gathers
<1>3. Only(Collected(bs)) = Taken(n)
  BY <1>1, <1>2, ConcatEmptySeq DEF Gathers
<1>4. Taken(n + 1) = Taken(n) \o Kept(elements[n + 1], n + 1)
  BY TakenOn
<1> QED BY <1>3, <1>4 DEF Gathers, Complete

LEMMA GatherNothing ==
  Gathers(<<>>, <<>>, 0)
<1>1. BlocksAt(<<>>) /\ YieldsPlaces(<<>>)
  BY EmptyList DEF BlocksAt, YieldsPlaces
<1>2. [k \in DOMAIN <<>> |-> Yields(<<>>[k])] = <<>> /\ [b \in DOMAIN <<>> |-> <<>>[b].at] = <<>>
  OBVIOUS
<1>3. [i \in 1..0 |-> Kept(elements[i], i)] = <<>>
  OBVIOUS
<1>4. <<>> \o <<>> = <<>>
  OBVIOUS
<1> QED BY <1>1, <1>2, <1>3, <1>4, FlattenNone, OnlyParts DEF Gathers, Collected, Brought, Taken

LEMMA GatheringGoesOn ==
  ASSUME Reading, Gathering, [Next]_vars
  PROVE  Gathering'
<1> USE DEF Reading
<1>1. ASSUME elements' = elements, Gathers(blocks', todo', pos'),
             phase' # "collect" => pos' = Len(elements) /\ todo' = <<>>
      PROVE  Gathering'
  <2>1. Gathered(elements, blocks', todo', pos')
    BY <1>1, GatheredHere
  <2> QED BY <1>1, <2>1 DEF Gathering
<1>2. CASE NextElement
  <2>1. /\ elements' = elements /\ pos' = pos + 1 /\ blocks' = blocks /\ pos < Len(elements)
        /\ phase' = "collect" /\ todo = <<>>
        /\ todo' = Items(elements[pos + 1], pos + 1, mode)
    BY <1>2 DEF NextElement, section
  <2>2. pos + 1 \in DOMAIN elements /\ pos \in Nat
    BY <2>1, SectionFacts
  <2>3. Complete(todo', pos + 1)
    BY <2>1, <2>2, ItemsComplete
  <2>4. Gathers(blocks, todo', pos + 1)
    BY <2>1, <2>2, <2>3, GatheredHere, GatherElement DEF Gathering
  <2> QED BY <1>1, <2>1, <2>4
<1>3. ASSUME elements' = elements, pos' = pos, phase' = phase, phase = "collect",
             todo # <<>>, todo' = Tail(todo),
             \/ blocks' = blocks /\ Yields(Head(todo)) = <<>>
             \/ \E new : blocks' = Append(blocks, new) /\ new.at = Yields(Head(todo))
      PROVE  Gathering'
  <2>1. Gathers(blocks', Tail(todo), pos)
    BY <1>3, GatheredHere, GatherItem DEF Gathering
  <2> QED BY <1>1, <1>3, <2>1
<1>4. CASE LeadHeading \/ BodyHeading
  <2>1. /\ phase = "collect" /\ phase' = phase /\ todo # <<>> /\ todo' = Tail(todo)
        /\ elements' = elements /\ pos' = pos /\ blocks' = blocks
        /\ Head(todo).do \in {"lead", "heading"}
    BY <1>4 DEF LeadHeading, BodyHeading, Item, section
  <2>2. Yields(Head(todo)) = <<>>
    BY <2>1 DEF Yields
  <2> QED BY <1>3, <2>1, <2>2
<1>5. CASE BodyText
  <2> DEFINE item == Head(todo)
             new == Block("paragraph", item.at, item.size, item.whole, item.forward, None, None)
  <2>1. /\ phase = "collect" /\ phase' = phase /\ todo # <<>> /\ todo' = Tail(todo)
        /\ elements' = elements /\ pos' = pos /\ blocks' = Append(blocks, new)
        /\ item.do = "text"
    BY <1>5 DEF BodyText, Item, section
  <2>2. new.at = Yields(item)
    BY <2>1 DEF Block, Yields
  <2> HIDE DEF new
  <2> QED BY <1>3, <2>1, <2>2
<1>6. CASE ReadTable
  <2> DEFINE item == Head(todo)
             t == item.table
             new == Block("table", <<item.at>>, t.size, TRUE, Forward(t), caption, hint)
  <2>1. /\ phase = "collect" /\ phase' = phase /\ todo # <<>> /\ todo' = Tail(todo)
        /\ elements' = elements /\ pos' = pos /\ item.do = "table"
        /\ blocks' = IF HintTable(t) \/ t.role = "empty" THEN blocks ELSE Append(blocks, new)
    BY <1>6 DEF ReadTable, Item, section
  <2>2. Yields(item) = IF HintTable(t) \/ t.role = "empty" THEN <<>> ELSE << item.at >>
    BY <2>1 DEF Yields
  <2>3. new.at = << item.at >>
    BY DEF Block
  <2> HIDE DEF new
  <2> QED BY <1>3, <2>1, <2>2, <2>3
<1>7. CASE Timeout
  <2>1. elements' = elements /\ pos' = 0 /\ todo' = <<>> /\ blocks' = <<>> /\ phase' = "collect"
    BY <1>7 DEF Timeout, section, Restarted
  <2> QED BY <1>1, <2>1, GatherNothing
<1>8. CASE EndOfSection \/ Link \/ ChunkBlock \/ Finish \/ UNCHANGED vars
  <2>1. /\ elements' = elements /\ pos' = pos /\ todo' = todo /\ blocks' = blocks
        /\ phase' # "collect" => phase # "collect" \/ (pos = Len(elements) /\ todo = <<>>)
    BY <1>8 DEF EndOfSection, Link, ChunkBlock, Finish, vars, section
  <2> QED BY <1>1, <2>1, GatheredHere DEF Gathering
<1> QED BY <1>2, <1>4, <1>5, <1>6, <1>7, <1>8 DEF Next

(* While a section is collected, the blocks with what is left of the       *)
(* element hold the content of what was taken up, in order.                *)
LEMMA GatheringAlways == Spec => []Gathering
<1>1. Init => Gathering
  BY GatherNothing, GatheredHere DEF Init, Gathering
<1> QED BY <1>1, ReadingTyped, GatheringGoesOn, PTL DEF Spec

-----------------------------------------------------------------------------
(* Packing: the blocks of the chunks, with those that wait, are the blocks *)
(* taken so far, each once and in order.                                   *)

FirstOf(c) == IF c.piece = "rest" THEN <<>> ELSE c.of

Covered(cs) == FlattenSeq([n \in DOMAIN cs |-> FirstOf(cs[n])])

Waiting(ps) == [k \in DOMAIN ps |-> ps[k].block]

UpTo(n) == [k \in 1..n |-> k]

OfBlocks(cs) == IsList(cs) /\ \A n \in DOMAIN cs : cs[n].of \in Seq(Nat)

WaitsInOrder(ps) == IsList(ps) /\ \A k \in DOMAIN ps : ps[k].block \in Nat

Packed(cs, ps, n) ==
  /\ OfBlocks(cs) /\ WaitsInOrder(ps) /\ n \in Nat
  /\ Covered(cs) \o Waiting(ps) = UpTo(n)

Packing ==
  /\ Packed(chunks, pending, taken)
  /\ phase = "done" => taken = Len(blocks) /\ pending = <<>>

LEMMA CoveredSpreads ==
  ASSUME NEW A, \A c \in A : c.of \in Seq(Nat)
  PROVE  LET g == [c \in A |-> FirstOf(c)]
         IN  Spreads(g, A, Nat) /\ \A cs \in Seq(A) : Covered(cs) = Spread(g, cs)
<1> DEFINE g == [c \in A |-> FirstOf(c)]
<1>1. Spreads(g, A, Nat)
  <2>1. <<>> \in Seq(Nat)
    OBVIOUS
  <2> QED BY <2>1 DEF Spreads, FirstOf
<1>2. ASSUME NEW cs \in Seq(A) PROVE Covered(cs) = Spread(g, cs)
  <2>1. \A k \in DOMAIN cs : cs[k] \in A
    OBVIOUS
  <2>2. [n \in DOMAIN cs |-> FirstOf(cs[n])] = [n \in DOMAIN cs |-> g[cs[n]]]
    BY <2>1
  <2> QED BY <2>2 DEF Covered, Spread
<1> QED BY <1>1, <1>2

LEMMA CoveredTyped ==
  ASSUME NEW cs, OfBlocks(cs)
  PROVE  Covered(cs) \in Seq(Nat)
<1> DEFINE A == Range(cs)
           g == [c \in A |-> FirstOf(c)]
<1>1. cs \in Seq(A) /\ \A c \in A : c.of \in Seq(Nat)
  BY ListFacts DEF OfBlocks, IsList
<1> HIDE DEF A
<1>2. Spreads(g, A, Nat) /\ Covered(cs) = Spread(g, cs)
  BY <1>1, CoveredSpreads
<1> HIDE DEF g
<1>3. cs \in Seq(A)
  BY <1>1
<1>4. Spread(g, cs) \in Seq(Nat)
  BY ONLY <1>2, <1>3, SpreadTyped
<1> QED BY <1>2, <1>4

LEMMA CoveredConcat ==
  ASSUME NEW cs, NEW ds, OfBlocks(cs), OfBlocks(ds)
  PROVE  OfBlocks(cs \o ds) /\ Covered(cs \o ds) = Covered(cs) \o Covered(ds)
<1> DEFINE A == Range(cs) \cup Range(ds)
           g == [c \in A |-> FirstOf(c)]
<1>1. cs \in Seq(A) /\ ds \in Seq(A) /\ \A c \in A : c.of \in Seq(Nat)
  <2>1. \A k \in 1..Len(cs) : cs[k] \in Range(cs)
    BY DEF OfBlocks, IsList
  <2>2. \A k \in 1..Len(ds) : ds[k] \in Range(ds)
    BY DEF OfBlocks, IsList
  <2>3. \A c \in A : c.of \in Seq(Nat)
    BY ListFacts DEF OfBlocks
  <2> QED BY <2>1, <2>2, <2>3 DEF OfBlocks, IsList
<1>2. IsList(cs \o ds) /\ \A k \in DOMAIN (cs \o ds) : (cs \o ds)[k] \in A
  BY ListConcat DEF OfBlocks
<1> HIDE DEF A
<1>3. OfBlocks(cs \o ds)
  BY <1>1, <1>2 DEF OfBlocks
<1>4. cs \in Seq(A) /\ ds \in Seq(A) /\ cs \o ds \in Seq(A)
  BY <1>1
<1>5. Spreads(g, A, Nat) /\ \A xs \in Seq(A) : Covered(xs) = Spread(g, xs)
  BY <1>1, CoveredSpreads
<1> HIDE DEF g
<1>6. Spread(g, cs \o ds) = Spread(g, cs) \o Spread(g, ds)
  <2>1. cs \in Seq(A) /\ ds \in Seq(A) /\ Spreads(g, A, Nat)
    BY <1>4, <1>5
  <2> QED BY ONLY <2>1, SpreadConcat
<1> QED BY <1>3, <1>4, <1>5, <1>6

IsWhole(c) ==
  c = [of |-> c.of, heading |-> c.heading, scope |-> c.scope, table |-> c.table,
       context |-> c.context, piece |-> "whole"]

LEMMA CutCovers ==
  ASSUME NEW c, IsWhole(c), c.of \in Seq(Nat), NEW size, NEW kept \in BOOLEAN
  PROVE  OfBlocks(Cut(c, size, kept)) /\ Covered(Cut(c, size, kept)) = c.of
<1> DEFINE of == c.of
           first == [c EXCEPT !.piece = "first"]
           rest == [c EXCEPT !.piece = "rest", !.context = IF kept THEN @ ELSE 0]
           A == {c, first, rest}
           g == [x \in A |-> FirstOf(x)]
<1>1. Cut(c, size, kept) = IF size <= ChunkSize THEN << c >> ELSE << first, rest >>
  BY DEF Cut
<1>2. /\ c.of = of /\ first.of = of /\ rest.of = of
      /\ FirstOf(c) = of /\ FirstOf(first) = of /\ FirstOf(rest) = <<>>
  <2>1. DOMAIN c = {"of", "heading", "scope", "table", "context", "piece"} /\ c.piece = "whole"
    BY DEF IsWhole
  <2>2. first.of = of /\ rest.of = of /\ first.piece = "first" /\ rest.piece = "rest"
    BY <2>1
  <2> QED BY <2>1, <2>2 DEF FirstOf
<1> HIDE DEF first, rest
<1>3. c \in A /\ first \in A /\ rest \in A /\ \A x \in A : x.of \in Seq(Nat)
  BY <1>2
<1>4. g[c] = of /\ g[first] = of /\ g[rest] = <<>>
  BY <1>2, <1>3
<1>5. Spreads(g, A, Nat) /\ \A xs \in Seq(A) : Covered(xs) = Spread(g, xs)
  BY <1>3, CoveredSpreads
<1> HIDE DEF A, g
<1>6. << c >> \in Seq(A) /\ << first, rest >> \in Seq(A)
  BY <1>3
<1>7. Spread(g, << c >>) = of
  <2>1. Spread(g, << c >>) = g[c]
    BY ONLY <1>3, <1>5, SpreadOne
  <2> QED BY <1>4, <2>1
<1>8. Spread(g, << first, rest >>) = of
  <2>1. Spread(g, << first, rest >>) = g[first] \o g[rest]
    <3>1. first \in A /\ rest \in A /\ Spreads(g, A, Nat)
      BY <1>3, <1>5
    <3> QED BY ONLY <3>1, SpreadPair
  <2>2. of \o <<>> = of
    BY ConcatEmptySeq
  <2> QED BY <1>4, <2>1, <2>2
<1>9. ASSUME NEW xs \in Seq(A) PROVE OfBlocks(xs)
  <2>1. IsList(xs) /\ \A k \in DOMAIN xs : xs[k] \in A
    BY ListOf
  <2> QED BY <1>3, <2>1 DEF OfBlocks
<1> QED BY <1>1, <1>5, <1>6, <1>7, <1>8, <1>9

LEMMA FlushedCovers ==
  ASSUME NEW n, Packed(chunks, pending, n)
  PROVE  Packed(Flushed, <<>>, n)
<1> DEFINE first == IF TablesIn(pending) = {} THEN [block |-> 0, context |-> 0]
                    ELSE pending[Min(TablesIn(pending))]
           of == [i \in DOMAIN pending |-> pending[i].block]
           heading == FirstHeading(pending)
           scope == blocks[pending[1].block].scope
           chunk == [of |-> of, heading |-> heading, scope |-> scope,
                     table |-> first.block, context |-> first.context, piece |-> "whole"]
           cut == Cut(chunk, Size(pending), FALSE)
<1>1. OfBlocks(chunks) /\ Covered(chunks) \in Seq(Nat) /\ n \in Nat
  BY CoveredTyped DEF Packed
<1>2. of \in Seq(Nat) /\ of = Waiting(pending)
  <2>1. Len(pending) \in Nat /\ DOMAIN pending = 1..Len(pending)
    BY ListFacts DEF Packed, WaitsInOrder
  <2>2. \A k \in 1..Len(pending) : pending[k].block \in Nat
    BY <2>1 DEF Packed, WaitsInOrder
  <2> QED BY <2>1, <2>2 DEF Waiting
<1>3. WaitsInOrder(<<>>) /\ Waiting(<<>>) = <<>>
  BY EmptyList DEF WaitsInOrder, Waiting
<1>4. OfBlocks(Flushed) /\ Covered(Flushed) = UpTo(n)
  <2>1. CASE pending = <<>>
    <3>1. Flushed = chunks
      BY <2>1 DEF Flushed
    <3>2. Covered(chunks) \o <<>> = Covered(chunks)
      BY <1>1, ConcatEmptySeq
    <3> QED BY <1>1, <1>3, <2>1, <3>1, <3>2 DEF Packed
  <2>2. CASE pending # <<>>
    <3>1. Flushed = chunks \o cut
      BY <2>2 DEF Flushed
    <3> HIDE DEF first, of, heading, scope
    <3>2. OfBlocks(cut) /\ Covered(cut) = of
      <4>1. IsWhole(chunk) /\ chunk.of = of
        BY DEF IsWhole
      <4> HIDE DEF chunk
      <4> QED BY <1>2, <4>1, CutCovers
    <3> HIDE DEF cut
    <3>3. OfBlocks(chunks \o cut) /\ Covered(chunks \o cut) = Covered(chunks) \o Covered(cut)
      BY <1>1, <3>2, CoveredConcat
    <3> QED BY <1>2, <3>1, <3>2, <3>3 DEF Packed
  <2> QED BY <2>1, <2>2
<1>5. UpTo(n) \o <<>> = UpTo(n)
  <2>1. UpTo(n) \in Seq(Nat)
    BY <1>1 DEF UpTo
  <2> QED BY <2>1, ConcatEmptySeq
<1> QED BY <1>1, <1>3, <1>4, <1>5 DEF Packed

LEMMA UpToNext ==
  ASSUME NEW n \in Nat
  PROVE  UpTo(n) \in Seq(Nat) /\ UpTo(n) \o << n + 1 >> = UpTo(n + 1)
<1> DEFINE s == UpTo(n)
           t == UpTo(n + 1)
           u == << n + 1 >>
           w == s \o u
<1>1. s \in Seq(Nat) /\ Len(s) = n /\ \A k \in 1..n : s[k] = k
  BY DEF UpTo
<1>2. t \in Seq(Nat) /\ Len(t) = n + 1 /\ \A k \in 1..(n + 1) : t[k] = k
  BY DEF UpTo
<1>3. u \in Seq(Nat) /\ Len(u) = 1 /\ u[1] = n + 1
  OBVIOUS
<1> HIDE DEF s, t, u
<1>4. /\ w \in Seq(Nat) /\ Len(w) = n + 1
      /\ \A k \in 1..(n + 1) : w[k] = IF k <= n THEN s[k] ELSE u[k - n]
  <2>1. Len(s) + Len(u) = n + 1
    BY <1>1, <1>3
  <2>2. /\ w \in Seq(Nat) /\ Len(w) = Len(s) + Len(u)
        /\ \A k \in 1..(Len(s) + Len(u)) : w[k] = IF k <= Len(s) THEN s[k] ELSE u[k - Len(s)]
    <3>1. s \in Seq(Nat) /\ u \in Seq(Nat)
      BY <1>1, <1>3
    <3> QED BY ONLY <3>1, ConcatProperties
  <2> HIDE DEF w
  <2> QED BY <1>1, <2>1, <2>2
<1> HIDE DEF w
<1>5. \A k \in 1..(n + 1) : w[k] = t[k]
  <2>1. \A k \in 1..(n + 1) : k \in 1..n \/ (k = n + 1 /\ ~(k <= n) /\ k - n = 1)
    OBVIOUS
  <2> QED BY <1>1, <1>2, <1>3, <1>4, <2>1
<1>6. w = t
  BY <1>2, <1>4, <1>5, SeqEqual
<1> QED BY <1>1, <1>6 DEF w, s, t, u

LEMMA PackingTakesBlock ==
  ASSUME Chunking, Packing, ChunkBlock
  PROVE  Packing'
<1> DEFINE i == taken + 1
           b == blocks[i]
           linked == i - 1 \in prefixes
           context == IF b.type = "paragraph" THEN 0
                      ELSE IF linked THEN i - 1 ELSE Near(i).block
           breaks == pending # <<>> /\ Breaks(i)
           done == IF breaks THEN Flushed ELSE chunks
           left == IF breaks THEN <<>> ELSE pending
           alone == [of |-> <<i>>, heading |-> b.heading, scope |-> b.scope, table |-> i,
                     context |-> context, piece |-> "whole"]
           new == [block |-> i, context |-> context]
           cut == Cut(alone, b.size, linked)
<1>1. /\ phase = "chunk" /\ phase' = phase /\ taken' = i
      /\ IF Standalone(i)
         THEN chunks' = done \o cut /\ pending' = left
         ELSE chunks' = done /\ pending' = Append(left, new)
  BY DEF ChunkBlock
<1>2. taken \in Nat /\ i \in Nat
  BY DEF Packing, Packed
<1>3. Packed(done, left, taken)
  <2>1. CASE breaks
    BY <2>1, FlushedCovers DEF Packing
  <2>2. CASE ~breaks
    BY <2>2 DEF Packing
  <2> QED BY <2>1, <2>2
<1>4. Standalone(i) => left = <<>>
  BY DEF Breaks
<1> DEFINE n == taken
<1>5. n \in Nat /\ i = n + 1 /\ UpTo(n) \in Seq(Nat) /\ UpTo(n) \o <<i>> = UpTo(n + 1)
  BY <1>2, UpToNext
<1>6. new.block = i
  OBVIOUS
<1>7. IsWhole(alone) /\ alone.of = <<i>>
  BY DEF IsWhole
<1> HIDE DEF done, left, alone, new, linked, context, b, i, n
<1>8. CASE Standalone(i)
  <2>1. OfBlocks(cut) /\ Covered(cut) = <<i>>
    <3>1. <<i>> \in Seq(Nat)
      BY <1>2
    <3>2. linked \in BOOLEAN
      BY DEF linked
    <3> PICK kept \in BOOLEAN : kept = linked
      BY <3>2
    <3> PICK z : z = b.size
      OBVIOUS
    <3>3. OfBlocks(Cut(alone, z, kept)) /\ Covered(Cut(alone, z, kept)) = <<i>>
      BY <1>7, <3>1, CutCovers
    <3> QED BY <3>3
  <2> HIDE DEF cut
  <2>2. WaitsInOrder(<<>>) /\ Waiting(<<>>) = <<>>
    BY EmptyList DEF WaitsInOrder, Waiting
  <2>3. OfBlocks(done) /\ Covered(done) \o <<>> = UpTo(n)
    BY <1>3, <1>4, <1>8, <2>2 DEF Packed, n
  <2>4. Covered(done) = UpTo(n)
    BY <2>3, CoveredTyped, ConcatEmptySeq
  <2>5. OfBlocks(done \o cut) /\ Covered(done \o cut) = UpTo(n) \o <<i>>
    BY <2>1, <2>3, <2>4, CoveredConcat
  <2>6. UpTo(i) \o <<>> = UpTo(i)
    <3>1. UpTo(i) \in Seq(Nat)
      BY <1>2, UpToNext
    <3> QED BY <3>1, ConcatEmptySeq
  <2>7. Packed(done \o cut, <<>>, i)
    BY <1>2, <1>5, <2>2, <2>5, <2>6 DEF Packed
  <2> QED BY <1>1, <1>4, <1>8, <2>7 DEF Packing
<1>9. CASE ~Standalone(i)
  <2> DEFINE next == Append(left, new)
             N == Len(left)
             s == Waiting(left)
             t == Waiting(next)
             w == s \o <<i>>
  <2>1. IsList(left) /\ \A k \in DOMAIN left : left[k].block \in Nat
    BY <1>3 DEF Packed, WaitsInOrder
  <2>2. /\ IsList(next) /\ DOMAIN next = 1..(N + 1) /\ N \in Nat /\ DOMAIN left = 1..N
        /\ \A k \in 1..N : next[k] = left[k]
        /\ next[N + 1] = new
    BY <2>1, ListAppend, ListFacts
  <2> HIDE DEF next, N
  <2>3. s \in Seq(Nat) /\ Len(s) = N /\ \A k \in 1..N : s[k] = left[k].block
    BY <2>1, <2>2 DEF Waiting
  <2>4. \A k \in 1..(N + 1) : k \in 1..N \/ (k = N + 1 /\ ~(k <= N) /\ k - N = 1)
    BY <2>2
  <2>5. \A k \in 1..(N + 1) : next[k].block \in Nat /\ next[k].block = IF k <= N THEN s[k] ELSE i
    BY <1>2, <1>6, <2>1, <2>2, <2>3, <2>4
  <2>6. t \in Seq(Nat) /\ Len(t) = N + 1 /\ \A k \in 1..(N + 1) : t[k] = next[k].block
    BY <2>2, <2>5 DEF Waiting
  <2> HIDE DEF s, t
  <2> DEFINE u == <<i>>
  <2>7. u \in Seq(Nat) /\ Len(u) = 1 /\ u[1] = i /\ u = <<i>>
    BY <1>2
  <2> HIDE DEF u
  <2> DEFINE v == s \o u
  <2>8. v \in Seq(Nat) /\ Len(v) = N + 1 /\ \A k \in 1..(N + 1) : v[k] = IF k <= N THEN s[k] ELSE u[k - N]
    <3>1. s \in Seq(Nat) /\ u \in Seq(Nat)
      BY <2>3, <2>7
    <3>2. /\ v \in Seq(Nat) /\ Len(v) = Len(s) + Len(u)
          /\ \A k \in 1..(Len(s) + Len(u)) : v[k] = IF k <= Len(s) THEN s[k] ELSE u[k - Len(s)]
      BY ONLY <3>1, ConcatProperties
    <3> HIDE DEF v
    <3>3. Len(s) + Len(u) = N + 1
      BY <2>2, <2>3, <2>7
    <3> QED BY <2>3, <3>2, <3>3
  <2> HIDE DEF v
  <2>9. \A k \in 1..(N + 1) : t[k] = v[k]
    <3> SUFFICES ASSUME NEW k \in 1..(N + 1) PROVE t[k] = v[k]
      OBVIOUS
    <3>1. /\ t[k] = IF k <= N THEN s[k] ELSE i
          /\ v[k] = IF k <= N THEN s[k] ELSE u[k - N]
      BY <2>5, <2>6, <2>8
    <3>2. ~(k <= N) => u[k - N] = i
      <4>1. ~(k <= N) => k - N = 1
        BY <2>2, <2>4
      <4> QED BY <2>7, <4>1
    <3> QED BY <3>1, <3>2
  <2>10. t = v
    BY <2>2, <2>6, <2>8, <2>9, SeqEqual
  <2>11. Covered(done) \in Seq(Nat) /\ OfBlocks(done) /\ Covered(done) \o s = UpTo(n)
    BY <1>3, CoveredTyped DEF Packed, s, n
  <2>12. Covered(done) \o (s \o u) = (Covered(done) \o s) \o u
    <3>1. Covered(done) \in Seq(Nat) /\ s \in Seq(Nat) /\ u \in Seq(Nat)
      BY <2>3, <2>7, <2>11
    <3> QED BY ONLY <3>1, ConcatAssociative
  <2>13. Covered(done) \o t = UpTo(i)
    BY <1>5, <2>7, <2>10, <2>11, <2>12 DEF v
  <2>14. WaitsInOrder(next)
    BY <2>2, <2>5 DEF WaitsInOrder
  <2>15. Packed(done, next, i)
    BY <1>2, <2>11, <2>13, <2>14 DEF Packed, t
  <2> QED BY <1>1, <1>9, <2>15 DEF Packing, next
<1> QED BY <1>8, <1>9

LEMMA PackedNothing == Packed(<<>>, <<>>, 0)
<1>1. OfBlocks(<<>>) /\ WaitsInOrder(<<>>)
  BY EmptyList DEF OfBlocks, WaitsInOrder
<1>2. [n \in DOMAIN <<>> |-> FirstOf(<<>>[n])] = <<>> /\ Waiting(<<>>) = <<>> /\ UpTo(0) = <<>>
  BY DEF Waiting, UpTo
<1>3. <<>> \o <<>> = <<>>
  OBVIOUS
<1> QED BY <1>1, <1>2, <1>3, FlattenNone DEF Packed, Covered

LEMMA PackingGoesOn ==
  ASSUME Chunking, Packing, [Next]_vars
  PROVE  Packing'
<1>1. CASE NextElement \/ LeadHeading \/ BodyHeading \/ BodyText \/ ReadTable \/ EndOfSection
           \/ Timeout \/ Link
  <2>1. /\ phase' # "done" /\ UNCHANGED <<taken, pending, chunks>>
    BY <1>1 DEF NextElement, LeadHeading, BodyHeading, BodyText, ReadTable, EndOfSection, Timeout,
                Link, Item, packing
  <2> QED BY <2>1 DEF Packing
<1>2. CASE ChunkBlock
  BY <1>2, PackingTakesBlock
<1>3. CASE Finish
  <2>1. /\ phase' = "done" /\ chunks' = Flushed /\ pending' = <<>> /\ blocks' = blocks
        /\ taken' = taken /\ taken = Len(blocks)
    BY <1>3 DEF Finish
  <2>2. Packed(Flushed, <<>>, taken)
    BY FlushedCovers DEF Packing
  <2> QED BY <2>1, <2>2 DEF Packing
<1>4. CASE UNCHANGED vars
  BY <1>4 DEF Packing, vars, packing
<1> QED BY <1>1, <1>2, <1>3, <1>4 DEF Next

(* The blocks of the chunks and those that wait are the blocks taken, each *)
(* once and in order.                                                      *)
LEMMA PackingAlways == Spec => []Packing
<1>1. Init => Packing
  BY PackedNothing DEF Init, Packing
<1> QED BY <1>1, ChunkingAlwaysStands, PackingGoesOn, PTL DEF Spec

-----------------------------------------------------------------------------
LEMMA ChunkedIsCollected ==
  ASSUME Reading, Gathering, Chunking, Packing, phase = "done"
  PROVE  Chunked = Collected(blocks)
<1> DEFINE D == DOMAIN blocks
           g == [b \in D |-> blocks[b].at]
           ss == [n \in DOMAIN chunks |-> FirstOf(chunks[n])]
           at(c) == IF c.piece = "rest" THEN <<>> ELSE FlattenSeq([k \in DOMAIN c.of |-> blocks[c.of[k]].at])
           U == Seq(D)
<1>1. BlocksAt(blocks)
  BY GatheredHere DEF Gathering, Gathers
<1>2. Spreads(g, D, Place)
  BY <1>1 DEF BlocksAt, Spreads
<1>3. \A b \in D : g[b] = blocks[b].at
  OBVIOUS
<1> HIDE DEF g
<1>4. Len(chunks) \in Nat /\ DOMAIN chunks = 1..Len(chunks)
  BY ListFacts DEF Packing, Packed, OfBlocks
<1>5. ASSUME NEW n \in DOMAIN chunks PROVE chunks[n].of \in U
  <2>1. chunks[n].of \in Seq(Nat) /\ Range(chunks[n].of) \subseteq D
    BY DEF Packing, Packed, OfBlocks, Chunking, ChunksStand, ChunkStands
  <2> PICK s : s = chunks[n].of
    OBVIOUS
  <2>2. \A k \in 1..Len(s) : s[k] \in D
    BY <2>1 DEF Range
  <2> HIDE DEF D
  <2> QED BY <2>1, <2>2
<1>6. \A n \in DOMAIN chunks : FirstOf(chunks[n]) \in U
  <2>1. <<>> \in U
    OBVIOUS
  <2> HIDE DEF U
  <2> QED BY <1>5, <2>1 DEF FirstOf
<1>7. ss \in Seq(U)
  <2> HIDE DEF U
  <2> QED BY <1>4, <1>6
<1>8. \A n \in DOMAIN chunks : at(chunks[n]) = Spread(g, FirstOf(chunks[n]))
  <2>1. ASSUME NEW s \in U PROVE FlattenSeq([k \in DOMAIN s |-> blocks[s[k]].at]) = Spread(g, s)
    <3>1. \A k \in DOMAIN s : g[s[k]] = blocks[s[k]].at
      <4>1. \A k \in DOMAIN s : s[k] \in D
        <5> HIDE DEF D
        <5> QED OBVIOUS
      <4> QED BY <1>3, <4>1
    <3>2. [k \in DOMAIN s |-> blocks[s[k]].at] = [k \in DOMAIN s |-> g[s[k]]]
      BY <3>1
    <3> QED BY <3>2 DEF Spread
  <2>2. Spread(g, <<>>) = <<>>
    BY SpreadNone
  <2> HIDE DEF U
  <2> QED BY <1>5, <2>1, <2>2 DEF FirstOf
<1>9. Chunked = FlattenSeq([n \in DOMAIN ss |-> Spread(g, ss[n])])
  <2>1. Chunked = FlattenSeq([n \in DOMAIN chunks |-> at(chunks[n])])
    BY DEF Chunked
  <2>2. [n \in DOMAIN chunks |-> at(chunks[n])] = [n \in DOMAIN ss |-> Spread(g, ss[n])]
    <3> HIDE DEF at
    <3> QED BY <1>8
  <2> QED BY <2>1, <2>2
<1>10. FlattenSeq([n \in DOMAIN ss |-> Spread(g, ss[n])]) = Spread(g, FlattenSeq(ss))
  <2>1. ss \in Seq(Seq(D))
    BY <1>7
  <2> HIDE DEF ss, D
  <2> QED BY ONLY <1>2, <2>1, SpreadFlatten
<1>11. FlattenSeq(ss) = UpTo(Len(blocks))
  <2>1. taken = Len(blocks) /\ pending = <<>> /\ OfBlocks(chunks) /\ Covered(chunks) \o Waiting(pending) = UpTo(taken)
    BY DEF Packing, Packed
  <2>2. Waiting(pending) = <<>> /\ Covered(chunks) \o <<>> = Covered(chunks)
    BY <2>1, CoveredTyped, ConcatEmptySeq DEF Waiting
  <2> QED BY <2>1, <2>2 DEF Covered
<1>12. Spread(g, UpTo(Len(blocks))) = Collected(blocks)
  <2>1. Len(blocks) \in Nat /\ D = 1..Len(blocks)
    BY ListFacts DEF Reading
  <2>2. DOMAIN UpTo(Len(blocks)) = D /\ \A k \in D : UpTo(Len(blocks))[k] = k
    BY <2>1 DEF UpTo
  <2>3. [k \in DOMAIN UpTo(Len(blocks)) |-> g[UpTo(Len(blocks))[k]]] = [b \in D |-> blocks[b].at]
    BY <1>3, <2>2
  <2> QED BY <2>3 DEF Spread, Collected
<1> QED BY <1>9, <1>10, <1>11, <1>12

(* Whatever the elements of a section are, and whether or not the budget   *)
(* ran out, every text and table with content ends up in exactly one chunk *)
(* and in order (collect_blocks, flush_pending).                           *)
THEOREM TextIsAlwaysKept == Spec => []TextKept
<1>1. Reading /\ Gathering /\ Chunking /\ Packing => TextKept
  <2> SUFFICES ASSUME Reading, Gathering, Chunking, Packing, phase = "done"
               PROVE  Only(Chunked) = Content
    BY DEF TextKept
  <2>1. pos = Len(elements) /\ todo = <<>> /\ Gathers(blocks, todo, pos)
    BY GatheredHere DEF Gathering
  <2>2. Only(Collected(blocks)) \in Seq(Place)
    BY <2>1, CollectedTyped, OnlyParts DEF Gathers
  <2>3. Only(Brought(<<>>)) = <<>>
    <3>1. [k \in DOMAIN <<>> |-> Yields(<<>>[k])] = <<>>
      OBVIOUS
    <3> QED BY <3>1, FlattenNone, OnlyParts DEF Brought
  <2>4. Only(Collected(blocks)) = Taken(Len(elements))
    BY <2>1, <2>2, <2>3, ConcatEmptySeq DEF Gathers
  <2>5. Taken(Len(elements)) = Content
    <3>1. DOMAIN elements = 1..Len(elements)
      BY SectionFacts DEF Reading
    <3> QED BY <3>1 DEF Taken, Content
  <2> QED BY <2>4, <2>5, ChunkedIsCollected
<1> QED BY <1>1, ReadingTyped, GatheringAlways, ChunkingAlwaysStands, PackingAlways, PTL

-----------------------------------------------------------------------------
(* The open headings are nested: at most one is a name, and numbers go     *)
(* down.  A new heading closes exactly the ones it ends.                   *)

Nested(s) ==
  /\ Entries(s)
  /\ \A k, l \in DOMAIN s : k < l =>
       /\ s[k].level = 0 => s[l].level # 0
       /\ s[k].level # 0 /\ s[l].level # 0 => s[k].level < s[l].level

(* A heading of this level ends the k-th open heading. *)
EndsAt(s, k, level) ==
  IF s[k].level = 0
  THEN level = 0 \/ \E j \in 1..(k - 1) : s[j].level >= level
  ELSE IF level = 0 THEN \E j \in 1..(k - 1) : s[j].level = 0 ELSE level <= s[k].level

Survive(s, n, level) ==
  /\ n \in 0..Len(s)
  /\ \A k \in 1..Len(s) : EndsAt(s, k, level) <=> k > n

LEMMA AboveKeeps ==
  ASSUME NEW s, Entries(s), NEW level \in 0..5, NEW floor \in 0..Len(s)
  PROVE  \E n \in floor..Len(s) :
           /\ Above(s, level, floor) = SubSeq(s, 1, n)
           /\ n > floor => s[n].level < level
           /\ \A k \in (n + 1)..Len(s) : s[k].level >= level
<1>1. Len(s) \in Nat /\ DOMAIN s = 1..Len(s) /\ \A k \in 1..Len(s) : s[k].level \in 0..5
  BY ListFacts DEF Entries, IsEntry
<1> DEFINE Keeps(n) == /\ n > floor => s[n].level < level
                       /\ \A k \in (n + 1)..Len(s) : s[k].level >= level
           S == {n \in floor..Len(s) : n > floor => s[n].level < level}
<1>2. PICK m \in S : \A n \in S : n <= m
  <2>1. S \in SUBSET (0..Len(s)) /\ floor \in S
    BY <1>1
  <2> HIDE DEF S
  <2> QED BY <1>1, <2>1, GreatestIndex
<1>3. m \in floor..Len(s) /\ Keeps(m)
  <2>1. ASSUME NEW k \in (m + 1)..Len(s) PROVE s[k].level >= level
    <3>1. k \in floor..Len(s) /\ k > m /\ k \in 1..Len(s)
      BY <1>1
    <3>2. k \notin S
      BY <1>2, <3>1
    <3>3. ~(s[k].level < level)
      BY <3>1, <3>2
    <3>4. s[k].level \in 0..5
      BY <1>1, <3>1
    <3> QED BY <3>3, <3>4
  <2> QED BY <2>1
<1> DEFINE keep == CHOOSE n \in floor..Len(s) : Keeps(n)
<1>4. keep \in floor..Len(s) /\ Keeps(keep)
  <2> HIDE DEF Keeps
  <2> QED BY <1>3
<1>5. Above(s, level, floor) = SubSeq(s, 1, keep)
  BY DEF Above
<1> HIDE DEF keep
<1> QED BY <1>4, <1>5

LEMMA PushSurvives ==
  ASSUME policy = "open", NEW s, Nested(s), NEW h, IsEntry(h)
  PROVE  \E n : Survive(s, n, h.level) /\ PushHeading(s, h) = Append(SubSeq(s, 1, n), h)
<1> DEFINE n == NameIn(s)
           outer == SubSeq(s, 1, n - 1)
           closes == \E i \in DOMAIN outer : outer[i].level >= h.level
           l == h.level
<1>1. Prepared(s, h) = s
  BY DEF Prepared
<1>2. PushHeading(s, h) =
        IF Bracket(h) THEN Append(IF Names(s) = {} THEN s ELSE outer, h)
        ELSE IF Names(s) = {} THEN Append(Above(s, l, 0), h)
        ELSE IF closes THEN Append(Above(outer, l, 0), h)
        ELSE Append(Above(s, l, n), h)
  BY <1>1 DEF PushHeading
<1>3. /\ Entries(s) /\ Len(s) \in Nat /\ DOMAIN s = 1..Len(s)
      /\ \A k \in 1..Len(s) : s[k].level \in 0..5
      /\ l \in 0..5
  BY ListFacts DEF Nested, Entries, IsEntry
<1>4. Names(s) = {k \in 1..Len(s) : s[k].level = 0} /\ (Bracket(h) <=> l = 0)
  BY <1>3 DEF Names, Bracket
<1>5. /\ \A j, k \in 1..Len(s) : j < k /\ s[j].level = 0 => s[k].level # 0
      /\ \A j, k \in 1..Len(s) : j < k /\ s[j].level # 0 /\ s[k].level # 0 => s[j].level < s[k].level
  BY <1>3 DEF Nested
<1>6. ASSUME Names(s) # {}
      PROVE  /\ n \in 1..Len(s) /\ s[n].level = 0
             /\ \A k \in 1..Len(s) : k # n => s[k].level # 0
             /\ Entries(outer) /\ Len(outer) = n - 1 /\ DOMAIN outer = 1..(n - 1)
             /\ \A k \in 1..(n - 1) : outer[k] = s[k]
  <2>1. n \in Names(s)
    <3>1. Names(s) \in SUBSET (0..Len(s))
      BY <1>3, <1>4
    <3>2. \E m \in Names(s) : \A k \in Names(s) : k <= m
      BY <1>3, <1>6, <3>1, GreatestIndex
    <3> QED BY <3>2 DEF NameIn
  <2>2. n \in 1..Len(s) /\ s[n].level = 0
    BY <1>4, <2>1
  <2> HIDE DEF n
  <2>3. \A k \in 1..Len(s) : k # n => s[k].level # 0
    BY <1>3, <1>5, <2>2
  <2>4. n - 1 \in 0..Len(s)
    BY <1>3, <2>2
  <2>5. /\ IsList(outer) /\ Len(outer) = n - 1 /\ DOMAIN outer = 1..(n - 1)
        /\ \A k \in 1..(n - 1) : k \in DOMAIN s /\ outer[k] = s[k]
    BY <1>3, <2>4, ListSub DEF Entries
  <2> HIDE DEF outer
  <2>6. Entries(outer)
    BY <1>3, <2>5 DEF Entries
  <2> QED BY <2>2, <2>3, <2>5, <2>6
<1> HIDE DEF n, outer, l
<1>7. CASE l = 0 /\ Names(s) = {}
  <2>1. SubSeq(s, 1, Len(s)) = s
    <3> DEFINE T == Range(s)
    <3>1. s \in Seq(T)
      BY <1>3 DEF Entries, IsList
    <3> HIDE DEF T
    <3> QED BY <3>1, SubSeqFull
  <2>2. \A k \in 1..Len(s) : ~EndsAt(s, k, l)
    <3>1. \A k \in 1..Len(s) : s[k].level # 0
      BY <1>4, <1>7
    <3>2. \A k \in 1..Len(s) : \A j \in 1..(k - 1) : j \in 1..Len(s)
      BY <1>3
    <3> QED BY <1>7, <3>1, <3>2 DEF EndsAt
  <2>3. Survive(s, Len(s), l)
    BY <1>3, <2>2 DEF Survive
  <2> QED BY <1>2, <1>4, <1>7, <2>1, <2>3 DEF l
<1>8. CASE l = 0 /\ Names(s) # {}
  <2>1. \A k \in 1..Len(s) : EndsAt(s, k, l) <=> k > n - 1
    <3> SUFFICES ASSUME NEW k \in 1..Len(s) PROVE EndsAt(s, k, l) <=> k > n - 1
      OBVIOUS
    <3>1. CASE k < n
      <4>1. s[k].level # 0 /\ \A j \in 1..(k - 1) : s[j].level # 0
        BY <1>3, <1>6, <1>8, <3>1
      <4>2. ~(k > n - 1)
        BY <1>3, <1>6, <1>8, <3>1
      <4> QED BY <1>8, <4>1, <4>2 DEF EndsAt
    <3>2. CASE k = n
      <4>1. k > n - 1 /\ s[k].level = 0
        BY <1>3, <1>6, <1>8, <3>2
      <4> QED BY <1>8, <4>1 DEF EndsAt
    <3>3. CASE k > n
      <4>1. k > n - 1 /\ s[k].level # 0 /\ n \in 1..(k - 1) /\ s[n].level = 0
        BY <1>3, <1>6, <1>8, <3>3
      <4> QED BY <1>8, <4>1 DEF EndsAt
    <3> QED BY <1>3, <1>6, <1>8, <3>1, <3>2, <3>3
  <2>2. n - 1 \in 0..Len(s)
    BY <1>3, <1>6, <1>8
  <2>3. Survive(s, n - 1, l)
    BY <2>1, <2>2 DEF Survive
  <2> QED BY <1>2, <1>4, <1>8, <2>3 DEF outer, l
<1>9. CASE l # 0 /\ Names(s) = {}
  <2>1. PICK m \in 0..Len(s) :
          /\ Above(s, l, 0) = SubSeq(s, 1, m)
          /\ m > 0 => s[m].level < l
          /\ \A k \in (m + 1)..Len(s) : s[k].level >= l
    <3>1. 0 \in 0..Len(s)
      BY <1>3
    <3> QED BY <1>3, <3>1, AboveKeeps
  <2>2. \A k \in 1..Len(s) : EndsAt(s, k, l) <=> k > m
    <3> SUFFICES ASSUME NEW k \in 1..Len(s) PROVE EndsAt(s, k, l) <=> k > m
      OBVIOUS
    <3>1. EndsAt(s, k, l) <=> l <= s[k].level
      BY <1>4, <1>9 DEF EndsAt
    <3>2. CASE k > m
      BY <1>3, <2>1, <3>1, <3>2
    <3>3. CASE k <= m
      <4>1. m \in 1..Len(s) /\ s[m].level < l /\ s[m].level # 0 /\ s[k].level # 0
        BY <1>3, <1>4, <1>9, <2>1, <3>3
      <4>2. k = m \/ s[k].level < s[m].level
        BY <1>5, <3>3, <4>1
      <4> QED BY <1>3, <3>1, <3>3, <4>1, <4>2
    <3> QED BY <1>3, <2>1, <3>2, <3>3
  <2>3. Survive(s, m, l)
    BY <2>2 DEF Survive
  <2> QED BY <1>2, <1>4, <1>9, <2>1, <2>3 DEF l
<1>10. CASE l # 0 /\ Names(s) # {} /\ closes
  <2>1. PICK m \in 0..Len(outer) :
          /\ Above(outer, l, 0) = SubSeq(outer, 1, m)
          /\ m > 0 => outer[m].level < l
          /\ \A k \in (m + 1)..Len(outer) : outer[k].level >= l
    <3>1. 0 \in 0..Len(outer)
      BY <1>3, <1>6, <1>10
    <3> QED BY <1>3, <1>6, <1>10, <3>1, AboveKeeps
  <2>2. m \in 0..(n - 1) /\ n \in 1..Len(s) /\ m \in 0..Len(s)
    BY <1>3, <1>6, <1>10, <2>1
  <2>3. SubSeq(outer, 1, m) = SubSeq(s, 1, m)
    <3> DEFINE T == Range(s)
    <3>1. s \in Seq(T) /\ outer \in Seq(T)
      <4>1. s \in Seq(T)
        BY <1>3 DEF Entries, IsList
      <4>2. \A k \in 1..(n - 1) : outer[k] \in T
        <5>1. \A k \in 1..(n - 1) : k \in DOMAIN s
          BY <1>3, <2>2
        <5> QED BY <1>6, <1>10, <5>1 DEF Range
      <4> HIDE DEF T
      <4>3. IsList(outer) /\ DOMAIN outer = 1..(n - 1) /\ Len(outer) = n - 1
        BY <1>6, <1>10 DEF Entries
      <4>4. outer \in Seq(Range(outer))
        BY <4>3 DEF IsList
      <4> QED BY <4>1, <4>2, <4>3, <4>4
    <3> HIDE DEF T
    <3>2. \A k \in 1..m : outer[k] = s[k] /\ s[k] \in T /\ outer[k] \in T
      <4>1. \A k \in 1..m : k \in 1..(n - 1) /\ k \in 1..Len(s)
        BY <2>2
      <4> QED BY <1>3, <1>6, <1>10, <3>1, <4>1
    <3> DEFINE u == SubSeq(outer, 1, m)
               v == SubSeq(s, 1, m)
    <3>3. /\ u \in Seq(T) /\ Len(u) = m /\ \A k \in 1..m : u[k] = outer[k]
          /\ v \in Seq(T) /\ Len(v) = m /\ \A k \in 1..m : v[k] = s[k]
      <4>1. outer \in Seq(T) /\ s \in Seq(T) /\ m \in 0..Len(outer) /\ m \in 0..Len(s)
        BY <2>1, <2>2, <3>1
      <4> QED BY ONLY <4>1
    <3> HIDE DEF u, v
    <3>4. u = v
      BY <2>2, <3>2, <3>3, SeqEqual
    <3> QED BY <3>4 DEF u, v
  <2>4. PICK i \in 1..(n - 1) : s[i].level >= l
    BY <1>6, <1>10 DEF l
  <2>5. \A k \in 1..(n - 1) : k \in 1..Len(s) /\ s[k].level # 0
    BY <1>3, <1>6, <1>10, <2>2
  <2>6. \A k \in (m + 1)..(n - 1) : s[k].level >= l
    <3>1. \A k \in (m + 1)..(n - 1) : k \in 1..(n - 1) /\ outer[k].level >= l
      BY <1>6, <1>10, <2>1, <2>2
    <3> QED BY <1>6, <1>10, <3>1
  <2>7. m > 0 => m \in 1..(n - 1) /\ s[m].level < l
    BY <1>6, <1>10, <2>1, <2>2
  <2>8. \A k \in 1..Len(s) : EndsAt(s, k, l) <=> k > m
    <3> SUFFICES ASSUME NEW k \in 1..Len(s) PROVE EndsAt(s, k, l) <=> k > m
      OBVIOUS
    <3>1. CASE k < n
      <4>1. k \in 1..(n - 1)
        BY <1>3, <2>2, <3>1
      <4>2. EndsAt(s, k, l) <=> l <= s[k].level
        BY <1>10, <2>5, <4>1 DEF EndsAt
      <4>3. CASE k > m
        BY <1>3, <2>2, <2>6, <4>1, <4>2, <4>3
      <4>4. CASE k <= m
        <5>1. m \in 1..(n - 1) /\ s[m].level < l
          BY <2>2, <2>7, <4>1, <4>4
        <5>2. k = m \/ s[k].level < s[m].level
          BY <1>5, <2>5, <4>1, <4>4, <5>1
        <5>3. s[k].level < l
          BY <1>3, <2>5, <4>1, <5>1, <5>2
        <5> QED BY <1>3, <4>2, <4>4, <5>3
      <4> QED BY <2>2, <4>3, <4>4
    <3>2. CASE k = n
      <4>1. s[k].level = 0 /\ i \in 1..(k - 1) /\ k > m
        BY <1>6, <1>10, <2>2, <3>2
      <4> QED BY <2>4, <4>1 DEF EndsAt
    <3>3. CASE k > n
      <4>1. s[k].level # 0 /\ i < k /\ k > m /\ i \in 1..Len(s) /\ s[i].level # 0
        BY <1>3, <1>6, <1>10, <2>2, <2>5, <3>3
      <4>2. s[i].level < s[k].level
        BY <1>5, <4>1
      <4>3. l <= s[k].level
        BY <1>3, <2>4, <4>1, <4>2
      <4> QED BY <1>10, <4>1, <4>3 DEF EndsAt
    <3> QED BY <2>2, <3>1, <3>2, <3>3
  <2>9. Survive(s, m, l)
    BY <2>2, <2>8 DEF Survive
  <2> QED BY <1>2, <1>4, <1>10, <2>1, <2>3, <2>9 DEF l
<1>11. CASE l # 0 /\ Names(s) # {} /\ ~closes
  <2>1. PICK m \in n..Len(s) :
          /\ Above(s, l, n) = SubSeq(s, 1, m)
          /\ m > n => s[m].level < l
          /\ \A k \in (m + 1)..Len(s) : s[k].level >= l
    <3>1. n \in 0..Len(s)
      BY <1>3, <1>6, <1>11
    <3> QED BY <1>3, <3>1, AboveKeeps
  <2>2. n \in 1..Len(s) /\ m \in 1..Len(s) /\ n <= m
    BY <1>3, <1>6, <1>11, <2>1
  <2>3. \A k \in 1..(n - 1) : s[k].level # 0 /\ s[k].level < l
    <3>1. \A k \in 1..(n - 1) : k \in DOMAIN outer /\ outer[k] = s[k] /\ k \in 1..Len(s) /\ k # n
      BY <1>3, <1>6, <1>11
    <3>2. \A k \in 1..(n - 1) : ~(s[k].level >= l) /\ s[k].level \in 0..5
      BY <1>3, <1>11, <3>1 DEF l
    <3>3. \A k \in 1..(n - 1) : s[k].level # 0
      BY <1>6, <1>11, <3>1
    <3> HIDE DEF closes
    <3> QED BY <1>3, <3>2, <3>3
  <2>4. \A k \in 1..Len(s) : EndsAt(s, k, l) <=> k > m
    <3> SUFFICES ASSUME NEW k \in 1..Len(s) PROVE EndsAt(s, k, l) <=> k > m
      OBVIOUS
    <3>1. CASE k < n
      <4>1. s[k].level # 0 /\ s[k].level < l /\ ~(k > m) /\ s[k].level \in 0..5
        BY <1>3, <2>2, <2>3, <3>1
      <4> QED BY <1>3, <1>11, <4>1 DEF EndsAt
    <3>2. CASE k = n
      <4>1. s[k].level = 0 /\ ~(k > m) /\ \A j \in 1..(k - 1) : ~(s[j].level >= l)
        <5>1. \A j \in 1..(n - 1) : s[j].level \in 0..5
          BY <1>3, <2>2
        <5> QED BY <1>3, <1>6, <1>11, <2>2, <2>3, <3>2, <5>1
      <4> QED BY <1>11, <4>1 DEF EndsAt
    <3>3. CASE k > n
      <4>1. s[k].level # 0 /\ (EndsAt(s, k, l) <=> l <= s[k].level)
        BY <1>6, <1>11, <2>2, <3>3 DEF EndsAt
      <4>2. CASE k > m
        BY <1>3, <2>1, <2>2, <4>1, <4>2
      <4>3. CASE k <= m
        <5>1. m > n /\ s[m].level < l /\ s[m].level # 0
          BY <1>6, <1>11, <2>1, <2>2, <3>3, <4>3
        <5>2. k = m \/ s[k].level < s[m].level
          BY <1>5, <2>2, <4>1, <4>3, <5>1
        <5>3. s[k].level < l
          BY <1>3, <2>2, <5>1, <5>2
        <5> QED BY <1>3, <4>1, <4>3, <5>3
      <4> QED BY <2>2, <4>2, <4>3
    <3> QED BY <2>2, <3>1, <3>2, <3>3
  <2>5. Survive(s, m, l)
    BY <1>3, <2>2, <2>4 DEF Survive
  <2> QED BY <1>2, <1>4, <1>11, <2>1, <2>5 DEF l
<1> QED BY <1>7, <1>8, <1>9, <1>10, <1>11

-----------------------------------------------------------------------------
(* The outline, from the levels L of the headings that open something.     *)

EndsIn(L, r, q, above) ==
  IF L[q] = 0
  THEN L[r] = 0 \/ \E o \in above : L[o] >= L[r]
  ELSE IF L[r] = 0 THEN \E o \in above : L[o] = 0 ELSE L[r] <= L[q]

After(L, p, over) ==
  {q \in DOMAIN L : /\ ~Before(p, q)
                    /\ ~\E r \in DOMAIN L : Before(q, r) /\ ~Before(p, r) /\ EndsIn(L, r, q, over[q])}

IsOver(L, over) == \A q \in DOMAIN L : over[q] = After(L, q, over) \ {q}

IsLevels(L) == DOMAIN L \subseteq Place /\ \A p \in DOMAIN L : L[p] \in 0..5

LEMMA BeforeOrders ==
  /\ \A p \in Place : ~Before(p, p)
  /\ \A p, q \in Place : Before(p, q) => ~Before(q, p)
  /\ \A p, q \in Place : p # q => Before(p, q) \/ Before(q, p)
  /\ \A p, q, r \in Place : Before(p, q) /\ Before(q, r) => Before(p, r)
  /\ \A p, q, r \in Place : Before(p, q) /\ ~Before(r, q) => Before(p, r)
<1>1. \A p \in Place : p[1] \in Nat /\ p[2] \in Nat /\ p = <<p[1], p[2]>>
  BY DEF Place
<1>2. \A p, q \in Place : p # q => Before(p, q) \/ Before(q, p)
  <2> SUFFICES ASSUME NEW p \in Place, NEW q \in Place, ~Before(p, q), ~Before(q, p) PROVE p = q
    OBVIOUS
  <2>1. p[1] = q[1] /\ p[2] = q[2]
    BY <1>1 DEF Before
  <2> QED BY <1>1, <2>1
<1> QED BY <1>1, <1>2 DEF Before

(* The open headings s stand as the outline of the headings read, B, says. *)
Stand(L, s, B, over) ==
  /\ Nested(s)
  /\ \A k \in DOMAIN s : /\ s[k].at \in DOMAIN L /\ s[k].level = L[s[k].at]
                         /\ over[s[k].at] = {s[j].at : j \in 1..(k - 1)}
  /\ \A j, k \in DOMAIN s : j < k => Before(s[j].at, s[k].at)
  /\ {s[k].at : k \in DOMAIN s} = {q \in B : ~\E r \in B : Before(q, r) /\ EndsIn(L, r, q, over[q])}

LEMMA EndsTheSame ==
  ASSUME NEW L, NEW s, NEW B, NEW over, Stand(L, s, B, over), NEW p \in DOMAIN L, NEW k \in DOMAIN s
  PROVE  EndsAt(s, k, L[p]) <=> EndsIn(L, p, s[k].at, over[s[k].at])
<1>1. /\ s[k].level = L[s[k].at] /\ over[s[k].at] = {s[j].at : j \in 1..(k - 1)}
      /\ DOMAIN s = 1..Len(s) /\ Len(s) \in Nat
  BY ListFacts DEF Stand, Nested, Entries
<1>2. \A j \in 1..(k - 1) : s[j].level = L[s[j].at]
  <2>1. \A j \in 1..(k - 1) : j \in DOMAIN s
    BY <1>1
  <2> QED BY <2>1 DEF Stand
<1>3. (\E j \in 1..(k - 1) : s[j].level >= L[p]) <=> (\E o \in over[s[k].at] : L[o] >= L[p])
  BY <1>1, <1>2
<1>4. (\E j \in 1..(k - 1) : s[j].level = 0) <=> (\E o \in over[s[k].at] : L[o] = 0)
  BY <1>1, <1>2
<1> QED BY <1>1, <1>3, <1>4 DEF EndsAt, EndsIn

(* A new heading over the first n of the open ones. *)
PushedOn(t, s, n, h) == t = Append(SubSeq(s, 1, n), h)

LEMMA NestedOn ==
  ASSUME NEW s, Nested(s), NEW n, NEW h, IsEntry(h), Survive(s, n, h.level),
         NEW t, PushedOn(t, s, n, h)
  PROVE  /\ Nested(t)
         /\ n \in Nat /\ DOMAIN t = 1..(n + 1)
         /\ \A k \in 1..n : k \in DOMAIN s /\ t[k] = s[k]
         /\ t[n + 1] = h
<1> DEFINE u == SubSeq(s, 1, n)
           v == Append(u, h)
<1>1. /\ Entries(s) /\ Len(s) \in Nat /\ DOMAIN s = 1..Len(s) /\ n \in 0..Len(s) /\ n \in Nat
  BY ListFacts DEF Nested, Entries, Survive
<1>2. /\ IsList(u) /\ Len(u) = n /\ DOMAIN u = 1..n
      /\ \A k \in 1..n : k \in DOMAIN s /\ u[k] = s[k]
  BY <1>1, ListSub DEF Entries
<1> HIDE DEF u
<1>3. /\ IsList(t) /\ Len(t) = n + 1 /\ DOMAIN t = 1..(n + 1)
      /\ \A k \in 1..n : k \in DOMAIN s /\ t[k] = s[k]
      /\ t[n + 1] = h
  <2>1. t = v
    BY DEF u, PushedOn
  <2>2. /\ IsList(v) /\ Len(v) = n + 1 /\ DOMAIN v = 1..(n + 1)
        /\ \A k \in 1..n : k \in DOMAIN s /\ v[k] = s[k]
        /\ v[n + 1] = h
    BY ONLY <1>2, ListAppend
  <2> HIDE DEF v
  <2> QED BY <2>1, <2>2
<1>4. \A k \in DOMAIN t : k \in 1..n \/ k = n + 1
  BY <1>1, <1>3
<1>5. Entries(t)
  BY <1>1, <1>3, <1>4 DEF Entries
<1>6. ASSUME NEW k \in 1..n
      PROVE  /\ s[k].level = 0 => h.level # 0
             /\ s[k].level # 0 /\ h.level # 0 => s[k].level < h.level
  <2>1. ~EndsAt(s, k, h.level)
    BY <1>1 DEF Survive
  <2>2. s[k].level \in 0..5 /\ h.level \in 0..5
    BY <1>1, <1>3 DEF Entries, IsEntry
  <2> QED BY <2>1, <2>2 DEF EndsAt
<1>7. ASSUME NEW k \in DOMAIN t, NEW l \in DOMAIN t, k < l
      PROVE  /\ t[k].level = 0 => t[l].level # 0
             /\ t[k].level # 0 /\ t[l].level # 0 => t[k].level < t[l].level
  <2>1. k \in 1..n
    BY <1>1, <1>3, <1>7
  <2>2. CASE l = n + 1
    BY <1>3, <1>6, <2>1, <2>2
  <2>3. CASE l \in 1..n
    <3>1. k \in DOMAIN s /\ l \in DOMAIN s /\ t[k] = s[k] /\ t[l] = s[l]
      BY <1>3, <2>1, <2>3
    <3> QED BY <1>7, <3>1 DEF Nested
  <2> QED BY <1>4, <2>2, <2>3
<1>8. Nested(t)
  BY <1>5, <1>7 DEF Nested
<1> QED BY <1>1, <1>3, <1>8

(* A heading that opens something is pushed as the outline says.           *)
LEMMA PushStands ==
  ASSUME policy = "open", NEW L, IsLevels(L), NEW over, IsOver(L, over),
         NEW s, NEW B, Stand(L, s, B, over), B \subseteq DOMAIN L,
         NEW h, IsEntry(h), h.at \in DOMAIN L, h.level = L[h.at], h.at \notin B,
         B \cup {h.at} = {r \in DOMAIN L : ~Before(h.at, r)}
  PROVE  Stand(L, PushHeading(s, h), B \cup {h.at}, over)
<1> DEFINE p == h.at
           C == B \cup {p}
<1>1. Nested(s) /\ DOMAIN s = 1..Len(s) /\ Len(s) \in Nat
  BY ListFacts DEF Stand, Nested, Entries
<1>2. PICK n : Survive(s, n, h.level) /\ PushHeading(s, h) = Append(SubSeq(s, 1, n), h)
  BY <1>1, PushSurvives
<1> DEFINE t == Append(SubSeq(s, 1, n), h)
<1>3. /\ Nested(t) /\ n \in Nat /\ DOMAIN t = 1..(n + 1)
      /\ \A k \in 1..n : k \in DOMAIN s /\ t[k] = s[k]
      /\ t[n + 1] = h
  <2> HIDE DEF t
  <2>1. PushedOn(t, s, n, h)
    BY DEF t, PushedOn
  <2>2. Survive(s, n, h.level)
    BY <1>2
  <2> QED BY ONLY <1>1, IsEntry(h), <2>1, <2>2, NestedOn
<1> HIDE DEF t
<1>4. \A k \in DOMAIN t : k \in 1..n \/ k = n + 1
  BY <1>3
<1>5. p \in Place /\ \A q \in DOMAIN L : q \in Place
  BY DEF IsLevels
<1>6. \A q \in B : Before(q, p) /\ ~Before(p, q) /\ q # p /\ q \in DOMAIN L
  <2> SUFFICES ASSUME NEW q \in B PROVE Before(q, p) /\ ~Before(p, q) /\ q # p /\ q \in DOMAIN L
    OBVIOUS
  <2>1. q \in DOMAIN L /\ ~Before(p, q) /\ q # p
    OBVIOUS
  <2> QED BY <1>5, <2>1, BeforeOrders
<1>7. \A k \in DOMAIN s : s[k].at \in B
  BY DEF Stand
<1>8. \A k \in DOMAIN s : EndsIn(L, p, s[k].at, over[s[k].at]) <=> k > n
  <2>1. \A k \in DOMAIN s : EndsAt(s, k, h.level) <=> k > n
    BY <1>1, <1>2 DEF Survive
  <2>2. ASSUME NEW k \in DOMAIN s
        PROVE  EndsAt(s, k, h.level) <=> EndsIn(L, p, s[k].at, over[s[k].at])
    BY EndsTheSame
  <2> QED BY <2>1, <2>2
<1> DEFINE Alive(A, q) == ~\E r \in A : Before(q, r) /\ EndsIn(L, r, q, over[q])
<1>9. \A q \in B : Alive(B, q) <=> \E k \in DOMAIN s : q = s[k].at
  BY DEF Stand
<1>10. \A q \in B : Alive(C, q) <=> Alive(B, q) /\ ~EndsIn(L, p, q, over[q])
  BY <1>6
<1>11. \A q \in B : Alive(C, q) <=> \E k \in 1..n : q = s[k].at
  <2>1. \A k \in DOMAIN s : k > n \/ k \in 1..n
    BY <1>1, <1>3
  <2>2. \A k \in 1..n : k \in DOMAIN s /\ ~(k > n)
    BY <1>3
  <2> HIDE DEF Alive, C
  <2> QED BY <1>7, <1>8, <1>9, <1>10, <2>1, <2>2
<1>12. Alive(C, p)
  <2>1. \A r \in C : ~Before(p, r)
    BY <1>5, <1>6, BeforeOrders
  <2> QED BY <2>1
<1>13. {t[k].at : k \in DOMAIN t} = {q \in C : Alive(C, q)}
  <2>1. ASSUME NEW k \in DOMAIN t PROVE t[k].at \in C /\ Alive(C, t[k].at)
    <3>1. CASE k \in 1..n
      <4>1. t[k] = s[k] /\ s[k].at \in B
        BY <1>3, <1>7, <3>1
      <4> HIDE DEF Alive
      <4> QED BY <1>11, <3>1, <4>1
    <3>2. CASE k = n + 1
      <4> HIDE DEF Alive
      <4> QED BY <1>3, <1>12, <3>2
    <3> QED BY <1>4, <3>1, <3>2
  <2>2. ASSUME NEW q \in C, Alive(C, q) PROVE \E k \in DOMAIN t : q = t[k].at
    <3>1. CASE q = p
      BY <1>3, <3>1
    <3>2. CASE q # p
      <4>1. PICK k \in 1..n : q = s[k].at
        <5> HIDE DEF Alive
        <5> QED BY <1>11, <2>2, <3>2
      <4>2. k \in DOMAIN t
        BY <1>3
      <4> QED BY <1>3, <4>1, <4>2
    <3> QED BY <3>1, <3>2
  <2> HIDE DEF Alive, C
  <2> QED BY <2>1, <2>2
<1>14. over[p] = {t[j].at : j \in 1..n}
  <2>1. After(L, p, over) = {q \in C : Alive(C, q)}
    <3>1. \A r : r \in DOMAIN L /\ ~Before(p, r) <=> r \in C
      OBVIOUS
    <3> HIDE DEF C
    <3> QED BY <3>1 DEF After
  <2>2. \A j \in 1..n : j \in DOMAIN t /\ t[j].at # p
    BY <1>3, <1>6, <1>7
  <2>3. \A k \in DOMAIN t : t[k].at # p => k \in 1..n
    BY <1>3, <1>4
  <2>4. over[p] = {t[k].at : k \in DOMAIN t} \ {p}
    BY <1>13, <2>1 DEF IsOver
  <2> QED BY <2>2, <2>3, <2>4
<1>15. ASSUME NEW k \in DOMAIN t
       PROVE  /\ t[k].at \in DOMAIN L /\ t[k].level = L[t[k].at]
              /\ over[t[k].at] = {t[j].at : j \in 1..(k - 1)}
  <2>1. CASE k = n + 1
    <3>1. k - 1 = n
      BY <1>3, <2>1
    <3> QED BY <1>3, <1>14, <2>1, <3>1
  <2>2. CASE k \in 1..n
    <3>1. \A j \in 1..(k - 1) : t[j] = s[j]
      BY <1>3, <2>2
    <3>2. t[k] = s[k] /\ k \in DOMAIN s
      BY <1>3, <2>2
    <3> QED BY <3>1, <3>2 DEF Stand
  <2> QED BY <1>4, <2>1, <2>2
<1>16. ASSUME NEW j \in DOMAIN t, NEW k \in DOMAIN t, j < k PROVE Before(t[j].at, t[k].at)
  <2>1. j \in 1..n /\ t[j] = s[j] /\ j \in DOMAIN s
    BY <1>3, <1>16
  <2>2. CASE k = n + 1
    BY <1>3, <1>6, <1>7, <2>1, <2>2
  <2>3. CASE k \in 1..n
    BY <1>3, <1>16, <2>1, <2>3 DEF Stand
  <2> QED BY <1>4, <2>2, <2>3
<1>17. Stand(L, t, C, over)
  BY <1>3, <1>13, <1>15, <1>16 DEF Stand
<1> QED BY <1>2, <1>17 DEF t

(* A block stands under the open headings.                                 *)
Outlined(L, over, b) ==
  /\ Range(b.open) = After(L, b.at[1], over)
  /\ \A k \in 2..Len(b.open) : Before(b.open[k - 1], b.open[k])

LEMMA BlockOutlined ==
  ASSUME NEW L, NEW over, NEW B, Stand(L, stack, B, over), NEW b,
         b.open = [k \in DOMAIN stack |-> stack[k].at],
         B = {r \in DOMAIN L : ~Before(b.at[1], r)}
  PROVE  Outlined(L, over, b)
<1> DEFINE o == [k \in DOMAIN stack |-> stack[k].at]
<1>1. DOMAIN stack = 1..Len(stack) /\ Len(stack) \in Nat
  BY ListFacts DEF Stand, Nested, Entries
<1>2. Range(o) = {stack[k].at : k \in DOMAIN stack}
  BY DEF Range
<1>3. Range(o) = After(L, b.at[1], over)
  <2> HIDE DEF o
  <2> QED BY <1>2 DEF Stand, After
<1>4. Len(o) = Len(stack)
  BY <1>1
<1>5. \A k \in 2..Len(stack) : k \in DOMAIN stack /\ k - 1 \in DOMAIN stack /\ k - 1 < k
  BY <1>1
<1>6. \A k \in 2..Len(o) : Before(o[k - 1], o[k])
  BY <1>4, <1>5 DEF Stand
<1> HIDE DEF o
<1> QED BY <1>3, <1>6 DEF Outlined, o

LEMMA FirstPlace ==
  ASSUME NEW S \in SUBSET Place, S # {}
  PROVE  \E p \in S : \A q \in S : ~Before(q, p)
<1>0. \A p \in S : p \in Place /\ p[1] \in Nat /\ p[2] \in Nat
  BY DEF Place
<1> DEFINE A == {p[1] : p \in S}
<1>1. A \in SUBSET Nat /\ A # {}
  BY <1>0
<1>2. PICK m \in A : \A n \in A : m <= n
  <2> HIDE DEF A
  <2> QED BY <1>1, LeastNumber
<1> DEFINE T == {p \in S : p[1] = m}
           C == {p[2] : p \in T}
<1>3. C \in SUBSET Nat /\ C # {}
  BY <1>0, <1>2
<1>4. PICK l \in C : \A n \in C : l <= n
  <2> HIDE DEF C
  <2> QED BY <1>3, LeastNumber
<1>5. PICK p \in T : p[2] = l
  BY <1>4
<1>6. ASSUME NEW q \in S PROVE ~Before(q, p)
  <2>1. m <= q[1] /\ p[1] = m /\ q[1] \in Nat /\ p[1] \in Nat /\ p[2] \in Nat /\ q[2] \in Nat
    BY <1>0, <1>2, <1>5
  <2>2. q[1] = m => p[2] <= q[2]
    BY <1>4, <1>5
  <2> QED BY <2>1, <2>2 DEF Before
<1> QED BY <1>5, <1>6

(* What a heading stands under depends on the earlier headings only.       *)
LEMMA AfterLooksBack ==
  ASSUME NEW L, IsLevels(L), NEW p \in DOMAIN L, NEW f, NEW g,
         \A q \in DOMAIN L : Before(q, p) => f[q] = g[q]
  PROVE  After(L, p, f) = After(L, p, g)
<1>1. \A q \in DOMAIN L : q \in Place
  BY DEF IsLevels
<1>2. ASSUME NEW q \in DOMAIN L PROVE q \in After(L, p, f) <=> q \in After(L, p, g)
  <2>1. CASE Before(q, p)
    BY <1>2, <2>1 DEF After, EndsIn
  <2>2. CASE q = p
    BY <2>2 DEF After
  <2>3. CASE Before(p, q)
    BY <2>3 DEF After
  <2> QED BY <1>1, <2>1, <2>2, <2>3, BeforeOrders
<1> QED BY <1>2 DEF After

LEMMA OverExists ==
  ASSUME NEW L, IsLevels(L), IsFiniteSet(DOMAIN L)
  PROVE  \E over \in [DOMAIN L -> SUBSET DOMAIN L] : IsOver(L, over)
<1> DEFINE O == DOMAIN L
           F == [O -> SUBSET O]
           Partial(f, D) == \A q \in D : f[q] = After(L, q, f) \ {q}
           Closed(D) == \A q \in D : \A r \in O : Before(r, q) => r \in D
           G == {E \in SUBSET O : Closed(O \ E) /\ \E f \in F : Partial(f, O \ E)}
<1>1. O \subseteq Place
  BY DEF IsLevels
<1>2. O \in G
  <2>1. [q \in O |-> {}] \in F /\ O \ O = {}
    OBVIOUS
  <2> HIDE DEF Partial, F, O
  <2>2. Closed(O \ O) /\ \A f : Partial(f, O \ O)
    BY <2>1 DEF Partial
  <2>3. \E f \in F : Partial(f, O \ O)
    BY <2>1, <2>2
  <2> QED BY <2>2, <2>3
<1>3. PICK E \in G : \A B \in G : B \subseteq E => B = E
  <2>1. G \in SUBSET (SUBSET O) /\ G # {}
    BY <1>2
  <2> HIDE DEF G
  <2> QED BY <2>1, MinimalSubset
<1>4. E \subseteq O /\ Closed(O \ E) /\ \E f \in F : Partial(f, O \ E)
  OBVIOUS
<1>5. PICK f \in F : Partial(f, O \ E)
  BY <1>4
<1>6. ASSUME E # {} PROVE FALSE
  <2>1. PICK e \in E : \A q \in E : ~Before(q, e)
    <3> HIDE DEF G
    <3> QED BY <1>1, <1>4, <1>6, FirstPlace
  <2> DEFINE g == [q \in O |-> IF q = e THEN After(L, e, f) \ {e} ELSE f[q]]
             D == O \ (E \ {e})
  <2>2. e \in O /\ e \in Place /\ (\A q \in D : q \in O /\ (q = e \/ q \in O \ E))
    BY <1>1, <1>4
  <2>3. g \in F
    <3>1. After(L, e, f) \ {e} \in SUBSET O
      BY DEF After
    <3> QED BY <3>1
  <2>4. Closed(D)
    <3>1. ASSUME NEW q \in D, NEW r \in O, Before(r, q) PROVE r \in D
      <4>1. CASE q = e
        BY <2>1, <3>1, <4>1
      <4>2. CASE q \in O \ E
        BY <1>4, <3>1, <4>2
      <4> QED BY <2>2, <4>1, <4>2
    <3> QED BY <3>1
  <2>5. ASSUME NEW q \in D PROVE g[q] = After(L, q, g) \ {q}
    <3>1. CASE q = e
      <4>1. \A r \in O : Before(r, e) => f[r] = g[r]
        BY <1>1, <2>2, BeforeOrders
      <4>2. After(L, e, f) = After(L, e, g)
        <5> HIDE DEF g
        <5> QED BY <2>2, <4>1, AfterLooksBack
      <4>3. g[e] = After(L, e, f) \ {e}
        BY <2>2
      <4> HIDE DEF g
      <4> QED BY <3>1, <4>2, <4>3
    <3>2. CASE q \in O \ E
      <4>1. q # e /\ g[q] = f[q] /\ f[q] = After(L, q, f) \ {q}
        BY <1>5, <2>1, <3>2
      <4>2. \A r \in O : Before(r, q) => f[r] = g[r]
        <5>1. \A r \in O : Before(r, q) => r \in O \ E
          BY <1>4, <3>2
        <5> QED BY <2>1, <5>1
      <4>3. After(L, q, f) = After(L, q, g)
        <5> HIDE DEF g
        <5> QED BY <3>2, <4>2, AfterLooksBack
      <4> HIDE DEF g
      <4> QED BY <4>1, <4>3
    <3> QED BY <2>2, <3>1, <3>2
  <2>6. E \ {e} \in G
    <3>1. E \ {e} \in SUBSET O /\ Partial(g, O \ (E \ {e}))
      BY <1>4, <2>5
    <3> HIDE DEF g, F, O, Partial, Closed
    <3> QED BY <2>3, <2>4, <3>1
  <2> HIDE DEF G
  <2> QED BY <1>3, <2>1, <2>6
<1>7. Partial(f, O)
  <2>1. O \ E = O
    BY <1>6
  <2> QED BY <1>5, <2>1
<1> QED BY <1>5, <1>7 DEF IsOver

-----------------------------------------------------------------------------
(* The headings of a section that open something.                          *)

PlacesOf(s) == UNION {{i} \X DOMAIN s[i].parts : i \in {k \in DOMAIN s : s[k].tag = "P"}}

OpensOf(s, m) ==
  {p \in PlacesOf(s) :
     LET e == s[p[1]]
         h == e.parts[p[2]]
     IN  /\ h.kind = "heading"
         /\ m = "plain" /\ ~OnlyName(e) => h.located
         /\ ~(Bracket(h) /\ h.form = "dated")
         /\ ~(OnlyName(e) /\ p[1] < Len(s) /\ IsTable(s[p[1] + 1]))}

LevelsOf(s, m) == [p \in OpensOf(s, m) |-> s[p[1]].parts[p[2]].level]

LEMMA LevelsHere ==
  ASSUME elements \in Sections
  PROVE  /\ DOMAIN LevelsOf(elements, mode) = Opens
         /\ \A p \in Opens : LevelsOf(elements, mode)[p] = Level(p)
BY DEF LevelsOf, OpensOf, PlacesOf, Opens, Places, Level

LEMMA LevelsTyped ==
  ASSUME elements \in Sections, NEW m
  PROVE  /\ IsLevels(LevelsOf(elements, m)) /\ IsFiniteSet(DOMAIN LevelsOf(elements, m))
         /\ \A p \in DOMAIN LevelsOf(elements, m) :
              /\ p[1] \in DOMAIN elements /\ elements[p[1]].tag = "P" /\ p[1] \in Nat \ {0}
              /\ p[2] \in DOMAIN elements[p[1]].parts /\ p = <<p[1], p[2]>>
<1> DEFINE P == {k \in DOMAIN elements : elements[k].tag = "P"}
           row(i) == {i} \X DOMAIN elements[i].parts
           R == {row(i) : i \in P}
           U == UNION R
           O == OpensOf(elements, m)
<1>1. Len(elements) \in Nat /\ DOMAIN elements = 1..Len(elements)
  BY SectionFacts
<1>2. PlacesOf(elements) = U /\ O \subseteq U /\ DOMAIN LevelsOf(elements, m) = O
  BY DEF PlacesOf, OpensOf, LevelsOf
<1>3. IsFiniteSet(P)
  <2>1. P \subseteq 1..Len(elements) /\ IsFiniteSet(1..Len(elements))
    BY <1>1, FS_Interval
  <2> HIDE DEF P
  <2> QED BY <2>1, FS_Subset
<1>4. ASSUME NEW i \in P PROVE IsFiniteSet(row(i))
  <2>1. Len(elements[i].parts) \in Nat /\ DOMAIN elements[i].parts = 1..Len(elements[i].parts)
    BY PartFacts
  <2>2. IsFiniteSet({i})
    BY FS_Singleton
  <2>3. IsFiniteSet(1..Len(elements[i].parts))
    BY <2>1, FS_Interval
  <2> QED BY <2>1, <2>2, <2>3, FS_Product
<1>5. IsFiniteSet(R)
  <2> DEFINE f == [i \in P |-> row(i)]
  <2> HIDE DEF P, row
  <2>1. f \in Surjection(P, R)
    BY DEF Surjection
  <2> HIDE DEF f, R
  <2> QED BY <1>3, <2>1, FS_Surjection
<1>6. IsFiniteSet(U)
  <2>1. \A r \in R : IsFiniteSet(r)
    <3> HIDE DEF row
    <3> QED BY <1>4
  <2> HIDE DEF R
  <2> QED BY <1>5, <2>1, FS_UNION
<1>7. IsFiniteSet(O)
  <2> HIDE DEF O, U
  <2> QED BY <1>2, <1>6, FS_Subset
<1>8. ASSUME NEW p \in U
      PROVE  /\ p[1] \in P /\ p[1] \in DOMAIN elements /\ elements[p[1]].tag = "P" /\ p[1] \in Nat \ {0}
             /\ p[2] \in DOMAIN elements[p[1]].parts /\ p = <<p[1], p[2]>>
  BY <1>1
<1> HIDE DEF U, P
<1>9. ASSUME NEW p \in O PROVE p \in Place /\ LevelsOf(elements, m)[p] \in 0..5
  <2>1. /\ p[1] \in DOMAIN elements /\ elements[p[1]].tag = "P" /\ p[1] \in Nat
        /\ p[2] \in DOMAIN elements[p[1]].parts /\ p = <<p[1], p[2]>>
    BY <1>2, <1>8
  <2>2. p[2] \in Nat /\ IsPart(elements[p[1]].parts[p[2]])
    BY <2>1, PartFacts
  <2>3. elements[p[1]].parts[p[2]].kind = "heading"
    BY DEF OpensOf
  <2>4. elements[p[1]].parts[p[2]].level \in 0..5
    BY <2>2, <2>3 DEF IsPart
  <2> QED BY <2>1, <2>2, <2>4 DEF LevelsOf, Place
<1>10. IsLevels(LevelsOf(elements, m))
  <2> HIDE DEF O
  <2> QED BY <1>2, <1>9 DEF IsLevels
<1> QED BY <1>2, <1>7, <1>8, <1>10

LEMMA AfterHere ==
  ASSUME elements \in Sections, NEW over, \A q \in Opens : over[q] \subseteq Opens, NEW p
  PROVE  OpenAfter(p, over) = After(LevelsOf(elements, mode), p, over)
<1> DEFINE L == LevelsOf(elements, mode)
<1>1. DOMAIN L = Opens /\ \A q \in Opens : L[q] = Level(q)
  BY LevelsHere
<1> HIDE DEF L
<1>2. ASSUME NEW q \in Opens, NEW r \in Opens
      PROVE  Ends(r, q, over[q]) <=> EndsIn(L, r, q, over[q])
  <2>1. \A o \in over[q] : L[o] = Level(o)
    BY <1>1
  <2>2. L[q] = Level(q) /\ L[r] = Level(r)
    BY <1>1
  <2> QED BY <2>1, <2>2 DEF Ends, EndsIn
<1>3. OpenAfter(p, over) = After(L, p, over)
  BY <1>1, <1>2 DEF OpenAfter, After
<1> QED BY <1>3 DEF L

LEMMA OutlineHere ==
  ASSUME elements \in Sections
  PROVE  \E over : /\ IsOver(LevelsOf(elements, mode), over)
                   /\ \A b \in DOMAIN blocks :
                        Outline[b] = After(LevelsOf(elements, mode), blocks[b].at[1], over)
<1> DEFINE L == LevelsOf(elements, mode)
           Body(over) == over = [q \in Opens |-> OpenAfter(q, over) \ {q}]
           over == CHOOSE f : Body(f)
<1>1. Outline = [b \in DOMAIN blocks |-> OpenAfter(blocks[b].at[1], over)]
  BY DEF Outline
<1>2. DOMAIN L = Opens /\ IsLevels(L) /\ IsFiniteSet(DOMAIN L)
  BY LevelsHere, LevelsTyped
<1> HIDE DEF L
<1>3. PICK f \in [DOMAIN L -> SUBSET DOMAIN L] : IsOver(L, f)
  BY <1>2, OverExists
<1>4. Body(f)
  <2>1. \A q \in Opens : f[q] \subseteq Opens
    BY <1>2, <1>3
  <2>2. ASSUME NEW q \in Opens PROVE f[q] = OpenAfter(q, f) \ {q}
    <3>1. OpenAfter(q, f) = After(L, q, f)
      BY <2>1, AfterHere DEF L
    <3> QED BY <1>2, <1>3, <3>1 DEF IsOver
  <2>3. f = [q \in Opens |-> f[q]]
    BY <1>2, <1>3
  <2> QED BY <2>2, <2>3
<1>5. Body(over)
  <2> HIDE DEF Body
  <2> QED BY <1>4
<1>6. \A q \in Opens : over[q] = OpenAfter(q, over) \ {q}
  <2> HIDE DEF over
  <2> QED BY <1>5
<1> HIDE DEF over
<1>7. \A q \in Opens : over[q] \subseteq Opens
  BY <1>6 DEF OpenAfter
<1>8. \A p : OpenAfter(p, over) = After(L, p, over)
  <2>1. ASSUME NEW p PROVE OpenAfter(p, over) = After(L, p, over)
    BY <1>7, AfterHere DEF L
  <2> QED BY <2>1
<1>9. IsOver(L, over)
  BY <1>2, <1>6, <1>8 DEF IsOver
<1>10. \A b \in DOMAIN blocks : Outline[b] = After(L, blocks[b].at[1], over)
  BY <1>1, <1>8
<1> QED BY <1>9, <1>10 DEF L

-----------------------------------------------------------------------------
(* The items of an element come in the order of its parts.                 *)

HeadItem(t) == t.do \in {"lead", "heading"}

(* Where an item stands. *)
Spot(t) == IF t.do = "text" THEN t.at[1] ELSE t.at

InOrder(ts, n) ==
  /\ IsList(ts)
  /\ \A a \in DOMAIN ts : Spot(ts[a]) = <<n, Spot(ts[a])[2]>> /\ Spot(ts[a])[2] \in Nat
  /\ \A a, c \in DOMAIN ts : a < c =>
       /\ HeadItem(ts[c]) => Spot(ts[a])[2] < Spot(ts[c])[2]
       /\ HeadItem(ts[a]) => Spot(ts[a])[2] <= Spot(ts[c])[2]

(* A name alone in its paragraph: before a table it is a caption. *)
LoneName(t) == t.do = "lead" /\ t.alone /\ Bracket(t.head)

(* A heading opens something, unless it is a caption or dated. *)
Pushes(s, t, n) ==
  /\ ~(LoneName(t) /\ n < Len(s) /\ IsTable(s[n + 1]))
  /\ ~(Bracket(t.head) /\ t.head.form = "dated")

Opening(L, s, ts, n) ==
  \A a \in DOMAIN ts : HeadItem(ts[a]) =>
    /\ ts[a].at \in DOMAIN L <=> Pushes(s, ts[a], n)
    /\ ts[a].at \in DOMAIN L => L[ts[a].at] = ts[a].head.level

Ahead(ts, p) == \E a \in DOMAIN ts : HeadItem(ts[a]) /\ ts[a].at = p

(* The items of element n, none taken up yet. *)
Fresh(L, s, ts, n) ==
  /\ InOrder(ts, n) /\ Opening(L, s, ts, n)
  /\ \A p \in DOMAIN L : p[1] = n => Ahead(ts, p)

LEMMA TablesFresh ==
  ASSUME elements \in Sections, NEW i \in DOMAIN elements, IsTable(elements[i]), NEW m
  PROVE  Fresh(LevelsOf(elements, m), elements, Tables(elements[i], i), i)
<1> DEFINE ts == Tables(elements[i], i)
           L == LevelsOf(elements, m)
<1>1. Fits(ts, i)
  BY TablesFit
<1>2. \A a \in DOMAIN ts : ts[a].do = "table"
  BY DEF Tables
<1>3. \A p \in DOMAIN L : p[1] # i
  BY LevelsTyped DEF IsTable
<1> HIDE DEF ts, L
<1>4. \A a \in DOMAIN ts : Spot(ts[a]) = ts[a].at /\ ts[a].at \in {i} \X Nat /\ ~HeadItem(ts[a])
  BY <1>1, <1>2 DEF Spot, HeadItem, Fits, IsTodoItem
<1>5. \A a \in DOMAIN ts : Spot(ts[a]) = <<i, Spot(ts[a])[2]>> /\ Spot(ts[a])[2] \in Nat
  BY <1>4
<1>6. Fresh(L, elements, ts, i)
  BY <1>1, <1>3, <1>4, <1>5 DEF Fresh, InOrder, Opening, Fits
<1> QED BY <1>6 DEF ts, L

(* Item t is the heading that part j of paragraph e, the i-th element, is. *)
HeadsPart(t, e, i, j, m) ==
  /\ HeadItem(t) /\ t.at = <<i, j>> /\ t.head = e.parts[j] /\ e.parts[j].kind = "heading"
  /\ m = "plain" /\ ~OnlyName(e) => e.parts[j].located
  /\ LoneName(t) <=> OnlyName(e)

LEMMA HeadingOpens ==
  ASSUME elements \in Sections, NEW i \in DOMAIN elements, elements[i].tag = "P", NEW m,
         NEW j \in DOMAIN elements[i].parts, NEW t, HeadsPart(t, elements[i], i, j, m)
  PROVE  /\ t.at \in DOMAIN LevelsOf(elements, m) <=> Pushes(elements, t, i)
         /\ t.at \in DOMAIN LevelsOf(elements, m) => LevelsOf(elements, m)[t.at] = t.head.level
<1> DEFINE p == <<i, j>>
<1>1. p \in PlacesOf(elements) /\ p[1] = i /\ p[2] = j
  BY DEF PlacesOf
<1> HIDE DEF p
<1>2. p \in OpensOf(elements, m) <=> Pushes(elements, t, i)
  BY <1>1 DEF OpensOf, Pushes, HeadsPart
<1>3. p \in OpensOf(elements, m) => LevelsOf(elements, m)[p] = t.head.level
  BY <1>1 DEF LevelsOf, HeadsPart
<1>4. DOMAIN LevelsOf(elements, m) = OpensOf(elements, m) /\ t.at = p
  BY DEF LevelsOf, HeadsPart, p
<1> QED BY <1>2, <1>3, <1>4

LEMMA StructuredFresh ==
  ASSUME elements \in Sections, NEW i \in DOMAIN elements, elements[i].tag = "P", NEW m,
         m = "plain" => OnlyName(elements[i])
  PROVE  Fresh(LevelsOf(elements, m), elements, Structured(elements[i], i), i)
<1> DEFINE e == elements[i]
           ps == e.parts
           ts == Structured(e, i)
           L == LevelsOf(elements, m)
<1>1. Len(ps) \in Nat /\ DOMAIN ps = 1..Len(ps) /\ \A j \in DOMAIN ps : IsPart(ps[j])
  BY PartFacts
<1>2. DOMAIN ts = DOMAIN ps /\ IsList(ts)
  BY StructuredFits DEF Structured, Fits
<1>3. \A j \in DOMAIN ps : Spot(ts[j]) = <<i, j>>
  BY DEF Structured, Spot
<1>4. ASSUME NEW j \in DOMAIN ps
      PROVE  /\ HeadItem(ts[j]) <=> ps[j].kind = "heading"
             /\ HeadItem(ts[j]) =>
                  /\ ts[j].at = <<i, j>> /\ ts[j].head = ps[j]
                  /\ ts[j].do = (IF j <= Leading(e) THEN "lead" ELSE "heading")
                  /\ (ts[j].alone <=> Len(ps) = 1)
  <2>1. CASE ps[j].kind = "text"
    <3>1. ts[j].do = "text"
      BY <2>1 DEF Structured
    <3> QED BY <2>1, <3>1 DEF HeadItem
  <2>2. CASE ps[j].kind # "text"
    <3>1. /\ ts[j].do = (IF j <= Leading(e) THEN "lead" ELSE "heading") /\ ts[j].at = <<i, j>>
          /\ ts[j].head = ps[j] /\ (ts[j].alone <=> Len(ps) = 1)
      BY <2>2 DEF Structured
    <3>2. ps[j].kind = "heading"
      BY <1>1, <2>2 DEF IsPart
    <3> QED BY <3>1, <3>2 DEF HeadItem
  <2> QED BY <2>1, <2>2
<1>5. OnlyName(e) => Leading(e) = 1 /\ Len(ps) = 1 /\ Bracket(ps[1])
  <2> SUFFICES ASSUME OnlyName(e) PROVE Leading(e) = 1 /\ Len(ps) = 1 /\ Bracket(ps[1])
    OBVIOUS
  <2>1. Len(ps) = 1 /\ ps[1].kind = "heading" /\ Bracket(ps[1])
    BY DEF OnlyName
  <2>2. \A j \in DOMAIN ps : ps[j].kind = "heading"
    BY <1>1, <2>1
  <2>3. Leading(e) = Len(ps)
    <3> HIDE DEF e
    <3> QED BY <2>2 DEF Leading
  <2> QED BY <2>1, <2>3
<1> HIDE DEF ts
<1>6. ASSUME NEW j \in DOMAIN ts, HeadItem(ts[j])
      PROVE  /\ ts[j].at \in DOMAIN L <=> Pushes(elements, ts[j], i)
             /\ ts[j].at \in DOMAIN L => L[ts[j].at] = ts[j].head.level
  <2>1. /\ j \in DOMAIN ps /\ ps[j].kind = "heading" /\ ts[j].at = <<i, j>> /\ ts[j].head = ps[j]
        /\ ts[j].do = (IF j <= Leading(e) THEN "lead" ELSE "heading")
        /\ (ts[j].alone <=> Len(ps) = 1)
    BY <1>2, <1>4, <1>6
  <2>2. (ts[j].do = "lead" /\ ts[j].alone /\ Bracket(ts[j].head)) <=> OnlyName(e)
    <3>1. CASE OnlyName(e)
      <4>1. j = 1
        BY <1>1, <1>5, <2>1, <3>1
      <4> QED BY <1>5, <2>1, <3>1, <4>1
    <3>2. CASE ~OnlyName(e)
      <4>1. ASSUME ts[j].alone, Bracket(ts[j].head) PROVE FALSE
        <5>1. Len(ps) = 1 /\ j = 1
          BY <1>1, <2>1, <4>1
        <5> QED BY <2>1, <3>2, <4>1, <5>1 DEF OnlyName
      <4> QED BY <3>2, <4>1
    <3> QED BY <3>1, <3>2
  <2>3. m = "plain" /\ ~OnlyName(e) => ps[j].located
    OBVIOUS
  <2>4. HeadsPart(ts[j], e, i, j, m)
    BY <1>6, <2>1, <2>2, <2>3 DEF HeadsPart, LoneName
  <2> QED BY <2>1, <2>4, HeadingOpens
<1>7. ASSUME NEW p \in DOMAIN L, p[1] = i PROVE Ahead(ts, p)
  <2>1. p[2] \in DOMAIN ps /\ p = <<i, p[2]>>
    BY <1>7, LevelsTyped
  <2>2. ps[p[2]].kind = "heading"
    BY <1>7 DEF LevelsOf, OpensOf
  <2>3. HeadItem(ts[p[2]]) /\ ts[p[2]].at = p /\ p[2] \in DOMAIN ts
    BY <1>2, <1>4, <2>1, <2>2
  <2> QED BY <2>3 DEF Ahead
<1>8. InOrder(ts, i)
  <2>1. \A a \in DOMAIN ts : Spot(ts[a]) = <<i, a>> /\ Spot(ts[a])[2] = a /\ a \in Nat
    BY <1>1, <1>2, <1>3
  <2> QED BY <1>2, <2>1 DEF InOrder
<1> HIDE DEF L
<1>9. Fresh(L, elements, ts, i)
  BY <1>6, <1>7, <1>8 DEF Fresh, Opening
<1> QED BY <1>9 DEF ts, L

(* Items t at columns col[t], those of hd strictly after the ones before.  *)
Sorted(u, col, hd) ==
  \A a, c \in DOMAIN u : a < c =>
    /\ u[c] \in hd => col[u[a]] < col[u[c]]
    /\ u[a] \in hd => col[u[a]] <= col[u[c]]

LEMMA SortedConcat ==
  ASSUME NEW T, NEW u \in Seq(T), NEW v \in Seq(T), NEW col \in [T -> Nat], NEW hd, NEW n \in Nat,
         Sorted(u, col, hd), Sorted(v, col, hd),
         \A a \in DOMAIN u : col[u[a]] <= n, \A a \in DOMAIN v : col[v[a]] = n + 1
  PROVE  /\ u \o v \in Seq(T) /\ Sorted(u \o v, col, hd)
         /\ \A a \in DOMAIN (u \o v) : col[(u \o v)[a]] <= n + 1
         /\ Range(u) \subseteq Range(u \o v) /\ Range(v) \subseteq Range(u \o v)
<1> DEFINE w == u \o v
           p == Len(u)
           q == Len(v)
<1>1. /\ p \in Nat /\ q \in Nat /\ DOMAIN u = 1..p /\ DOMAIN v = 1..q
      /\ \A k \in 1..p : u[k] \in T
      /\ \A k \in 1..q : v[k] \in T
  OBVIOUS
<1>2. /\ w \in Seq(T) /\ DOMAIN w = 1..(p + q)
      /\ \A k \in 1..p : w[k] = u[k]
      /\ \A k \in 1..q : w[p + k] = v[k]
  BY ConcatProperties
<1>3. \A k \in 1..(p + q) : k \in 1..p \/ \E l \in 1..q : k = p + l
  <2> SUFFICES ASSUME NEW k \in 1..(p + q), k \notin 1..p PROVE \E l \in 1..q : k = p + l
    OBVIOUS
  <2>1. k - p \in 1..q /\ k = p + (k - p)
    BY <1>1
  <2> QED BY <2>1
<1> HIDE DEF w, p, q
<1>4. ASSUME NEW a \in DOMAIN w, NEW c \in DOMAIN w, a < c
      PROVE  /\ w[c] \in hd => col[w[a]] < col[w[c]]
             /\ w[a] \in hd => col[w[a]] <= col[w[c]]
  <2>1. CASE c \in 1..p
    <3>1. a \in 1..p
      BY <1>1, <1>2, <1>4, <2>1
    <3> QED BY <1>1, <1>2, <1>4, <2>1, <3>1 DEF Sorted
  <2>2. CASE a \in 1..p /\ c \notin 1..p
    <3>1. PICK l \in 1..q : c = p + l
      BY <1>2, <1>3, <2>2
    <3>2. w[a] = u[a] /\ w[c] = v[l] /\ u[a] \in T /\ v[l] \in T
      BY <1>1, <1>2, <2>2, <3>1
    <3>3. col[u[a]] <= n /\ col[v[l]] = n + 1 /\ col[u[a]] \in Nat
      BY <1>1, <2>2, <3>1, <3>2
    <3> QED BY <3>2, <3>3
  <2>3. CASE a \notin 1..p /\ c \notin 1..p
    <3>1. PICK l \in 1..q : c = p + l
      BY <1>2, <1>3, <2>3
    <3>2. PICK k \in 1..q : a = p + k
      BY <1>2, <1>3, <2>3
    <3>3. k < l /\ w[a] = v[k] /\ w[c] = v[l]
      BY <1>1, <1>2, <1>4, <3>1, <3>2
    <3> QED BY <1>1, <3>3 DEF Sorted
  <2> QED BY <1>2, <2>1, <2>2, <2>3
<1>5. Sorted(w, col, hd)
  BY <1>4 DEF Sorted
<1>6. \A a \in DOMAIN w : col[w[a]] <= n + 1
  <2> SUFFICES ASSUME NEW a \in DOMAIN w PROVE col[w[a]] <= n + 1
    OBVIOUS
  <2>1. CASE a \in 1..p
    <3>1. w[a] = u[a] /\ u[a] \in T /\ col[u[a]] <= n /\ col[u[a]] \in Nat
      BY <1>1, <1>2, <2>1
    <3> QED BY <3>1
  <2>2. CASE a \notin 1..p
    <3>1. PICK l \in 1..q : a = p + l
      BY <1>2, <1>3, <2>2
    <3>2. w[a] = v[l] /\ l \in DOMAIN v
      BY <1>1, <1>2, <3>1
    <3>3. col[w[a]] = n + 1
      BY <3>2
    <3> QED BY <3>3
  <2> QED BY <2>1, <2>2
<1>7. Range(u) \subseteq Range(w) /\ Range(v) \subseteq Range(w)
  <2>1. \A k \in 1..p : k \in DOMAIN w
    BY <1>1, <1>2
  <2>2. \A k \in 1..q : p + k \in DOMAIN w
    BY <1>1, <1>2
  <2>3. \A x \in Range(u) : \E k \in 1..p : w[k] = x
    BY <1>1, <1>2 DEF Range
  <2>4. ASSUME NEW x \in Range(v) PROVE \E k \in 1..q : w[p + k] = x
    <3>1. PICK k \in 1..q : v[k] = x
      BY <1>1 DEF Range
    <3>2. w[p + k] = x
      BY <1>2, <3>1
    <3> QED BY <3>2
  <2> QED BY <2>1, <2>2, <2>3, <2>4 DEF Range
<1> QED BY <1>2, <1>5, <1>6, <1>7 DEF w

LEMMA FlattenSorted ==
  ASSUME NEW T, NEW ss \in Seq(Seq(T)), NEW col \in [T -> Nat], NEW hd,
         \A j \in DOMAIN ss : Sorted(ss[j], col, hd) /\ \A k \in DOMAIN ss[j] : col[ss[j][k]] = j
  PROVE  /\ FlattenSeq(ss) \in Seq(T) /\ Sorted(FlattenSeq(ss), col, hd)
         /\ \A j \in DOMAIN ss : Range(ss[j]) \subseteq Range(FlattenSeq(ss))
<1> DEFINE N == Len(ss)
           V == Seq(T)
<1>1. N \in Nat /\ DOMAIN ss = 1..N /\ \A k \in 1..N : ss[k] \in V
  OBVIOUS
<1>2. PICK f : Joins(f, ss, N, V) /\ f[N] = FlattenSeq(ss)
  BY FlattenJoins
<1> DEFINE Fine(n) == /\ Sorted(f[n], col, hd)
                      /\ \A a \in DOMAIN f[n] : col[f[n][a]] <= n
                      /\ \A j \in 1..n : Range(ss[j]) \subseteq Range(f[n])
           G == {n \in 0..N : Fine(n)}
<1> HIDE DEF N, V
<1>3. 0 \in G
  <2>1. f[0] = <<>> /\ DOMAIN f[0] = {} /\ 1..0 = {}
    BY <1>2, EmptyList DEF Joins
  <2> QED BY <1>1, <2>1 DEF Sorted
<1>4. ASSUME NEW n \in 0..(N - 1), n \in G PROVE n + 1 \in G
  <2>1. n \in Nat /\ n + 1 \in 1..N /\ n + 1 \in 0..N /\ (n + 1) - 1 = n /\ n \in 0..N
    BY <1>1
  <2>2. f[n] \in V /\ f[n + 1] = f[n] \o ss[n + 1] /\ ss[n + 1] \in V
    BY <1>1, <1>2, <2>1 DEF Joins
  <2>3. Fine(n)
    BY <1>4
  <2>4. Sorted(ss[n + 1], col, hd) /\ \A k \in DOMAIN ss[n + 1] : col[ss[n + 1][k]] = n + 1
    BY <1>1, <2>1
  <2> PICK u, v : u = f[n] /\ v = ss[n + 1]
    OBVIOUS
  <2>5. /\ u \in Seq(T) /\ v \in Seq(T) /\ Sorted(u, col, hd) /\ Sorted(v, col, hd)
        /\ \A a \in DOMAIN u : col[u[a]] <= n
        /\ \A a \in DOMAIN v : col[v[a]] = n + 1
    BY <2>2, <2>3, <2>4 DEF V
  <2> DEFINE w == u \o v
  <2>6. /\ Sorted(w, col, hd)
        /\ \A a \in DOMAIN w : col[w[a]] <= n + 1
        /\ Range(u) \subseteq Range(w) /\ Range(v) \subseteq Range(w)
    BY ONLY <2>5, n \in Nat, col \in [T -> Nat], <2>1, SortedConcat
  <2>7. f[n + 1] = w
    BY <2>2
  <2> HIDE DEF w
  <2>8. \A j \in 1..(n + 1) : j \in 1..n \/ j = n + 1
    BY <2>1
  <2>9. \A j \in 1..(n + 1) : Range(ss[j]) \subseteq Range(w)
    BY <2>3, <2>6, <2>8
  <2>10. Fine(n + 1)
    BY <2>6, <2>7, <2>9
  <2> HIDE DEF Fine
  <2> QED BY <2>1, <2>10
<1>5. N \in G
  <2> HIDE DEF G
  <2>1. Inductive(G, N)
    BY <1>3, <1>4 DEF Inductive
  <2>2. \A n \in 0..N : n \in G
    BY <1>1, <2>1, NatInductionUpTo
  <2> QED BY <1>1, <2>2
<1>6. Fine(N) /\ f[N] \in V
  <2>1. N \in 0..N
    BY <1>1
  <2> QED BY <1>2, <1>5, <2>1 DEF Joins
<1> QED BY <1>1, <1>2, <1>6 DEF V

LEMMA UnderSpot ==
  ASSUME elements \in Sections, NEW i \in DOMAIN elements, elements[i].tag = "P",
         NEW j \in DOMAIN elements[i].parts
  PROVE  Spot(Under(elements[i], i, j)) = <<i, j>> /\ ~HeadItem(Under(elements[i], i, j))
<1> DEFINE L == Len(elements[i].parts)
           places == [k \in 1..L |-> <<i, k>>]
<1>1. L \in Nat /\ j \in 1..L
  BY PartFacts
<1>2. PICK r : Stretch(elements[i], j, r) /\ Under(elements[i], i, j).at = SubSeq(places, j, r)
  BY UnderStretches
<1>3. r \in j..L
  BY <1>2 DEF Stretch
<1>4. SubSeq(places, j, r)[1] = <<i, j>>
  <2>1. places[j] = <<i, j>>
    BY <1>1
  <2>2. j + 1 - 1 = j /\ 1 \in 1..(r - j + 1)
    BY <1>1, <1>3
  <2> HIDE DEF places
  <2>3. SubSeq(places, j, r)[1] = places[j]
    BY <1>1, <1>3, <2>2
  <2> QED BY <2>1, <2>3
<1>5. Under(elements[i], i, j).do = "text"
  BY UnderIsText
<1> QED BY <1>2, <1>4, <1>5 DEF Spot, HeadItem

LEMMA PlainFresh ==
  ASSUME elements \in Sections, NEW i \in DOMAIN elements, elements[i].tag = "P"
  PROVE  Fresh(LevelsOf(elements, "plain"), elements, Plain(elements[i], i), i)
<1> DEFINE e == elements[i]
           ps == e.parts
           L == LevelsOf(elements, "plain")
           found == {j \in DOMAIN ps : ps[j].kind = "heading" /\ ps[j].located}
           head(j) == [do |-> IF j = 1 THEN "lead" ELSE "heading", head |-> ps[j],
                       at |-> <<i, j>>, alone |-> FALSE, body |-> TRUE]
           from(j) == IF j \in found THEN << head(j), Under(e, i, j) >>
                      ELSE IF j = 1 THEN << Under(e, i, j) >> ELSE <<>>
           T == {head(j) : j \in found} \cup {Under(e, i, j) : j \in DOMAIN ps}
           ss == [j \in DOMAIN ps |-> from(j)]
           ts == FlattenSeq(ss)
           col == [t \in T |-> Spot(t)[2]]
           hd == {t \in T : HeadItem(t)}
<1>1. CASE OnlyName(e)
  <2>1. Plain(e, i) = Structured(e, i)
    BY <1>1 DEF Plain
  <2> QED BY <1>1, <2>1, StructuredFresh
<1>2. CASE ~OnlyName(e)
  <2>1. Plain(e, i) = ts
    BY <1>2 DEF Plain
  <2>2. i \in Nat /\ Len(ps) \in Nat /\ DOMAIN ps = 1..Len(ps)
    BY PartFacts, SectionFacts
  <2>3. \A j \in found : j \in DOMAIN ps
    OBVIOUS
  <2>4. ASSUME NEW j \in found
        PROVE  /\ head(j) \in T /\ HeadsPart(head(j), e, i, j, "plain")
               /\ Spot(head(j)) = <<i, j>> /\ head(j).at = <<i, j>>
    <3>1. head(j) \in T
      <4> HIDE DEF head, found
      <4> QED OBVIOUS
    <3>2. /\ head(j).do \in {"lead", "heading"} /\ head(j).at = <<i, j>> /\ head(j).head = ps[j]
          /\ head(j).do # "text" /\ ~head(j).alone
      OBVIOUS
    <3>3. ps[j].kind = "heading" /\ ps[j].located
      OBVIOUS
    <3> HIDE DEF head, found, T
    <3> QED BY <1>2, <3>1, <3>2, <3>3 DEF HeadsPart, HeadItem, LoneName, Spot
  <2>5. ASSUME NEW j \in DOMAIN ps
        PROVE  Under(e, i, j) \in T /\ Spot(Under(e, i, j)) = <<i, j>> /\ ~HeadItem(Under(e, i, j))
    <3>1. Under(e, i, j) \in T
      <4> HIDE DEF e, head, found, ps
      <4> QED BY DEF ps
    <3> QED BY <3>1, UnderSpot
  <2>6. ASSUME NEW t \in T
        PROVE  \E j \in DOMAIN ps : \/ j \in found /\ t = head(j)
                                    \/ t = Under(e, i, j)
    <3> HIDE DEF head
    <3> QED BY <2>3
  <2>7. \A j \in DOMAIN ps : ss[j] = from(j)
    OBVIOUS
  <2> HIDE DEF T, head, found
  <2>8. ASSUME NEW t \in T
        PROVE  Spot(t) = <<i, Spot(t)[2]>> /\ Spot(t)[2] \in Nat /\ col[t] = Spot(t)[2]
    <3>1. PICK j \in DOMAIN ps : Spot(t) = <<i, j>>
      BY <2>3, <2>4, <2>5, <2>6
    <3> QED BY <2>2, <3>1
  <2>9. col \in [T -> Nat]
    BY <2>8
  <2>10. \A t \in T : col[t] = Spot(t)[2] /\ (t \in hd <=> HeadItem(t))
    BY <2>8
  <2> HIDE DEF col, hd
  <2>11. ASSUME NEW j \in DOMAIN ps
         PROVE  /\ from(j) \in Seq(T) /\ Sorted(from(j), col, hd)
                /\ \A k \in DOMAIN from(j) : col[from(j)[k]] = j
    <3> PICK h, x : h = head(j) /\ x = Under(e, i, j)
      OBVIOUS
    <3>1. x \in T /\ x \notin hd /\ col[x] = j
      BY <2>5, <2>10
    <3>2. j \in found => h \in T /\ h \in hd /\ col[h] = j
      BY <2>4, <2>10 DEF HeadsPart
    <3>3. CASE j \in found
      <4>1. /\ << h, x >> \in Seq(T) /\ DOMAIN << h, x >> = 1..2
            /\ << h, x >>[1] = h /\ << h, x >>[2] = x
        BY <3>1, <3>2, <3>3
      <4>2. from(j) = << h, x >>
        BY <3>3
      <4> PICK w : w = << h, x >>
        OBVIOUS
      <4>3. w \in Seq(T) /\ DOMAIN w = 1..2 /\ w[1] = h /\ w[2] = x /\ from(j) = w
        BY <4>1, <4>2
      <4> HIDE DEF from
      <4>4. \A k \in 1..2 : k = 1 \/ k = 2
        OBVIOUS
      <4>5. Sorted(w, col, hd)
        <5> SUFFICES ASSUME NEW a \in DOMAIN w, NEW c \in DOMAIN w, a < c
                     PROVE  /\ w[c] \in hd => col[w[a]] < col[w[c]]
                            /\ w[a] \in hd => col[w[a]] <= col[w[c]]
          BY DEF Sorted
        <5>1. a = 1 /\ c = 2
          BY <4>3, <4>4
        <5> QED BY <2>2, <3>1, <3>2, <3>3, <4>3, <5>1
      <4> QED BY <3>1, <3>2, <3>3, <4>3, <4>4, <4>5
    <3>4. CASE j \notin found /\ j = 1
      <4>1. << x >> \in Seq(T) /\ DOMAIN << x >> = 1..1 /\ << x >>[1] = x
        BY <3>1
      <4>2. from(j) = << x >>
        BY <3>4
      <4> PICK w : w = << x >>
        OBVIOUS
      <4>3. w \in Seq(T) /\ DOMAIN w = 1..1 /\ w[1] = x /\ from(j) = w
        BY <4>1, <4>2
      <4> HIDE DEF from
      <4>4. \A k \in 1..1 : k = 1
        OBVIOUS
      <4> QED BY <3>1, <4>3, <4>4 DEF Sorted
    <3>5. CASE j \notin found /\ j # 1
      <4>1. from(j) = <<>> /\ DOMAIN <<>> = {} /\ <<>> \in Seq(T)
        BY <3>5, EmptyList
      <4> HIDE DEF from
      <4> QED BY <4>1 DEF Sorted
    <3> QED BY <3>3, <3>4, <3>5
  <2>12. \A j \in found : Range(ss[j]) = {head(j), Under(e, i, j)}
    <3> SUFFICES ASSUME NEW j \in found PROVE Range(ss[j]) = {head(j), Under(e, i, j)}
      OBVIOUS
    <3> PICK h, x : h = head(j) /\ x = Under(e, i, j)
      OBVIOUS
    <3>1. ss[j] = << h, x >>
      BY <2>3, <2>7
    <3>2. Range(<< h, x >>) = {h, x}
      BY DEF Range
    <3> QED BY <3>1, <3>2
  <2> HIDE DEF from
  <2>13. ss \in Seq(Seq(T)) /\ DOMAIN ss = DOMAIN ps
    BY <2>2, <2>11
  <2>14. \A j \in DOMAIN ss : Sorted(ss[j], col, hd) /\ \A k \in DOMAIN ss[j] : col[ss[j][k]] = j
    BY <2>7, <2>11
  <2> HIDE DEF ss
  <2>15. /\ ts \in Seq(T) /\ Sorted(ts, col, hd)
         /\ \A j \in DOMAIN ss : Range(ss[j]) \subseteq Range(ts)
    <3>1. ss \in Seq(Seq(T))
      BY <2>13
    <3> QED BY ONLY <2>9, <2>14, <3>1, FlattenSorted
  <2> HIDE DEF ts
  <2>16. IsList(ts) /\ \A a \in DOMAIN ts : ts[a] \in T
    BY <2>15, ListOf
  <2>17. InOrder(ts, i)
    BY <2>8, <2>10, <2>15, <2>16 DEF InOrder, Sorted
  <2>18. Opening(L, elements, ts, i)
    <3> SUFFICES ASSUME NEW a \in DOMAIN ts, HeadItem(ts[a])
                 PROVE  /\ ts[a].at \in DOMAIN L <=> Pushes(elements, ts[a], i)
                        /\ ts[a].at \in DOMAIN L => L[ts[a].at] = ts[a].head.level
      BY DEF Opening
    <3>1. PICK j \in found : ts[a] = head(j)
      BY <2>5, <2>6, <2>16
    <3>2. HeadsPart(ts[a], e, i, j, "plain") /\ j \in DOMAIN ps
      BY <2>3, <2>4, <3>1
    <3> QED BY <3>2, HeadingOpens
  <2>19. ASSUME NEW p \in DOMAIN L, p[1] = i PROVE Ahead(ts, p)
    <3>1. p[2] \in DOMAIN ps /\ p = <<i, p[2]>>
      BY <2>19, LevelsTyped
    <3>2. p[2] \in found
      BY <1>2, <2>19, <3>1 DEF LevelsOf, OpensOf, found
    <3>3. head(p[2]) \in Range(ts)
      BY <2>3, <2>12, <2>13, <2>15, <3>2
    <3>4. PICK a \in DOMAIN ts : ts[a] = head(p[2])
      BY <3>3 DEF Range
    <3>5. HeadItem(ts[a]) /\ ts[a].at = p
      BY <2>4, <3>1, <3>2, <3>4 DEF HeadsPart
    <3> QED BY <3>5 DEF Ahead
  <2> HIDE DEF L
  <2>20. Fresh(L, elements, ts, i)
    BY <2>17, <2>18, <2>19 DEF Fresh
  <2> QED BY <2>1, <2>20 DEF L
<1> QED BY <1>1, <1>2

LEMMA ItemsFresh ==
  ASSUME elements \in Sections, NEW i \in DOMAIN elements, NEW m
  PROVE  Fresh(LevelsOf(elements, m), elements, Items(elements[i], i, m), i)
<1>1. CASE IsTable(elements[i])
  BY <1>1, TablesFresh DEF Items
<1>2. CASE ~IsTable(elements[i])
  <2>1. elements[i].tag = "P"
    BY <1>2, SectionFacts DEF IsElement, IsTable
  <2>2. CASE m = "plain"
    BY <1>2, <2>1, <2>2, PlainFresh DEF Items
  <2>3. CASE m # "plain"
    BY <1>2, <2>1, <2>3, StructuredFresh DEF Items
  <2> QED BY <2>2, <2>3
<1> QED BY <1>1, <1>2

-----------------------------------------------------------------------------
(* The headings taken up so far, and the blocks and open headings that     *)
(* follow the outline of them.                                             *)

Behind(L, ts, n) == {p \in DOMAIN L : p[1] <= n /\ ~Ahead(ts, p)}

(* What is left stands after all of them. *)
Past(L, ts, n) == \A p \in Behind(L, ts, n) : \A a \in DOMAIN ts : ~Before(Spot(ts[a]), p)

Ready(L, s, ts, n) == InOrder(ts, n) /\ Opening(L, s, ts, n) /\ Past(L, ts, n)

Following(s, m, st, bs, ts, n) ==
  /\ Ready(LevelsOf(s, m), s, ts, n)
  /\ \A over : IsOver(LevelsOf(s, m), over) =>
       /\ Stand(LevelsOf(s, m), st, Behind(LevelsOf(s, m), ts, n), over)
       /\ \A b \in DOMAIN bs : Outlined(LevelsOf(s, m), over, bs[b])

OutlineFollows == policy = "open" => label = None /\ Following(elements, mode, stack, blocks, todo, pos)

LEMMA Reached ==
  ASSUME NEW L, IsLevels(L), NEW s, NEW n \in Nat, NEW ts, Ready(L, s, ts, n), ts # <<>>
  PROVE  /\ Ready(L, s, Tail(ts), n)
         /\ Behind(L, Tail(ts), n) = {p \in DOMAIN L : ~Before(Spot(ts[1]), p)}
         /\ Behind(L, Tail(ts), n) = Behind(L, ts, n) \cup {p \in DOMAIN L : HeadItem(ts[1]) /\ p = ts[1].at}
         /\ HeadItem(ts[1]) => ts[1].at \notin Behind(L, ts, n)
<1> DEFINE us == Tail(ts)
<1>1. /\ IsList(us) /\ 1 \in DOMAIN ts
      /\ \A k \in DOMAIN us : k \in Nat \ {0} /\ k + 1 \in DOMAIN ts /\ us[k] = ts[k + 1]
  BY ListTail DEF Ready, InOrder
<1>2. \A k \in DOMAIN ts : k # 1 => k > 1 /\ k - 1 \in DOMAIN us /\ us[k - 1] = ts[k]
  <2>1. /\ DOMAIN ts = 1..Len(ts) /\ Len(ts) \in Nat /\ DOMAIN us = 1..Len(us)
        /\ Len(us) = Len(ts) - 1
    <3>1. ts \in Seq(Range(ts))
      BY DEF Ready, InOrder, IsList
    <3> PICK V : V = Range(ts)
      OBVIOUS
    <3>2. ts \in Seq(V)
      BY <3>1
    <3> QED BY <3>2
  <2> HIDE DEF us
  <2> SUFFICES ASSUME NEW k \in DOMAIN ts, k # 1
               PROVE  k > 1 /\ k - 1 \in DOMAIN us /\ us[k - 1] = ts[k]
    OBVIOUS
  <2>2. k > 1 /\ k - 1 \in DOMAIN us /\ (k - 1) + 1 = k
    BY <2>1
  <2>3. us[k - 1] = ts[(k - 1) + 1]
    BY <1>1, <2>2
  <2> QED BY <2>2, <2>3
<1> HIDE DEF us
<1>3. \A a \in DOMAIN ts : Spot(ts[a])[1] = n /\ Spot(ts[a])[2] \in Nat /\ Spot(ts[a]) \in Place
  <2>1. \A a \in DOMAIN ts : Spot(ts[a]) = <<n, Spot(ts[a])[2]>> /\ Spot(ts[a])[2] \in Nat
    BY DEF Ready, InOrder
  <2> SUFFICES ASSUME NEW a \in DOMAIN ts
               PROVE  Spot(ts[a])[1] = n /\ Spot(ts[a])[2] \in Nat /\ Spot(ts[a]) \in Place
    OBVIOUS
  <2> PICK c : c = Spot(ts[a])[2]
    OBVIOUS
  <2>2. Spot(ts[a]) = <<n, c>> /\ c \in Nat
    BY <2>1
  <2> QED BY <2>2 DEF Place
<1>4. \A a \in DOMAIN ts : HeadItem(ts[a]) => ts[a].at = Spot(ts[a])
  BY DEF HeadItem, Spot
<1>5. ASSUME NEW a \in DOMAIN ts, a > 1
      PROVE  /\ HeadItem(ts[a]) => Before(Spot(ts[1]), Spot(ts[a]))
             /\ HeadItem(ts[1]) => ~Before(Spot(ts[a]), Spot(ts[1]))
  <2>1. /\ HeadItem(ts[a]) => Spot(ts[1])[2] < Spot(ts[a])[2]
        /\ HeadItem(ts[1]) => Spot(ts[1])[2] <= Spot(ts[a])[2]
    BY <1>1, <1>5 DEF Ready, InOrder
  <2> QED BY <1>1, <1>3, <2>1 DEF Before
<1>6. \A p : Ahead(ts, p) <=> Ahead(us, p) \/ (HeadItem(ts[1]) /\ ts[1].at = p)
  <2>1. ASSUME NEW p, Ahead(ts, p), ~(HeadItem(ts[1]) /\ ts[1].at = p) PROVE Ahead(us, p)
    <3>1. PICK a \in DOMAIN ts : HeadItem(ts[a]) /\ ts[a].at = p
      BY <2>1 DEF Ahead
    <3>2. a # 1
      BY <2>1, <3>1
    <3> QED BY <1>2, <3>1, <3>2 DEF Ahead
  <2>2. ASSUME NEW p, Ahead(us, p) PROVE Ahead(ts, p)
    BY <1>1, <2>2 DEF Ahead
  <2>3. ASSUME NEW p, HeadItem(ts[1]), ts[1].at = p PROVE Ahead(ts, p)
    BY <1>1, <2>3 DEF Ahead
  <2> QED BY <2>1, <2>2, <2>3
<1>7. ASSUME HeadItem(ts[1]) PROVE ~Ahead(us, ts[1].at)
  <2> SUFFICES ASSUME NEW k \in DOMAIN us, HeadItem(us[k]), us[k].at = ts[1].at PROVE FALSE
    BY DEF Ahead
  <2>1. k + 1 \in DOMAIN ts /\ k + 1 > 1 /\ us[k] = ts[k + 1]
    BY <1>1
  <2>2. Before(Spot(ts[1]), Spot(ts[k + 1])) /\ Spot(ts[k + 1]) = Spot(ts[1]) /\ Spot(ts[1]) \in Place
    BY <1>1, <1>3, <1>4, <1>5, <1>7, <2>1
  <2> QED BY <2>2, BeforeOrders
<1>8. Behind(L, us, n) = Behind(L, ts, n) \cup {p \in DOMAIN L : HeadItem(ts[1]) /\ p = ts[1].at}
  <2>1. \A p : HeadItem(ts[1]) /\ p = ts[1].at => p[1] <= n /\ ~Ahead(us, p)
    BY <1>1, <1>3, <1>4, <1>7
  <2> QED BY <1>6, <2>1 DEF Behind
<1>9. HeadItem(ts[1]) => ts[1].at \notin Behind(L, ts, n)
  BY <1>6 DEF Behind
<1>10. \A p \in DOMAIN L : p \in Place /\ p[1] \in Nat /\ p[2] \in Nat
  BY DEF IsLevels, Place
<1>11. Behind(L, us, n) = {p \in DOMAIN L : ~Before(Spot(ts[1]), p)}
  <2>1. ASSUME NEW p \in Behind(L, us, n) PROVE p \in DOMAIN L /\ ~Before(Spot(ts[1]), p)
    <3>1. CASE p \in Behind(L, ts, n)
      BY <1>1, <3>1 DEF Ready, Past, Behind
    <3>2. CASE p \notin Behind(L, ts, n)
      <4>1. p \in DOMAIN L /\ HeadItem(ts[1]) /\ p = ts[1].at
        BY <1>8, <3>2
      <4>2. p = Spot(ts[1]) /\ p \in Place
        BY <1>1, <1>3, <1>4, <4>1
      <4> QED BY <4>1, <4>2, BeforeOrders
    <3> QED BY <3>1, <3>2
  <2>2. ASSUME NEW p \in DOMAIN L, ~Before(Spot(ts[1]), p) PROVE p \in Behind(L, us, n)
    <3>1. p[1] <= n
      BY <1>1, <1>3, <1>10, <2>2 DEF Before
    <3>2. ASSUME Ahead(us, p) PROVE FALSE
      <4>1. PICK k \in DOMAIN us : HeadItem(us[k]) /\ us[k].at = p
        BY <3>2 DEF Ahead
      <4>2. k + 1 \in DOMAIN ts /\ k + 1 > 1 /\ us[k] = ts[k + 1]
        BY <1>1
      <4>3. Before(Spot(ts[1]), Spot(ts[k + 1])) /\ Spot(ts[k + 1]) = p
        BY <1>4, <1>5, <4>1, <4>2
      <4> QED BY <2>2, <4>3
    <3> QED BY <3>1, <3>2 DEF Behind
  <2> QED BY <2>1, <2>2
<1>12. InOrder(us, n)
  <2>1. \A a \in DOMAIN us : Spot(us[a]) = <<n, Spot(us[a])[2]>> /\ Spot(us[a])[2] \in Nat
    <3>1. \A a \in DOMAIN ts : Spot(ts[a]) = <<n, Spot(ts[a])[2]>> /\ Spot(ts[a])[2] \in Nat
      BY DEF Ready, InOrder
    <3> QED BY <1>1, <3>1
  <2>2. ASSUME NEW a \in DOMAIN us, NEW c \in DOMAIN us, a < c
        PROVE  /\ HeadItem(us[c]) => Spot(us[a])[2] < Spot(us[c])[2]
               /\ HeadItem(us[a]) => Spot(us[a])[2] <= Spot(us[c])[2]
    <3>1. /\ a + 1 \in DOMAIN ts /\ c + 1 \in DOMAIN ts /\ a + 1 < c + 1
          /\ us[a] = ts[a + 1] /\ us[c] = ts[c + 1]
      BY <1>1, <2>2
    <3> QED BY <3>1 DEF Ready, InOrder
  <2> QED BY <1>1, <2>1, <2>2 DEF InOrder
<1>13. Opening(L, s, us, n)
  <2>1. \A a \in DOMAIN us : \E k \in DOMAIN ts : us[a] = ts[k]
    BY <1>1
  <2> QED BY <2>1 DEF Ready, Opening
<1>14. Past(L, us, n)
  <2> SUFFICES ASSUME NEW p \in Behind(L, us, n), NEW a \in DOMAIN us PROVE ~Before(Spot(us[a]), p)
    BY DEF Past
  <2>1. a + 1 \in DOMAIN ts /\ a + 1 > 1 /\ us[a] = ts[a + 1]
    BY <1>1
  <2>2. CASE p \in Behind(L, ts, n)
    BY <2>1, <2>2 DEF Ready, Past
  <2>3. CASE p \notin Behind(L, ts, n)
    <3>1. HeadItem(ts[1]) /\ p = ts[1].at
      BY <1>8, <2>3
    <3> QED BY <1>1, <1>4, <1>5, <2>1, <3>1
  <2> QED BY <2>2, <2>3
<1>15. Ready(L, s, us, n)
  BY <1>12, <1>13, <1>14 DEF Ready
<1> QED BY <1>8, <1>9, <1>11, <1>15 DEF us

LEMMA FollowElement ==
  ASSUME elements \in Sections, NEW n \in Nat, n + 1 \in DOMAIN elements, NEW m, NEW st, NEW bs,
         Following(elements, m, st, bs, <<>>, n)
  PROVE  Following(elements, m, st, bs, Items(elements[n + 1], n + 1, m), n + 1)
<1> DEFINE L == LevelsOf(elements, m)
           ts == Items(elements[n + 1], n + 1, m)
<1>1. Fresh(L, elements, ts, n + 1)
  BY ItemsFresh
<1>2. /\ \A p \in DOMAIN L : p[1] \in Nat
      /\ \A over : IsOver(L, over) =>
           /\ Stand(L, st, Behind(L, <<>>, n), over)
           /\ \A b \in DOMAIN bs : Outlined(L, over, bs[b])
  BY LevelsTyped DEF Following
<1>3. Following(elements, m, st, bs, ts, n + 1) <=>
        /\ Ready(L, elements, ts, n + 1)
        /\ \A over : IsOver(L, over) =>
             /\ Stand(L, st, Behind(L, ts, n + 1), over)
             /\ \A b \in DOMAIN bs : Outlined(L, over, bs[b])
  BY DEF Following
<1> HIDE DEF L, ts
<1>4. \A p : ~Ahead(<<>>, p)
  BY EmptyList DEF Ahead
<1>5. \A p : Ahead(ts, p) => p[1] = n + 1
  <2> SUFFICES ASSUME NEW a \in DOMAIN ts, HeadItem(ts[a]) PROVE ts[a].at[1] = n + 1
    BY DEF Ahead
  <2> PICK c : c = Spot(ts[a])[2]
    OBVIOUS
  <2>1. ts[a].at = <<n + 1, c>>
    BY <1>1 DEF Fresh, InOrder, HeadItem, Spot
  <2> QED BY <2>1
<1>6. Behind(L, ts, n + 1) = Behind(L, <<>>, n)
  <2>1. ASSUME NEW p \in DOMAIN L PROVE p[1] <= n + 1 /\ ~Ahead(ts, p) <=> p[1] <= n
    <3>1. CASE p[1] = n + 1
      BY <1>1, <3>1 DEF Fresh
    <3>2. CASE p[1] # n + 1
      BY <1>2, <1>5, <3>2
    <3> QED BY <3>1, <3>2
  <2> QED BY <1>4, <2>1 DEF Behind
<1>7. Past(L, ts, n + 1)
  <2> SUFFICES ASSUME NEW p \in Behind(L, ts, n + 1), NEW a \in DOMAIN ts PROVE ~Before(Spot(ts[a]), p)
    BY DEF Past
  <2>1. p[1] <= n /\ p[1] \in Nat
    BY <1>2, <1>6 DEF Behind
  <2> PICK c : c = Spot(ts[a])[2]
    OBVIOUS
  <2>2. Spot(ts[a]) = <<n + 1, c>>
    BY <1>1 DEF Fresh, InOrder
  <2>3. Spot(ts[a])[1] = n + 1
    BY <2>2
  <2> QED BY <2>1, <2>3 DEF Before
<1>8. Ready(L, elements, ts, n + 1)
  BY <1>1, <1>7 DEF Fresh, Ready
<1>9. Following(elements, m, st, bs, ts, n + 1)
  BY <1>2, <1>3, <1>6, <1>8
<1> QED BY <1>9 DEF ts

(* An item that opens nothing leaves the headings as they are.             *)
LEMMA FollowSkip ==
  ASSUME elements \in Sections, NEW n \in Nat, NEW m, NEW st, NEW bs, NEW ts, ts # <<>>,
         Following(elements, m, st, bs, ts, n), HeadItem(ts[1]) => ~Pushes(elements, ts[1], n)
  PROVE  Following(elements, m, st, bs, Tail(ts), n)
<1> DEFINE L == LevelsOf(elements, m)
<1>1. IsLevels(L) /\ Ready(L, elements, ts, n)
  BY LevelsTyped DEF Following
<1>2. /\ Ready(L, elements, Tail(ts), n)
      /\ Behind(L, Tail(ts), n) = Behind(L, ts, n) \cup {p \in DOMAIN L : HeadItem(ts[1]) /\ p = ts[1].at}
  <2> HIDE DEF L
  <2> QED BY <1>1, Reached
<1>3. HeadItem(ts[1]) => ts[1].at \notin DOMAIN L
  <2>1. 1 \in DOMAIN ts
    BY <1>1, ListTail DEF Ready, InOrder
  <2> QED BY <1>1, <2>1 DEF Ready, Opening
<1>4. Behind(L, Tail(ts), n) = Behind(L, ts, n)
  BY <1>2, <1>3
<1> QED BY <1>2, <1>4 DEF Following

LEMMA FollowPush ==
  ASSUME policy = "open", elements \in Sections, NEW n \in Nat, NEW m, NEW st, NEW bs, NEW ts, ts # <<>>,
         Following(elements, m, st, bs, ts, n), HeadItem(ts[1]), Pushes(elements, ts[1], n),
         NEW h, IsEntry(h), h.at = ts[1].at, h.level = ts[1].head.level
  PROVE  Following(elements, m, PushHeading(st, h), bs, Tail(ts), n)
<1> DEFINE L == LevelsOf(elements, m)
<1>1. IsLevels(L) /\ Ready(L, elements, ts, n)
  BY LevelsTyped DEF Following
<1>2. /\ \A over : IsOver(L, over) =>
           /\ Stand(L, st, Behind(L, ts, n), over)
           /\ \A b \in DOMAIN bs : Outlined(L, over, bs[b])
      /\ Following(elements, m, PushHeading(st, h), bs, Tail(ts), n) <=>
           /\ Ready(L, elements, Tail(ts), n)
           /\ \A over : IsOver(L, over) =>
                /\ Stand(L, PushHeading(st, h), Behind(L, Tail(ts), n), over)
                /\ \A b \in DOMAIN bs : Outlined(L, over, bs[b])
  BY DEF Following
<1> HIDE DEF L
<1>3. /\ Ready(L, elements, Tail(ts), n)
      /\ Behind(L, Tail(ts), n) = {p \in DOMAIN L : ~Before(Spot(ts[1]), p)}
      /\ Behind(L, Tail(ts), n) = Behind(L, ts, n) \cup {p \in DOMAIN L : HeadItem(ts[1]) /\ p = ts[1].at}
      /\ HeadItem(ts[1]) => ts[1].at \notin Behind(L, ts, n)
  BY <1>1, Reached
<1>4. h.at \in DOMAIN L /\ h.level = L[h.at]
  <2>1. 1 \in DOMAIN ts
    BY <1>1, ListTail DEF Ready, InOrder
  <2> QED BY <1>1, <2>1 DEF Ready, Opening
<1>5. Spot(ts[1]) = h.at
  BY DEF Spot, HeadItem
<1> PICK B : B = Behind(L, ts, n)
  OBVIOUS
<1>6. /\ Behind(L, Tail(ts), n) = B \cup {h.at} /\ h.at \notin B /\ B \subseteq DOMAIN L
      /\ B \cup {h.at} = {p \in DOMAIN L : ~Before(h.at, p)}
  BY <1>3, <1>4, <1>5 DEF Behind
<1>7. ASSUME NEW over, IsOver(L, over)
      PROVE  Stand(L, PushHeading(st, h), B \cup {h.at}, over)
  <2>1. Stand(L, st, B, over)
    BY <1>2, <1>7
  <2> QED BY <1>1, <1>4, <1>6, <1>7, <2>1, PushStands
<1> QED BY <1>2, <1>3, <1>6, <1>7

LEMMA FollowBlock ==
  ASSUME elements \in Sections, NEW n \in Nat, NEW m, NEW ts, ts # <<>>, IsList(blocks),
         Following(elements, m, stack, blocks, ts, n), ~HeadItem(ts[1]),
         NEW b, b.open = [k \in DOMAIN stack |-> stack[k].at], b.at[1] = Spot(ts[1])
  PROVE  Following(elements, m, stack, Append(blocks, b), Tail(ts), n)
<1> DEFINE L == LevelsOf(elements, m)
           bs == Append(blocks, b)
<1>1. IsLevels(L) /\ Ready(L, elements, ts, n)
  BY LevelsTyped DEF Following
<1>2. /\ \A over : IsOver(L, over) =>
           /\ Stand(L, stack, Behind(L, ts, n), over)
           /\ \A c \in DOMAIN blocks : Outlined(L, over, blocks[c])
      /\ Following(elements, m, stack, bs, Tail(ts), n) <=>
           /\ Ready(L, elements, Tail(ts), n)
           /\ \A over : IsOver(L, over) =>
                /\ Stand(L, stack, Behind(L, Tail(ts), n), over)
                /\ \A c \in DOMAIN bs : Outlined(L, over, bs[c])
  BY DEF Following
<1> HIDE DEF L
<1>3. /\ Ready(L, elements, Tail(ts), n)
      /\ Behind(L, Tail(ts), n) = {p \in DOMAIN L : ~Before(Spot(ts[1]), p)}
      /\ Behind(L, Tail(ts), n) = Behind(L, ts, n) \cup {p \in DOMAIN L : HeadItem(ts[1]) /\ p = ts[1].at}
  BY <1>1, Reached
<1>4. Behind(L, Tail(ts), n) = Behind(L, ts, n)
  BY <1>3
<1>5. \A c \in DOMAIN bs : (c \in DOMAIN blocks /\ bs[c] = blocks[c]) \/ bs[c] = b
  <2>1. /\ DOMAIN bs = 1..(Len(blocks) + 1) /\ bs[Len(blocks) + 1] = b
        /\ \A k \in DOMAIN blocks : bs[k] = blocks[k]
        /\ DOMAIN blocks = 1..Len(blocks) /\ Len(blocks) \in Nat
    BY ListAppend, ListFacts
  <2> HIDE DEF bs
  <2> QED BY <2>1
<1> HIDE DEF bs
<1>6. ASSUME NEW over, IsOver(L, over) PROVE \A c \in DOMAIN bs : Outlined(L, over, bs[c])
  <2> PICK B : B = Behind(L, ts, n)
    OBVIOUS
  <2>1. Stand(L, stack, B, over) /\ B = {p \in DOMAIN L : ~Before(b.at[1], p)}
    BY <1>2, <1>3, <1>4, <1>6
  <2>2. Outlined(L, over, b)
    BY <2>1, BlockOutlined
  <2> QED BY <1>2, <1>5, <1>6, <2>2
<1>7. Following(elements, m, stack, bs, Tail(ts), n)
  BY <1>2, <1>3, <1>4, <1>6
<1> QED BY <1>7 DEF bs

LEMMA FollowNothing ==
  ASSUME elements \in Sections, NEW m
  PROVE  Following(elements, m, <<>>, <<>>, <<>>, 0)
<1> DEFINE L == LevelsOf(elements, m)
<1>1. IsList(<<>>) /\ DOMAIN <<>> = {} /\ Len(<<>>) = 0
  BY EmptyList
<1>2. \A p \in DOMAIN L : p[1] \in Nat \ {0}
  BY LevelsTyped
<1>3. Following(elements, m, <<>>, <<>>, <<>>, 0) <=>
        /\ Ready(L, elements, <<>>, 0)
        /\ \A over : IsOver(L, over) =>
             /\ Stand(L, <<>>, Behind(L, <<>>, 0), over)
             /\ \A b \in DOMAIN <<>> : Outlined(L, over, <<>>[b])
  BY DEF Following
<1> HIDE DEF L
<1>4. Behind(L, <<>>, 0) = {}
  BY <1>2 DEF Behind
<1>5. Ready(L, elements, <<>>, 0)
  BY <1>1, <1>4 DEF Ready, InOrder, Opening, Past
<1>6. \A over : Stand(L, <<>>, {}, over)
  BY <1>1 DEF Stand, Nested, Entries
<1> QED BY <1>1, <1>3, <1>4, <1>5, <1>6

LEMMA HeadingFollows ==
  ASSUME Reading, OutlineFollows, policy = "open", NEW kind \in {"lead", "heading"}, Item(kind),
         todo' = Tail(todo), elements' = elements, mode' = mode, pos' = pos, blocks' = blocks,
         \/ /\ ~Pushes(elements, Head(todo), pos)
            /\ stack' = stack /\ label' = label
         \/ /\ Pushes(elements, Head(todo), pos)
            /\ OpenHeading(Head(todo))
  PROVE  OutlineFollows'
<1> DEFINE item == Head(todo)
           h == item.head
           entry == [level |-> h.level, name |-> h.name, at |-> item.at]
<1>1. /\ todo # <<>> /\ item = todo[1] /\ pos \in Nat /\ item.do = kind
      /\ elements \in Sections
  BY ItemRead DEF Reading
<1>2. label = None /\ Following(elements, mode, stack, blocks, todo, pos)
  BY DEF OutlineFollows
<1>3. item.at \in Nat \X Nat /\ h.level \in 0..5
  BY HeadingRead
<1>4. IsEntry(entry) /\ entry.at = item.at /\ entry.level = h.level
  BY <1>3 DEF IsEntry
<1>5. HeadItem(item)
  BY <1>1 DEF HeadItem
<1>6. CASE /\ ~Pushes(elements, Head(todo), pos)
           /\ stack' = stack /\ label' = label
  <2>1. Following(elements, mode, stack, blocks, Tail(todo), pos)
    BY <1>1, <1>2, <1>6, FollowSkip
  <2>2. Following(elements, mode, stack, blocks, todo, pos)'
    BY <1>6, <2>1
  <2> QED BY <1>2, <1>6, <2>2 DEF OutlineFollows
<1>7. CASE /\ Pushes(elements, Head(todo), pos)
           /\ OpenHeading(Head(todo))
  <2>1. stack' = PushHeading(stack, entry) /\ label' = None
    BY <1>2, <1>7 DEF OpenHeading, Push
  <2> HIDE DEF entry
  <2>2. Following(elements, mode, PushHeading(stack, entry), blocks, Tail(todo), pos)
    <3> PICK e : e = entry
      OBVIOUS
    <3>1. IsEntry(e) /\ e.at = todo[1].at /\ e.level = todo[1].head.level
      BY <1>1, <1>4
    <3>2. HeadItem(todo[1]) /\ Pushes(elements, todo[1], pos)
      BY <1>1, <1>5, <1>7
    <3>3. Following(elements, mode, PushHeading(stack, e), blocks, Tail(todo), pos)
      BY <1>1, <1>2, <3>1, <3>2, FollowPush
    <3> QED BY <3>3
  <2>3. Following(elements, mode, stack, blocks, todo, pos)'
    BY <2>1, <2>2
  <2> QED BY <2>1, <2>3 DEF OutlineFollows
<1> QED BY <1>6, <1>7

LEMMA OutlineGoesOn ==
  ASSUME Reading, OutlineFollows, [Next]_vars
  PROVE  OutlineFollows'
<1>1. policy' = policy
  BY DEF Next, NextElement, LeadHeading, BodyHeading, BodyText, ReadTable, EndOfSection, Timeout,
         Link, ChunkBlock, Finish, vars, section
<1> SUFFICES ASSUME policy = "open"
             PROVE  OutlineFollows'
  BY <1>1 DEF OutlineFollows
<1>2. label = None /\ Following(elements, mode, stack, blocks, todo, pos) /\ elements \in Sections
  BY DEF OutlineFollows, Reading
<1>3. CASE NextElement
  <2>1. /\ elements' = elements /\ mode' = mode /\ stack' = stack /\ blocks' = blocks /\ label' = label
        /\ todo = <<>> /\ todo' = Items(elements[pos + 1], pos + 1, mode) /\ pos' = pos + 1
        /\ pos < Len(elements)
    BY <1>3 DEF NextElement, section, heads
  <2>2. pos \in Nat /\ pos + 1 \in DOMAIN elements
    BY <2>1, SectionFacts DEF Reading
  <2>3. Following(elements, mode, stack, blocks, Items(elements[pos + 1], pos + 1, mode), pos + 1)
    BY <1>2, <2>1, <2>2, FollowElement
  <2>4. Following(elements, mode, stack, blocks, todo, pos)'
    BY <2>1, <2>3
  <2> QED BY <1>2, <2>1, <2>4 DEF OutlineFollows
<1>4. CASE LeadHeading
  <2> DEFINE item == Head(todo)
             alone == item.alone /\ Bracket(item.head) /\ BeforeTable
             role == Role(item.head, item.body, BeforeTable)
  <2>1. /\ Item("lead") /\ item.do = "lead" /\ todo' = Tail(todo) /\ elements' = elements
        /\ mode' = mode /\ pos' = pos /\ blocks' = blocks
    BY <1>4 DEF LeadHeading, section, Item
  <2>2. role # "defer_section_label" /\ (role = "discard" <=> Bracket(item.head) /\ item.head.form = "dated")
    BY DEF Role
  <2>3. \/ alone /\ stack' = stack /\ label' = label
        \/ ~alone /\ role = "discard" /\ stack' = stack /\ label' = label
        \/ ~alone /\ role # "discard" /\ OpenHeading(item)
    BY <1>4, <2>2 DEF LeadHeading, heads
  <2>4. Pushes(elements, item, pos) <=> ~alone /\ role # "discard"
    BY <2>1, <2>2 DEF Pushes, LoneName, BeforeTable
  <2> HIDE DEF item, alone, role
  <2>5. \/ ~Pushes(elements, item, pos) /\ stack' = stack /\ label' = label
        \/ Pushes(elements, item, pos) /\ OpenHeading(item)
    BY <2>3, <2>4
  <2> QED BY <2>1, <2>5, HeadingFollows DEF item
<1>5. CASE BodyHeading
  <2> DEFINE item == Head(todo)
             role == Role(item.head, TRUE, FALSE)
  <2>1. /\ Item("heading") /\ item.do = "heading" /\ todo' = Tail(todo) /\ elements' = elements
        /\ mode' = mode /\ pos' = pos /\ blocks' = blocks
    BY <1>5 DEF BodyHeading, section, Item
  <2>2. role # "defer_section_label" /\ (role = "discard" <=> Bracket(item.head) /\ item.head.form = "dated")
    BY DEF Role
  <2>3. \/ role = "discard" /\ stack' = stack /\ label' = label
        \/ role # "discard" /\ OpenHeading(item)
    BY <1>5, <2>2 DEF BodyHeading, heads
  <2>4. Pushes(elements, item, pos) <=> role # "discard"
    BY <2>1, <2>2 DEF Pushes, LoneName
  <2> HIDE DEF item, role
  <2>5. \/ ~Pushes(elements, item, pos) /\ stack' = stack /\ label' = label
        \/ Pushes(elements, item, pos) /\ OpenHeading(item)
    BY <2>3, <2>4
  <2> QED BY <2>1, <2>5, HeadingFollows DEF item
<1>6. ASSUME NEW kind \in {"text", "table"}, Item(kind),
             NEW b, b.open = [k \in DOMAIN stack |-> stack[k].at], b.at[1] = Spot(Head(todo)),
             blocks' = Append(blocks, b), todo' = Tail(todo), elements' = elements, mode' = mode,
             stack' = stack, pos' = pos, label' = None
      PROVE  OutlineFollows'
  <2>1. todo # <<>> /\ Head(todo) = todo[1] /\ pos \in Nat /\ todo[1].do = kind /\ IsList(blocks)
    BY <1>6, ItemRead DEF Reading
  <2>2. ~HeadItem(todo[1])
    BY <2>1 DEF HeadItem
  <2>3. Following(elements, mode, stack, Append(blocks, b), Tail(todo), pos)
    BY <1>2, <1>6, <2>1, <2>2, FollowBlock
  <2>4. Following(elements, mode, stack, blocks, todo, pos)'
    BY <1>6, <2>3
  <2> QED BY <1>6, <2>4 DEF OutlineFollows
<1>7. CASE BodyText
  <2> DEFINE item == Head(todo)
             b == Block("paragraph", item.at, item.size, item.whole, item.forward, None, None)
  <2>1. /\ Item("text") /\ item.do = "text" /\ blocks' = Append(blocks, b) /\ todo' = Tail(todo)
        /\ elements' = elements /\ mode' = mode /\ stack' = stack /\ pos' = pos /\ label' = None
    BY <1>2, <1>7 DEF BodyText, section, heads, Item
  <2>2. b.open = [k \in DOMAIN stack |-> stack[k].at] /\ b.at = item.at
    BY DEF Block
  <2>3. b.at[1] = Spot(item)
    BY <2>1, <2>2 DEF Spot
  <2> HIDE DEF b
  <2> QED BY <1>6, <2>1, <2>2, <2>3
<1>8. CASE ReadTable
  <2> DEFINE item == Head(todo)
             t == item.table
             b == Block("table", <<item.at>>, t.size, TRUE, Forward(t), caption, hint)
  <2>1. /\ Item("table") /\ item.do = "table" /\ (blocks' = blocks \/ blocks' = Append(blocks, b))
        /\ todo' = Tail(todo)
        /\ elements' = elements /\ mode' = mode /\ stack' = stack /\ pos' = pos /\ label' = None
    BY <1>2, <1>8 DEF ReadTable, section, heads, Item
  <2>2. b.open = [k \in DOMAIN stack |-> stack[k].at] /\ b.at[1] = item.at
    BY DEF Block
  <2> HIDE DEF b
  <2>3. b.at[1] = Spot(item)
    <3> HIDE DEF item
    <3> QED BY <2>1, <2>2 DEF Spot
  <2>4. CASE blocks' = Append(blocks, b)
    BY <1>6, <2>1, <2>2, <2>3, <2>4
  <2>5. CASE blocks' = blocks
    <3>1. todo # <<>> /\ Head(todo) = todo[1] /\ pos \in Nat /\ todo[1].do = "table"
      BY <2>1, ItemRead
    <3>2. ~HeadItem(todo[1])
      BY <3>1 DEF HeadItem
    <3>3. Following(elements, mode, stack, blocks, Tail(todo), pos)
      BY <1>2, <3>1, <3>2, FollowSkip
    <3>4. Following(elements, mode, stack, blocks, todo, pos)'
      BY <2>1, <2>5, <3>3
    <3> QED BY <2>1, <3>4 DEF OutlineFollows
  <2> QED BY <2>1, <2>4, <2>5
<1>9. CASE Timeout
  <2>1. /\ elements' = elements /\ stack' = <<>> /\ blocks' = <<>> /\ todo' = <<>> /\ pos' = 0 /\ label' = None
        /\ mode' = "plain"
    BY <1>9 DEF Timeout, section, Restarted
  <2>2. Following(elements, "plain", <<>>, <<>>, <<>>, 0)
    BY <1>2, FollowNothing
  <2>3. Following(elements, mode, stack, blocks, todo, pos)'
    BY <2>1, <2>2
  <2> QED BY <2>1, <2>3 DEF OutlineFollows
<1>10. CASE EndOfSection \/ Link \/ ChunkBlock \/ Finish \/ UNCHANGED vars
  <2>1. /\ elements' = elements /\ mode' = mode /\ stack' = stack /\ blocks' = blocks /\ todo' = todo
        /\ pos' = pos /\ label' = label
    BY <1>10 DEF EndOfSection, Link, ChunkBlock, Finish, vars, section, labels, heads
  <2>2. Following(elements, mode, stack, blocks, todo, pos)'
    BY <1>2, <2>1
  <2> QED BY <1>2, <2>1, <2>2 DEF OutlineFollows
<1> QED BY <1>3, <1>4, <1>5, <1>7, <1>8, <1>9, <1>10 DEF Next

LEMMA OutlineAlwaysFollows == Spec => [](Reading /\ OutlineFollows)
<1>1. Init => Reading /\ OutlineFollows
  <2> SUFFICES ASSUME Init PROVE OutlineFollows
    BY ReadingStarts
  <2>1. /\ elements \in Sections /\ stack = <<>> /\ blocks = <<>> /\ todo = <<>> /\ pos = 0
        /\ label = None
    BY DEF Init
  <2>2. Following(elements, mode, <<>>, <<>>, <<>>, 0)
    BY <2>1, FollowNothing
  <2> QED BY <2>1, <2>2 DEF OutlineFollows
<1>2. Reading /\ OutlineFollows /\ [Next]_vars => (Reading /\ OutlineFollows)'
  BY ReadingGoesOn, OutlineGoesOn
<1> QED BY <1>1, <1>2, PTL DEF Spec

(* Every block stands under exactly the headings the filing gives it,      *)
(* outermost first, however long the section is and wherever its headings  *)
(* stand (_push_heading, push_located_heading, emit_block).                *)
THEOREM HeadingsAlwaysFollow == Spec => []HeadingsFollowTheOutline
<1>1. Reading /\ OutlineFollows /\ PlacesFollow => HeadingsFollowTheOutline
  <2> SUFFICES ASSUME Reading, OutlineFollows, PlacesFollow PROVE HeadingsFollowTheOutline
    OBVIOUS
  <2>1. Len(sources) = Len(stack) /\ \A k \in DOMAIN stack : sources[k] \in {None, stack[k].at}
    BY DEF PlacesFollow, Placed, PlaceOf
  <2>2. ASSUME policy = "open", NEW i \in DOMAIN blocks
        PROVE  LET b == blocks[i]
               IN  /\ Range(b.open) = Outline[i]
                   /\ \A k \in 2..Len(b.open) : Before(b.open[k - 1], b.open[k])
    <3> DEFINE L == LevelsOf(elements, mode)
    <3>1. PICK over : IsOver(L, over) /\ \A b \in DOMAIN blocks : Outline[b] = After(L, blocks[b].at[1], over)
      BY OutlineHere DEF Reading
    <3>2. Outlined(L, over, blocks[i])
      BY <2>2, <3>1 DEF OutlineFollows, Following
    <3> HIDE DEF L
    <3> QED BY <3>1, <3>2 DEF Outlined
  <2> QED BY <2>1, <2>2 DEF HeadingsFollowTheOutline
<1> QED BY <1>1, OutlineAlwaysFollows, PlacesAlwaysFollow, PTL
===============================================================================
