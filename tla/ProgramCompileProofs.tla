------------------------- MODULE ProgramCompileProofs -------------------------
(***************************************************************************)
(* Theorems about the compilation of a program, for any plan, any          *)
(* candidates and whatever the provider answers.  Most rest on islands: an *)
(* island holds all that its outputs are tied to, so the islands left      *)
(* behind never grow back and what is sealed is not disturbed.             *)
(*                                                                         *)
(* That a failure shows (FailuresAlwaysShow) rests on what has become of   *)
(* every error an answer held (LapsesStand); that a repair leaves alone    *)
(* what was accepted beside it (AcceptedReadingsAlwaysSurvive) on where    *)
(* that reading is held until its island is sealed (AcceptancesStand).     *)
(***************************************************************************)
EXTENDS ProgramCompile, FiniteSetTheorems, WellFoundedInduction, TLAPS

(* What is tied to an output of S is in S. *)
Closed(S) == \A q \in S, r \in Output : Linked(q, r) => r \in S

LEMMA LinksAreMutual ==
  ASSUME NEW o \in Output, NEW p \in Output, Linked(o, p)
  PROVE  Linked(p, o)
BY DEF Linked

LEMMA IslandsAreClosed ==
  ASSUME NEW o \in Output
  PROVE  /\ Island(o) \subseteq Output /\ o \in Island(o)
         /\ Closed(Island(o))
<1>1. Island(o) \subseteq Output /\ o \in Island(o) BY DEF Island
<1>2. ASSUME NEW q \in Island(o), NEW r \in Output, Linked(q, r) PROVE r \in Island(o)
  BY <1>2 DEF Island
<1> QED BY <1>1, <1>2 DEF Closed

(* A closed set and the island of an output outside it are apart. *)
LEMMA IslandsAreApart ==
  ASSUME NEW S \in SUBSET Output, Closed(S), NEW o \in Output \ S
  PROVE  Island(o) \cap S = {}
<1> DEFINE R == Output \ S
<1>1. \A q \in R, r \in Output : Linked(q, r) => r \in R
  BY LinksAreMutual DEF Closed
<1>2. \A p \in Island(o) : p \in R
  BY <1>1 DEF Island
<1> QED BY <1>2

(* Of things numbered, one has the least number.  The numbers below those  *)
(* are finite sets, and inclusion of finite sets is well founded.          *)
LEMMA LeastExists ==
  ASSUME NEW S, S # {}, NEW f \in [S -> Nat]
  PROVE  \E r \in S : \A s \in S : f[r] <= f[s]
<1> DEFINE Below(r) == 0..(f[r] - 1)
           T == {Below(r) : r \in S}
<1>1. T \subseteq FiniteSubsetsOf(Nat) /\ T # {}
  <2>1. \A r \in S : IsFiniteSet(Below(r)) /\ Below(r) \subseteq Nat
    <3>1. \A r \in S : 0 \in Int /\ f[r] - 1 \in Int OBVIOUS
    <3> QED BY <3>1, FS_Interval
  <2> HIDE DEF Below
  <2> QED BY <2>1 DEF FiniteSubsetsOf
<1>2. IsWellFoundedOn(StrictSubsetOrdering(Nat), FiniteSubsetsOf(Nat))
  BY FS_StrictSubsetOrderingWellFounded
<1>3. PICK x \in T : \A y \in T : ~(<<y, x>> \in StrictSubsetOrdering(Nat))
  <2> HIDE DEF T
  <2> QED BY <1>1, <1>2, WFMin
<1>4. PICK r \in S : x = Below(r) OBVIOUS
<1>5. ASSUME NEW s \in S, f[s] < f[r] PROVE FALSE
  <2>1. Below(s) \subseteq Below(r) /\ f[s] \in Below(r) /\ f[s] \notin Below(s)
    BY <1>5
  <2>2. Below(s) \in SUBSET Nat /\ Below(r) \in SUBSET Nat OBVIOUS
  <2> HIDE DEF Below
  <2>3. <<Below(s), x>> \in StrictSubsetOrdering(Nat)
    BY <1>4, <2>1, <2>2 DEF StrictSubsetOrdering
  <2> QED BY <1>3, <2>3
<1> QED BY <1>5

(* While outputs are left, the plan names a first one. *)
LEMMA FirstExists ==
  ASSUME NEW S \in SUBSET Output, S # Output
  PROVE  \E i \in DOMAIN Plan : Plan[i] \notin S /\ \A j \in 1..(i - 1) : Plan[j] \in S
<1> DEFINE D == {i \in DOMAIN Plan : Plan[i] \notin S}
<1>1. DOMAIN Plan = 1..Len(Plan) /\ Len(Plan) \in Nat BY CompileConstants
<1>2. D # {} BY DEF Output, Range
<1>3. PICK i \in D : \A j \in D : i <= j
  <2> DEFINE f == [d \in D |-> d]
  <2>1. f \in [D -> Nat] BY <1>1
  <2>2. \E i \in D : \A j \in D : f[i] <= f[j]
    <3> HIDE DEF D, f
    <3> QED BY <1>2, <2>1, LeastExists
  <2> HIDE DEF D
  <2> QED BY <2>2
<1>4. ASSUME NEW j \in 1..(i - 1) PROVE Plan[j] \in S
  <2>1. i \in 1..Len(Plan) BY <1>1
  <2>2. j \in DOMAIN Plan /\ ~(i <= j) BY <1>1, <2>1
  <2> QED BY <1>3, <2>2
<1> QED BY <1>3, <1>4

LEMMA NextIslandIsNew ==
  ASSUME settled \subseteq Output, settled # Output, Closed(settled)
  PROVE  /\ NextIsland \subseteq Output /\ Closed(NextIsland)
         /\ NextIsland \cap settled = {}
<1> DEFINE ok(i) == Plan[i] \notin settled /\ \A j \in 1..(i - 1) : Plan[j] \in settled
           first == CHOOSE i \in DOMAIN Plan : ok(i)
<1>1. first \in DOMAIN Plan /\ Plan[first] \notin settled
  <2>1. \E i \in DOMAIN Plan : ok(i) BY FirstExists
  <2> QED BY <2>1
<1>2. Plan[first] \in Output \ settled BY <1>1 DEF Output, Range
<1>3. NextIsland = Island(Plan[first])
  <2>1. NextIsland = IslandOf[Plan[first]] BY DEF NextIsland
  <2> HIDE DEF first
  <2> QED BY <1>2, <2>1 DEF IslandOf
<1> HIDE DEF first
<1> QED BY <1>2, <1>3, IslandsAreClosed, IslandsAreApart

-----------------------------------------------------------------------------
(* What is shown.                                                          *)

LEMMA CohortsAreTyped ==
  ASSUME NEW T \in SUBSET Output, NEW out
  PROVE  Cohort(T, out) \in [T -> SUBSET Candidate]
<1>1. \A o \in T : Range(Ranked[o]) \subseteq Candidate
  <2> SUFFICES ASSUME NEW o \in T, NEW c \in Range(Ranked[o]) PROVE c \in Candidate
    OBVIOUS
  <2>1. Ranked[o] \in Seq(Candidate) BY CompileConstants
  <2> QED BY <2>1 DEF Range
<1> HIDE DEF Range
<1> QED BY <1>1 DEF Cohort

(* An island is shown nothing the preflight did not count: its bundles are *)
(* bundles of the whole plan.                                              *)
LEMMA IslandsShowNothingNew ==
  ASSUME NEW T \in SUBSET Output, Closed(T), NEW o \in T
  PROVE  Cohort(T, Nothing)[o] \subseteq Cohort(Output, Nothing)[o]
<1> DEFINE t == Ties(T, Nothing)
           u == Ties(Output, Nothing)
<1>1. \A B \in Bundles, p \in T : p \in B => B \subseteq T
  <2> SUFFICES ASSUME NEW B \in Bundles, NEW p \in T, p \in B, NEW r \in B PROVE r \in T
    OBVIOUS
  <2>1. r \in Output /\ {p, r} \subseteq B BY CompileConstants
  <2> QED BY <2>1 DEF Closed, Linked
<1>2. \A B \in Bundles, p \in T : p \in B => t[B] = u[B]
  <2>1. \A B \in Bundles : B \subseteq Output BY CompileConstants
  <2> QED BY <1>1, <2>1 DEF Ties, TieOf
<1> HIDE DEF t, u
<1>3. \A p \in T : \A c : AllowedBy(t, p, c) <=> AllowedBy(u, p, c)
  BY <1>2 DEF AllowedBy
<1> DEFINE X == UNION {{c \in Best(p, Nothing) : AllowedBy(t, p, c)} : p \in T}
           Y == UNION {{c \in Best(p, Nothing) : AllowedBy(u, p, c)} : p \in Output}
<1>4. X \subseteq Y BY <1>3
<1>5. Cohort(T, Nothing)[o] = {c \in X : /\ c \in Range(Ranked[o]) /\ c \notin Nothing[o]
                                         /\ AllowedBy(t, o, c)}
  BY DEF Cohort, t
<1>6. Cohort(Output, Nothing)[o] = {c \in Y : /\ c \in Range(Ranked[o]) /\ c \notin Nothing[o]
                                              /\ AllowedBy(u, o, c)}
  BY DEF Cohort, u
<1> HIDE DEF X, Y
<1> QED BY <1>3, <1>4, <1>5, <1>6

(* What fits the limit still fits when there is less of it. *)
LEMMA FewerFit ==
  ASSUME NEW C \in SUBSET Candidate, NEW D \in SUBSET C, ~TooMany(C)
  PROVE  ~TooMany(D)
<1>1. IsFiniteSet(C) BY CompileConstants, FS_Subset
<1>2. Cardinality(D) <= Cardinality(C) /\ IsFiniteSet(D) BY <1>1, FS_Subset
<1>3. Cardinality(C) \in Nat /\ Cardinality(D) \in Nat
  BY <1>1, <1>2, FS_CardinalityType
<1> QED BY <1>2, <1>3, CompileConstants DEF TooMany

-----------------------------------------------------------------------------
(* What the validator may say.                                             *)

LEMMA VerdictsAreAboutS ==
  ASSUME NEW prog, NEW S \in SUBSET Output
  PROVE  LET v == Verdict(prog, S)
         IN  /\ v.valid \subseteq Sound(prog, S) /\ v.offRow \subseteq Sound(prog, S)
             /\ v.valid \subseteq S /\ v.refused \subseteq S
             /\ v.missing \subseteq S /\ v.offRow \subseteq UNION Bundles
<1> DEFINE computed == Computed(Sound(prog, S))
           offRow == OffRow(prog, computed)
           produced == Unscattered(computed, offRow)
           conflicting == Conflicting(prog, produced)
<1>1. Sound(prog, S) \subseteq S BY DEF Sound
<1>2. computed \subseteq Sound(prog, S) BY DEF Computed
<1> HIDE DEF computed
<1>3. offRow \subseteq computed /\ offRow \subseteq UNION Bundles BY DEF OffRow
<1> HIDE DEF offRow
<1>4. produced \subseteq computed BY DEF Unscattered
<1> HIDE DEF produced
<1>5. conflicting \subseteq produced BY DEF Conflicting
<1> HIDE DEF conflicting
<1>6. /\ Verdict(prog, S).valid = produced \ conflicting
      /\ Verdict(prog, S).offRow = offRow
      /\ Verdict(prog, S).refused =
           {o \in S \ computed : Read(prog.cells[o])}
             \cup offRow \cup conflicting \cup (S \cap (prog.failed \cup misplanned))
  BY DEF Verdict, computed, offRow, produced, conflicting
<1>7. Verdict(prog, S).missing \subseteq S \cup (required \cap S) \cup Verdict(prog, S).refused
  BY DEF Verdict
<1> QED BY <1>1, <1>2, <1>3, <1>4, <1>5, <1>6, <1>7

LEMMA MissingIsNotValid ==
  ASSUME NEW prog, NEW S
  PROVE  Verdict(prog, S).missing \cap Verdict(prog, S).valid = {}
<1>1. PICK M, V : Verdict(prog, S).missing = M \ V /\ Verdict(prog, S).valid = V
  BY DEF Verdict
<1> QED BY <1>1

(* A repair stays within its island. *)
LEMMA RepairsStayInside ==
  ASSUME TypeOK, Closed(island)
  PROVE  Targets(Verdict(Program, island)) \subseteq island
<1> DEFINE v == Verdict(Program, island)
           open == (v.missing \cup Errors(v)) \ Peers(Abstained(v) \cup (misplanned \cap island))
<1>1. v.missing \subseteq island /\ v.refused \subseteq island
  BY VerdictsAreAboutS DEF TypeOK
<1>2. Targets(v) = Peers(open) BY DEF Targets
<1> HIDE DEF v
<1>3. open \subseteq island BY <1>1 DEF Errors, TypeOK
<1> HIDE DEF open
<1>4. \A B \in Bundles : B \cap open # {} => B \subseteq island
  <2> SUFFICES ASSUME NEW B \in Bundles, NEW p \in B \cap open, NEW r \in B
               PROVE  r \in island
    OBVIOUS
  <2>1. r \in Output /\ {p, r} \subseteq B BY CompileConstants
  <2>2. p \in island BY <1>3
  <2> QED BY <2>1, <2>2 DEF Closed, Linked
<1> QED BY <1>2, <1>3, <1>4 DEF Peers, v

-----------------------------------------------------------------------------
(* Types, and where the compilation stands: islands are closed, and at     *)
(* most two answers are heard for one.                                     *)
Standing ==
  /\ Closed(settled) /\ Closed(island) /\ island \cap settled = {}
  /\ phase \in {"plan", "next", "done"} => island = {}
  /\ phase = "ask" => attempt < 2
  /\ phase = "judge" => attempt > 0

Typed == TypeOK /\ Standing

LEMMA ClosedUnions ==
  /\ Closed({})
  /\ \A S, T : Closed(S) /\ Closed(T) => Closed(S \cup T)
BY DEF Closed

LEMMA ConstantsAreTyped ==
  /\ Unsaid \in Cell /\ Withheld \in Cell
  /\ \A S \in Requireds \cup Misplans : S \subseteq Output
  /\ Nothing \in [Output -> SUBSET Candidate]
BY CompileConstants DEF Unsaid, Withheld, Cell, Nothing

LEMMA StartsTyped == Init => Typed
<1> SUFFICES ASSUME Init PROVE Typed
  OBVIOUS
<1>1. TypeOK
  BY ConstantsAreTyped DEF Init, TypeOK, Unanswered
<1>2. Standing BY ClosedUnions DEF Init, Standing
<1> QED BY <1>1, <1>2 DEF Typed

LEMMA HearingIsTyped ==
  ASSUME Typed, NEW said, Hear(said),
         \A o \in asked : said[o] \in Cell \cup {Garbled}
  PROVE  Typed'
<1>2. lapsed' \subseteq Output
  <2>1. lapsed' \subseteq lapsed \cup asked BY DEF Hear
  <2> QED BY <2>1 DEF Typed, TypeOK
<1>3. cells' \in [Output -> Cell]
  <2>1. \A o \in asked : said[o] # Garbled => said[o] \in Cell OBVIOUS
  <2> QED BY <2>1, ConstantsAreTyped DEF Hear, Typed, TypeOK
<1>4. garbled' \subseteq island BY DEF Hear, Typed, TypeOK
<1>5. attempt' \in 0..2 /\ attempt' > 0 /\ calls' \in Nat
  BY DEF Hear, Typed, TypeOK, Standing
<1>6. UNCHANGED <<plan, settled, island, asked, scene, sealed, failed, result, kept>>
      /\ phase' = "judge"
  BY DEF Hear
<1>7. TypeOK' BY <1>2, <1>3, <1>4, <1>5, <1>6 DEF Typed, TypeOK, plan, scene
<1>8. Standing' BY <1>5, <1>6 DEF Typed, Standing, Closed
<1> QED BY <1>7, <1>8 DEF Typed

LEMMA AnswersAreTyped ==
  ASSUME Typed, Answered
  PROVE  \E said : Hear(said) /\ \A o \in asked : said[o] \in Cell \cup {Garbled}
<1>1. PICK words \in [asked \ Derived -> Direct], formulas \in [asked \cap Derived -> Expression] :
        Hear([o \in asked |-> IF o \in Derived THEN formulas[o] ELSE words[o]])
  BY DEF Answered
<1>2. Direct \subseteq Cell \cup {Garbled}
  <2>1. Exposed([o \in asked |-> shown[o]]) \subseteq Candidate
    BY DEF Exposed, Typed, TypeOK
  <2> HIDE DEF Exposed
  <2>2. \A c \in [candidate : Exposed([o \in asked |-> shown[o]]),
                  state : {"sound", "wrong", "misfit"}] : c \in Reading
    BY <2>1 DEF Reading, Cited
  <2> QED BY <2>2, ConstantsAreTyped DEF Direct, Cell
<1>3. Expression \subseteq Cell \cup {Garbled}
  BY DEF Expression, Cell, Reading, Cited, Garbled
<1> DEFINE said == [o \in asked |-> IF o \in Derived THEN formulas[o] ELSE words[o]]
<1>4. \A o \in asked : said[o] \in Direct \cup Expression OBVIOUS
<1> HIDE DEF said
<1>5. \A o \in asked : said[o] \in Cell \cup {Garbled} BY <1>2, <1>3, <1>4
<1>6. Hear(said) BY <1>1 DEF said
<1> QED BY <1>5, <1>6

LEMMA RepairIsTyped ==
  ASSUME Typed, Repair
  PROVE  Typed'
<1> DEFINE v == Verdict(Program, island)
           T == Targets(v)
           s == Struck(v, T)
           cohort == Cohort(T, s)
<1>1. /\ phase = "judge" /\ attempt = 1
      /\ shown' = [o \in Output |-> IF o \in T THEN cohort[o] ELSE shown[o]]
      /\ tie' = [B \in Bundles |-> IF B \cap T = {} THEN tie[B] ELSE TieOf(B, T, s)]
      /\ struck' = [o \in Output |-> struck[o] \cup s[o]]
      /\ asked' = T
      /\ cells' = Preserved(v, T) /\ garbled' = {}
      /\ kept' = [o \in Output |-> IF o \in v.valid \ T THEN cells[o] ELSE kept[o]]
      /\ lapsed' = lapsed \ T
      /\ phase' = "ask"
      /\ UNCHANGED <<plan, settled, island, attempt, sealed, failed, calls, result>>
  BY DEF Repair, MayRepair
<1>2. T \subseteq island BY RepairsStayInside DEF Typed, Standing
<1>3. T \subseteq Output BY <1>2 DEF Typed, TypeOK
<1>4. \A o \in v.offRow : cells[o].candidate \in Candidate
  <2>1. v.offRow \subseteq Sound(Program, island) /\ v.offRow \subseteq UNION Bundles
    BY VerdictsAreAboutS DEF Typed, TypeOK
  <2> HIDE DEF v
  <2>2. ASSUME NEW o \in v.offRow PROVE cells[o].candidate \in Candidate
    <3>1. o \in Output /\ o \notin Derived BY <2>1, <2>2, CompileConstants
    <3>2. cells[o].candidate \in shown[o] BY <2>1, <2>2, <3>1 DEF Sound, Program
    <3> QED BY <3>1, <3>2 DEF Typed, TypeOK
  <2> QED BY <2>2
<1>5. \A o \in Output : cells[o].state = "misfit" => cells[o].candidate \in Candidate
  BY DEF Typed, TypeOK, Cell, Reading
<1>6. s \in [Output -> SUBSET Candidate]
  <2> HIDE DEF v, T
  <2> QED BY <1>4, <1>5 DEF Struck
<1> HIDE DEF s
<1>7. cohort \in [T -> SUBSET Candidate] BY <1>3, CohortsAreTyped
<1> HIDE DEF cohort
<1>8. cells' \in [Output -> Cell]
  <2> HIDE DEF v, T
  <2> QED BY <1>1, ConstantsAreTyped DEF Preserved, Typed, TypeOK
<1>9. shown' \in [Output -> SUBSET Candidate] /\ struck' \in [Output -> SUBSET Candidate]
  <2> HIDE DEF v, T
  <2> QED BY <1>1, <1>3, <1>6, <1>7 DEF Typed, TypeOK
<1>10. kept' \in [Output -> Cell] /\ lapsed' \subseteq Output /\ DOMAIN tie' = Bundles
  <2> HIDE DEF v, T
  <2> QED BY <1>1 DEF Typed, TypeOK
<1> HIDE DEF v, T
<1>11. TypeOK'
  BY <1>1, <1>2, <1>8, <1>9, <1>10 DEF Typed, TypeOK, plan
<1>12. Standing' BY <1>1 DEF Typed, Standing, Closed
<1> QED BY <1>11, <1>12 DEF Typed

LEMMA SealIsTyped ==
  ASSUME Typed, Seal
  PROVE  Typed'
<1> DEFINE v == Verdict(Program, island)
           w == Verdict([cells |-> cells, failed |-> Unresolved(v)], island)
<1>1. /\ sealed' = [o \in Output |->
             IF o \notin island THEN sealed[o]
             ELSE IF o \in w.valid THEN cells[o]
             ELSE IF o \in w.missing THEN Withheld ELSE Unsaid]
      /\ failed' = failed \cup Unresolved(v)
      /\ settled' = settled \cup island /\ phase' = "next"
      /\ island' = {} /\ asked' = {} /\ attempt' = 0
      /\ cells' = [o \in Output |-> Unsaid] /\ garbled' = {}
      /\ UNCHANGED <<plan, scene, calls, result, past>>
  BY DEF Seal
<1>2. v.refused \subseteq island BY VerdictsAreAboutS DEF Typed, TypeOK
<1> HIDE DEF v, w
<1>3. failed' \subseteq Output BY <1>1, <1>2 DEF Unresolved, Errors, Typed, TypeOK
<1>4. sealed' \in [Output -> Cell] BY <1>1, ConstantsAreTyped DEF Typed, TypeOK
<1>5. TypeOK'
  BY <1>1, <1>3, <1>4, ConstantsAreTyped DEF Typed, TypeOK, plan, scene, past
<1>6. Standing' BY <1>1, ClosedUnions DEF Typed, Standing
<1> QED BY <1>5, <1>6 DEF Typed

LEMMA StepsAreTyped == Typed /\ [Next]_vars => Typed'
<1> SUFFICES ASSUME Typed, [Next]_vars PROVE Typed'
  OBVIOUS
<1>1. CASE UNCHANGED vars
  BY <1>1 DEF vars, plan, work, scene, past, Typed, TypeOK, Standing, Closed
<1>2. CASE Preflight
  <2>1. Cohort(Output, Nothing) \in [Output -> SUBSET Candidate] BY CohortsAreTyped
  <2>2. DOMAIN Ties(Output, Nothing) = Bundles BY DEF Ties
  <2>3. TypeOK' BY <1>2, <2>1, <2>2 DEF Preflight, Typed, TypeOK, plan, work, past
  <2>4. Standing' BY <1>2 DEF Preflight, Typed, Standing, Closed, work
  <2> QED BY <2>3, <2>4 DEF Typed
<1>3. CASE PassOver
  <2>1. NextIsland \subseteq Output /\ Closed(NextIsland)
    BY <1>3, NextIslandIsNew DEF PassOver, Typed, TypeOK, Standing
  <2>2. sealed' \in [Output -> Cell]
    BY <1>3, ConstantsAreTyped DEF PassOver, Typed, TypeOK
  <2>3. TypeOK' BY <1>3, <2>1, <2>2 DEF PassOver, Typed, TypeOK, plan, work, scene, past
  <2>4. Standing' BY <1>3, <2>1, ClosedUnions DEF PassOver, Typed, Standing, work
  <2> QED BY <2>3, <2>4 DEF Typed
<1>4. CASE OpenIsland
  <2>1. NextIsland \subseteq Output /\ Closed(NextIsland) /\ NextIsland \cap settled = {}
    BY <1>4, NextIslandIsNew DEF OpenIsland, Typed, TypeOK, Standing
  <2>2. Cohort(NextIsland, Nothing) \in [NextIsland -> SUBSET Candidate]
    BY <2>1, CohortsAreTyped
  <2>3. shown' \in [Output -> SUBSET Candidate]
    BY <1>4, <2>2 DEF OpenIsland, Typed, TypeOK
  <2>4. island' = NextIsland /\ island = {} BY <1>4 DEF OpenIsland, Typed, Standing
  <2>5. TypeOK'
    BY <1>4, <2>1, <2>3, <2>4 DEF OpenIsland, Typed, TypeOK, plan, past
  <2>6. Standing' BY <1>4, <2>1, <2>4 DEF OpenIsland, Typed, Standing, Closed
  <2> QED BY <2>5, <2>6 DEF Typed
<1>5. CASE Answered BY <1>5, AnswersAreTyped, HearingIsTyped
<1>6. CASE Failed
  <2>1. \A o \in asked : [p \in asked |-> Garbled][o] \in Cell \cup {Garbled} OBVIOUS
  <2> QED BY <1>6, <2>1, HearingIsTyped DEF Failed
<1>7. CASE Refuse
  <2>1. TypeOK' BY <1>7 DEF Refuse, Typed, TypeOK, plan, work, scene, past
  <2>2. Standing' BY <1>7 DEF Refuse, Typed, Standing, Closed, work
  <2> QED BY <2>1, <2>2 DEF Typed
<1>8. CASE Repair BY <1>8, RepairIsTyped
<1>9. CASE Seal BY <1>9, SealIsTyped
<1>10. CASE Execute
  <2>1. PICK undefined :
          result' = [outputs |-> Run(Verdict(Whole, Output).valid, undefined),
                     status |-> IF Run(Verdict(Whole, Output).valid, undefined) = {}
                                THEN "incomplete"
                                ELSE IF /\ Run(Verdict(Whole, Output).valid, undefined)
                                             = Verdict(Whole, Output).valid
                                        /\ Verdict(Whole, Output).ready
                                THEN "ok" ELSE "partial"]
    BY <1>10 DEF Execute
  <2>2. Verdict(Whole, Output).valid \subseteq Output BY VerdictsAreAboutS
  <2> DEFINE valid == Verdict(Whole, Output).valid
             ready == Verdict(Whole, Output).ready
  <2> HIDE DEF valid, ready
  <2>3. Run(valid, undefined) \subseteq valid BY DEF Run, Computed
  <2>4. result' \in [status : {"none", "ok", "partial", "incomplete"}, outputs : SUBSET Output]
    BY <2>1, <2>2, <2>3 DEF valid, ready
  <2>5. TypeOK' BY <1>10, <2>4 DEF Execute, Typed, TypeOK, plan, work, scene, past
  <2>6. Standing' BY <1>10 DEF Execute, Typed, Standing, Closed, work
  <2> QED BY <2>5, <2>6 DEF Typed
<1> QED BY <1>1, <1>2, <1>3, <1>4, <1>5, <1>6, <1>7, <1>8, <1>9, <1>10 DEF Next

LEMMA TypedIsInvariant == Spec => []Typed
BY StartsTyped, StepsAreTyped, PTL DEF Spec

(* The variables of a compilation keep their types, and what is asked for  *)
(* and cannot be read belongs to the island being compiled.                *)
THEOREM CompileTypesHold == Spec => []TypeOK
<1>1. Typed => TypeOK BY DEF Typed
<1> QED BY TypedIsInvariant, <1>1, PTL

-----------------------------------------------------------------------------
(* An abstention on a required output is missing and no error, unless the  *)
(* plan is wrong about it: either way its bundle is set aside.             *)
LEMMA AbstentionsAreSetAside ==
  ASSUME Typed, NEW o \in island \cap required, cells[o] = Withheld, o \notin garbled
  PROVE  o \in Abstained(Verdict(Program, island)) \cup (misplanned \cap island)
<1> DEFINE computed == Computed(Sound(Program, island))
           offRow == OffRow(Program, computed)
           produced == Unscattered(computed, offRow)
           conflicting == Conflicting(Program, produced)
           v == Verdict(Program, island)
<1>1. cells[o].state = "withheld" BY DEF Withheld
<1>2. computed \subseteq Sound(Program, island) BY DEF Computed
<1> HIDE DEF computed
<1>3. o \notin computed BY <1>1, <1>2 DEF Sound, Program
<1>4. offRow \subseteq computed BY DEF OffRow
<1> HIDE DEF offRow
<1>5. produced \subseteq computed BY DEF Unscattered
<1> HIDE DEF produced
<1>6. conflicting \subseteq produced BY DEF Conflicting
<1> HIDE DEF conflicting
<1>7. /\ v.valid = produced \ conflicting
      /\ v.refused = {p \in island \ computed : Read(Program.cells[p])}
                       \cup offRow \cup conflicting
                       \cup (island \cap (Program.failed \cup misplanned))
      /\ v.missing = (IF v.valid = {} THEN island
                      ELSE (required \cap island) \cup v.refused) \ v.valid
  BY DEF Verdict, computed, offRow, produced, conflicting
<1>8. ~Read(Program.cells[o]) /\ Program.failed = {} BY <1>1 DEF Read, Program
<1> HIDE DEF v
<1>9. o \in v.missing BY <1>3, <1>5, <1>7
<1>10. o \in v.refused => o \in misplanned BY <1>3, <1>4, <1>5, <1>6, <1>7, <1>8
<1> QED BY <1>9, <1>10 DEF Abstained, Errors, v

(* Bundles are disjoint, so repairing what is not set aside touches no     *)
(* bundle that is.                                                         *)
LEMMA BundlesSetAsideStay ==
  ASSUME NEW X \in SUBSET Output, NEW Y \in SUBSET Output, NEW o \in X
  PROVE  Peers({o}) \cap Peers(Y \ Peers(X)) = {}
<1>1. Peers({o}) \subseteq Peers(X) BY DEF Peers
<1> SUFFICES ASSUME NEW p \in Peers({o}), p \in Peers(Y \ Peers(X)) PROVE FALSE
  OBVIOUS
<1>2. p \in Peers(X) BY <1>1
<1>3. PICK C \in Bundles : tie[C] # None /\ C \cap (Y \ Peers(X)) # {} /\ p \in C
  BY <1>2 DEF Peers
<1>4. PICK r \in C : r \in Y \ Peers(X) BY <1>3
<1>5. CASE p = o BY <1>1, <1>3, <1>4, <1>5 DEF Peers
<1>6. CASE p # o
  <2>1. PICK B \in Bundles : tie[B] # None /\ o \in B /\ p \in B BY <1>6 DEF Peers
  <2>2. B = C BY <1>3, <2>1, CompileConstants
  <2>3. r \in Peers({o}) BY <1>4, <2>1, <2>2 DEF Peers
  <2> QED BY <1>1, <1>4, <2>3
<1> QED BY <1>5, <1>6

LEMMA RepairsReopenNoAbstention ==
  ASSUME Typed, Repair, NEW o \in island \cap required,
         cells[o] = Withheld, o \notin garbled
  PROVE  Peers({o}) \cap asked' = {}
<1> DEFINE v == Verdict(Program, island)
           X == Abstained(v) \cup (misplanned \cap island)
           Y == v.missing \cup Errors(v)
<1>1. asked' = Peers(Y \ Peers(X)) BY DEF Repair, Targets
<1>2. o \in X BY AbstentionsAreSetAside
<1>3. v.missing \subseteq island /\ v.refused \subseteq island
  BY VerdictsAreAboutS DEF Typed, TypeOK
<1> HIDE DEF v
<1>4. X \subseteq Output /\ Y \subseteq Output
  BY <1>3 DEF Abstained, Errors, Typed, TypeOK
<1> HIDE DEF X, Y
<1> QED BY <1>1, <1>2, <1>4, BundlesSetAsideStay

(* Whatever the provider answers, an abstention on a required output is    *)
(* final: no repair asks for it or for its bundle again.                   *)
THEOREM RequiredAbstentionsAreFinal == Spec => RequiredAbstentionsStayClosed
<1> DEFINE Final == \A o \in island \cap required :
             (cells[o] = Withheld /\ o \notin garbled) => Peers({o}) \cap asked' = {}
<1>1. Typed /\ [Next]_vars => [Repair => Final]_vars
  BY RepairsReopenNoAbstention
<1> QED BY TypedIsInvariant, <1>1, PTL DEF Spec, RequiredAbstentionsStayClosed

-----------------------------------------------------------------------------
(* Nothing is asked of a query over its limits, and what it exposes after  *)
(* the preflight is at most what the preflight counted, or what a repair   *)
(* was found to fit beside.                                                *)
Exposure ==
  /\ calls > 0 \/ phase \in {"ask", "judge"} => phase # "plan" /\ ~Halted
  /\ phase # "plan" =>
       /\ ~Halted => ~TooMany(Exposed(shown))
       /\ \A o \in Output \ (settled \cup island) : shown[o] = Cohort(Output, Nothing)[o]

LEMMA OpeningExposesNothingNew ==
  ASSUME Typed, Exposure, OpenIsland
  PROVE  Exposure'
<1> DEFINE cohort == Cohort(NextIsland, Nothing)
<1>1. /\ phase = "next" /\ phase' = "ask" /\ settled # Output
      /\ ~Halted /\ island' = NextIsland
      /\ shown' = [o \in Output |-> IF o \in NextIsland THEN cohort[o] ELSE shown[o]]
      /\ UNCHANGED <<settled, calls>>
  BY DEF OpenIsland, Blocked
<1>2. NextIsland \subseteq Output /\ Closed(NextIsland) /\ NextIsland \cap settled = {}
  BY <1>1, NextIslandIsNew DEF Typed, TypeOK, Standing
<1>3. island = {} BY <1>1 DEF Typed, Standing
<1>4. \A o \in NextIsland : cohort[o] \subseteq shown[o]
  <2>1. \A o \in NextIsland : shown[o] = Cohort(Output, Nothing)[o]
    BY <1>1, <1>2, <1>3 DEF Exposure
  <2> QED BY <1>2, <2>1, IslandsShowNothingNew
<1> HIDE DEF cohort
<1>5. Exposed(shown') \subseteq Exposed(shown) /\ Exposed(shown) \subseteq Candidate
  BY <1>1, <1>4 DEF Exposed, Typed, TypeOK
<1>6. ~TooMany(Exposed(shown')) BY <1>1, <1>5, FewerFit DEF Exposure
<1>7. \A o \in Output \ (settled' \cup island') : shown'[o] = Cohort(Output, Nothing)[o]
  BY <1>1, <1>2, <1>3 DEF Exposure
<1> QED BY <1>1, <1>6, <1>7 DEF Exposure

LEMMA RepairsFit ==
  ASSUME Typed, Exposure, Repair
  PROVE  Exposure'
<1> DEFINE T == Targets(Verdict(Program, island))
           cohort == Cohort(T, Struck(Verdict(Program, island), T))
<1>1. /\ phase = "judge" /\ phase' = "ask"
      /\ ~TooMany(AfterRepair(T, cohort))
      /\ shown' = [o \in Output |-> IF o \in T THEN cohort[o] ELSE shown[o]]
      /\ UNCHANGED <<settled, island, calls>>
  BY DEF Repair, MayRepair
<1>2. T \subseteq island /\ island \subseteq Output
  BY RepairsStayInside DEF Typed, Standing, TypeOK
<1>3. DOMAIN cohort = T /\ DOMAIN shown = Output
  BY <1>2, CohortsAreTyped DEF Typed, TypeOK
<1> HIDE DEF cohort, T
<1>4. Exposed(shown') = AfterRepair(T, cohort)
  BY <1>1, <1>2, <1>3 DEF Exposed, AfterRepair
<1>5. \A o \in Output \ (settled' \cup island') : shown'[o] = Cohort(Output, Nothing)[o]
  BY <1>1, <1>2 DEF Exposure
<1>6. ~Halted BY <1>1 DEF Exposure
<1> QED BY <1>1, <1>4, <1>5, <1>6 DEF Exposure

LEMMA StepsKeepExposure == Typed /\ Exposure /\ [Next]_vars => Exposure'
<1> SUFFICES ASSUME Typed, Exposure, [Next]_vars PROVE Exposure'
  OBVIOUS
<1>1. CASE UNCHANGED vars
  BY <1>1 DEF vars, work, scene, Exposure
<1>2. CASE Preflight
  <2>1. /\ shown' = Cohort(Output, Nothing) /\ phase = "plan" /\ phase' = "next"
        /\ calls' = calls
    BY <1>2 DEF Preflight
  <2>2. ~Halted => ~TooMany(Exposed(shown')) BY <2>1 DEF Halted
  <2>3. ~(calls > 0) BY <2>1 DEF Exposure
  <2> QED BY <2>1, <2>2, <2>3 DEF Exposure
<1>3. CASE PassOver
  BY <1>3 DEF PassOver, work, scene, Exposure
<1>4. CASE OpenIsland BY <1>4, OpeningExposesNothingNew
<1>5. ASSUME NEW said, Hear(said) PROVE Exposure'
  BY <1>5 DEF Hear, scene, Exposure
<1>6. CASE Answered BY <1>5, <1>6, AnswersAreTyped
<1>7. CASE Failed BY <1>5, <1>7 DEF Failed
<1>8. CASE Refuse BY <1>8 DEF Refuse, work, scene, Exposure
<1>9. CASE Repair BY <1>9, RepairsFit
<1>10. CASE Seal
  <2>1. /\ phase = "judge" /\ phase' = "next" /\ settled' = settled \cup island /\ island' = {}
        /\ UNCHANGED <<shown, calls>>
    BY <1>10 DEF Seal, scene
  <2> QED BY <2>1 DEF Exposure
<1>11. CASE Execute BY <1>11 DEF Execute, work, scene, Exposure
<1> QED BY <1>1, <1>2, <1>3, <1>4, <1>6, <1>7, <1>8, <1>9, <1>10, <1>11 DEF Next

(* Over every island and every repair, whatever is answered, a query that  *)
(* made a request exposes no more candidates than its limit.               *)
THEOREM ExposureStaysBounded == Spec => []ExposureIsBounded
<1>1. Init => Exposure BY DEF Init, Exposure
<1>2. Typed /\ Exposure /\ [Next]_vars => Exposure' BY StepsKeepExposure
<1>3. Exposure => ExposureIsBounded BY DEF Exposure, ExposureIsBounded
<1> QED BY TypedIsInvariant, <1>1, <1>2, <1>3, PTL DEF Spec

-----------------------------------------------------------------------------
(* The row of a bundle.                                                    *)

(* A candidate ranked for an output is the only one of its row.            *)
LEMMA RanksAreNumbers ==
  ASSUME NEW o \in Output, NEW out, NEW c \in Best(o, out)
  PROVE  RankInRow(o, Row[c], out) \in Nat
<1>1. DOMAIN Ranked[o] \subseteq Nat
  <2>1. Ranked[o] \in Seq(Candidate) BY CompileConstants
  <2> QED BY <2>1
<1>2. \A d \in Best(o, out) : \E i \in DOMAIN Ranked[o] : Ranked[o][i] = d
  BY DEF Best
<1>3. PICK k \in DOMAIN Ranked[o] : Ranked[o][k] = c BY <1>2
<1>4. \A i \in DOMAIN Ranked[o] : Row[Ranked[o][i]] = Row[c] => i = k
  BY <1>3, CompileConstants
<1>5. \A d \in Best(o, out) : Row[d] = Row[c] => k <= Rank(o, d)
  <2> SUFFICES ASSUME NEW d \in Best(o, out), Row[d] = Row[c] PROVE k <= Rank(o, d)
    OBVIOUS
  <2>1. Rank(o, d) \in DOMAIN Ranked[o] /\ Ranked[o][Rank(o, d)] = d
    BY <1>2 DEF Rank
  <2>2. Rank(o, d) = k BY <1>4, <2>1
  <2> QED BY <1>1, <2>2
<1> DEFINE first(i) == /\ Ranked[o][i] \in Best(o, out) /\ Row[Ranked[o][i]] = Row[c]
                       /\ \A d \in Best(o, out) : Row[d] = Row[c] => i <= Rank(o, d)
<1>6. first(k) BY <1>3, <1>5
<1>7. RankInRow(o, Row[c], out) = CHOOSE i \in DOMAIN Ranked[o] : first(i)
  BY DEF RankInRow
<1> HIDE DEF first
<1> QED BY <1>1, <1>6, <1>7

(* A bundle that has a row in common is tied to one of those rows.         *)
LEMMA TiesAreCommonRows ==
  ASSUME NEW B \in Bundles, NEW T, B \subseteq T, NEW out, CommonRows(B, out) # {}
  PROVE  TieOf(B, T, out) \in CommonRows(B, out) /\ TieOf(B, T, out) # None
<1> DEFINE C == CommonRows(B, out)
           o == CHOOSE o \in B : TRUE
           p == CHOOSE p \in B : p # o
<1>1. o \in B /\ p \in B /\ B \subseteq Output
  <2>1. Cardinality(B) = 2 /\ B \subseteq Output BY CompileConstants
  <2>2. B # {} BY <2>1, FS_EmptySet
  <2>3. \A x : B # {x} BY <2>1, FS_Singleton
  <2>4. o \in B BY <2>2
  <2> HIDE DEF o
  <2>5. \E q \in B : q # o BY <2>3, <2>4
  <2> QED BY <2>1, <2>4, <2>5
<1>2. ASSUME NEW r \in C, NEW q \in B PROVE RankInRow(q, r, out) \in Nat
  <2>1. PICK c \in Best(q, out) : Row[c] = r BY DEF CommonRows
  <2> QED BY <1>1, <2>1, RanksAreNumbers
<1>3. \A r \in C : Behind(B, r, out) \in Nat
  <2>1. \A r \in C : Behind(B, r, out) = RankInRow(o, r, out) + RankInRow(p, r, out)
    BY DEF Behind
  <2> HIDE DEF o, p
  <2> QED BY <1>1, <1>2, <2>1
<1>4. \E r \in C : \A s \in C : Behind(B, r, out) <= Behind(B, s, out)
  <2> DEFINE f == [r \in C |-> Behind(B, r, out)]
  <2>1. f \in [C -> Nat] BY <1>3
  <2>2. C # {} OBVIOUS
  <2> HIDE DEF C
  <2>3. PICK r \in C : \A s \in C : f[r] <= f[s]
    <3> HIDE DEF f
    <3> QED BY <2>1, <2>2, LeastExists
  <2> QED BY <2>3
<1>5. TieOf(B, T, out) = CHOOSE r \in C : \A s \in C : Behind(B, r, out) <= Behind(B, s, out)
  BY DEF TieOf
<1>6. TieOf(B, T, out) \in C
  <2> HIDE DEF C
  <2> QED BY <1>4, <1>5
<1>7. \A r \in C : r # None BY CompileConstants DEF CommonRows
<1> QED BY <1>6, <1>7

(* Which rows a bundle has in common depends on what is struck for it.     *)
LEMMA CommonRowsAreLocal ==
  ASSUME NEW B, NEW x, NEW y, \A o \in B : x[o] = y[o]
  PROVE  CommonRows(B, x) = CommonRows(B, y)
<1>1. \A o \in B : Best(o, x) = Best(o, y) BY DEF Best
<1> QED BY <1>1 DEF CommonRows

(* Until an island is repaired nothing is struck for its outputs.          *)
Unrepaired(o) ==
  /\ o \notin settled
  /\ o \in island => (phase = "ask" /\ attempt = 0) \/ (phase = "judge" /\ attempt = 1)

(* A bundle without a row has none in common, and one that has a row is    *)
(* answered from it.                                                       *)
RowsHold ==
  /\ phase = "plan" => struck = Nothing
  /\ phase # "plan" =>
       \A B \in Bundles : tie[B] = None => CommonRows(B, struck) = {}
  /\ \A o \in Output : Unrepaired(o) => struck[o] = {}
  /\ phase # "done" => result.outputs = {}
  /\ \A B \in Bundles : (B \subseteq result.outputs /\ tie[B] # None) =>
       \A o \in B : RowRead(sealed[o]) = tie[B]

LEMMA RowsHoldAtPreflight ==
  ASSUME Typed, RowsHold, Preflight
  PROVE  RowsHold'
<1>1. /\ phase = "plan" /\ phase' = "next" /\ tie' = Ties(Output, Nothing)
      /\ UNCHANGED <<settled, island, attempt, struck, result, sealed>>
  BY DEF Preflight, work
<1>2. ASSUME NEW B \in Bundles PROVE tie'[B] # None
  <2>1. B \subseteq Output BY CompileConstants
  <2>2. TieOf(B, Output, Nothing) # None BY <2>1, TiesAreCommonRows, BundlesHaveRows
  <2> QED BY <1>1, <2>2 DEF Ties
<1>3. \A B \in Bundles : \A o \in B : ~(B \subseteq result'.outputs)
  BY <1>1 DEF RowsHold
<1>4. \A o \in Output : Unrepaired(o)' => struck'[o] = {}
  BY <1>1 DEF RowsHold, Unrepaired, Nothing
<1> QED BY <1>1, <1>2, <1>3, <1>4 DEF RowsHold

LEMMA RowsHoldOverRepairs ==
  ASSUME Typed, RowsHold, Repair
  PROVE  RowsHold'
<1> DEFINE v == Verdict(Program, island)
           open == (v.missing \cup Errors(v)) \ Peers(Abstained(v) \cup (misplanned \cap island))
           T == Targets(v)
           s == Struck(v, T)
<1>1. /\ phase = "judge" /\ phase' = "ask" /\ attempt = 1
      /\ tie' = [B \in Bundles |-> IF B \cap T = {} THEN tie[B] ELSE TieOf(B, T, s)]
      /\ struck' = [o \in Output |-> struck[o] \cup s[o]]
      /\ UNCHANGED <<settled, island, attempt, result, sealed>>
  BY DEF Repair, MayRepair
<1>2. T \subseteq island /\ island \cap settled = {} /\ island \subseteq Output
  BY RepairsStayInside DEF Typed, Standing, TypeOK
<1>3. T = Peers(open) BY DEF Targets
<1>4. \A o \in Output \ T : s[o] = {} BY DEF Struck
<1> HIDE DEF s, T, open, v
<1>5. \A o \in Output \ T : struck'[o] = struck[o] BY <1>1, <1>4
<1>6. ASSUME NEW B \in Bundles, B \cap T # {}
      PROVE  tie'[B] = None => CommonRows(B, struck') = {}
  <2>1. B \subseteq island
    <3> SUFFICES ASSUME NEW p \in B \cap T, NEW r \in B PROVE r \in island
      BY <1>6
    <3>1. r \in Output /\ {p, r} \subseteq B BY CompileConstants
    <3> QED BY <1>2, <3>1 DEF Typed, Standing, Closed, Linked
  <2>2. \A o \in B : struck[o] = {} BY <1>1, <1>2, <2>1 DEF RowsHold, Unrepaired
  <2>3. CommonRows(B, struck) = CommonRows(B, Nothing)
    <3>1. \A o \in B : struck[o] = Nothing[o] BY <1>2, <2>1, <2>2 DEF Nothing
    <3> QED BY <3>1, CommonRowsAreLocal
  <2>4. tie[B] # None BY <1>1, <2>3, BundlesHaveRows DEF RowsHold
  <2>5. B \subseteq T
    <3>1. PICK p \in B : p \in T BY <1>6
    <3>2. CASE p \in open BY <1>3, <2>4, <3>1, <3>2 DEF Peers
    <3>3. CASE p \notin open
      <4>1. PICK C \in Bundles : tie[C] # None /\ C \cap open # {} /\ p \in C
        BY <1>3, <3>1, <3>3 DEF Peers
      <4>2. B = C BY <3>1, <4>1, CompileConstants
      <4> QED BY <1>3, <4>1, <4>2 DEF Peers
    <3> QED BY <3>2, <3>3
  <2>6. CommonRows(B, struck') = CommonRows(B, s)
    <3>1. \A o \in B : struck'[o] = s[o] BY <1>1, <1>2, <2>1, <2>2
    <3> QED BY <3>1, CommonRowsAreLocal
  <2>7. tie'[B] = TieOf(B, T, s) BY <1>1, <1>6
  <2> QED BY <2>5, <2>6, <2>7, TiesAreCommonRows
<1>7. ASSUME NEW B \in Bundles, B \cap T = {}
      PROVE  tie'[B] = None => CommonRows(B, struck') = {}
  <2>1. tie'[B] = tie[B] BY <1>1, <1>7
  <2>2. \A o \in B : struck'[o] = struck[o] BY <1>5, <1>7, CompileConstants
  <2>3. CommonRows(B, struck') = CommonRows(B, struck) BY <2>2, CommonRowsAreLocal
  <2> QED BY <1>1, <2>1, <2>3 DEF RowsHold
<1>8. \A o \in Output : Unrepaired(o)' => struck'[o] = {}
  <2> SUFFICES ASSUME NEW o \in Output, Unrepaired(o)' PROVE struck'[o] = {}
    OBVIOUS
  <2>1. o \notin island /\ o \notin settled BY <1>1 DEF Unrepaired
  <2>2. struck[o] = {} BY <2>1 DEF RowsHold, Unrepaired
  <2> QED BY <1>2, <1>5, <2>1, <2>2
<1>9. \A B \in Bundles : \A o \in B : ~(B \subseteq result'.outputs)
  BY <1>1 DEF RowsHold
<1> QED BY <1>1, <1>6, <1>7, <1>8, <1>9 DEF RowsHold

LEMMA RowsHoldInTheAnswer ==
  ASSUME Typed, RowsHold, Execute
  PROVE  RowsHold'
<1> DEFINE computed == Computed(Sound(Whole, Output))
           offRow == OffRow(Whole, computed)
           produced == Unscattered(computed, offRow)
<1>1. /\ phase = "next" /\ phase' = "done"
      /\ UNCHANGED <<settled, island, attempt, struck, tie, sealed>>
  BY DEF Execute, work, scene
<1>2. result'.outputs \subseteq produced
  <2>1. Verdict(Whole, Output).valid \subseteq produced BY DEF Verdict
  <2>2. \A V, undefined : Run(V, undefined) \subseteq V BY DEF Run, Computed
  <2>3. \E undefined : result'.outputs = Run(Verdict(Whole, Output).valid, undefined)
    BY DEF Execute
  <2> HIDE DEF produced
  <2> QED BY <2>1, <2>2, <2>3
<1>3. ASSUME NEW B \in Bundles, B \subseteq result'.outputs, tie[B] # None, NEW o \in B
      PROVE  RowRead(sealed[o]) = tie[B]
  <2>1. B \subseteq produced BY <1>2, <1>3
  <2> HIDE DEF computed
  <2>2. B \subseteq computed /\ o \notin offRow
    <3> HIDE DEF offRow
    <3> QED BY <1>3, <2>1 DEF Unscattered
  <2> QED BY <1>3, <2>2 DEF OffRow, Whole
<1> HIDE DEF produced
<1>4. \A o \in Output : Unrepaired(o)' => struck'[o] = {}
  BY <1>1 DEF RowsHold, Unrepaired
<1> QED BY <1>1, <1>3, <1>4 DEF RowsHold

LEMMA StepsKeepRows == Typed /\ RowsHold /\ [Next]_vars => RowsHold'
<1> SUFFICES ASSUME Typed, RowsHold, [Next]_vars PROVE RowsHold'
  OBVIOUS
<1>1. CASE UNCHANGED vars
  BY <1>1 DEF vars, work, scene, RowsHold, Unrepaired
<1>2. CASE Preflight BY <1>2, RowsHoldAtPreflight
<1>3. CASE PassOver
  BY <1>3 DEF PassOver, work, scene, Typed, Standing, RowsHold, Unrepaired
<1>4. CASE OpenIsland
  BY <1>4 DEF OpenIsland, Typed, Standing, RowsHold, Unrepaired
<1>5. ASSUME NEW said, Hear(said) PROVE RowsHold'
  BY <1>5 DEF Hear, scene, Typed, TypeOK, RowsHold, Unrepaired
<1>6. CASE Answered BY <1>5, <1>6, AnswersAreTyped
<1>7. CASE Failed BY <1>5, <1>7 DEF Failed
<1>8. CASE Refuse BY <1>8 DEF Refuse, work, scene, RowsHold, Unrepaired
<1>9. CASE Repair BY <1>9, RowsHoldOverRepairs
<1>10. CASE Seal
  BY <1>10 DEF Seal, scene, Typed, TypeOK, RowsHold, Unrepaired
<1>11. CASE Execute BY <1>11, RowsHoldInTheAnswer
<1> QED BY <1>1, <1>2, <1>3, <1>4, <1>6, <1>7, <1>8, <1>9, <1>10, <1>11 DEF Next

(* Outputs of a bundle are answered from one table row, over any repairs,  *)
(* unless what was struck left them none in common.                        *)
THEOREM BundlesReadOneRow == Spec => []BundlesShareARow
<1>1. Init => RowsHold
  BY DEF Init, RowsHold, Unrepaired, Nothing, Unanswered
<1>2. Typed /\ RowsHold => BundlesShareARow
  <2> SUFFICES ASSUME Typed, RowsHold, NEW B \in Bundles, B \subseteq result.outputs,
                      CommonRows(B, struck) # {}, NEW o \in B, NEW p \in B
               PROVE  RowRead(sealed[o]) = RowRead(sealed[p])
    BY DEF BundlesShareARow
  <2>1. phase = "done" BY DEF RowsHold
  <2>2. tie[B] # None BY <2>1 DEF RowsHold
  <2> QED BY <2>2 DEF RowsHold
<1> QED BY TypedIsInvariant, <1>1, <1>2, StepsKeepRows, PTL DEF Spec

-----------------------------------------------------------------------------
(* What the validator says once every candidate shown is on its bundle's   *)
(* row, as it always is.                                                   *)

ShownOnRow == \A o \in Output : \A c \in shown[o] : AllowedBy(tie, o, c)

LEMMA CohortsAreOnRow ==
  ASSUME NEW T \in SUBSET Output, NEW out, NEW o \in T, NEW c \in Cohort(T, out)[o]
  PROVE  AllowedBy(Ties(T, out), o, c)
BY DEF Cohort

LEMMA RepairsStayOnRow ==
  ASSUME Typed, ShownOnRow, Repair
  PROVE  ShownOnRow'
<1> DEFINE T == Targets(Verdict(Program, island))
           s == Struck(Verdict(Program, island), T)
<1>1. /\ shown' = [o \in Output |-> IF o \in T THEN Cohort(T, s)[o] ELSE shown[o]]
      /\ tie' = [B \in Bundles |-> IF B \cap T = {} THEN tie[B] ELSE TieOf(B, T, s)]
  BY DEF Repair
<1>2. T \subseteq Output BY RepairsStayInside DEF Typed, Standing, TypeOK
<1> HIDE DEF T, s
<1>3. ASSUME NEW o \in Output, NEW c \in shown'[o], NEW B \in Bundles, o \in B
      PROVE  tie'[B] \in {None, Row[c]}
  <2>1. CASE o \in T
    <3>1. c \in Cohort(T, s)[o] BY <1>1, <2>1
    <3>2. Ties(T, s)[B] \in {None, Row[c]}
      BY <1>2, <1>3, <2>1, <3>1, CohortsAreOnRow DEF AllowedBy
    <3>3. tie'[B] = Ties(T, s)[B] BY <1>1, <1>3, <2>1 DEF Ties
    <3> QED BY <3>2, <3>3
  <2>2. CASE o \notin T
    <3>1. tie[B] \in {None, Row[c]} BY <1>1, <1>3, <2>2 DEF ShownOnRow, AllowedBy
    <3>2. ~(B \subseteq T) BY <1>3, <2>2
    <3>3. tie'[B] \in {tie[B], None} BY <1>1, <3>2 DEF TieOf
    <3> QED BY <3>1, <3>3
  <2> QED BY <2>1, <2>2
<1> QED BY <1>3 DEF ShownOnRow, AllowedBy

LEMMA StepsStayOnRow == Typed /\ Exposure /\ ShownOnRow /\ [Next]_vars => ShownOnRow'
<1> SUFFICES ASSUME Typed, Exposure, ShownOnRow, [Next]_vars PROVE ShownOnRow'
  OBVIOUS
<1>1. CASE UNCHANGED <<shown, tie>> BY <1>1 DEF ShownOnRow, AllowedBy
<1>2. CASE Preflight
  <2>1. shown' = Cohort(Output, Nothing) /\ tie' = Ties(Output, Nothing)
    BY <1>2 DEF Preflight
  <2> QED BY <2>1, CohortsAreOnRow DEF ShownOnRow, AllowedBy
<1>3. CASE OpenIsland
  <2>1. /\ phase = "next" /\ settled # Output /\ tie' = tie
        /\ shown' = [o \in Output |-> IF o \in NextIsland THEN Cohort(NextIsland, Nothing)[o]
                                      ELSE shown[o]]
    BY <1>3 DEF OpenIsland
  <2>2. NextIsland \subseteq Output /\ Closed(NextIsland) /\ NextIsland \cap settled = {}
    BY <2>1, NextIslandIsNew DEF Typed, TypeOK, Standing
  <2>3. island = {} BY <2>1 DEF Typed, Standing
  <2>4. \A o \in NextIsland : Cohort(NextIsland, Nothing)[o] \subseteq shown[o]
    <3>1. \A o \in NextIsland : shown[o] = Cohort(Output, Nothing)[o]
      BY <2>1, <2>2, <2>3 DEF Exposure
    <3> QED BY <2>2, <3>1, IslandsShowNothingNew
  <2>5. \A o \in Output : shown'[o] \subseteq shown[o] BY <2>1, <2>4
  <2> QED BY <2>1, <2>5 DEF ShownOnRow, AllowedBy
<1>4. ASSUME NEW said, Hear(said) PROVE ShownOnRow' BY <1>1, <1>4 DEF Hear, scene
<1>5. CASE Answered BY <1>4, <1>5, AnswersAreTyped
<1>6. CASE Failed BY <1>4, <1>6 DEF Failed
<1>7. CASE Repair BY <1>7, RepairsStayOnRow
<1>8. CASE UNCHANGED vars BY <1>1, <1>8 DEF vars, scene
<1>9. CASE PassOver BY <1>1, <1>9 DEF PassOver, scene
<1>10. CASE Refuse BY <1>1, <1>10 DEF Refuse, scene
<1>11. CASE Seal BY <1>1, <1>11 DEF Seal, scene
<1>12. CASE Execute BY <1>1, <1>12 DEF Execute, scene
<1> QED BY <1>2, <1>3, <1>5, <1>6, <1>7, <1>8, <1>9, <1>10, <1>11, <1>12 DEF Next

Seen == Typed /\ Exposure /\ ShownOnRow

LEMMA SeenIsInvariant == Spec => []Seen
<1>1. Init => Exposure BY DEF Init, Exposure
<1>2. Init => ShownOnRow BY DEF Init, ShownOnRow, Nothing
<1> QED BY TypedIsInvariant, StepsKeepExposure, StepsStayOnRow, <1>1, <1>2, PTL DEF Spec, Seen

(* The expressions that resolve.                                           *)
LEMMA ComputedIsClosed ==
  ASSUME NEW X, NEW o \in X, Needs[o] \subseteq Computed(X)
  PROVE  o \in Computed(X)
BY DEF Computed

LEMMA ComputedIsMonotone ==
  ASSUME NEW X, NEW Y, X \subseteq Y
  PROVE  Computed(X) \subseteq Computed(Y)
<1> SUFFICES ASSUME NEW o \in Computed(X), NEW K \in SUBSET Y,
                    \A p \in Y : Needs[p] \subseteq K => p \in K
             PROVE  o \in K
  BY DEF Computed
<1>1. \A p \in X : Needs[p] \subseteq K \cap X => p \in K \cap X OBVIOUS
<1>2. K \cap X \in SUBSET X OBVIOUS
<1>3. o \in K \cap X BY <1>1, <1>2 DEF Computed
<1> QED BY <1>3

(* No reading is off its bundle's row, so that no bundle falls apart: what *)
(* is computed is valid unless it conflicts.                               *)
LEMMA VerdictsOnRow ==
  ASSUME ShownOnRow, NEW prog, NEW S \in SUBSET Output
  PROVE  LET v == Verdict(prog, S)
             computed == Computed(Sound(prog, S))
             conflicting == Conflicting(prog, computed)
         IN  /\ v.valid = computed \ conflicting
             /\ v.refused = {o \in S \ computed : Read(prog.cells[o])} \cup conflicting
                              \cup (S \cap (prog.failed \cup misplanned))
             /\ v.missing = (IF v.valid = {} THEN S ELSE (required \cap S) \cup v.refused)
                               \ v.valid
             /\ v.ready = (v.valid # {} /\ v.missing = {} /\ v.refused = {})
             /\ conflicting \subseteq computed /\ computed \subseteq Sound(prog, S)
<1> DEFINE computed == Computed(Sound(prog, S))
           offRow == OffRow(prog, computed)
           produced == Unscattered(computed, offRow)
<1>1. computed \subseteq Sound(prog, S) BY DEF Computed
<1>2. Sound(prog, S) \subseteq Output /\ \A o \in Sound(prog, S) :
        o \notin Derived => prog.cells[o].candidate \in shown[o]
  BY DEF Sound
<1> HIDE DEF computed
<1>3. ASSUME NEW o \in computed, NEW B \in Bundles, o \in B
      PROVE  tie[B] \in {None, RowRead(prog.cells[o])}
  <2>1. o \notin Derived /\ o \in Output BY <1>3, CompileConstants
  <2>2. prog.cells[o].candidate \in shown[o] BY <1>1, <1>2, <2>1
  <2> QED BY <1>3, <2>1, <2>2 DEF ShownOnRow, AllowedBy, RowRead
<1>4. offRow = {} BY <1>3 DEF OffRow
<1>5. produced = computed BY <1>4 DEF Unscattered
<1>6. Conflicting(prog, computed) \subseteq computed BY DEF Conflicting
<1>7. /\ Verdict(prog, S).valid = produced \ Conflicting(prog, produced)
      /\ Verdict(prog, S).refused =
           {o \in S \ computed : Read(prog.cells[o])}
             \cup offRow \cup Conflicting(prog, produced)
             \cup (S \cap (prog.failed \cup misplanned))
      /\ Verdict(prog, S).missing =
           (IF Verdict(prog, S).valid = {} THEN S
            ELSE (required \cap S) \cup Verdict(prog, S).refused) \ Verdict(prog, S).valid
      /\ Verdict(prog, S).ready = (/\ Verdict(prog, S).valid # {}
                                   /\ Verdict(prog, S).missing = {}
                                   /\ Verdict(prog, S).refused = {})
  BY DEF Verdict, computed, offRow, produced
<1> QED BY <1>1, <1>4, <1>5, <1>6, <1>7 DEF computed

(* What is valid was read as sound, and is in error no more.               *)
LEMMA ValidIsSound ==
  ASSUME ShownOnRow, NEW prog, NEW S \in SUBSET Output, NEW o \in Verdict(prog, S).valid
  PROVE  /\ prog.cells[o].state = "sound" /\ Read(prog.cells[o])
         /\ o \notin misplanned /\ o \notin Verdict(prog, S).refused /\ o \in S
         /\ o \notin Derived => prog.cells[o].candidate \in shown[o]
<1> DEFINE v == Verdict(prog, S)
           computed == Computed(Sound(prog, S))
           conflicting == Conflicting(prog, computed)
<1>1. /\ v.valid = computed \ conflicting
      /\ v.refused = {p \in S \ computed : Read(prog.cells[p])} \cup conflicting
                       \cup (S \cap (prog.failed \cup misplanned))
      /\ computed \subseteq Sound(prog, S)
  BY VerdictsOnRow
<1> HIDE DEF v, computed, conflicting
<1>2. o \in computed /\ o \notin conflicting BY <1>1 DEF v
<1>3. o \in Sound(prog, S) BY <1>1, <1>2
<1>4. /\ prog.cells[o].state = "sound" /\ o \notin prog.failed \cup misplanned
      /\ o \in S
      /\ o \notin Derived => prog.cells[o].candidate \in shown[o]
  BY <1>3 DEF Sound
<1>5. Read(prog.cells[o]) BY <1>4 DEF Read
<1>6. o \notin v.refused BY <1>1, <1>2, <1>4, <1>5
<1> QED BY <1>4, <1>5, <1>6 DEF v

-----------------------------------------------------------------------------
(* Failures.                                                               *)

(* An output of the island a repair set aside with its bundle: none of the *)
(* bundle is asked for again, and nothing was read for it.                 *)
SetAside(B) ==
  /\ B \subseteq island /\ B \cap asked = {}
  /\ attempt = (IF phase = "judge" THEN 2 ELSE 1)
  /\ \A q \in B : ~Read(cells[q])

(* What lapsed is bound as failed, is an error the next step will bind, or *)
(* was set aside with its whole bundle, nothing of which is ever read.     *)
LapseStands(o) ==
  \/ o \in failed
  \/ phase = "judge" /\ o \in island /\ o \in Errors(Verdict(Program, island))
  \/ \E B \in Bundles : /\ o \in B
                        /\ \/ B \subseteq settled /\ \A q \in B : ~Read(sealed[q])
                           \/ SetAside(B)

LapsesStand ==
  /\ phase \in {"ask", "judge"} => island \cap misplanned = {}
  /\ \A o \in garbled : cells[o] = Withheld
  /\ phase # "done" => result = Unanswered
  /\ \A o \in lapsed : LapseStands(o)

LEMMA UnreadCells ==
  ~Read(Withheld) /\ ~Read(Unsaid)
BY DEF Read, Withheld, Unsaid

LEMMA ErrorsAreNotValid ==
  ASSUME Seen, LapsesStand, NEW o \in Errors(Verdict(Program, island))
  PROVE  o \in island /\ o \notin Verdict(Program, island).valid
<1> DEFINE v == Verdict(Program, island)
<1>1. v.refused \subseteq island BY VerdictsAreAboutS DEF Seen, Typed, TypeOK
<1>2. \A p \in v.valid : Read(cells[p]) /\ p \notin v.refused
  BY ValidIsSound DEF Seen, Typed, TypeOK, Program
<1> HIDE DEF v
<1>3. o \in v.refused \/ o \in garbled BY DEF Errors, v
<1>4. o \in garbled => ~Read(cells[o]) BY UnreadCells DEF LapsesStand
<1> QED BY <1>1, <1>2, <1>3, <1>4 DEF v, Seen, Typed, TypeOK

(* What is heard in error is an error of the verdict that follows.         *)
LEMMA LapsesAreHeard ==
  ASSUME Seen, LapsesStand, NEW said, Hear(said)
  PROVE  LapsesStand'
<1>1. /\ phase = "ask" /\ phase' = "judge" /\ attempt' = attempt + 1
      /\ cells' = [o \in Output |-> IF o \notin asked THEN cells[o]
                                   ELSE IF said[o] = Garbled THEN Withheld ELSE said[o]]
      /\ garbled' = {o \in asked : said[o] = Garbled}
      /\ lapsed' = lapsed \cup (asked \cap Errors(Verdict(Program, island))')
      /\ UNCHANGED <<required, misplanned, settled, island, asked, shown, tie, sealed,
                     failed, result>>
  BY DEF Hear, plan, scene
<1>2. island \subseteq Output /\ asked \subseteq island BY DEF Seen, Typed, TypeOK
<1>3. \A o \in garbled' : cells'[o] = Withheld BY <1>1, <1>2
<1>5. ASSUME NEW o \in lapsed', o \notin lapsed PROVE LapseStands(o)'
  <2>1. o \in island' /\ o \in Errors(Verdict(Program, island))'
    BY <1>1, <1>2, <1>5
  <2> QED BY <1>1, <2>1 DEF LapseStands
<1>6. ASSUME NEW o \in lapsed PROVE LapseStands(o)'
  <2>1. CASE o \in failed BY <1>1, <2>1 DEF LapseStands
  <2>2. CASE \E B \in Bundles : o \in B /\ B \subseteq settled /\ \A q \in B : ~Read(sealed[q])
    BY <1>1, <2>2 DEF LapseStands
  <2>3. CASE \E B \in Bundles : o \in B /\ SetAside(B)
    <3>1. PICK B \in Bundles : o \in B /\ SetAside(B) BY <2>3
    <3>2. \A q \in B : cells'[q] = cells[q] BY <1>1, <1>2, <3>1 DEF SetAside
    <3>3. attempt' = 2 BY <1>1, <3>1 DEF SetAside
    <3>4. SetAside(B)' BY <1>1, <3>1, <3>2, <3>3 DEF SetAside
    <3> QED BY <3>1, <3>4 DEF LapseStands
  <2> QED BY <1>1, <2>1, <2>2, <2>3 DEF LapsesStand, LapseStands
<1> QED BY <1>1, <1>3, <1>5, <1>6 DEF LapsesStand

(* The plan is finite, and a bundle that holds two outputs holds no other. *)
LEMMA OutputIsFinite == IsFiniteSet(Output)
<1>1. Plan \in [1..Len(Plan) -> Output] /\ Len(Plan) \in Nat
  BY CompileConstants
<1>2. Plan \in Surjection(1..Len(Plan), Output)
  BY <1>1 DEF Surjection, Output, Range
<1>3. IsFiniteSet(1..Len(Plan)) BY <1>1, FS_Interval
<1> QED BY <1>2, <1>3, FS_Surjection

LEMMA PairsHaveTwo ==
  ASSUME NEW B \in Bundles, NEW o \in B, NEW p \in B, o # p
  PROVE  B = {o, p}
<1>1. Cardinality(B) = 2 /\ B \subseteq Output BY CompileConstants
<1>2. IsFiniteSet(B) BY <1>1, OutputIsFinite, FS_Subset
<1>3. Cardinality(B \ {o}) = 1 /\ IsFiniteSet(B \ {o}) BY <1>1, <1>2, FS_RemoveElement
<1>4. PICK x : B \ {o} = {x} BY <1>3, FS_Singleton
<1> QED BY <1>4

(* An error that a repair does not ask for again shares its bundle with an *)
(* abstention.                                                             *)
LEMMA ErrorsAreRepairedOrSetAside ==
  ASSUME Seen, LapsesStand, phase = "judge",
         NEW o \in Errors(Verdict(Program, island)), o \notin Targets(Verdict(Program, island))
  PROVE  \E B \in Bundles :
           /\ o \in B /\ B \subseteq island
           /\ B \cap Targets(Verdict(Program, island)) = {}
           /\ \A q \in B : q \notin Verdict(Program, island).valid
<1> DEFINE v == Verdict(Program, island)
           X == Abstained(v) \cup (misplanned \cap island)
           Y == v.missing \cup Errors(v)
           T == Targets(v)
<1>1. T = Peers(Y \ Peers(X)) BY DEF Targets
<1>2. X = Abstained(v) /\ \A p \in X : p \in v.missing /\ p \notin Errors(v)
  BY DEF LapsesStand, Abstained
<1>3. \A p \in v.missing : p \in island /\ p \notin v.valid
  BY VerdictsAreAboutS, MissingIsNotValid DEF Seen, Typed, TypeOK
<1>4. Errors(v) \subseteq island /\ \A p \in Errors(v) : p \notin v.valid
  BY ErrorsAreNotValid
<1> HIDE DEF v
<1>5. o \in Y /\ o \notin X BY <1>2 DEF v
<1>6. X \subseteq Output /\ Y \subseteq Output BY <1>2, <1>3, <1>4 DEF Seen, Typed, TypeOK
<1>7. \A p \in X : p \in island /\ p \notin v.valid BY <1>2, <1>3
<1>8. o \in island /\ o \notin v.valid BY <1>4 DEF v
<1> HIDE DEF X, Y
<1>9. o \in Peers(X)
  <2>1. o \notin T BY DEF v
  <2> HIDE DEF T
  <2> QED BY <1>1, <1>5, <2>1 DEF Peers
<1>10. PICK B \in Bundles : tie[B] # None /\ B \cap X # {} /\ o \in B
  BY <1>5, <1>9 DEF Peers
<1>11. PICK p \in B : p \in X BY <1>10
<1>12. B = {o, p}
  <2>2. o # p BY <1>5, <1>11
  <2> QED BY <1>10, <1>11, <2>2, PairsHaveTwo
<1>13. B \subseteq island /\ \A q \in B : q \notin v.valid
  BY <1>7, <1>8, <1>11, <1>12
<1>14. B \cap T = {}
  <2>1. Peers({p}) \cap Peers(Y \ Peers(X)) = {} BY <1>6, <1>11, BundlesSetAsideStay
  <2>2. B \subseteq Peers({p}) BY <1>10, <1>11 DEF Peers
  <2> HIDE DEF T
  <2> QED BY <1>1, <2>1, <2>2
<1> QED BY <1>10, <1>13, <1>14 DEF v

LEMMA LapsesAreRepaired ==
  ASSUME Seen, LapsesStand, Repair
  PROVE  LapsesStand'
<1> DEFINE v == Verdict(Program, island)
           T == Targets(v)
<1>1. /\ phase = "judge" /\ phase' = "ask" /\ attempt = 1
      /\ asked' = T /\ cells' = Preserved(v, T) /\ garbled' = {} /\ lapsed' = lapsed \ T
      /\ UNCHANGED <<required, misplanned, settled, island, attempt, sealed, failed, result>>
  BY DEF Repair, MayRepair, plan
<1>2. ASSUME NEW o \in lapsed' PROVE LapseStands(o)'
  <2>1. o \in lapsed /\ o \notin T BY <1>1, <1>2
  <2>2. CASE o \in failed BY <1>1, <2>2 DEF LapseStands
  <2>3. CASE \E B \in Bundles : o \in B /\ B \subseteq settled /\ \A q \in B : ~Read(sealed[q])
    BY <1>1, <2>3 DEF LapseStands
  <2>4. ~ \E B \in Bundles : o \in B /\ SetAside(B) BY <1>1 DEF SetAside
  <2>5. CASE o \in Errors(v)
    <3>1. PICK B \in Bundles : /\ o \in B /\ B \subseteq island /\ B \cap T = {}
                               /\ \A q \in B : q \notin v.valid
      BY <1>1, <2>1, <2>5, ErrorsAreRepairedOrSetAside
    <3> HIDE DEF v, T
    <3>2. \A q \in B : ~Read(cells'[q])
      <4>1. \A q \in B : q \in Output BY CompileConstants
      <4> QED BY <1>1, <3>1, <4>1, UnreadCells DEF Preserved
    <3>3. SetAside(B)' BY <1>1, <3>1, <3>2 DEF SetAside
    <3> QED BY <3>1, <3>3 DEF LapseStands
  <2> QED BY <2>1, <2>2, <2>3, <2>4, <2>5 DEF LapsesStand, LapseStands
<1> QED BY <1>1, <1>2 DEF LapsesStand

LEMMA LapsesAreSealed ==
  ASSUME Seen, LapsesStand, Seal
  PROVE  LapsesStand'
<1> DEFINE v == Verdict(Program, island)
           w == Verdict([cells |-> cells, failed |-> Unresolved(v)], island)
<1>1. /\ phase = "judge" /\ phase' = "next"
      /\ sealed' = [o \in Output |->
             IF o \notin island THEN sealed[o]
             ELSE IF o \in w.valid THEN cells[o]
             ELSE IF o \in w.missing THEN Withheld ELSE Unsaid]
      /\ failed' = failed \cup Unresolved(v)
      /\ settled' = settled \cup island /\ garbled' = {}
      /\ UNCHANGED <<lapsed, result>>
  BY DEF Seal, past
<1>2. island \cap settled = {} /\ settled \subseteq Output /\ island \subseteq Output
  BY DEF Seen, Typed, Standing, TypeOK
<1>3. \A o \in Errors(v) : o \in Unresolved(v) BY ErrorsAreNotValid DEF Unresolved
<1> HIDE DEF v, w
<1>4. ASSUME NEW o \in lapsed PROVE LapseStands(o)'
  <2>1. CASE o \in failed BY <1>1, <2>1 DEF LapseStands
  <2>2. CASE o \in Errors(v)
    <3>1. o \in failed' BY <1>1, <1>3, <2>2
    <3> QED BY <3>1 DEF LapseStands
  <2>3. CASE \E B \in Bundles : o \in B /\ B \subseteq settled /\ \A q \in B : ~Read(sealed[q])
    <3>1. PICK B \in Bundles : o \in B /\ B \subseteq settled /\ \A q \in B : ~Read(sealed[q])
      BY <2>3
    <3>2. B \subseteq settled' /\ \A q \in B : ~Read(sealed'[q]) BY <1>1, <1>2, <3>1
    <3> QED BY <3>1, <3>2 DEF LapseStands
  <2>4. CASE \E B \in Bundles : o \in B /\ SetAside(B)
    <3>1. PICK B \in Bundles : o \in B /\ B \subseteq island /\ \A q \in B : ~Read(cells[q])
      BY <2>4 DEF SetAside
    <3>2. B \subseteq settled' /\ \A q \in B : ~Read(sealed'[q])
      BY <1>1, <1>2, <3>1, UnreadCells
    <3> QED BY <3>1, <3>2 DEF LapseStands
  <2> QED BY <2>1, <2>2, <2>3, <2>4 DEF LapsesStand, LapseStands, v
<1> QED BY <1>1, <1>4 DEF LapsesStand

(* An answer that is ok has all that is required, nothing bound as failed, *)
(* and only what was read as sound.                                        *)
LEMMA FailuresShowInTheAnswer ==
  ASSUME Seen, LapsesStand, Execute
  PROVE  FailuresShow'
<1> DEFINE v == Verdict(Whole, Output)
<1>1. /\ phase = "next" /\ settled = Output
      /\ UNCHANGED <<required, lapsed>>
      /\ result'.status = "ok" => result'.outputs = v.valid /\ v.ready
  BY DEF Execute, plan, past
<1>2. /\ v.refused = {o \in Output \ Computed(Sound(Whole, Output)) : Read(sealed[o])}
                       \cup Conflicting(Whole, Computed(Sound(Whole, Output)))
                       \cup (Output \cap (failed \cup misplanned))
      /\ v.missing = (IF v.valid = {} THEN Output ELSE (required \cap Output) \cup v.refused)
                       \ v.valid
      /\ v.ready = (v.valid # {} /\ v.missing = {} /\ v.refused = {})
  BY VerdictsOnRow DEF Whole, Seen
<1>3. \A o \in v.valid : Read(sealed[o]) BY ValidIsSound DEF Whole, Seen
<1> HIDE DEF v
<1> SUFFICES ASSUME result'.status = "ok"
             PROVE  /\ required \subseteq v.valid
                    /\ \A o \in lapsed :
                         \E B \in Bundles : o \in B /\ B \cap (required \cup v.valid) = {}
  BY <1>1 DEF FailuresShow
<1>4. v.valid # {} /\ v.missing = {} /\ v.refused = {} BY <1>1, <1>2
<1>5. required \subseteq v.valid BY <1>2, <1>4 DEF Seen, Typed, TypeOK
<1>6. ASSUME NEW o \in lapsed
      PROVE  \E B \in Bundles : o \in B /\ B \cap (required \cup v.valid) = {}
  <2>1. o \notin failed BY <1>2, <1>4 DEF Seen, Typed, TypeOK
  <2>2. island = {} BY <1>1 DEF Seen, Typed, Standing
  <2>3. PICK B \in Bundles : o \in B /\ \A q \in B : ~Read(sealed[q])
    BY <2>1, <2>2 DEF LapsesStand, LapseStands, SetAside
  <2> QED BY <1>3, <1>5, <2>3
<1> QED BY <1>5, <1>6

(* The verdict stands while what it is about stands.                       *)
LEMMA VerdictsStand ==
  ASSUME UNCHANGED <<required, misplanned, island, shown, tie, cells>>
  PROVE  Verdict(Program, island)' = Verdict(Program, island)
<1> DEFINE c == Computed(Sound(Program, island))
           o == OffRow(Program, c)
           p == Unscattered(c, o)
           n == Conflicting(Program, p)
<1>1. Program' = Program BY DEF Program
<1>2. Sound(Program, island)' = Sound(Program, island) BY <1>1 DEF Sound
<1>3. c' = c BY <1>2 DEF Computed
<1> HIDE DEF c
<1>4. o' = o BY <1>1, <1>3 DEF OffRow, RowRead
<1> HIDE DEF o
<1>5. p' = p BY <1>3, <1>4 DEF Unscattered
<1> HIDE DEF p
<1>6. \A P : Conflicting(Program, P)' = Conflicting(Program, P)
  BY DEF Conflicting, Program
<1>7. n' = n BY <1>5, <1>6
<1> HIDE DEF n
<1> QED BY <1>1, <1>3, <1>4, <1>5, <1>7 DEF Verdict, c, o, p, n

Failing == LapsesStand /\ FailuresShow

LEMMA StepsKeepFailing == Seen /\ Failing /\ [Next]_vars => Failing'
<1> SUFFICES ASSUME Seen, Failing, [Next]_vars PROVE Failing'
  OBVIOUS
<1>1. ASSUME LapsesStand', phase' # "done" PROVE Failing'
  BY <1>1 DEF Failing, LapsesStand, FailuresShow, Unanswered
<1>2. CASE UNCHANGED vars
  <2>1. UNCHANGED <<required, misplanned, phase, settled, island, attempt, asked, cells,
                    garbled, shown, tie, sealed, failed, result, lapsed>>
    BY <1>2 DEF vars, plan, work, scene, past
  <2>2. Verdict(Program, island)' = Verdict(Program, island) BY <2>1, VerdictsStand
  <2>3. \A o : LapseStands(o)' = LapseStands(o)
    BY <2>1, <2>2 DEF LapseStands, SetAside, Errors
  <2>4. LapsesStand' BY <2>1, <2>3 DEF Failing, LapsesStand
  <2>5. FailuresShow' BY <2>1 DEF Failing, FailuresShow
  <2> QED BY <2>4, <2>5 DEF Failing
<1>3. ASSUME UNCHANGED <<lapsed, result, failed, garbled, misplanned>>,
             phase \in {"plan", "next"}, phase' \notin {"judge", "done"},
             cells' = cells, settled \subseteq settled',
             \A q \in settled : sealed'[q] = sealed[q],
             phase' = "ask" => island' \cap misplanned = {}
      PROVE  Failing'
  <2>1. island = {} /\ LapsesStand BY <1>3 DEF Failing, Seen, Typed, Standing
  <2>2. ASSUME NEW o \in lapsed PROVE LapseStands(o)'
    <3>1. CASE o \in failed BY <1>3, <3>1 DEF LapseStands
    <3>2. CASE o \notin failed
      <4>1. PICK B \in Bundles : o \in B /\ B \subseteq settled /\ \A q \in B : ~Read(sealed[q])
        BY <1>3, <2>1, <3>2 DEF LapsesStand, LapseStands, SetAside
      <4>2. B \subseteq settled' /\ \A q \in B : ~Read(sealed'[q]) BY <1>3, <4>1
      <4> QED BY <4>1, <4>2 DEF LapseStands
    <3> QED BY <3>1, <3>2
  <2>3. LapsesStand' BY <1>3, <2>1, <2>2 DEF LapsesStand
  <2> QED BY <1>3, <2>3, <1>1
<1>4. CASE Preflight
  BY <1>3, <1>4 DEF Preflight, plan, work, past
<1>5. CASE PassOver
  <2>1. NextIsland \cap settled = {}
    BY <1>5, NextIslandIsNew DEF PassOver, Seen, Typed, TypeOK, Standing
  <2> QED BY <1>3, <1>5, <2>1 DEF PassOver, plan, work, past, Seen, Typed, TypeOK
<1>6. CASE OpenIsland
  <2>1. NextIsland \cap misplanned = {} BY <1>6 DEF OpenIsland, Blocked
  <2> QED BY <1>3, <1>6, <2>1 DEF OpenIsland, plan, past
<1>7. ASSUME NEW said, Hear(said) PROVE Failing'
  BY <1>1, <1>7, LapsesAreHeard DEF Failing, Hear
<1>8. CASE Answered BY <1>7, <1>8, AnswersAreTyped DEF Seen
<1>9. CASE Failed BY <1>7, <1>9 DEF Failed
<1>10. CASE Refuse
  <2>1. /\ phase = "ask" /\ phase' = "refused"
        /\ UNCHANGED <<misplanned, settled, island, attempt, asked, cells, garbled, sealed,
                      failed, result, lapsed>>
    BY <1>10 DEF Refuse, plan, work, past
  <2>2. \A o : LapseStands(o) => LapseStands(o)' BY <2>1 DEF LapseStands, SetAside
  <2>3. LapsesStand' BY <2>1, <2>2 DEF Failing, LapsesStand
  <2> QED BY <1>1, <2>1, <2>3
<1>11. CASE Repair BY <1>1, <1>11, LapsesAreRepaired DEF Failing, Repair
<1>12. CASE Seal BY <1>1, <1>12, LapsesAreSealed DEF Failing, Seal
<1>13. CASE Execute
  <2>1. /\ phase = "next" /\ phase' = "done"
        /\ UNCHANGED <<misplanned, settled, island, garbled, cells, sealed, failed, lapsed>>
    BY <1>13 DEF Execute, plan, work, past
  <2>2. island = {} BY <2>1 DEF Seen, Typed, Standing
  <2>3. \A o : LapseStands(o) => LapseStands(o)' BY <2>1, <2>2 DEF LapseStands, SetAside
  <2>4. LapsesStand' BY <2>1, <2>3 DEF Failing, LapsesStand
  <2> QED BY <1>13, <2>4, FailuresShowInTheAnswer DEF Failing
<1> QED BY <1>2, <1>4, <1>5, <1>6, <1>8, <1>9, <1>10, <1>11, <1>12, <1>13 DEF Next

(* Whatever is answered, asked again or left unasked, an answer reported   *)
(* ok has all that is required and turned no failure into an omission.     *)
THEOREM FailuresAlwaysShow == Spec => []FailuresShow
<1>1. Init => Failing
  BY DEF Init, Failing, LapsesStand, FailuresShow, Unanswered
<1>2. Failing => FailuresShow BY DEF Failing
<1> QED BY SeenIsInvariant, StepsKeepFailing, <1>1, <1>2, PTL DEF Spec

-----------------------------------------------------------------------------
(* Readings that were accepted.                                            *)

(* What a repair left alone is still there, and as sound as it was.        *)
Held(o) ==
  /\ o \in island \ asked /\ attempt = (IF phase = "judge" THEN 2 ELSE 1)
  /\ cells[o] = kept[o] /\ kept[o].state = "sound" /\ o \notin misplanned
  /\ o \notin Derived => kept[o].candidate \in shown[o]

SurvivesSealed(o) ==
  /\ o \in settled
  /\ \/ kept[o] = sealed[o]
     \/ o \in failed
     \/ \E p \in Needs[o] : p \in settled /\ ~Read(sealed[p])

AcceptancesStand == \A o \in Output : kept[o] = Unsaid \/ Held(o) \/ SurvivesSealed(o)

LEMMA RepairsHoldWhatIsValid ==
  ASSUME Seen, AcceptancesStand, Repair
  PROVE  AcceptancesStand'
<1> DEFINE v == Verdict(Program, island)
           T == Targets(v)
           cohort == Cohort(T, Struck(v, T))
<1>1. /\ phase = "judge" /\ phase' = "ask" /\ attempt = 1
      /\ shown' = [o \in Output |-> IF o \in T THEN cohort[o] ELSE shown[o]]
      /\ asked' = T /\ cells' = Preserved(v, T)
      /\ kept' = [o \in Output |-> IF o \in v.valid \ T THEN cells[o] ELSE kept[o]]
      /\ UNCHANGED <<misplanned, settled, island, attempt, sealed, failed>>
  BY DEF Repair, MayRepair, plan
<1>2. \A o \in v.valid : /\ cells[o].state = "sound" /\ o \notin misplanned /\ o \in island
                         /\ o \notin Derived => cells[o].candidate \in shown[o]
  BY ValidIsSound DEF Program, Seen, Typed, TypeOK
<1>3. island \cap settled = {} BY DEF Seen, Typed, Standing
<1> HIDE DEF v, T, cohort
<1>4. ASSUME NEW o \in Output, o \in v.valid \ T PROVE Held(o)'
  <2>1. cells'[o] = cells[o] BY <1>1, <1>4 DEF Preserved
  <2> QED BY <1>1, <1>2, <1>4, <2>1 DEF Held
<1>5. ASSUME NEW o \in Output, o \notin v.valid \ T
      PROVE  kept'[o] = Unsaid \/ SurvivesSealed(o)'
  <2>1. kept'[o] = kept[o] BY <1>1, <1>5
  <2>2. kept[o] = Unsaid \/ SurvivesSealed(o) BY <1>1 DEF AcceptancesStand, Held
  <2> QED BY <1>1, <2>1, <2>2 DEF SurvivesSealed
<1> QED BY <1>4, <1>5 DEF AcceptancesStand

(* A reading that was held and is no longer valid is in error, or computes *)
(* from something that is withheld with it.                                *)
LEMMA HeldReadingsSurviveSealing ==
  ASSUME Seen, Seal, NEW o \in Output, Held(o)
  PROVE  SurvivesSealed(o)'
<1> DEFINE v == Verdict(Program, island)
           prog == [cells |-> cells, failed |-> Unresolved(v)]
           w == Verdict(prog, island)
           X == Sound(Program, island)
           Y == Sound(prog, island)
<1>1. /\ phase = "judge"
      /\ sealed' = [p \in Output |->
             IF p \notin island THEN sealed[p]
             ELSE IF p \in w.valid THEN cells[p]
             ELSE IF p \in w.missing THEN Withheld ELSE Unsaid]
      /\ failed' = failed \cup Unresolved(v)
      /\ settled' = settled \cup island /\ kept' = kept
  BY DEF Seal, past
<1>2. o \in island /\ island \subseteq Output /\ Closed(island)
  BY DEF Held, Seen, Typed, Standing, TypeOK
<1>3. /\ v.valid = Computed(X) \ Conflicting(Program, Computed(X))
      /\ v.refused = {p \in island \ Computed(X) : Read(cells[p])}
                       \cup Conflicting(Program, Computed(X))
                       \cup (island \cap misplanned)
  BY <1>2, VerdictsOnRow DEF Seen, Program
<1>4. w.valid = Computed(Y) \ Conflicting(prog, Computed(Y))
  BY <1>2, VerdictsOnRow DEF Seen
<1>5. Read(cells[o]) BY DEF Held, Read
<1>6. \A p \in v.refused \ v.valid : p \in failed' BY <1>1 DEF Unresolved, Errors
<1>7. Y \subseteq X BY DEF Sound, Program
<1>8. \A P, Q : P \subseteq Q => Conflicting(prog, P) \cap P \subseteq Conflicting(Program, Q)
  BY DEF Conflicting, Program
<1>9. ~(o \in failed') => o \in Y
  BY <1>1, <1>2 DEF Held, Sound
<1>10. Conflicting(prog, Computed(Y)) \subseteq Computed(Y) BY DEF Conflicting
<1> HIDE DEF v, w, prog, X, Y
<1>11. CASE o \in w.valid
  <2>1. sealed'[o] = kept'[o] BY <1>1, <1>2, <1>11 DEF Held
  <2> QED BY <1>1, <1>2, <2>1 DEF SurvivesSealed
<1>13. CASE o \in Conflicting(Program, Computed(X))
  <2>1. o \in v.refused /\ o \notin v.valid BY <1>3, <1>13
  <2> QED BY <1>1, <1>2, <1>6, <2>1 DEF SurvivesSealed
<1>14. CASE /\ o \notin w.valid /\ o \notin failed'
            /\ o \notin Conflicting(Program, Computed(X))
  <2>1. Computed(Y) \subseteq Computed(X) BY <1>7, ComputedIsMonotone
  <2>2. o \notin Computed(Y) BY <1>4, <1>8, <1>10, <1>14, <2>1
  <2>3. PICK p \in Needs[o] : p \notin Computed(Y)
    BY <1>9, <1>14, <2>2, ComputedIsClosed
  <2>4. p \in island
    <3>1. p \in Output BY CompileConstants
    <3> QED BY <1>2, <3>1 DEF Closed, Linked
  <2>5. p \notin w.valid BY <1>4, <2>3
  <2>6. ~Read(sealed'[p]) BY <1>1, <1>2, <2>4, <2>5, UnreadCells
  <2> QED BY <1>1, <1>2, <2>4, <2>6 DEF SurvivesSealed
<1>15. CASE o \in failed' BY <1>1, <1>2, <1>15 DEF SurvivesSealed
<1> QED BY <1>11, <1>13, <1>14, <1>15

(* What was sealed stays: the islands left behind are not sealed again.    *)
LEMMA SealedReadingsStay ==
  ASSUME NEW o, SurvivesSealed(o), kept'[o] = kept[o],
         settled \subseteq settled', failed \subseteq failed',
         \A p \in settled : sealed'[p] = sealed[p]
  PROVE  SurvivesSealed(o)'
BY DEF SurvivesSealed

LEMMA StepsKeepAcceptances == Seen /\ AcceptancesStand /\ [Next]_vars => AcceptancesStand'
<1> SUFFICES ASSUME Seen, AcceptancesStand, [Next]_vars PROVE AcceptancesStand'
  OBVIOUS
<1>1. CASE UNCHANGED vars
  <2>1. UNCHANGED <<misplanned, phase, settled, island, attempt, asked, cells, shown, sealed,
                    failed, kept>>
    BY <1>1 DEF vars, plan, work, scene, past
  <2> QED BY <2>1 DEF AcceptancesStand, Held, SurvivesSealed
<1>2. ASSUME phase \in {"plan", "next"}, kept' = kept, failed' = failed,
             settled \subseteq settled', \A p \in settled : sealed'[p] = sealed[p]
      PROVE  AcceptancesStand'
  <2>1. \A o \in Output : kept[o] = Unsaid \/ SurvivesSealed(o)
    BY <1>2 DEF AcceptancesStand, Held, Seen, Typed, Standing
  <2> QED BY <1>2, <2>1, SealedReadingsStay DEF AcceptancesStand
<1>3. CASE Preflight BY <1>2, <1>3 DEF Preflight, past
<1>4. CASE PassOver
  <2>1. NextIsland \cap settled = {}
    BY <1>4, NextIslandIsNew DEF PassOver, Seen, Typed, TypeOK, Standing
  <2> QED BY <1>2, <1>4, <2>1 DEF PassOver, past, Seen, Typed, TypeOK
<1>5. CASE OpenIsland BY <1>2, <1>5 DEF OpenIsland, past
<1>6. ASSUME NEW said, Hear(said) PROVE AcceptancesStand'
  <2>1. /\ phase = "ask" /\ phase' = "judge" /\ attempt' = attempt + 1
        /\ \A o \in Output \ asked : cells'[o] = cells[o]
        /\ UNCHANGED <<misplanned, settled, island, asked, shown, sealed, failed, kept>>
    BY <1>6 DEF Hear, plan, scene
  <2>2. \A o \in Output : Held(o) => Held(o)' BY <2>1 DEF Held
  <2>3. \A o \in Output : SurvivesSealed(o) => SurvivesSealed(o)' BY <2>1 DEF SurvivesSealed
  <2> QED BY <2>1, <2>2, <2>3 DEF AcceptancesStand
<1>7. CASE Answered BY <1>6, <1>7, AnswersAreTyped DEF Seen
<1>8. CASE Failed BY <1>6, <1>8 DEF Failed
<1>9. CASE Refuse
  BY <1>9 DEF Refuse, plan, work, scene, past, AcceptancesStand, Held, SurvivesSealed
<1>10. CASE Repair BY <1>10, RepairsHoldWhatIsValid
<1>11. CASE Seal
  <2>1. /\ kept' = kept /\ settled \subseteq settled' /\ failed \subseteq failed'
        /\ \A p \in settled : sealed'[p] = sealed[p]
    BY <1>11 DEF Seal, past, Seen, Typed, TypeOK, Standing
  <2> QED BY <1>11, <2>1, HeldReadingsSurviveSealing, SealedReadingsStay DEF AcceptancesStand
<1>12. CASE Execute BY <1>2, <1>12 DEF Execute, past
<1> QED BY <1>1, <1>3, <1>4, <1>5, <1>7, <1>8, <1>9, <1>10, <1>11, <1>12 DEF Next

(* A reading accepted beside a repair is in the merged program as it was,  *)
(* has failed, or is computed from something that is not there.            *)
THEOREM AcceptedReadingsAlwaysSurvive == Spec => []AcceptedReadingsSurvive
<1>1. Init => AcceptancesStand BY DEF Init, AcceptancesStand
<1>2. Seen /\ AcceptancesStand => AcceptedReadingsSurvive
  BY DEF Seen, Typed, Standing, AcceptancesStand, Held, SurvivesSealed, AcceptedReadingsSurvive
<1> QED BY SeenIsInvariant, StepsKeepAcceptances, <1>1, <1>2, PTL DEF Spec
=============================================================================
