---------------------------- MODULE ProgramCompile ----------------------------
(***************************************************************************)
(* Compilation of one query's semantic calculation program, from the       *)
(* planned outputs to the executed answer:                                 *)
(* _compile_semantic_calculation_program and                               *)
(* execute_semantic_calculation_program in src/agent.                      *)
(*                                                                         *)
(* The planned outputs fall into islands, compiled one after another.  The *)
(* model (a provider's) answers for every output of an island; the code    *)
(* validates the answer, may ask once more for the outputs it has to       *)
(* repair, seals what is valid and merges the islands into the program the *)
(* executor runs.  What the provider answers is arbitrary.                 *)
(*                                                                         *)
(* An output the provider declares missing or ambiguous is "withheld": the *)
(* code keeps two lists and treats them alike.                             *)
(***************************************************************************)
EXTENDS Naturals, Sequences, FiniteSets, Functions

CONSTANTS
  Plan,          \* the planned outputs (answer obligations), in order
  Needs,         \* Needs[o]: outputs a derived output computes from
  Bundles,       \* pairs of outputs about one subject, to be read off one row
  Relations,     \* sets of outputs whose sources must share a scope
  Candidate,     \* source facts; an output may use one of a source bundle
  Ranked,        \* Ranked[o]: the candidates applicable to o, best first
  Row,           \* Row[c]: the source bundle of c, the table row it is read off
  Scope,         \* Scope[c]: the consolidation scope of c
  Width,         \* candidates exposed for an output by its own ranking
  Limit,         \* candidates a query may expose in all (96 in the code)
  MaxIslands,    \* 8 in the code
  Requireds,     \* the sets of outputs a plan may require
  Misplans,      \* the sets of outputs a plan may get wrong
  None           \* no candidate, no row

Output == Range(Plan)
Derived == {o \in Output : Needs[o] # {}}
Cited == Candidate \cup {None}

(* What stands for an output.  A reading is sound, wrong in what it says,   *)
(* or picks a candidate that does not fit; without a reading the output is *)
(* withheld, or not mentioned.                                             *)
Reading == [candidate : Cited, state : {"sound", "wrong"}]
             \cup [candidate : Candidate, state : {"misfit"}]
Cell == Reading \cup [candidate : {None}, state : {"withheld", "unsaid"}]
Withheld == [candidate |-> None, state |-> "withheld"]
Unsaid == [candidate |-> None, state |-> "unsaid"]
Garbled == [candidate |-> None, state |-> "garbled"]
Read(c) == c.state \in {"sound", "wrong", "misfit"}

ASSUME CompileConstants ==
  /\ Plan \in Seq(Output) /\ \A i, j \in DOMAIN Plan : Plan[i] = Plan[j] => i = j
  /\ IsFiniteSet(Candidate)
  /\ Needs \in [Output -> SUBSET Output]
  /\ Bundles \subseteq SUBSET (Output \ Derived)
  /\ \A B \in Bundles : Cardinality(B) = 2
  /\ \A B, C \in Bundles : B # C => B \cap C = {}
  /\ Relations \subseteq SUBSET Output
  /\ Ranked \in [Output -> Seq(Candidate)]
  /\ Width \in Nat /\ Limit \in Nat /\ MaxIslands \in Nat
  /\ Requireds \subseteq SUBSET Output /\ Requireds # {}
  /\ Misplans \subseteq SUBSET Output /\ Misplans # {}
  /\ None \notin Candidate /\ \A c \in Candidate : Row[c] # None
  /\ \A o \in Output : \A i, j \in DOMAIN Ranked[o] :
       Row[Ranked[o][i]] = Row[Ranked[o][j]] => i = j

VARIABLES
  required,    \* outputs the plan requires
  misplanned,  \* outputs whose requirements no program can meet
  phase,       \* "plan", "next", "ask", "judge", "answer", "done", "refused"
  settled,     \* outputs of the islands left behind
  island,      \* outputs of the island being compiled
  attempt,     \* answers the provider gave for this island
  asked,       \* outputs of this island the last request was about
  cells,       \* this island's program: what stands for each output
  garbled,     \* outputs whose part of the last answer could not be read
  shown,       \* shown[o]: candidates the program may select for o
  tie,         \* tie[B]: the row the outputs of bundle B must come from
  struck,      \* struck[o]: candidates refused for o, not exposed for it again
  sealed,      \* sealed[o]: what the merged program says of o
  failed,      \* outputs bound as failed into the merged program
  calls,       \* requests made to the provider
  result,      \* the executed answer
  \* history
  lapsed,      \* outputs in error when the provider was last asked for them
  kept         \* kept[o]: what a first answer said of o, if it was accepted

plan  == <<required, misplanned>>
work  == <<island, attempt, asked, cells, garbled>>
scene == <<shown, tie, struck>>
past  == <<lapsed, kept>>
vars  == <<plan, phase, settled, work, scene, sealed, failed, calls, result, past>>

Unanswered == [status |-> "none", outputs |-> {}]

TypeOK ==
  /\ required \subseteq Output /\ misplanned \subseteq Output
  /\ phase \in {"plan", "next", "ask", "judge", "answer", "done", "refused"}
  /\ settled \subseteq Output /\ island \subseteq Output
  /\ attempt \in 0..2 /\ asked \subseteq island
  /\ cells \in [Output -> Cell] /\ garbled \subseteq island
  /\ shown \in [Output -> SUBSET Candidate]
  /\ DOMAIN tie = Bundles
  /\ sealed \in [Output -> Cell] /\ failed \subseteq Output
  /\ calls \in Nat
  /\ result \in [status : {"none", "ok", "partial", "incomplete"}, outputs : SUBSET Output]
  /\ lapsed \subseteq Output /\ kept \in [Output -> Cell]
  /\ struck \in [Output -> SUBSET Candidate]

-----------------------------------------------------------------------------
(* Islands: outputs tied by a dependency, a relation or a bundle.          *)

Linked(o, p) ==
  \/ o \in Needs[p] \/ p \in Needs[o]
  \/ \E S \in Bundles \cup Relations : {o, p} \subseteq S

Island(o) ==
  {p \in Output : \A S \in SUBSET Output :
     (o \in S /\ \A q \in S, r \in Output : Linked(q, r) => r \in S) => p \in S}

IslandOf == [o \in Output |-> Island(o)]
Islands == {IslandOf[o] : o \in Output}

Cyclic(S) == \E C \in SUBSET S : C # {} /\ \A o \in C : Needs[o] \cap C # {}

NextIsland ==
  LET first == CHOOSE i \in DOMAIN Plan :
                 Plan[i] \notin settled /\ \A j \in 1..(i - 1) : Plan[j] \in settled
  IN  IslandOf[Plan[first]]

-----------------------------------------------------------------------------
(* What a request exposes: the cohorts of the outputs T, without the       *)
(* candidates in out.                                                      *)

Best(o, out) ==
  LET left == {i \in DOMAIN Ranked[o] : Ranked[o][i] \notin out[o]}
  IN  {Ranked[o][i] : i \in {i \in left : Cardinality({j \in left : j < i}) < Width}}

Rank(o, c) == CHOOSE i \in DOMAIN Ranked[o] : Ranked[o][i] = c

(* The rows every output of B has a candidate in, and the one whose best   *)
(* candidates rank highest together.                                       *)
CommonRows(B, out) ==
  {r \in {Row[c] : c \in Candidate} : \A o \in B : \E c \in Best(o, out) : Row[c] = r}

RankInRow(o, r, out) ==
  CHOOSE i \in DOMAIN Ranked[o] :
    /\ Ranked[o][i] \in Best(o, out) /\ Row[Ranked[o][i]] = r
    /\ \A c \in Best(o, out) : Row[c] = r => i <= Rank(o, c)

Behind(B, r, out) ==   \* the sum of the ranks, B having two members
  LET o == CHOOSE o \in B : TRUE
      p == CHOOSE p \in B : p # o
  IN  RankInRow(o, r, out) + RankInRow(p, r, out)

TieOf(B, T, out) ==
  IF B \subseteq T /\ CommonRows(B, out) # {}
  THEN CHOOSE r \in CommonRows(B, out) :
         \A s \in CommonRows(B, out) : Behind(B, r, out) <= Behind(B, s, out)
  ELSE None

Ties(T, out) == [B \in Bundles |-> TieOf(B, T, out)]

AllowedBy(ties, o, c) == \A B \in Bundles : o \in B => ties[B] \in {None, Row[c]}

(* Ranking decides what is exposed; any output may then select an exposed  *)
(* candidate that applies to it.                                           *)
Cohort(T, out) ==
  LET ties == Ties(T, out)
      exposed == UNION {{c \in Best(o, out) : AllowedBy(ties, o, c)} : o \in T}
  IN  [o \in T |-> {c \in exposed : /\ c \in Range(Ranked[o])
                                    /\ c \notin out[o]
                                    /\ AllowedBy(ties, o, c)}]

Nothing == [o \in Output |-> {}]
Exposed(s) == UNION {s[o] : o \in DOMAIN s}
TooMany(C) == Cardinality(C) > Limit

\* A pair of outputs is a bundle because some row serves both.
ASSUME BundlesHaveRows == \A B \in Bundles : CommonRows(B, Nothing) # {}

-----------------------------------------------------------------------------
(* Validation of the outputs S of a program: [cells, failed].              *)

Program == [cells |-> cells, failed |-> {}]

RowRead(reading) == Row[reading.candidate]

Sound(prog, S) ==
  {o \in S : /\ prog.cells[o].state = "sound"
             /\ o \notin prog.failed \cup misplanned
             /\ o \notin Derived => prog.cells[o].candidate \in shown[o]}

(* Direct readings, and the expressions that resolve from them step by step. *)
Computed(sound) ==
  {o \in sound : \A K \in SUBSET sound :
     (\A p \in sound : Needs[p] \subseteq K => p \in K) => o \in K}

(* Members of a bundle read off another row than the bundle's.             *)
OffRow(prog, computed) ==
  {o \in computed : \E B \in Bundles : /\ o \in B /\ B \subseteq computed
                                      /\ tie[B] \notin {None, RowRead(prog.cells[o])}}

Unscattered(computed, offRow) ==
  {o \in computed : \A B \in Bundles : o \in B => B \cap offRow = {}}

Conflicting(prog, produced) ==
  {o \in produced : \E R \in Relations :
     /\ o \in R /\ R \subseteq produced
     /\ Cardinality({Scope[prog.cells[p].candidate] : p \in R \ Derived}) > 1}

(* What the validator says of a program.  An optional output may be left   *)
(* out, unless what was said of it is wrong or nothing at all is valid.    *)
Verdict(prog, S) ==
  LET computed == Computed(Sound(prog, S))
      offRow == OffRow(prog, computed)
      produced == Unscattered(computed, offRow)
      conflicting == Conflicting(prog, produced)
      valid == produced \ conflicting
      refused == {o \in S \ computed : Read(prog.cells[o])}
                   \cup offRow \cup conflicting \cup (S \cap (prog.failed \cup misplanned))
      missing == (IF valid = {} THEN S ELSE (required \cap S) \cup refused) \ valid
  IN  [valid |-> valid, refused |-> refused, offRow |-> offRow, missing |-> missing,
       ready |-> valid # {} /\ missing = {} /\ refused = {}]

-----------------------------------------------------------------------------
(* Repair: which outputs a second request is about, given the verdict v on *)
(* the first answer.                                                       *)

Errors(v) == v.refused \cup garbled

Peers(S) == S \cup UNION {B \in Bundles : tie[B] # None /\ B \cap S # {}}

(* What the provider withheld, and is not an error, stays withheld.  The   *)
(* code recognises it only where every error names an output of the        *)
(* island; here each does, an error of another needs a malformed plan or   *)
(* catalog.                                                                *)
Abstained(v) == {o \in v.missing \ Errors(v) : cells[o] = Withheld}

\* Mutant: the bundle of an abstention may be reopened.
Targets_ReopeningPeers(v) == Peers((v.missing \cup Errors(v)) \ Abstained(v))

\* Mutant: the members of a bundle are repaired one by one.
Targets_OneByOne(v) ==
  (v.missing \cup Errors(v)) \ Peers(Abstained(v) \cup (misplanned \cap island))

(* Members of a bundle are repaired together; one that abstains, or whose  *)
(* plan is wrong, keeps the others from being reopened.                    *)
Targets(v) ==
  Peers((v.missing \cup Errors(v)) \ Peers(Abstained(v) \cup (misplanned \cap island)))

(* The candidates a repair may not choose again.                           *)
Struck(v, T) ==
  [o \in Output |-> IF o \in T /\ (cells[o].state = "misfit" \/ o \in v.offRow)
                   THEN {cells[o].candidate} ELSE {}]

\* Mutant: a repair starts from nothing.
Preserved_Nothing(v, T) == [o \in Output |-> Unsaid]

(* What a repair leaves alone: the rest of the program as it was accepted. *)
Preserved(v, T) ==
  [o \in Output |-> IF o \in v.valid \ T THEN cells[o]
                   ELSE IF o \in v.missing \ T THEN Withheld
                   ELSE Unsaid]

\* Mutant: other islands count with what they exposed at first.
AfterRepair_Initially(T, cohort) ==
  Exposed(cohort) \cup UNION {shown[o] : o \in island \ T}
                  \cup UNION {Cohort(Output, Nothing)[o] : o \in Output \ island}

(* All that the query exposes once the repair is shown its candidates.     *)
AfterRepair(T, cohort) == Exposed(cohort) \cup UNION {shown[o] : o \in Output \ T}

(* Whether to ask again: once, if there is something to repair and what    *)
(* the repair has to be shown fits beside all else.                        *)
MayRepair(v) ==
  /\ attempt = 1
  /\ ~v.ready \/ garbled # {}
  /\ Targets(v) # {}
  /\ ~TooMany(AfterRepair(Targets(v), Cohort(Targets(v), Struck(v, Targets(v)))))

-----------------------------------------------------------------------------
Init ==
  /\ required \in Requireds /\ misplanned \in Misplans
  /\ phase = "plan"
  /\ settled = {} /\ island = {} /\ attempt = 0 /\ asked = {}
  /\ cells = [o \in Output |-> Unsaid] /\ garbled = {}
  /\ shown = Nothing /\ tie = [B \in Bundles |-> None] /\ struck = Nothing
  /\ sealed = [o \in Output |-> Unsaid] /\ failed = {}
  /\ calls = 0 /\ result = Unanswered
  /\ lapsed = {} /\ kept = [o \in Output |-> Unsaid]

(* Preflight: the cohorts of the whole plan, checked against the limits.   *)
(* A query that exceeds them is compiled without a request, like an island *)
(* whose requirements are wrong or circular.                               *)
Preflight ==
  /\ phase = "plan"
  /\ phase' = "next"
  /\ shown' = Cohort(Output, Nothing)
  /\ tie' = Ties(Output, Nothing)
  /\ UNCHANGED <<plan, settled, work, struck, sealed, failed, calls, result, past>>

Halted ==
  \/ Cardinality(Islands) > MaxIslands
  \/ TooMany(Exposed(Cohort(Output, Nothing)))

Blocked(S) == Halted \/ Cyclic(S) \/ S \cap misplanned # {}

(* The island is left without a request: nothing of it is there, or the    *)
(* plan forbids to ask.                                                    *)
PassOver ==
  /\ phase = "next" /\ settled # Output
  /\ \/ Blocked(NextIsland)
     \/ Exposed(Cohort(NextIsland, Nothing)) = {}
  /\ settled' = settled \cup NextIsland
  /\ sealed' = [o \in Output |-> IF o \in NextIsland THEN Withheld ELSE sealed[o]]
  /\ UNCHANGED <<plan, phase, work, scene, failed, calls, result, past>>

OpenIsland ==
  /\ phase = "next" /\ settled # Output
  /\ ~Blocked(NextIsland)
  /\ LET cohort == Cohort(NextIsland, Nothing)
     IN  /\ Exposed(cohort) # {}
         /\ shown' = [o \in Output |-> IF o \in NextIsland THEN cohort[o] ELSE shown[o]]
  /\ island' = NextIsland /\ asked' = NextIsland
  /\ attempt' = 0
  /\ phase' = "ask"
  /\ UNCHANGED <<plan, settled, cells, garbled, tie, struck, sealed, failed, calls,
                 result, past>>

(* What may be said of a direct output, of a derived one, and the reading  *)
(* that cannot be lowered.                                                 *)
Direct == [candidate : Exposed([o \in asked |-> shown[o]]), state : {"sound", "wrong", "misfit"}]
            \cup {Withheld, Garbled}
Expression == [candidate : {None}, state : {"sound", "wrong", "withheld", "garbled"}]

Hear(said) ==
  /\ phase = "ask"
  /\ attempt' = attempt + 1 /\ calls' = calls + 1
  /\ cells' = [o \in Output |-> IF o \notin asked THEN cells[o]
                               ELSE IF said[o] = Garbled THEN Withheld ELSE said[o]]
  /\ garbled' = {o \in asked : said[o] = Garbled}
  /\ phase' = "judge"
  /\ UNCHANGED <<plan, settled, island, asked, scene, sealed, failed, result, kept>>
  /\ lapsed' = lapsed \cup (asked \cap Errors(Verdict(Program, island))')

(* The provider answers.  A part that cannot be lowered is an error and    *)
(* stands as missing.                                                      *)
Answered ==
  \E said \in [asked \ Derived -> Direct], formulas \in [asked \cap Derived -> Expression] :
    /\ \A o \in asked \ Derived : Read(said[o]) => said[o].candidate \in shown[o]
    /\ Hear([o \in asked |-> IF o \in Derived THEN formulas[o] ELSE said[o]])

(* The request, or its answer as a whole, fails: every part of it is lost. *)
Failed == Hear([o \in asked |-> Garbled])

(* A budget or authorization stop ends the query: ProviderAdmissionError.  *)
Refuse ==
  /\ phase = "ask"
  /\ phase' = "refused"
  /\ UNCHANGED <<plan, settled, work, scene, sealed, failed, calls, result, past>>

Repair ==
  /\ phase = "judge"
  /\ LET v == Verdict(Program, island)
         T == Targets(v)
         struckNow == Struck(v, T)
         cohort == Cohort(T, struckNow)
     IN  /\ MayRepair(v)
         /\ shown' = [o \in Output |-> IF o \in T THEN cohort[o] ELSE shown[o]]
         /\ tie' = [B \in Bundles |-> IF B \cap T = {} THEN tie[B] ELSE TieOf(B, T, struckNow)]
         /\ struck' = [o \in Output |-> struck[o] \cup struckNow[o]]
         /\ asked' = T
         /\ cells' = Preserved(v, T) /\ garbled' = {}
         /\ kept' = [o \in Output |-> IF o \in v.valid \ T THEN cells[o] ELSE kept[o]]
         /\ lapsed' = lapsed \ T
  /\ phase' = "ask"
  /\ UNCHANGED <<plan, settled, island, attempt, sealed, failed, calls, result>>

\* Mutant: the failures are not bound into the program.
Unresolved_Forgotten(v) == {}

(* What is in error and not valid is bound into the program as failed, so  *)
(* that leaving it out does not turn a failure into success.               *)
Unresolved(v) == Errors(v) \ v.valid

Seal ==
  /\ phase = "judge"
  /\ LET v == Verdict(Program, island)
         w == Verdict([cells |-> cells, failed |-> Unresolved(v)], island)
     IN  /\ ~MayRepair(v)
         /\ sealed' = [o \in Output |->
               IF o \notin island THEN sealed[o]
               ELSE IF o \in w.valid THEN cells[o]
               ELSE IF o \in w.missing THEN Withheld ELSE Unsaid]
         /\ failed' = failed \cup Unresolved(v)
  /\ settled' = settled \cup island
  /\ phase' = "next"
  /\ island' = {} /\ asked' = {} /\ attempt' = 0
  /\ cells' = [o \in Output |-> Unsaid] /\ garbled' = {}
  /\ UNCHANGED <<plan, scene, calls, result, past>>

Whole == [cells |-> sealed, failed |-> failed]

(* The merged program is validated and executed: expressions in the order  *)
(* they resolve, one that has no value taking those above with it.         *)
Run(valid, undefined) == Computed(valid \ undefined)

Execute ==
  /\ phase = "next" /\ settled = Output
  /\ LET v == Verdict(Whole, Output)
     IN  \E undefined \in SUBSET (v.valid \cap Derived) :
           LET outs == Run(v.valid, undefined)
           IN  result' = [outputs |-> outs,
                          status |-> IF outs = {} THEN "incomplete"
                                     ELSE IF outs = v.valid /\ v.ready THEN "ok"
                                     ELSE "partial"]
  /\ phase' = "done"
  /\ UNCHANGED <<plan, settled, work, scene, sealed, failed, calls, past>>

Next == Preflight \/ PassOver \/ OpenIsland \/ Answered \/ Failed \/ Refuse
          \/ Repair \/ Seal \/ Execute

Spec == Init /\ [][Next]_vars

-----------------------------------------------------------------------------
(* An answer reported ok hides no failure: all that the plan requires is   *)
(* in it, and an output that was wrong, unreadable or unanswered when the  *)
(* provider was last asked for it was not turned into an omission.  The    *)
(* exception is one that is not asked again because its whole bundle is    *)
(* optional and withheld: a repair of other outputs drops its error.       *)
FailuresShow ==
  result.status = "ok" =>
    /\ required \subseteq result.outputs
    /\ \A o \in lapsed : \E B \in Bundles : o \in B /\ B \cap (required \cup result.outputs) = {}

(* Outputs of a bundle are read off one row, over repairs too, unless what *)
(* the repair may choose from has no row in common.                        *)
BundlesShareARow ==
  \A B \in Bundles :
    (B \subseteq result.outputs /\ CommonRows(B, struck) # {}) =>
       \A o, p \in B : RowRead(sealed[o]) = RowRead(sealed[p])

(* Over every island and every repair, the query exposes no more           *)
(* candidates than its limit, though each request is made for one island   *)
(* and sees its own candidates only.                                       *)
ExposureIsBounded == calls > 0 => ~TooMany(Exposed(shown))

(* A repair does not touch what was accepted beside it: it is in the       *)
(* merged program as it was, unless the repair made it wrong - by what it  *)
(* is computed from, or by a relation it shares - and then it is known to  *)
(* have failed.                                                            *)
AcceptedReadingsSurvive ==
  phase = "done" =>
    \A o \in Output : \/ kept[o] \in {Unsaid, sealed[o]}
                       \/ o \in failed
                       \/ \E p \in Needs[o] : ~Read(sealed[p])

(* An abstention on a required output is final: neither it nor its bundle  *)
(* is asked again.                                                         *)
RequiredAbstentionsStayClosed ==
  [][Repair => \A o \in island \cap required :
        (cells[o] = Withheld /\ o \notin garbled) => Peers({o}) \cap asked' = {}]_vars

(* The docstring of _semantic_retry_target_ids, for any output: a repair   *)
(* reopens no explicit valid abstention.                                   *)
AbstentionsStayClosed ==
  [][Repair => \A o \in island :
        (cells[o] = Withheld /\ o \notin garbled) => o \notin asked']_vars
=============================================================================
