------------------------- MODULE ProviderBudgetProofs -------------------------
(***************************************************************************)
(* Theorems about the provider budget, for any set of requests, any limits *)
(* and any prices.  The cap needs one fact about the policy that the code  *)
(* does not check: long-context rates are not below the ordinary ones.     *)
(* That the books balance needs nothing of the prices: each step moves one *)
(* record from a sum to the other.                                         *)
(***************************************************************************)
EXTENDS ProviderBudget, FiniteSetTheorems, WellFoundedInduction, TLAPS

RatesRise ==
  \A k \in Kinds : /\ Rates[k].input <= Rates[k].longInput
                   /\ Rates[k].output <= Rates[k].longOutput

(* A price is a natural number. *)
LEMMA CostIsNat ==
  ASSUME NEW k \in Kinds, NEW i \in Nat, NEW o \in Nat
  PROVE  Cost(k, i, o) \in Nat
<1> DEFINE ri == IF i > LongInput THEN Rates[k].longInput ELSE Rates[k].input
           ro == IF i > LongInput THEN Rates[k].longOutput ELSE Rates[k].output
<1>1. ri \in Nat /\ ro \in Nat BY BudgetConstants
<1>2. Cost(k, i, o) = i * ri + o * ro BY DEF Cost
<1> HIDE DEF ri, ro
<1>3. i * ri \in Nat /\ o * ro \in Nat BY <1>1
<1> QED BY <1>2, <1>3

(* Products of naturals grow with both factors. *)
LEMMA TimesMonotone ==
  ASSUME NEW a \in Nat, NEW b \in Nat, NEW x \in Nat, NEW y \in Nat,
         a <= b, x <= y
  PROVE  a * x <= b * y
<1>1. a * x <= b * x
  <2>1. b * x = a * x + (b - a) * x OBVIOUS
  <2>2. (b - a) * x \in Nat OBVIOUS
  <2> QED BY <2>1, <2>2
<1>2. b * x <= b * y
  <2>1. b * y = b * x + b * (y - x) OBVIOUS
  <2>2. b * (y - x) \in Nat OBVIOUS
  <2> QED BY <2>1, <2>2
<1> QED BY <1>1, <1>2

(* Usage within the reserved tokens costs no more than the reservation.    *)
LEMMA CostIsMonotone ==
  ASSUME RatesRise, NEW k \in Kinds,
         NEW i \in Nat, NEW o \in Nat, NEW bi \in Nat, NEW bo \in Nat,
         i <= bi, o <= bo
  PROVE  Cost(k, i, o) <= Cost(k, bi, bo)
<1> DEFINE In(n)  == IF n > LongInput THEN Rates[k].longInput ELSE Rates[k].input
           Out(n) == IF n > LongInput THEN Rates[k].longOutput ELSE Rates[k].output
<1>1. /\ In(i) \in Nat /\ In(bi) \in Nat /\ Out(i) \in Nat /\ Out(bi) \in Nat
      /\ In(i) <= In(bi) /\ Out(i) <= Out(bi)
  <2>1. /\ Rates[k].input \in Nat /\ Rates[k].longInput \in Nat
        /\ Rates[k].output \in Nat /\ Rates[k].longOutput \in Nat
        /\ LongInput \in Nat
    BY BudgetConstants
  <2>2. Rates[k].input <= Rates[k].longInput /\ Rates[k].output <= Rates[k].longOutput
    BY DEF RatesRise
  <2> QED BY <2>1, <2>2
<1>2. /\ Cost(k, i, o) = i * In(i) + o * Out(i)
      /\ Cost(k, bi, bo) = bi * In(bi) + bo * Out(bi)
  BY DEF Cost
<1> HIDE DEF In, Out
<1>3. i * In(i) <= bi * In(bi) /\ o * Out(i) <= bo * Out(bi)
  BY <1>1, TimesMonotone
<1>4. /\ i * In(i) \in Nat /\ bi * In(bi) \in Nat
      /\ o * Out(i) \in Nat /\ bo * Out(bi) \in Nat
  BY <1>1
<1> QED BY <1>2, <1>3, <1>4

-----------------------------------------------------------------------------
USE DEF money

(* Every variable keeps its type; the reservations quoted are prices.      *)
LEMMA QuotesAreNat ==
  ASSUME TypeOK, NEW r \in Request
  PROVE  /\ Bound(r) \in Nat /\ OutputBound[r] \in Nat /\ Kind[r] \in Kinds
         /\ Cost(Kind[r], Bound(r), OutputBound[r]) \in Nat
         /\ Cost(Kind[r], 0, OutputBound[r]) \in Nat
         /\ CountAllowance[Kind[r]] \in Nat
<1>1. Bound(r) \in Nat /\ OutputBound[r] \in Nat /\ Kind[r] \in Kinds
  BY BudgetConstants DEF Bound, TypeOK
<1>2. CountAllowance[Kind[r]] \in Nat BY <1>1, BudgetConstants
<1> QED BY <1>1, <1>2, CostIsNat

(* What a denial can say. *)
LEMMA DenialsAreCodes ==
  ASSUME TypeOK, NEW r \in Request
  PROVE  /\ \A n : Denial(r, n) \in StopCodes \cup {"none"}
         /\ CountDenial(r) \in StopCodes \cup {"none"}
         /\ \A c \in StopCodes : FirstCause(c) \in StopCodes
<1>1. \A n : Denial(r, n) \in StopCodes \cup {"none"}
  BY DEF Denial, TypeOK, StopCodes
<1>2. CountDenial(r) \in StopCodes \cup {"none"}
  BY <1>1 DEF CountDenial, StopCodes
<1>3. \A c \in StopCodes : FirstCause(c) \in StopCodes
  BY DEF FirstCause, TypeOK
<1> QED BY <1>1, <1>2, <1>3

(* The lock and phase part of every refusal. *)
LEMMA RefusalIsTyped ==
  ASSUME TypeOK, NEW r \in Request, NEW c \in StopCodes, Refuse(r, c)
  PROVE  TypeOK'
<1>1. FirstCause(c) \in StopCodes BY DenialsAreCodes
<1> QED BY <1>1 DEF TypeOK, Refuse, Becomes, Released, Phases, Ended

(* Types are preserved by every step. *)
LEMMA TypesArePreserved == TypeOK /\ [Next]_vars => TypeOK'
<1> SUFFICES ASSUME TypeOK, [Next]_vars PROVE TypeOK'
  OBVIOUS
<1> USE BudgetConstants
<1>1. CASE UNCHANGED vars BY <1>1 DEF TypeOK, vars
<1>2. ASSUME NEW r \in Request, Step(r) PROVE TypeOK'
  <2>0. /\ Cost(Kind[r], Bound(r), OutputBound[r]) \in Nat
        /\ CountAllowance[Kind[r]] \in Nat /\ Kind[r] \in Kinds
    BY QuotesAreNat
  <2>1. CASE TurnAway(r) BY <2>1 DEF TypeOK, TurnAway, Becomes, Phases, Ended
  <2>2. CASE RejectLocally(r)
    <3>1. stop' \in StopCodes \cup {"open"}
      BY <2>2 DEF RejectLocally, FirstCause, TypeOK, StopCodes
    <3> QED BY <2>2, <3>1 DEF TypeOK, RejectLocally, Becomes, Phases, Ended
  <2>3. CASE DenyCount(r)
    BY <2>3, DenialsAreCodes, RefusalIsTyped DEF DenyCount
  <2>4. CASE BeginCount(r)
    BY <2>0, <2>4 DEF TypeOK, BeginCount, Becomes, Phases, Taken
  <2>5. CASE CountFails(r)
    BY <2>5, RefusalIsTyped DEF CountFails, StopCodes
  <2>6. CASE CountTooLarge(r)
    BY <2>6, RefusalIsTyped DEF CountTooLarge, StopCodes
  <2>7. ASSUME NEW tokens \in Tokens, CountArrives(r, tokens) PROVE TypeOK'
    BY <2>7 DEF TypeOK, CountArrives, Becomes, Phases
  <2>8. CASE Deny(r)
    BY <2>8, DenialsAreCodes, RefusalIsTyped DEF Deny
  <2>9. CASE Admit(r)
    <3>1. reserve' \in [Request -> Nat] /\ reserve'[r] \in Nat
      BY <2>0, <2>9 DEF TypeOK, Admit
    <3> QED BY <2>9, <3>1 DEF TypeOK, Admit, Becomes, Phases, InFlight, Taken
  <2>10. CASE Transmit(r)
    BY <2>10 DEF TypeOK, Transmit, Becomes, Phases, InFlight
  <2>11. CASE Receive(r)
    BY <2>11 DEF TypeOK, Receive, Becomes, Phases, InFlight, Released
  <2>12. CASE Fail(r)
    <3>1. stop' \in StopCodes \cup {"open"}
      BY <2>12 DEF Fail, FirstCause, TypeOK, StopCodes
    <3> QED
      BY <2>12, <3>1
         DEF TypeOK, Fail, Becomes, Phases, Ended, Released, KeptOnFailure
  <2>13. ASSUME NEW input \in Tokens, NEW output \in Tokens,
                Complete(r, input, output)
         PROVE  TypeOK'
    <3>1. Cost(Kind[r], input, output) \in Nat BY <2>0, CostIsNat
    <3>2. stop' \in StopCodes \cup {"open"}
      BY <2>13 DEF Complete, FirstCause, TypeOK, StopCodes
    <3>3. cost' \in [Request -> Nat] /\ cost'[r] \in Nat
      BY <2>13, <3>1 DEF Complete, TypeOK
    <3>4. phase' \in [Request -> Phases]
      BY <2>13 DEF Complete, TypeOK, Becomes, Phases, Ended
    <3> QED BY <2>13, <3>2, <3>3, <3>4 DEF TypeOK, Complete
  <2>14. CASE Deliver(r)
    BY <2>14 DEF TypeOK, Deliver, Becomes, Phases, Ended, Released, Delivered
  <2>15. CASE GenerateFails(r)
    <3>1. stop' \in StopCodes \cup {"open"}
      BY <2>15 DEF GenerateFails, FirstCause, TypeOK, StopCodes
    <3> QED BY <2>15, <3>1 DEF TypeOK, GenerateFails, Becomes, Phases, Ended
  <2> QED
    BY <1>2, <2>1, <2>2, <2>3, <2>4, <2>5, <2>6, <2>7, <2>8, <2>9, <2>10,
       <2>11, <2>12, <2>13, <2>14, <2>15 DEF Step
<1> QED BY <1>1, <1>2 DEF Next

(* Every reachable state of the budget is well typed. *)
THEOREM BudgetTypesHold == Spec => []TypeOK
<1>1. Init => TypeOK
  BY BudgetConstants DEF Init, TypeOK, Phases
<1> QED BY <1>1, TypesArePreserved, PTL DEF Spec

-----------------------------------------------------------------------------
(* The cap.  A request in flight holds exactly what it was quoted, so that *)
(* settling it within its bounds never raises the committed total.         *)
ReservesQuoted ==
  \A r \in Request :
    phase[r] \in InFlight => reserve[r] = Cost(Kind[r], Bound(r), OutputBound[r])

CapInv == TypeOK /\ ReservesQuoted /\ WithinCap

(* Only CountArrives changes a bound, and only before admission.           *)
LEMMA ReservesStayQuoted == CapInv /\ [Next]_vars => ReservesQuoted'
<1> SUFFICES ASSUME CapInv, [Next]_vars, NEW x \in Request,
                    phase'[x] \in InFlight
             PROVE  reserve'[x] = Cost(Kind[x], Bound(x)', OutputBound[x])
  BY DEF ReservesQuoted, Cost
<1> USE BudgetConstants DEF CapInv
<1>1. CASE UNCHANGED vars
  BY <1>1 DEF vars, ReservesQuoted, Bound
<1>2. ASSUME NEW r \in Request, Step(r)
      PROVE  reserve'[x] = Cost(Kind[x], Bound(x)', OutputBound[x])
  <2>1. CASE Admit(r)
    BY <1>2, <2>1 DEF Admit, AtDispatch, Becomes, Bound, ReservesQuoted, TypeOK
  <2>2. ASSUME NEW tokens \in Tokens, CountArrives(r, tokens)
        PROVE  reserve'[x] = Cost(Kind[x], Bound(x)', OutputBound[x])
    BY <2>2 DEF CountArrives, Becomes, Bound, ReservesQuoted, TypeOK, InFlight
  <2>3. CASE \/ TurnAway(r) \/ RejectLocally(r) \/ DenyCount(r) \/ CountFails(r)
             \/ CountTooLarge(r) \/ Deny(r) \/ BeginCount(r)
    BY <2>3 DEF TurnAway, RejectLocally, DenyCount, CountFails, CountTooLarge,
       Deny, BeginCount, Refuse, Becomes, Bound, ReservesQuoted, TypeOK, InFlight
  <2>4. CASE Transmit(r) \/ Receive(r)
    BY <2>4 DEF Transmit, Receive, Becomes, Bound, ReservesQuoted, TypeOK, InFlight
  <2>5. CASE Fail(r) \/ Deliver(r) \/ GenerateFails(r)
    BY <2>5 DEF Fail, Deliver, Delivered, GenerateFails, Becomes, Bound,
       ReservesQuoted, TypeOK, InFlight
  <2>6. ASSUME NEW input \in Tokens, NEW output \in Tokens,
               Complete(r, input, output)
        PROVE  reserve'[x] = Cost(Kind[x], Bound(x)', OutputBound[x])
    BY <2>6 DEF Complete, Becomes, Bound, ReservesQuoted, TypeOK, InFlight
  <2> QED
    BY <1>2, <2>1, <2>2, <2>3, <2>4, <2>5, <2>6 DEF Step
<1> QED BY <1>1, <1>2 DEF Next

(* One step of any request keeps the total within the cap. *)
LEMMA CapIsPreserved ==
  ASSUME RatesRise, CapInv, [Next]_vars
  PROVE  WithinCap'
<1> USE BudgetConstants DEF CapInv
<1>1. CASE UNCHANGED vars BY <1>1 DEF vars, WithinCap, Committed
<1>2. ASSUME NEW r \in Request, Step(r) PROVE WithinCap'
  <2>0. /\ Cost(Kind[r], Bound(r), OutputBound[r]) \in Nat
        /\ Cost(Kind[r], 0, OutputBound[r]) \in Nat
        /\ CountAllowance[Kind[r]] \in Nat
        /\ Bound(r) \in Nat /\ OutputBound[r] \in Nat /\ Kind[r] \in Kinds
    BY QuotesAreNat
  <2>1. CASE BeginCount(r)
    <3>1. Committed + Cost(Kind[r], 0, OutputBound[r]) + CountAllowance[Kind[r]] <= Cap
      BY <2>0, <2>1 DEF BeginCount, CountDenial, Denial, TypeOK, Committed
    <3> QED BY <2>0, <2>1, <3>1 DEF BeginCount, WithinCap, Committed, TypeOK
  <2>2. CASE Admit(r)
    <3>1. Committed + Cost(Kind[r], Bound(r), OutputBound[r]) <= Cap
      BY <2>0, <2>2 DEF Admit, Denial, TypeOK, StopCodes, Committed
    <3>2. reserve'[r] = Cost(Kind[r], Bound(r), OutputBound[r])
      BY <2>2 DEF Admit, TypeOK
    <3> QED BY <2>0, <2>2, <3>1, <3>2 DEF Admit, WithinCap, Committed, TypeOK
  <2>3. CASE Fail(r)
    BY <2>3 DEF Fail, KeptOnFailure, WithinCap, Committed, TypeOK
  <2>4. ASSUME NEW input \in Tokens, NEW output \in Tokens,
               Complete(r, input, output), exceeded' = {}
        PROVE  Committed' <= Cap
    <3>0. ~Overrun(r, input, output) /\ exceeded = {}
      BY <2>4 DEF Complete
    <3>1. input <= Bound(r) /\ output <= OutputBound[r]
      <4>1. input \in Nat /\ output \in Nat OBVIOUS
      <4>2. ~(input > Bound(r)) /\ ~(output > OutputBound[r])
        BY <3>0 DEF Overrun
      <4> QED BY <2>0, <4>1, <4>2
    <3>2. reserve[r] = Cost(Kind[r], Bound(r), OutputBound[r])
      BY <2>4 DEF Complete, AtSettlement, ReservesQuoted, InFlight
    <3>3. Cost(Kind[r], input, output) <= reserve[r]
      BY <2>0, <3>1, <3>2, CostIsMonotone
    <3>4. cost'[r] = Cost(Kind[r], input, output)
      BY <2>4 DEF Complete, TypeOK
    <3>5. Cost(Kind[r], input, output) \in Nat BY <2>0, CostIsNat
    <3> QED BY <2>4, <3>0, <3>3, <3>4, <3>5 DEF Complete, WithinCap, Committed, TypeOK
  <2>5. CASE \/ TurnAway(r) \/ RejectLocally(r) \/ DenyCount(r) \/ CountFails(r)
             \/ CountTooLarge(r) \/ Deny(r) \/ Transmit(r) \/ Receive(r)
             \/ Deliver(r) \/ GenerateFails(r)
             \/ \E tokens \in Tokens : CountArrives(r, tokens)
    <3>1. UNCHANGED <<charged, pending, allowance, exceeded>>
      BY <2>5 DEF TurnAway, RejectLocally, DenyCount, CountFails, CountTooLarge,
         Deny, Transmit, Receive, Deliver, GenerateFails, CountArrives, Refuse
    <3> QED BY <3>1 DEF WithinCap, Committed
  <2> QED
    BY <1>2, <2>1, <2>2, <2>3, <2>4, <2>5 DEF Step, WithinCap
<1> QED BY <1>1, <1>2 DEF Next

(* Under rising rates the budget never commits more than its cap, until a  *)
(* provider uses more than was reserved for it: every interleaving of      *)
(* preflight, dispatch, counting, failure and settlement is covered.       *)
THEOREM CapIsKept == ASSUME RatesRise PROVE Spec => []WithinCap
<1>1. Init => CapInv
  <2>1. Init => TypeOK
    BY BudgetConstants DEF Init, TypeOK, Phases
  <2>2. Init => ReservesQuoted
    BY DEF Init, ReservesQuoted, InFlight
  <2>3. Init => WithinCap
    BY BudgetConstants DEF Init, WithinCap, Committed
  <2> QED BY <2>1, <2>2, <2>3 DEF CapInv
<1>2. CapInv /\ [Next]_vars => CapInv'
  BY TypesArePreserved, ReservesStayQuoted, CapIsPreserved DEF CapInv
<1>3. CapInv => WithinCap BY DEF CapInv
<1> QED BY <1>1, <1>2, <1>3, PTL DEF Spec

-----------------------------------------------------------------------------
(* One more element of a kind passes no limit that was not reached. *)
LEMMA OneMoreOfKind ==
  ASSUME NEW S \in SUBSET Request, NEW r \in Request, NEW k \in Kinds,
         NEW limit \in Nat,
         Cardinality(OfKind(S, k)) <= limit,
         Kind[r] = k => Cardinality(OfKind(S, k)) < limit
  PROVE  Cardinality(OfKind(S \cup {r}, k)) <= limit
<1> DEFINE K == OfKind(S, k)
<1>1. IsFiniteSet(K)
  BY FS_Subset, BudgetConstants DEF OfKind
<1>2. Cardinality(K) \in Nat BY <1>1, FS_CardinalityType
<1>3. CASE Kind[r] = k
  <2>1. OfKind(S \cup {r}, k) = K \cup {r} BY <1>3 DEF OfKind
  <2> HIDE DEF K
  <2>2. Cardinality(K \cup {r}) = IF r \in K THEN Cardinality(K) ELSE Cardinality(K) + 1
    BY <1>1, FS_AddElement
  <2>3. Cardinality(K) < limit BY <1>3 DEF K
  <2>4. Cardinality(K \cup {r}) <= limit BY <1>2, <2>2, <2>3
  <2> QED BY <2>1, <2>4
<1>4. CASE Kind[r] # k
  <2>1. OfKind(S \cup {r}, k) = K BY <1>4 DEF OfKind
  <2> QED BY <2>1
<1> QED BY <1>3, <1>4

(* Only BeginCount and Admit add a record. *)
LEMMA OthersAddNoRecord ==
  ASSUME NEW r \in Request, Step(r), ~BeginCount(r), ~Admit(r)
  PROVE  UNCHANGED <<records, countRecords>>
BY DEF Step, TurnAway, RejectLocally, DenyCount, CountFails, CountTooLarge,
   CountArrives, Deny, Refuse, Transmit, Receive, Fail, Complete, Deliver,
   GenerateFails

(* No interleaving of threads passes a call limit or a count limit.        *)
THEOREM LimitsAreKept == Spec => []CallLimitsKept
<1> USE BudgetConstants
<1>1. Init => CallLimitsKept
  <2> SUFFICES ASSUME Init, NEW k \in Kinds
               PROVE  /\ Cardinality(OfKind(records, k)) <= CallLimit[k]
                      /\ Cardinality(OfKind(countRecords, k)) <= CountLimit[k]
    BY DEF CallLimitsKept
  <2>1. OfKind(records, k) = {} /\ OfKind(countRecords, k) = {}
    BY DEF Init, OfKind
  <2>2. CallLimit[k] \in Nat /\ CountLimit[k] \in Nat OBVIOUS
  <2>3. Cardinality({}) = 0 BY FS_EmptySet
  <2> QED BY <2>1, <2>2, <2>3
<1>2. TypeOK /\ CallLimitsKept /\ [Next]_vars => CallLimitsKept'
  <2> SUFFICES ASSUME TypeOK, CallLimitsKept, [Next]_vars, NEW k \in Kinds
               PROVE  /\ Cardinality(OfKind(records', k)) <= CallLimit[k]
                      /\ Cardinality(OfKind(countRecords', k)) <= CountLimit[k]
    BY DEF CallLimitsKept
  <2>0. /\ Cardinality(OfKind(records, k)) <= CallLimit[k]
        /\ Cardinality(OfKind(countRecords, k)) <= CountLimit[k]
        /\ CallLimit[k] \in Nat /\ CountLimit[k] \in Nat
    BY DEF CallLimitsKept
  <2>1. CASE UNCHANGED <<records, countRecords>> BY <2>0, <2>1
  <2>2. ASSUME NEW r \in Request, BeginCount(r)
        PROVE  /\ Cardinality(OfKind(records', k)) <= CallLimit[k]
               /\ Cardinality(OfKind(countRecords', k)) <= CountLimit[k]
    <3>1. records' = records /\ countRecords' = countRecords \cup {r}
      BY <2>2 DEF BeginCount
    <3>2. ~(CountsMade(Kind[r]) >= CountLimit[Kind[r]])
      BY <2>2 DEF BeginCount, CountDenial
    <3>3. Kind[r] = k => Cardinality(OfKind(countRecords, k)) < CountLimit[k]
      <4> HAVE Kind[r] = k
      <4>1. IsFiniteSet(OfKind(countRecords, k))
        BY FS_Subset DEF TypeOK, OfKind
      <4> QED BY <2>0, <3>2, <4>1, FS_CardinalityType DEF CountsMade
    <3> QED BY <2>0, <3>1, <3>3, OneMoreOfKind DEF TypeOK
  <2>3. ASSUME NEW r \in Request, Admit(r)
        PROVE  /\ Cardinality(OfKind(records', k)) <= CallLimit[k]
               /\ Cardinality(OfKind(countRecords', k)) <= CountLimit[k]
    <3>1. countRecords' = countRecords /\ records' = records \cup {r}
      BY <2>3 DEF Admit
    <3>2. ~(CallsMade(Kind[r]) >= CallLimit[Kind[r]])
      BY <2>3 DEF Admit, Denial, TypeOK, StopCodes
    <3>3. Kind[r] = k => Cardinality(OfKind(records, k)) < CallLimit[k]
      <4> HAVE Kind[r] = k
      <4>1. IsFiniteSet(OfKind(records, k))
        BY FS_Subset DEF TypeOK, OfKind
      <4> QED BY <2>0, <3>2, <4>1, FS_CardinalityType DEF CallsMade
    <3> QED BY <2>0, <3>1, <3>3, OneMoreOfKind DEF TypeOK
  <2> QED BY <2>1, <2>2, <2>3, OthersAddNoRecord DEF Next, vars
<1> QED BY <1>1, <1>2, BudgetTypesHold, PTL DEF Spec

-----------------------------------------------------------------------------
(* The first cause of the stop is never replaced. *)
THEOREM StopReasonIsKept == Spec => FirstCauseKept
<1>1. [Next]_vars => [stop # "open" => stop' = stop]_vars
  <2> SUFFICES ASSUME NEW r \in Request, Step(r), stop # "open"
               PROVE  stop' = stop
    BY DEF Next
  <2>1. \A c : FirstCause(c) = stop BY DEF FirstCause
  <2> QED
    BY <2>1 DEF Step, TurnAway, RejectLocally, DenyCount, BeginCount, CountFails,
       CountTooLarge, CountArrives, Deny, Admit, Refuse, Transmit, Receive, Fail,
       Complete, Deliver, GenerateFails
<1> QED BY <1>1, PTL DEF Spec, FirstCauseKept

(* After the stop nothing more is sent to be counted or generated. *)
THEOREM ClosedBudgetAdmitsNothing == Spec => NothingAdmittedAfterClose
<1> DEFINE Kept == records' = records /\ countRecords' = countRecords
<1>1. TypeOK /\ [Next]_vars => [stop # "open" => Kept]_vars
  <2> SUFFICES ASSUME TypeOK, NEW r \in Request, Step(r), stop # "open"
               PROVE  Kept
    BY DEF Next
  <2>1. stop # "none" BY DEF TypeOK, StopCodes
  <2>2. \A n : Denial(r, n) # "none" BY <2>1 DEF Denial
  <2>3. CountDenial(r) # "none" BY <2>2 DEF CountDenial
  <2>4. ~BeginCount(r) /\ ~Admit(r) BY <2>2, <2>3 DEF BeginCount, Admit
  <2> QED BY <2>4, OthersAddNoRecord
<1> QED BY <1>1, BudgetTypesHold, PTL DEF Spec, NothingAdmittedAfterClose

-----------------------------------------------------------------------------
(* The step that settles an overrun or a failure closes the run, and the   *)
(* run is never opened again.                                              *)
OverrunInv ==
  exceeded # {} \/ (\E r \in Request : phase[r] = "failed") => stop # "open"

(* A strict guard looks at the run before it delivers, so that nothing     *)
(* follows an overrun or a failure, whichever request it was.              *)
THEOREM NothingFollowsAnOverrun == Spec => NothingAcceptedAfterOverrun
<1> DEFINE Quiet == /\ exceeded = {}
                    /\ \A s \in Request : phase[s] # "failed"
           Accepts(r) == /\ Strict(r)
                         /\ phase[r] # "returned" /\ phase'[r] = "returned"
<1>1. Init => OverrunInv BY DEF Init, OverrunInv
<1>2. TypeOK /\ OverrunInv /\ [Next]_vars => OverrunInv'
  <2> SUFFICES ASSUME TypeOK, OverrunInv, [Next]_vars PROVE OverrunInv'
    OBVIOUS
  <2>1. CASE UNCHANGED vars BY <2>1 DEF vars, OverrunInv
  <2>2. ASSUME NEW r \in Request, Step(r) PROVE OverrunInv'
    <3>1. stop # "open" => stop' # "open"
      BY <2>2 DEF Step, TurnAway, RejectLocally, DenyCount, BeginCount,
         CountFails, CountTooLarge, CountArrives, Deny, Admit, Refuse, Transmit,
         Receive, Fail, Complete, Deliver, GenerateFails, FirstCause
    <3>2. ASSUME NEW input \in Tokens, NEW output \in Tokens,
                 Complete(r, input, output)
          PROVE  OverrunInv'
      <4>1. exceeded' # exceeded => stop' # "open"
        BY <3>2 DEF Complete, FirstCause
      <4>2. phase' = [phase EXCEPT ![r] = IF Strict(r) THEN "answered" ELSE "returned"]
        BY <3>2 DEF Complete, Becomes
      <4>3. \A s \in Request : phase'[s] = "failed" => phase[s] = "failed"
        BY <4>2 DEF TypeOK
      <4> QED BY <3>1, <4>1, <4>3 DEF OverrunInv
    <3>3. CASE Fail(r)
      BY <3>3 DEF Fail, FirstCause, OverrunInv
    <3>4. CASE \/ TurnAway(r) \/ RejectLocally(r) \/ DenyCount(r) \/ BeginCount(r)
               \/ CountFails(r) \/ CountTooLarge(r) \/ Deny(r) \/ Admit(r)
               \/ Transmit(r) \/ Receive(r) \/ Deliver(r) \/ GenerateFails(r)
               \/ \E tokens \in Tokens : CountArrives(r, tokens)
      <4>1. exceeded' = exceeded
        BY <3>4 DEF TurnAway, RejectLocally, DenyCount, BeginCount, CountFails,
           CountTooLarge, CountArrives, Deny, Admit, Refuse, Transmit, Receive,
           Deliver, GenerateFails
      <4>2. \E to : to # "failed" /\ phase' = [phase EXCEPT ![r] = to]
        BY <3>4 DEF TurnAway, RejectLocally, DenyCount, BeginCount, CountFails,
           CountTooLarge, CountArrives, Deny, Admit, Refuse, Transmit, Receive,
           Deliver, Delivered, GenerateFails, Becomes
      <4>3. \A s \in Request : phase'[s] = "failed" => phase[s] = "failed"
        BY <4>2 DEF TypeOK
      <4> QED BY <3>1, <4>1, <4>3 DEF OverrunInv
    <3> QED BY <2>2, <3>2, <3>3, <3>4 DEF Step
  <2> QED BY <2>1, <2>2 DEF Next
<1>3. TypeOK /\ OverrunInv /\ [Next]_vars
        => [\A r \in Request : Accepts(r) => Quiet]_vars
  <2> SUFFICES ASSUME TypeOK, OverrunInv, NEW x \in Request, Step(x),
                      NEW r \in Request, Accepts(r)
               PROVE  stop = "open"
    BY DEF Next, OverrunInv
  <2>1. CASE Deliver(x)
    BY <2>1 DEF Deliver, Delivered, Becomes, TypeOK
  <2>2. ASSUME NEW input \in Tokens, NEW output \in Tokens,
               Complete(x, input, output)
        PROVE  FALSE
    <3>1. phase' = [phase EXCEPT ![x] = IF Strict(x) THEN "answered" ELSE "returned"]
      BY <2>2 DEF Complete, Becomes
    <3> QED BY <3>1 DEF TypeOK
  <2>3. CASE \/ TurnAway(x) \/ RejectLocally(x) \/ DenyCount(x) \/ BeginCount(x)
             \/ CountFails(x) \/ CountTooLarge(x) \/ Deny(x) \/ Admit(x)
             \/ Transmit(x) \/ Receive(x) \/ Fail(x) \/ GenerateFails(x)
             \/ \E tokens \in Tokens : CountArrives(x, tokens)
    <3>1. \E to : to # "returned" /\ phase' = [phase EXCEPT ![x] = to]
      BY <2>3 DEF TurnAway, RejectLocally, DenyCount, BeginCount, CountFails,
         CountTooLarge, CountArrives, Deny, Admit, Refuse, Transmit, Receive,
         Fail, GenerateFails, Becomes
    <3> QED BY <3>1 DEF TypeOK
  <2> QED BY <2>1, <2>2, <2>3 DEF Step
<1> QED
  BY <1>1, <1>2, <1>3, BudgetTypesHold, PTL DEF Spec, NothingAcceptedAfterOverrun

-----------------------------------------------------------------------------
(* Every step of a request moves it to another phase. *)
LEMMA StepsMove ==
  ASSUME TypeOK, NEW r \in Request, Step(r)
  PROVE  phase'[r] # phase[r]
<1>1. CASE \/ TurnAway(r) \/ RejectLocally(r) \/ DenyCount(r) \/ BeginCount(r)
           \/ CountFails(r) \/ CountTooLarge(r)
           \/ \E tokens \in Tokens : CountArrives(r, tokens)
  BY <1>1 DEF TurnAway, RejectLocally, DenyCount, BeginCount, CountFails,
     CountTooLarge, CountArrives, Refuse, Becomes, TypeOK
<1>2. CASE Deny(r) \/ Admit(r) \/ Transmit(r) \/ Receive(r) \/ Fail(r)
  BY <1>2 DEF Deny, Admit, AtDispatch, Refuse, Transmit, Receive, Fail,
     AtSettlement, Becomes, TypeOK
<1>3. CASE \/ \E input, output \in Tokens : Complete(r, input, output)
           \/ Deliver(r) \/ GenerateFails(r)
  BY <1>3 DEF Complete, AtSettlement, Deliver, Delivered, GenerateFails,
     Becomes, TypeOK
<1> QED BY <1>1, <1>2, <1>3 DEF Step

(* Money and the stop reason change only in a critical section, save that  *)
(* the older guards never close the budget on a local refusal.             *)
LEMMA ChangesNeedTheLock ==
  ASSUME NEW r \in Request, Step(r), ~UNCHANGED <<money, stop>>
  PROVE  MayEnter(r)
<1>1. CASE TurnAway(r) BY <1>1 DEF TurnAway
<1>2. CASE RejectLocally(r) BY <1>2 DEF RejectLocally
<1>3. CASE \/ DenyCount(r) \/ BeginCount(r) \/ CountFails(r) \/ CountTooLarge(r)
           \/ Deny(r) \/ Admit(r) \/ Fail(r) \/ GenerateFails(r)
           \/ \E input, output \in Tokens : Complete(r, input, output)
  BY <1>3 DEF DenyCount, BeginCount, CountFails, CountTooLarge, Deny, Admit,
     AtDispatch, Fail, AtSettlement, GenerateFails, Complete
<1>4. CASE Transmit(r) \/ Receive(r) \/ Deliver(r)
           \/ \E tokens \in Tokens : CountArrives(r, tokens)
  BY <1>4 DEF Transmit, Receive, Deliver, CountArrives
<1> QED BY <1>1, <1>2, <1>3, <1>4 DEF Step

(* While a count and generation pair keeps the lock, what it was quoted    *)
(* against changes only by its own steps.                                  *)
THEOREM PairsAreUndisturbed == Spec => PairUndisturbed
<1> DEFINE Own(r) == /\ lock = r /\ lock' = r
                     /\ money' # money \/ stop' # stop
                     => phase'[r] # phase[r]
<1>1. TypeOK /\ [Next]_vars => [\A r \in Request : Own(r)]_vars
  <2> SUFFICES ASSUME TypeOK, NEW x \in Request, Step(x), NEW r \in Request,
                      lock = r, money' # money \/ stop' # stop
               PROVE  phase'[r] # phase[r]
    BY DEF Next
  <2>1. MayEnter(x) BY ChangesNeedTheLock
  <2>2. x = r BY <2>1, BudgetConstants DEF MayEnter
  <2> QED BY <2>2, StepsMove
<1> QED BY <1>1, BudgetTypesHold, PTL DEF Spec, PairUndisturbed

-----------------------------------------------------------------------------
(* Sums over finite sets.                                                  *)

(* Among subsets of a finite set some are smallest. *)
LEMMA MinimalSubset ==
  ASSUME NEW S, IsFiniteSet(S), NEW F \in SUBSET (SUBSET S), F # {}
  PROVE  \E A \in F : \A B \in F : B \subseteq A => B = A
<1> DEFINE R == StrictSubsetOrdering(S)
<1>1. IsWellFoundedOn(R, FiniteSubsetsOf(S))
  BY FS_StrictSubsetOrderingWellFounded
<1>2. F \subseteq FiniteSubsetsOf(S)
  BY FS_FiniteSubsetsOfFinite
<1>3. \E x \in F : \A y \in F : ~(<<y, x>> \in R)
  <2> HIDE DEF R
  <2> QED BY <1>1, <1>2, WFMin
<1>4. PICK A \in F : \A y \in F : ~(<<y, A>> \in R)
  BY <1>3
<1>5. ASSUME NEW B \in F, B \subseteq A PROVE B = A
  BY <1>4, <1>5 DEF StrictSubsetOrdering
<1> QED BY <1>4, <1>5

(* A set of sets that has {} and is closed under adding one element holds  *)
(* every finite set.                                                       *)
LEMMA SetInduction ==
  ASSUME NEW S, IsFiniteSet(S), NEW G, {} \in G,
         \A T \in SUBSET S : \A x \in S \ T : T \in G => T \cup {x} \in G
  PROVE  S \in G
<1>1. SUFFICES ASSUME S \notin G PROVE FALSE
  OBVIOUS
<1> DEFINE F == {A \in SUBSET S : S \ A \in G}
<1>2. F \in SUBSET (SUBSET S) /\ F # {}
  <2>1. S \ S = {}
    OBVIOUS
  <2>2. S \in F
    BY <2>1
  <2> QED BY <2>2
<1>3. \A A : A \in F <=> A \in SUBSET S /\ S \ A \in G
  OBVIOUS
<1> HIDE DEF F
<1>4. PICK A \in F : \A B \in F : B \subseteq A => B = A
  BY <1>2, MinimalSubset
<1>5. A \in SUBSET S /\ S \ A \in G
  BY <1>3
<1>6. A # {}
  <2>1. S \ {} = S
    OBVIOUS
  <2> QED BY <1>1, <1>5, <2>1
<1>7. PICK x \in A : TRUE
  BY <1>6
<1>8. (S \ A) \cup {x} \in G
  <2>1. S \ A \in SUBSET S /\ x \in S \ (S \ A)
    BY <1>5
  <2> QED BY <1>5, <2>1
<1>9. (S \ A) \cup {x} = S \ (A \ {x})
  BY <1>5
<1>10. A \ {x} \in F
  BY <1>3, <1>5, <1>8, <1>9
<1>11. A \ {x} # A
  BY <1>7
<1> QED BY <1>4, <1>10, <1>11

(* F gives the sum of f over each subset of S. *)
Additive(f, S, F) ==
  /\ F \in [SUBSET S -> Int] /\ F[{}] = 0
  /\ \A T \in SUBSET S : \A x \in S \ T : F[T \cup {x}] = f[x] + F[T]

(* There is such an F: for one element more, it is extended by f's value.  *)
LEMMA AdditiveExists ==
  ASSUME NEW S, IsFiniteSet(S), NEW f \in [S -> Int]
  PROVE  \E F : Additive(f, S, F)
<1> DEFINE G == {T \in SUBSET S : \E F : Additive(f, T, F)}
<1>1. {} \in G
  <2>1. Additive(f, {}, [T \in SUBSET {} |-> 0])
    BY DEF Additive
  <2> QED BY <2>1
<1>2. ASSUME NEW T \in SUBSET S, NEW x \in S \ T, T \in G PROVE T \cup {x} \in G
  <2>1. PICK F : Additive(f, T, F)
    BY <1>2
  <2> DEFINE W == T \cup {x}
             F1 == [U \in SUBSET W |-> IF x \in U THEN f[x] + F[U \ {x}] ELSE F[U]]
  <2>2. \A U \in SUBSET W : U \ {x} \in SUBSET T /\ (x \notin U => U \in SUBSET T)
    OBVIOUS
  <2>3. F1 \in [SUBSET W -> Int]
    BY <2>1, <2>2 DEF Additive
  <2>4. F1[{}] = 0
    BY <2>1 DEF Additive
  <2>5. ASSUME NEW U \in SUBSET W, NEW y \in W \ U PROVE F1[U \cup {y}] = f[y] + F1[U]
    <3>1. U \cup {y} \in SUBSET W
      OBVIOUS
    <3>2. CASE y = x
      <4>1. (U \cup {y}) \ {x} = U
        BY <3>2
      <4> QED BY <3>1, <3>2, <4>1
    <3>3. CASE y # x /\ x \in U
      <4>1. (U \cup {y}) \ {x} = (U \ {x}) \cup {y}
        BY <3>3
      <4>2. F[(U \ {x}) \cup {y}] = f[y] + F[U \ {x}]
        <5>1. U \ {x} \in SUBSET T /\ y \in T \ (U \ {x})
          BY <3>3
        <5> QED BY <2>1, <5>1 DEF Additive
      <4>3. F1[U \cup {y}] = f[x] + (f[y] + F[U \ {x}])
        BY <3>1, <3>3, <4>1, <4>2
      <4>4. F1[U] = f[x] + F[U \ {x}]
        BY <3>3
      <4>5. F[U \ {x}] \in Int /\ f[x] \in Int /\ f[y] \in Int
        BY <2>1, <2>2, <1>2 DEF Additive
      <4> HIDE DEF F1
      <4> QED BY <4>3, <4>4, <4>5
    <3>4. CASE y # x /\ x \notin U
      <4>1. U \in SUBSET T /\ y \in T \ U /\ x \notin U \cup {y}
        BY <3>4
      <4>2. F[U \cup {y}] = f[y] + F[U]
        BY <2>1, <4>1 DEF Additive
      <4> QED BY <3>1, <3>4, <4>1, <4>2
    <3> QED BY <3>2, <3>3, <3>4
  <2>6. Additive(f, W, F1)
    <3> HIDE DEF F1
    <3> QED BY <2>3, <2>4, <2>5 DEF Additive
  <2>7. W \in SUBSET S
    OBVIOUS
  <2> HIDE DEF F1
  <2> QED BY <2>6, <2>7
<1>3. S \in G
  <2> HIDE DEF G
  <2> QED BY <1>1, <1>2, SetInduction
<1> QED BY <1>3

(* The fold that defines SumFunctionOnSet computes it, whatever the order   *)
(* in which the fold takes the elements.                                    *)
LEMMA SumIsAdditive ==
  ASSUME NEW S, IsFiniteSet(S), NEW f, NEW F, Additive(f, S, F), NEW T \in SUBSET S
  PROVE  SumFunctionOnSet(f, T) = F[T]
<1> DEFINE Body(h, s) == IF s = {} THEN 0
                         ELSE f[CHOOSE x \in s : TRUE] + h[s \ {CHOOSE x \in s : TRUE}]
           Iter(h) == h = [s \in SUBSET T |-> Body(h, s)]
           h == CHOOSE g : Iter(g)
           Off == {A \in SUBSET T : h[A] # F[A]}
<1>1. SumFunctionOnSet(f, T) = h[T]
  BY DEF SumFunctionOnSet, FoldFunctionOnSet, MapThenFoldSet
<1>2. Iter([s \in SUBSET T |-> F[s]])
  <2> DEFINE g == [s \in SUBSET T |-> F[s]]
  <2>1. ASSUME NEW s \in SUBSET T PROVE g[s] = Body(g, s)
    <3>1. CASE s = {}
      BY <3>1 DEF Additive
    <3>2. CASE s # {}
      <4>1. PICK x \in s : x = CHOOSE y \in s : TRUE
        BY <3>2
      <4>2. F[(s \ {x}) \cup {x}] = f[x] + F[s \ {x}]
        <5>1. s \ {x} \in SUBSET S /\ x \in S \ (s \ {x})
          OBVIOUS
        <5> QED BY <5>1 DEF Additive
      <4>3. (s \ {x}) \cup {x} = s
        OBVIOUS
      <4> QED BY <3>2, <4>1, <4>2, <4>3
    <3> QED BY <3>1, <3>2
  <2> HIDE DEF Body
  <2> QED BY <2>1
<1>3. Iter(h)
  <2> HIDE DEF Iter
  <2> QED BY <1>2
<1>4. ASSUME Off # {} PROVE FALSE
  <2>1. \A A : A \in Off <=> A \in SUBSET T /\ h[A] # F[A]
    OBVIOUS
  <2>2. \A A \in SUBSET T : h[A] = Body(h, A)
    BY <1>3
  <2> HIDE DEF Off, h
  <2>3. IsFiniteSet(T)
    BY FS_Subset
  <2>4. Off \in SUBSET (SUBSET T)
    BY <2>1
  <2>5. PICK A \in Off : \A B \in Off : B \subseteq A => B = A
    BY <1>4, <2>3, <2>4, MinimalSubset
  <2>6. A # {}
    BY <2>1, <2>2 DEF Additive
  <2>7. PICK x \in A : x = CHOOSE y \in A : TRUE
    BY <2>6
  <2>8. A \ {x} \notin Off /\ A \ {x} \in SUBSET T /\ A \in SUBSET T
    BY <2>1, <2>5
  <2>9. h[A \ {x}] = F[A \ {x}]
    BY <2>1, <2>8
  <2>10. F[(A \ {x}) \cup {x}] = f[x] + F[A \ {x}]
    <3>1. A \ {x} \in SUBSET S /\ x \in S \ (A \ {x})
      BY <2>8
    <3> QED BY <3>1 DEF Additive
  <2>11. (A \ {x}) \cup {x} = A
    OBVIOUS
  <2>12. h[A] = f[x] + h[A \ {x}]
    BY <2>2, <2>6, <2>7, <2>8
  <2> QED BY <2>1, <2>9, <2>10, <2>11, <2>12
<1>5. h[T] = F[T]
  BY <1>4
<1> HIDE DEF h
<1> QED BY <1>1, <1>5

(* The sum over nothing is zero, and an element more adds its value. *)
LEMMA SumStep ==
  ASSUME NEW S, IsFiniteSet(S), NEW f \in [S -> Int], NEW T \in SUBSET S
  PROVE  /\ SumFunctionOnSet(f, {}) = 0
         /\ SumFunctionOnSet(f, T) \in Int
         /\ \A x \in S \ T : SumFunctionOnSet(f, T \cup {x}) = f[x] + SumFunctionOnSet(f, T)
<1>1. PICK F : Additive(f, S, F)
  BY AdditiveExists
<1>2. \A U \in SUBSET S : SumFunctionOnSet(f, U) = F[U]
  BY <1>1, SumIsAdditive
<1>3. \A x \in S \ T : T \cup {x} \in SUBSET S
  OBVIOUS
<1> QED BY <1>1, <1>2, <1>3 DEF Additive

(* Only the values on the set count. *)
LEMMA SumOfEquals ==
  ASSUME NEW S, IsFiniteSet(S), NEW f \in [S -> Int], NEW g \in [S -> Int],
         NEW T \in SUBSET S, \A x \in T : f[x] = g[x]
  PROVE  SumFunctionOnSet(f, T) = SumFunctionOnSet(g, T)
<1> DEFINE G == {U \in SUBSET T : SumFunctionOnSet(f, U) = SumFunctionOnSet(g, U)}
<1>1. {} \in G
  BY SumStep
<1>2. ASSUME NEW U \in SUBSET T, NEW x \in T \ U, U \in G PROVE U \cup {x} \in G
  <2>1. U \in SUBSET S /\ x \in S \ U
    OBVIOUS
  <2>2. /\ SumFunctionOnSet(f, U \cup {x}) = f[x] + SumFunctionOnSet(f, U)
        /\ SumFunctionOnSet(g, U \cup {x}) = g[x] + SumFunctionOnSet(g, U)
    BY <2>1, SumStep
  <2> QED BY <1>2, <2>2
<1>3. IsFiniteSet(T)
  BY FS_Subset
<1>4. T \in G
  <2> HIDE DEF G
  <2> QED BY <1>1, <1>2, <1>3, SetInduction
<1> QED BY <1>4

-----------------------------------------------------------------------------
(* The books.  A request gets its record when it is admitted.              *)

Outstanding == {r \in records : phase[r] \in InFlight}

Settled == {r \in records : phase[r] \notin InFlight}

RecordedOnAdmission ==
  \A r \in Request :
    /\ phase[r] \in {"new", "counting", "measured"} => r \notin records
    /\ phase[r] \in InFlight => r \in records

BooksInv == RecordedOnAdmission /\ BooksBalance

(* Sums over requests. *)
LEMMA RequestSums ==
  /\ \A f, g \in [Request -> Int] : \A T \in SUBSET Request :
       (\A x \in T : f[x] = g[x]) => SumFunctionOnSet(f, T) = SumFunctionOnSet(g, T)
  /\ \A f \in [Request -> Int] : \A T \in SUBSET Request :
       /\ SumFunctionOnSet(f, T) \in Int
       /\ \A x \in Request \ T :
            SumFunctionOnSet(f, T \cup {x}) = f[x] + SumFunctionOnSet(f, T)
<1>1. IsFiniteSet(Request) BY BudgetConstants
<1>2. \A f, g \in [Request -> Int] : \A T \in SUBSET Request :
        (\A x \in T : f[x] = g[x]) => SumFunctionOnSet(f, T) = SumFunctionOnSet(g, T)
  BY <1>1, SumOfEquals
<1>3. \A f \in [Request -> Int] : \A T \in SUBSET Request :
        /\ SumFunctionOnSet(f, T) \in Int
        /\ \A x \in Request \ T :
             SumFunctionOnSet(f, T \cup {x}) = f[x] + SumFunctionOnSet(f, T)
  BY <1>1, SumStep
<1> QED BY <1>2, <1>3

(* The two sums, and what a failed call keeps. *)
LEMMA BooksInParts ==
  /\ BooksBalance <=>
       /\ pending = SumFunctionOnSet(reserve, Outstanding)
       /\ charged = SumFunctionOnSet(cost, Settled)
       /\ \A r \in Settled : phase[r] = "failed" => cost[r] = reserve[r]
  /\ BooksBalance' <=>
       /\ pending' = SumFunctionOnSet(reserve', Outstanding')
       /\ charged' = SumFunctionOnSet(cost', Settled')
       /\ \A r \in Settled' : phase'[r] = "failed" => cost'[r] = reserve'[r]
<1>1. records \ Settled = Outstanding BY DEF Settled, Outstanding
<1>2. records' \ Settled' = Outstanding' BY DEF Settled, Outstanding
<1> QED BY <1>1, <1>2 DEF BooksBalance, Settled

(* A step that moves a request within the calls in flight, or outside them, *)
(* touches no book.                                                         *)
LEMMA BooksStay ==
  ASSUME TypeOK, BooksInv, NEW r \in Request, NEW to,
         UNCHANGED <<charged, pending, records, reserve, cost>>, Becomes(r, to),
         phase[r] \in InFlight <=> to \in InFlight, to # "failed",
         to \in {"new", "counting", "measured"} =>
           phase[r] \in {"new", "counting", "measured"}
  PROVE  BooksInv'
<1>1. Outstanding' = Outstanding /\ Settled' = Settled
  BY DEF Outstanding, Settled, Becomes, TypeOK
<1>2. RecordedOnAdmission'
  BY DEF BooksInv, RecordedOnAdmission, Becomes, TypeOK
<1>3. \A x \in Settled : phase'[x] = "failed" => cost[x] = reserve[x]
  BY BooksInParts DEF Becomes, TypeOK, Settled, BooksInv
<1>4. pending = SumFunctionOnSet(reserve, Outstanding) /\ charged = SumFunctionOnSet(cost, Settled)
  BY BooksInParts DEF BooksInv
<1>5. BooksBalance'
  BY <1>1, <1>3, <1>4, BooksInParts
<1> QED BY <1>2, <1>5 DEF BooksInv

(* Admission opens a reservation for a request that had none. *)
LEMMA BooksOnAdmission ==
  ASSUME TypeOK, TypeOK', BooksInv, NEW r \in Request, Admit(r)
  PROVE  BooksInv'
<1>1. r \notin records
  BY DEF Admit, AtDispatch, BooksInv, RecordedOnAdmission
<1>2. Becomes(r, "started") /\ records' = records \cup {r}
  BY DEF Admit
<1>3. Outstanding' = Outstanding \cup {r} /\ Settled' = Settled /\ r \notin Settled
  BY <1>1, <1>2 DEF Outstanding, Settled, Becomes, TypeOK, InFlight
<1>4. Outstanding \in SUBSET Request /\ r \notin Outstanding
  BY <1>1 DEF Outstanding, TypeOK
<1>5. /\ reserve \in [Request -> Int] /\ reserve' \in [Request -> Int]
      /\ \A x \in Outstanding : reserve'[x] = reserve[x]
      /\ pending' = pending + reserve'[r] /\ pending \in Int /\ reserve'[r] \in Int
      /\ \A x \in Settled : reserve'[x] = reserve[x] /\ phase'[x] = phase[x]
      /\ charged' = charged /\ cost' = cost
  BY <1>3, <1>4, <1>2 DEF Admit, TypeOK, Becomes, Settled
<1>6. pending = SumFunctionOnSet(reserve', Outstanding)
  BY <1>4, <1>5, BooksInParts, RequestSums DEF BooksInv
<1>7. SumFunctionOnSet(reserve', Outstanding \cup {r}) = reserve'[r] + SumFunctionOnSet(reserve', Outstanding)
  BY <1>4, <1>5, RequestSums
<1>8. pending' = SumFunctionOnSet(reserve', Outstanding')
  BY <1>3, <1>5, <1>6, <1>7
<1>9. /\ charged' = SumFunctionOnSet(cost', Settled')
      /\ \A x \in Settled' : phase'[x] = "failed" => cost'[x] = reserve'[x]
  BY <1>3, <1>5, BooksInParts DEF BooksInv
<1>10. BooksBalance'
  BY <1>8, <1>9, BooksInParts
<1>11. RecordedOnAdmission'
  BY <1>2 DEF BooksInv, RecordedOnAdmission, Becomes, TypeOK, InFlight
<1> QED BY <1>10, <1>11 DEF BooksInv

(* Settling moves one reservation to the settled costs. *)
LEMMA BooksOnSettlement ==
  ASSUME TypeOK, TypeOK', BooksInv, NEW r \in Request, NEW to,
         phase[r] \in InFlight, Becomes(r, to),
         to \notin InFlight \cup {"new", "counting", "measured"},
         records' = records, reserve' = reserve,
         pending' = pending - reserve[r],
         \A x \in Request \ {r} : cost'[x] = cost[x],
         charged' = charged + cost'[r],
         to = "failed" => cost'[r] = reserve[r]
  PROVE  BooksInv'
<1>1. r \in Outstanding /\ r \notin Settled /\ Outstanding \in SUBSET Request
      /\ Settled \in SUBSET Request
  BY DEF BooksInv, RecordedOnAdmission, Outstanding, Settled, TypeOK
<1>2. Outstanding' = Outstanding \ {r} /\ Settled' = Settled \cup {r}
  BY <1>1 DEF Outstanding, Settled, Becomes, TypeOK
<1>3. /\ reserve \in [Request -> Int] /\ cost \in [Request -> Int]
      /\ cost' \in [Request -> Int] /\ reserve[r] \in Int /\ cost'[r] \in Int
      /\ pending \in Int /\ charged \in Int
      /\ \A x \in Settled : cost'[x] = cost[x] /\ phase'[x] = phase[x]
      /\ phase'[r] = to
  BY <1>1 DEF TypeOK, Becomes
<1>4. /\ pending = SumFunctionOnSet(reserve, Outstanding)
      /\ charged = SumFunctionOnSet(cost, Settled)
      /\ \A x \in Settled : phase[x] = "failed" => cost[x] = reserve[x]
  BY BooksInParts DEF BooksInv
<1>5. pending' = SumFunctionOnSet(reserve', Outstanding')
  <2>1. /\ Outstanding \ {r} \in SUBSET Request /\ r \in Request \ (Outstanding \ {r})
        /\ (Outstanding \ {r}) \cup {r} = Outstanding
    BY <1>1
  <2>2. /\ SumFunctionOnSet(reserve, Outstanding) = reserve[r] + SumFunctionOnSet(reserve, Outstanding \ {r})
        /\ SumFunctionOnSet(reserve, Outstanding \ {r}) \in Int
    <3> DEFINE O == Outstanding \ {r}
    <3>1. /\ SumFunctionOnSet(reserve, O \cup {r}) = reserve[r] + SumFunctionOnSet(reserve, O)
          /\ SumFunctionOnSet(reserve, O) \in Int
      <4> HIDE DEF O
      <4> QED BY <1>3, <2>1, RequestSums DEF O
    <3> QED BY <2>1, <3>1
  <2> QED BY <1>2, <1>3, <1>4, <2>2
<1>6. charged' = SumFunctionOnSet(cost', Settled')
  <2>1. SumFunctionOnSet(cost', Settled) = SumFunctionOnSet(cost, Settled)
    <3>1. \A g \in [Request -> Int] : (\A x \in Settled : g[x] = cost[x]) =>
            SumFunctionOnSet(g, Settled) = SumFunctionOnSet(cost, Settled)
      BY <1>1, <1>3, RequestSums
    <3> QED BY <1>3, <3>1
  <2>2. SumFunctionOnSet(cost', Settled \cup {r}) = cost'[r] + SumFunctionOnSet(cost', Settled)
    BY <1>1, <1>3, RequestSums
  <2> QED BY <1>2, <1>3, <1>4, <2>1, <2>2
<1>7. \A x \in Settled' : phase'[x] = "failed" => cost'[x] = reserve'[x]
  BY <1>2, <1>3, <1>4
<1>8. BooksBalance'
  BY <1>5, <1>6, <1>7, BooksInParts
<1>9. RecordedOnAdmission'
  BY DEF BooksInv, RecordedOnAdmission, Becomes, TypeOK
<1> QED BY <1>8, <1>9 DEF BooksInv

(* Every step keeps the books. *)
LEMMA BooksArePreserved ==
  ASSUME TypeOK, TypeOK', BooksInv, NEW r \in Request, Step(r)
  PROVE  BooksInv'
<1>1. CASE TurnAway(r) \/ RejectLocally(r)
  BY <1>1, BooksStay DEF TurnAway, RejectLocally, InFlight
<1>2. CASE DenyCount(r) \/ CountFails(r) \/ CountTooLarge(r) \/ Deny(r)
  <2>1. Becomes(r, "refused") /\ phase[r] \notin InFlight
        /\ UNCHANGED <<charged, pending, records, reserve, cost>>
    BY <1>2 DEF DenyCount, CountFails, CountTooLarge, Deny, AtDispatch, Refuse, InFlight
  <2> QED BY <2>1, BooksStay DEF InFlight
<1>3. CASE BeginCount(r) \/ \E tokens \in Tokens : CountArrives(r, tokens)
  <2>1. PICK to \in {"counting", "measured"} :
          /\ Becomes(r, to) /\ phase[r] \in {"new", "counting"}
          /\ UNCHANGED <<charged, pending, records, reserve, cost>>
    BY <1>3 DEF BeginCount, CountArrives
  <2> QED BY <2>1, BooksStay DEF InFlight
<1>4. CASE Admit(r)
  BY <1>4, BooksOnAdmission
<1>5. CASE Transmit(r) \/ Receive(r)
  <2>1. PICK to \in {"sending", "undelivered", "received"} :
          /\ Becomes(r, to) /\ phase[r] \in {"started", "sending"}
          /\ UNCHANGED <<charged, pending, records, reserve, cost>>
    BY <1>5 DEF Transmit, Receive
  <2> QED BY <2>1, BooksStay DEF InFlight
<1>6. CASE Fail(r)
  <2>1. /\ phase[r] \in InFlight /\ Becomes(r, "failed")
        /\ cost' = [cost EXCEPT ![r] = reserve[r]] /\ charged' = charged + reserve[r]
        /\ records' = records /\ reserve' = reserve /\ pending' = pending - reserve[r]
    BY <1>6 DEF Fail, AtSettlement, KeptOnFailure, InFlight
  <2>2. /\ charged' = charged + cost'[r] /\ cost'[r] = reserve[r]
        /\ \A x \in Request \ {r} : cost'[x] = cost[x]
        /\ "failed" \notin InFlight \cup {"new", "counting", "measured"}
    BY <2>1 DEF TypeOK, InFlight
  <2> QED BY <2>1, <2>2, BooksOnSettlement
<1>7. ASSUME NEW input \in Tokens, NEW output \in Tokens, Complete(r, input, output)
      PROVE  BooksInv'
  <2>1. PICK to \in {"answered", "returned"} : Becomes(r, to)
    BY <1>7 DEF Complete
  <2>2. phase[r] \in InFlight
    BY <1>7 DEF Complete, AtSettlement, InFlight
  <2>3. /\ records' = records /\ reserve' = reserve /\ pending' = pending - reserve[r]
        /\ charged' = charged + cost'[r]
        /\ \A x \in Request \ {r} : cost'[x] = cost[x]
    BY <1>7 DEF Complete, TypeOK
  <2>4. to \notin InFlight \cup {"new", "counting", "measured"} /\ to # "failed"
    BY DEF InFlight
  <2> QED BY <2>1, <2>2, <2>3, <2>4, BooksOnSettlement
<1>8. CASE Deliver(r) \/ GenerateFails(r)
  <2>1. PICK to \in {"withheld", "returned"} :
          /\ Becomes(r, to) /\ phase[r] = "answered"
          /\ UNCHANGED <<charged, pending, records, reserve, cost>>
    BY <1>8 DEF Deliver, Delivered, GenerateFails
  <2> QED BY <2>1, BooksStay DEF InFlight
<1> QED BY <1>1, <1>2, <1>3, <1>4, <1>5, <1>6, <1>7, <1>8 DEF Step

(* However the threads interleave, what is outstanding is the sum of the   *)
(* reservations in flight and what is charged the sum of the settled       *)
(* costs, a failed call keeping its whole reservation.                     *)
THEOREM BooksAlwaysBalance == Spec => []BooksBalance
<1>1. Init => BooksInv
  <2> SUFFICES ASSUME Init PROVE BooksInv
    OBVIOUS
  <2>1. Outstanding = {} /\ Settled = {} /\ pending = 0 /\ charged = 0
        /\ reserve \in [Request -> Int] /\ cost \in [Request -> Int]
    BY DEF Init, Outstanding, Settled
  <2>2. SumFunctionOnSet(reserve, {}) = 0 /\ SumFunctionOnSet(cost, {}) = 0
    BY <2>1, BudgetConstants, SumStep
  <2>3. BooksBalance
    BY <2>1, <2>2, BooksInParts
  <2> QED BY <2>3 DEF Init, BooksInv, RecordedOnAdmission, InFlight
<1>2. TypeOK /\ TypeOK' /\ BooksInv /\ [Next]_vars => BooksInv'
  <2> SUFFICES ASSUME TypeOK, TypeOK', BooksInv, [Next]_vars PROVE BooksInv'
    OBVIOUS
  <2>1. CASE UNCHANGED vars
    BY <2>1 DEF vars, BooksInv, RecordedOnAdmission, BooksBalance
  <2> QED BY <2>1, BooksArePreserved DEF Next
<1>3. BooksInv => BooksBalance
  BY DEF BooksInv
<1> QED BY <1>1, <1>2, <1>3, BudgetTypesHold, PTL DEF Spec

=============================================================================
