---------------------------- MODULE ProviderBudget ----------------------------
(***************************************************************************)
(* One experiment's provider budget (src/ops/provider_admission.py) and    *)
(* the guards that put every provider request through it: guarded_providers *)
(* with or without server counting (google_server_token_count.py), and the *)
(* OpenAI Responses guards (openai_provider_admission.py,                  *)
(* openai_server_token_count.py).                                          *)
(*                                                                         *)
(* Each request is one call made by some thread; all may run at once.  The *)
(* budget's lock makes each of its methods' critical sections one step;    *)
(* the provider answers between two of them.  An OpenAI Responses guard    *)
(* keeps the lock from its first check to the delivery of the response.    *)
(***************************************************************************)
EXTENDS Integers, FiniteSets, Functions

CONSTANTS
  Request,          \* provider calls the experiment's threads attempt
  Kind,             \* Kind[r]: the request kind of r
  InputBound,       \* InputBound[r]: its byte-based input reservation
  OutputBound,      \* OutputBound[r]: its output token reservation
  GoogleCounting,   \* google_input_counting is on
  OpenAICounting,   \* openai_input_counting is on
  CallLimit,        \* CallLimit[k]: admitted calls of kind k
  CountLimit,       \* CountLimit[k]: count calls for kind k
  CountAllowance,   \* CountAllowance[k]: set aside for each count call
  MaxInput,         \* max_openai_input_tokens
  Rates,            \* Rates[k]: price of an input and an output token
  LongInput,        \* above it the long-context rates apply (200000)
  Tokens,           \* token counts the provider may report
  Cap,              \* cap_usd
  Free              \* no thread holds the lock

Kinds == {"google", "openai_embedding", "openai_response"}

ASSUME BudgetConstants ==
  /\ IsFiniteSet(Request) /\ Free \notin Request
  /\ Kind \in [Request -> Kinds]
  /\ InputBound \in [Request -> Nat] /\ OutputBound \in [Request -> Nat]
  /\ GoogleCounting \in BOOLEAN /\ OpenAICounting \in BOOLEAN
  /\ CallLimit \in [Kinds -> Nat] /\ CountLimit \in [Kinds -> Nat]
  /\ CountAllowance \in [Kinds -> Nat]
  /\ MaxInput \in Nat /\ LongInput \in Nat /\ Cap \in Nat
  /\ Rates \in [Kinds -> [input : Nat, output : Nat,
                          longInput : Nat, longOutput : Nat]]
  /\ Tokens \subseteq Nat

VARIABLES
  charged, pending, allowance,  \* the three parts of the committed total
  records,       \* admitted requests
  countRecords,  \* requests whose count was admitted
  stop,          \* stop_reason: "open" or the code of the first cause
  lock,          \* Free or the request whose guard holds the lock
  phase,         \* phase[r]: how far request r has come
  measured,      \* measured[r]: the server's input count
  reserve,       \* reserve[r]: reserved_usd of its record
  cost,          \* cost[r]: estimated_usd of its settled record
  exceeded       \* records marked reservation_exceeded

money == <<charged, pending, allowance>>
vars  == <<money, records, countRecords, stop, lock, phase, measured, reserve,
           cost, exceeded>>

StopCodes ==
  {"provider_call_limit_reached", "budget_reservation_exceeded",
   "provider_count_call_limit_reached", "provider_token_count_failed",
   "provider_request_failed", "provider_usage_exceeded_reservation",
   "unapproved_input_size", "unapproved"}

(* A request whose reservation is outstanding. *)
InFlight == {"started", "sending", "received", "undelivered"}

Ended == {"returned", "withheld", "failed", "refused"}

Phases == {"new", "counting", "measured", "answered"} \cup InFlight \cup Ended

TypeOK ==
  /\ charged \in Nat /\ pending \in Int /\ allowance \in Nat
  /\ records \subseteq Request /\ countRecords \subseteq Request
  /\ stop \in StopCodes \cup {"open"}
  /\ lock \in Request \cup {Free}
  /\ phase \in [Request -> Phases]
  /\ measured \in [Request -> Nat]
  /\ reserve \in [Request -> Nat]
  /\ cost \in [Request -> Nat]
  /\ exceeded \subseteq Request

-----------------------------------------------------------------------------
(* Which guard a request passes through.                                   *)

Response(r)  == Kind[r] = "openai_response"
Counted(r)   == \/ Kind[r] = "google" /\ GoogleCounting
                \/ Response(r) /\ OpenAICounting
Embedding(r) == Kind[r] = "openai_embedding"

(* Guards that close the budget on a local refusal and withhold a response *)
(* once it is closed; the older google and embedding guards do neither.    *)
Strict(r) == Response(r) \/ Counted(r)

(* An embedding's transport passes the counting guard's lock and check.    *)
Gated(r) == Embedding(r) /\ OpenAICounting

MayEnter(r) == lock \in {Free, r}

\* Mutant: the lock is not given back when the guard is left.
Released_Never(r) == lock

Released(r) == IF lock = r THEN Free ELSE lock

(* A Responses guard takes the lock for the whole request. *)
Taken(r) == IF Response(r) THEN r ELSE lock

-----------------------------------------------------------------------------
(* Quotes.                                                                 *)

Cost(kind, input, output) ==
  LET long == input > LongInput
  IN  input * (IF long THEN Rates[kind].longInput ELSE Rates[kind].input)
      + output * (IF long THEN Rates[kind].longOutput ELSE Rates[kind].output)

Bound(r) == IF Counted(r) THEN measured[r] ELSE InputBound[r]

\* Mutant: reservations of calls in flight are not counted.
Committed_SettledOnly == charged + allowance

Committed == charged + pending + allowance

OfKind(S, kind) == {x \in S : Kind[x] = kind}

CallsMade(kind) == Cardinality(OfKind(records, kind))

CountsMade(kind) == Cardinality(OfKind(countRecords, kind))

(* preflight: why a request may not be sent, or "none". *)
Denial(r, input) ==
  IF stop # "open" THEN stop
  ELSE IF CallsMade(Kind[r]) >= CallLimit[Kind[r]]
  THEN "provider_call_limit_reached"
  ELSE IF Committed + Cost(Kind[r], input, OutputBound[r]) > Cap
  THEN "budget_reservation_exceeded" ELSE "none"

(* _count_input: known denials of the generation first, with no input, and *)
(* then the count's own limit and allowance.                               *)
CountDenial(r) ==
  IF Denial(r, 0) # "none" THEN Denial(r, 0)
  ELSE IF CountsMade(Kind[r]) >= CountLimit[Kind[r]]
  THEN "provider_count_call_limit_reached"
  ELSE IF Committed + Cost(Kind[r], 0, OutputBound[r]) + CountAllowance[Kind[r]] > Cap
  THEN "budget_reservation_exceeded" ELSE "none"

(* _close: the first cause stays. *)
FirstCause(code) == IF stop = "open" THEN code ELSE stop

-----------------------------------------------------------------------------
Init ==
  /\ charged = 0 /\ pending = 0 /\ allowance = 0
  /\ records = {} /\ countRecords = {} /\ exceeded = {}
  /\ stop = "open" /\ lock = Free
  /\ phase = [r \in Request |-> "new"]
  /\ measured = [r \in Request |-> 0]
  /\ reserve = [r \in Request |-> 0]
  /\ cost = [r \in Request |-> 0]

Becomes(r, to) == phase' = [phase EXCEPT ![r] = to]

(* A strict guard meets a closed budget before anything else. *)
TurnAway(r) ==
  /\ phase[r] = "new" /\ Strict(r) /\ stop # "open"
  /\ Response(r) => MayEnter(r)
  /\ Becomes(r, "refused")
  /\ UNCHANGED <<money, records, countRecords, stop, lock, measured, reserve,
                 cost, exceeded>>

(* The request fails local admission: model, settings, transport, body.    *)
RejectLocally(r) ==
  /\ phase[r] = "new"
  /\ Strict(r) => MayEnter(r)
  /\ Becomes(r, "refused")
  /\ stop' = IF Strict(r) THEN FirstCause("unapproved") ELSE stop
  /\ UNCHANGED <<money, records, countRecords, lock, measured, reserve, cost,
                 exceeded>>

(* Refused by the budget: the caller gets the first cause and the guard    *)
(* lets go of the lock.                                                    *)
Refuse(r, code) ==
  /\ Becomes(r, "refused")
  /\ stop' = FirstCause(code)
  /\ lock' = Released(r)
  /\ UNCHANGED <<money, records, countRecords, measured, reserve, cost,
                 exceeded>>

DenyCount(r) ==
  /\ phase[r] = "new" /\ Counted(r) /\ MayEnter(r)
  /\ CountDenial(r) # "none"
  /\ Refuse(r, CountDenial(r))

BeginCount(r) ==
  /\ phase[r] = "new" /\ Counted(r) /\ MayEnter(r)
  /\ CountDenial(r) = "none"
  /\ allowance' = allowance + CountAllowance[Kind[r]]
  /\ countRecords' = countRecords \cup {r}
  /\ Becomes(r, "counting")
  /\ lock' = Taken(r)
  /\ UNCHANGED <<charged, pending, records, stop, measured, reserve, cost,
                 exceeded>>

(* The count failed or was no positive integer: no generation follows.     *)
CountFails(r) ==
  /\ phase[r] = "counting" /\ MayEnter(r)
  /\ Refuse(r, "provider_token_count_failed")

CountArrives(r, tokens) ==
  /\ phase[r] = "counting" /\ MayEnter(r)
  /\ tokens > 0
  /\ Response(r) => tokens <= MaxInput
  /\ measured' = [measured EXCEPT ![r] = tokens]
  /\ Becomes(r, "measured")
  /\ UNCHANGED <<money, records, countRecords, stop, lock, reserve, cost,
                 exceeded>>

CountTooLarge(r) ==
  /\ phase[r] = "counting" /\ Response(r) /\ MayEnter(r)
  /\ \E tokens \in Tokens : tokens > MaxInput
  /\ Refuse(r, "unapproved_input_size")

(* dispatch is entered with a measured input, or straight from the guard.  *)
AtDispatch(r) ==
  /\ phase[r] = IF Counted(r) THEN "measured" ELSE "new"
  /\ MayEnter(r)

Deny(r) ==
  /\ AtDispatch(r)
  /\ Denial(r, Bound(r)) # "none"
  /\ Refuse(r, Denial(r, Bound(r)))

Admit(r) ==
  /\ AtDispatch(r)
  /\ Denial(r, Bound(r)) = "none"
  /\ reserve' = [reserve EXCEPT ![r] = Cost(Kind[r], Bound(r), OutputBound[r])]
  /\ pending' = pending + reserve'[r]
  /\ records' = records \cup {r}
  /\ Becomes(r, "started")
  /\ lock' = Taken(r)
  /\ UNCHANGED <<charged, allowance, countRecords, stop, measured, cost,
                 exceeded>>

(* An admitted embedding waits for the counting guard's lock and is not    *)
(* sent when the budget has been closed meanwhile.                         *)
Transmit(r) ==
  /\ phase[r] = "started" /\ Gated(r) /\ lock = Free
  /\ IF stop = "open" THEN Becomes(r, "sending") /\ lock' = r
     ELSE Becomes(r, "undelivered") /\ lock' = lock
  /\ UNCHANGED <<money, records, countRecords, stop, measured, reserve, cost,
                 exceeded>>

Receive(r) ==
  /\ phase[r] = "sending"
  /\ Becomes(r, "received")
  /\ lock' = Released(r)
  /\ UNCHANGED <<money, records, countRecords, stop, measured, reserve, cost,
                 exceeded>>

AtSettlement(r) ==
  /\ phase[r] = IF Gated(r) THEN "received" ELSE "started"
  /\ MayEnter(r)

\* Mutant: a failed call is charged nothing.
KeptOnFailure_Nothing(r) == 0

(* What a failed call, or one whose usage is unknown, is charged. *)
KeptOnFailure(r) == reserve[r]

Fail(r) ==
  /\ \/ AtSettlement(r)
     \/ phase[r] = "undelivered" /\ MayEnter(r)
  /\ pending' = pending - reserve[r]
  /\ charged' = charged + KeptOnFailure(r)
  /\ cost' = [cost EXCEPT ![r] = KeptOnFailure(r)]
  /\ stop' = FirstCause("provider_request_failed")
  /\ Becomes(r, "failed")
  /\ lock' = Released(r)
  /\ UNCHANGED <<allowance, records, countRecords, measured, reserve, exceeded>>

Overrun(r, input, output) == input > Bound(r) \/ output > OutputBound[r]

(* The actual usage replaces the reservation; an overrun closes the run.   *)
Complete(r, input, output) ==
  /\ AtSettlement(r) /\ input > 0
  /\ pending' = pending - reserve[r]
  /\ cost' = [cost EXCEPT ![r] = Cost(Kind[r], input, output)]
  /\ charged' = charged + cost'[r]
  /\ exceeded' = IF Overrun(r, input, output) THEN exceeded \cup {r} ELSE exceeded
  /\ stop' = IF Overrun(r, input, output)
             THEN FirstCause("provider_usage_exceeded_reservation") ELSE stop
  /\ Becomes(r, IF Strict(r) THEN "answered" ELSE "returned")
  /\ UNCHANGED <<allowance, records, countRecords, lock, measured, reserve>>

\* Mutant: a settled response is returned whatever it used.
Delivered_Always == "returned"

Delivered == IF stop = "open" THEN "returned" ELSE "withheld"

Deliver(r) ==
  /\ phase[r] = "answered"
  /\ Becomes(r, Delivered)
  /\ lock' = Released(r)
  /\ UNCHANGED <<money, records, countRecords, stop, measured, reserve, cost,
                 exceeded>>

(* ServerCountedGoogle.generate: the SDK fails on the settled response.    *)
GenerateFails(r) ==
  /\ phase[r] = "answered" /\ Kind[r] = "google" /\ MayEnter(r)
  /\ Becomes(r, "withheld")
  /\ stop' = FirstCause("provider_request_failed")
  /\ UNCHANGED <<money, records, countRecords, lock, measured, reserve, cost,
                 exceeded>>

-----------------------------------------------------------------------------
Step(r) ==
  \/ TurnAway(r) \/ RejectLocally(r)
  \/ DenyCount(r) \/ BeginCount(r)
  \/ CountFails(r) \/ CountTooLarge(r)
  \/ \E tokens \in Tokens : CountArrives(r, tokens)
  \/ Deny(r) \/ Admit(r) \/ Transmit(r) \/ Receive(r) \/ Fail(r)
  \/ \E input, output \in Tokens : Complete(r, input, output)
  \/ Deliver(r) \/ GenerateFails(r)

Next == \E r \in Request : Step(r)

Spec == Init /\ [][Next]_vars

(* Every thread keeps running, and every provider call ends in an answer,  *)
(* an error or a timeout.                                                  *)
FairSpec == Spec /\ \A r \in Request : WF_vars(Step(r))

-----------------------------------------------------------------------------
(* Until a provider uses more than was reserved for it, settled costs,     *)
(* outstanding reservations and count allowances together stay within      *)
(* cap_usd, however many threads count and dispatch at once.               *)
WithinCap == exceeded = {} => Committed <= Cap

(* No interleaving of counts and dispatches passes a call limit: calls in  *)
(* flight and calls that failed count as well.                             *)
CallLimitsKept ==
  \A k \in Kinds :
    /\ Cardinality(OfKind(records, k)) <= CallLimit[k]
    /\ Cardinality(OfKind(countRecords, k)) <= CountLimit[k]

(* The books balance at every moment: what is outstanding is the sum of    *)
(* the reservations in flight, and what is charged the sum of the settled  *)
(* records, in which a failed call keeps its whole reservation.            *)
BooksBalance ==
  LET settled == {r \in records : phase[r] \notin InFlight}
  IN  /\ pending = SumFunctionOnSet(reserve, records \ settled)
      /\ charged = SumFunctionOnSet(cost, settled)
      /\ \A r \in settled : phase[r] = "failed" => cost[r] = reserve[r]

(* Once any request has used more than its reservation or has failed, no   *)
(* strict guard hands out another response: neither the request's own nor  *)
(* one that was admitted, counted or answered while the run was open.      *)
NothingAcceptedAfterOverrun ==
  [][\A r \in Request :
       /\ Strict(r)
       /\ phase[r] # "returned" /\ phase'[r] = "returned"
       => /\ exceeded = {}
          /\ \A s \in Request : phase[s] # "failed"]_vars

(* The reported stop reason is the first cause, never a later consequence. *)
FirstCauseKept == [][stop # "open" => stop' = stop]_vars

(* A closed budget admits neither a generation nor a count, though calls   *)
(* already in flight still settle.                                         *)
NothingAdmittedAfterClose ==
  [][stop # "open" => records' = records /\ countRecords' = countRecords]_vars

(* While an OpenAI count and generation pair holds the budget, no other    *)
(* thread changes what the pair was quoted against, or closes the run.     *)
PairUndisturbed ==
  [][\A r \in Request :
       /\ lock = r /\ lock' = r
       /\ money' # money \/ stop' # stop
       => phase'[r] # phase[r]]_vars

(* Every request ends, closed budget or not, and then nothing is           *)
(* outstanding and the lock is free.                                       *)
EveryRequestEnds ==
  <>[](/\ \A r \in Request : phase[r] \in Ended
       /\ pending = 0 /\ lock = Free)
=============================================================================
