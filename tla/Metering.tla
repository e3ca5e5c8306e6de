------------------------------ MODULE Metering ------------------------------
(***************************************************************************)
(* MeteredTransport of evals/metering.py: the one way a live run reaches   *)
(* the provider.  It refuses a request that does not match the protocol or *)
(* whose worst case could pass a cap, charges each sent call once, and     *)
(* stops for good at the first anomaly.                                    *)
(*                                                                         *)
(* handle_async_request runs inside the investigator's wait_for, so the    *)
(* deadline may cancel it, once, at any await: while the request is sent   *)
(* and its reply read, or while the inner transport is closed.  The code   *)
(* between two awaits is one step.  Costs are in the protocol's prices per *)
(* token; the code's division by a million is left out.                    *)
(***************************************************************************)
EXTENDS Integers

CONSTANTS
  Price,            \* what a token of each kind costs
  Overhead,         \* input_overhead_tokens of the protocol
  MaxTokens,        \* provider.max_tokens of the protocol
  MaxModelCalls,    \* caps.max_model_calls
  MaxCost,          \* caps.max_cost_usd
  MAX_USAGE_COUNT,  \* the largest count a JSON number holds exactly
  Requests,         \* [size, matches]: the requests an adapter may make
  Replies,          \* what a provider may reply
  Absorbs,          \* may the inner transport's close swallow a cancellation?
  None

TokenKinds == {"input_tokens", "output_tokens",
               "cache_creation_input_tokens", "cache_read_input_tokens"}
InputKinds == TokenKinds \ {"output_tokens"}
Required == {"input_tokens", "output_tokens"}

\* The code of a status: "2xx", "other" within 100-599, "invalid" outside it,
\* "unreadable" when reading it raises.
StatusKeys == {"2xx", "other", "invalid"}

\* A reply that is "large" has more than MAX_RESPONSE_BYTES; one that is not
\* "served" names another model than the protocol's; "rebuilt" is false if the
\* response handed to the adapter cannot be built from it.
Reply == [status : StatusKeys \cup {"unreadable"}, large : BOOLEAN,
          usage : [TokenKinds -> Int \cup {None}] \cup {None},
          served : BOOLEAN, rebuilt : BOOLEAN]

Conditions ==
  {"request_mismatch", "max_model_calls", "max_cost_usd", "transport_error",
   "http_status", "response_too_large", "usage_missing", "served_model_mismatch",
   "worst_case_exceeded", "response_unchecked"}

ASSUME PriceAssumption == Price \in [TokenKinds -> Nat]
ASSUME ProtocolAssumption ==
  /\ Overhead \in Nat /\ MaxTokens \in Nat /\ MAX_USAGE_COUNT \in Nat
  /\ MaxModelCalls \in Nat /\ MaxCost \in Nat
ASSUME TrafficAssumption ==
  /\ Requests # {} /\ Requests \subseteq [size : Nat, matches : BOOLEAN]
  /\ Replies \subseteq Reply
ASSUME AbsorbsAssumption == Absorbs \in BOOLEAN
ASSUME NoneAssumption == None \notin Int \cup Conditions \cup Replies

-----------------------------------------------------------------------------
(* What a call may cost, and what it did cost.                             *)

Bound(size) == size + Overhead

InputPrice ==
  CHOOSE p \in {Price[k] : k \in InputKinds} : \A k \in InputKinds : p >= Price[k]

WorstCase(size) == Bound(size) * InputPrice + MaxTokens * Price["output_tokens"]

\* A required count must be there; any count given must fit a JSON number.
ValidUsage(usage) ==
  /\ usage # None
  /\ \A k \in TokenKinds :
       \/ usage[k] = None /\ k \notin Required
       \/ usage[k] # None /\ usage[k] \in 0 .. MAX_USAGE_COUNT

Count(usage) == [k \in TokenKinds |-> IF usage[k] = None THEN 0 ELSE usage[k]]

Cost(counts) ==
  counts["input_tokens"] * Price["input_tokens"]
  + counts["output_tokens"] * Price["output_tokens"]
  + counts["cache_creation_input_tokens"] * Price["cache_creation_input_tokens"]
  + counts["cache_read_input_tokens"] * Price["cache_read_input_tokens"]

InputSide(counts) ==
  counts["input_tokens"] + counts["cache_creation_input_tokens"]
  + counts["cache_read_input_tokens"]

-----------------------------------------------------------------------------
VARIABLES
  stop,                \* the condition that stopped the run, or None
  calls, cost, tokens, worst_case_charged, http_statuses,   \* the ledger
  at,                  \* where the request in hand is
  exchange,            \* its size, its reply, and what has gone wrong with it
  returned,            \* how the last request ended for the adapter
  overran              \* history: a close has overrun its bound

ledger == <<calls, cost, tokens, worst_case_charged, http_statuses>>
meterVars == <<stop, calls, cost, tokens, worst_case_charged, http_statuses,
               at, exchange, returned, overran>>

MeterInit ==
  /\ stop = None
  /\ calls = 0 /\ cost = 0 /\ worst_case_charged = 0
  /\ tokens = [k \in TokenKinds |-> 0]
  /\ http_statuses = [k \in StatusKeys |-> 0]
  /\ at = "idle" /\ exchange = None /\ returned = "nothing"
  /\ overran = FALSE

Latch(condition) == IF stop = None THEN condition ELSE stop

\* Mutant: only the worst case of this call is compared with the cap.
RefusalPerCall(request) ==
  IF ~request.matches THEN "request_mismatch"
  ELSE IF calls + 1 > MaxModelCalls THEN "max_model_calls"
  ELSE IF WorstCase(request.size) > MaxCost THEN "max_cost_usd"
  ELSE None

Refusal(request) ==
  IF ~request.matches THEN "request_mismatch"
  ELSE IF calls + 1 > MaxModelCalls THEN "max_model_calls"
  ELSE IF cost + WorstCase(request.size) > MaxCost THEN "max_cost_usd"
  ELSE None

Refuse(request) ==
  /\ at = "idle"
  /\ stop # None \/ Refusal(request) # None
  /\ stop' = Latch(Refusal(request))
  /\ returned' = "raised"
  /\ UNCHANGED <<ledger, at, exchange, overran>>

Accept(request) ==
  /\ at = "idle"
  /\ stop = None /\ Refusal(request) = None
  /\ calls' = calls + 1
  /\ at' = "opening"
  /\ exchange' = [size |-> request.size, reply |-> None,
                  failed |-> FALSE, cancelled |-> "no"]
  /\ returned' = "nothing"
  /\ UNCHANGED <<stop, cost, tokens, worst_case_charged, http_statuses, overran>>

-----------------------------------------------------------------------------
(* How a request ends.                                                     *)

Ended(outcome) == at' = "idle" /\ exchange' = None /\ returned' = outcome

\* Without its usage a sent call is charged its worst case.
ChargeWorstCase ==
  /\ cost' = cost + WorstCase(exchange.size)
  /\ worst_case_charged' = worst_case_charged + 1
  /\ UNCHANGED <<calls, tokens>>

Abandon(outcome, condition) ==
  /\ Ended(outcome)
  /\ stop' = condition
  /\ ChargeWorstCase

\* Mutant: the worst case is charged whether or not the usage was.
ChargeUsageAndWorst(counts) ==
  /\ cost' = cost + Cost(counts) + WorstCase(exchange.size)
  /\ worst_case_charged' = worst_case_charged + 1
  /\ tokens' = [k \in TokenKinds |-> tokens[k] + counts[k]]
  /\ UNCHANGED calls

ChargeUsage(counts) ==
  /\ cost' = cost + Cost(counts)
  /\ tokens' = [k \in TokenKinds |-> tokens[k] + counts[k]]
  /\ UNCHANGED <<calls, worst_case_charged>>

\* The first check that a reply fails before its usage is read.
Unmetered(reply) ==
  IF reply.status = "unreadable" THEN "response_unchecked"
  ELSE IF reply.status # "2xx" THEN "http_status"
  ELSE IF reply.large THEN "response_too_large"
  ELSE IF ~ValidUsage(reply.usage) THEN "usage_missing"
  ELSE None

\* Mutant: only the input side is checked against its bound.
AnomalyInputOnly(reply, size) ==
  IF ~reply.served THEN "served_model_mismatch"
  ELSE IF InputSide(Count(reply.usage)) > Bound(size) THEN "worst_case_exceeded"
  ELSE IF ~reply.rebuilt THEN "response_unchecked"
  ELSE None

\* The first check that it fails afterwards.
Anomaly(reply, size) ==
  LET counts == Count(reply.usage) IN
  IF ~reply.served THEN "served_model_mismatch"
  ELSE IF \/ InputSide(counts) > Bound(size)
          \/ counts["output_tokens"] > MaxTokens
          \/ Cost(counts) > WorstCase(size)
    THEN "worst_case_exceeded"
  ELSE IF ~reply.rebuilt THEN "response_unchecked"
  ELSE None

CountStatus(status) ==
  http_statuses' =
    IF status \in StatusKeys THEN [http_statuses EXCEPT ![status] = @ + 1]
                             ELSE http_statuses

CheckReply ==
  LET reply == exchange.reply IN
  /\ CountStatus(reply.status)
  /\ IF Unmetered(reply) # None
     THEN Abandon("raised", Latch(Unmetered(reply)))
     ELSE LET anomaly == Anomaly(reply, exchange.size) IN
          /\ ChargeUsage(Count(reply.usage))
          /\ stop' = Latch(anomaly)
          /\ Ended(IF anomaly = None THEN "response" ELSE "raised")

-----------------------------------------------------------------------------
(* One exchange with the provider: opening, sending and reading, closing.  *)

Connected ==
  /\ at = "opening"
  /\ at' = "sending"
  /\ UNCHANGED <<stop, ledger, exchange, returned, overran>>

\* With no inner transport there is nothing to close.
ConnectFails ==
  /\ at = "opening"
  /\ Abandon("raised", Latch("transport_error"))
  /\ UNCHANGED <<http_statuses, overran>>

Close(changed) ==
  /\ at' = "closing"
  /\ exchange' = changed
  /\ UNCHANGED <<ledger, returned, overran>>

Replied ==
  /\ at = "sending"
  /\ \E reply \in Replies : Close([exchange EXCEPT !.reply = reply])
  /\ UNCHANGED stop

\* Mutant: the failure is only remembered, to be latched after the close.
InnerRaisesUnlatched ==
  /\ at = "sending"
  /\ Close([exchange EXCEPT !.failed = TRUE])
  /\ UNCHANGED stop

InnerRaises ==
  /\ at = "sending"
  /\ Close([exchange EXCEPT !.failed = TRUE])
  /\ stop' = Latch("transport_error")

DeadlineWhileSending ==
  /\ at = "sending"
  /\ Close([exchange EXCEPT !.cancelled = "early"])
  /\ UNCHANGED stop

\* The inner transport may still run its own cleanup before it lets the
\* cancellation through.
DeadlineWhileClosing ==
  /\ at = "closing" /\ exchange.cancelled = "no"
  /\ exchange' = [exchange EXCEPT !.cancelled = "late"]
  /\ UNCHANGED <<stop, ledger, at, returned, overran>>

\* The close may return although its bound has cancelled it: asyncio.timeout
\* raises only if that cancellation comes out again.
BoundMayPass == overran' \in {overran} \cup (IF Absorbs THEN {TRUE} ELSE {})

\* The request goes on as if the deadline had not struck in a close that
\* swallowed it.
CloseReturns ==
  /\ at = "closing"
  /\ exchange.cancelled = "late" => Absorbs
  /\ BoundMayPass
  /\ IF exchange.cancelled = "early"
     THEN Abandon("cancelled", stop) /\ UNCHANGED http_statuses
     ELSE IF exchange.failed
     THEN Abandon("raised", Latch("transport_error")) /\ UNCHANGED http_statuses
     ELSE CheckReply

\* A cancellation that was already on its way goes on; one that was delivered
\* to the close itself is replaced by what the close raises.  Nor does it matter
\* whether the bound of the close has passed when it raises.
CloseFailed ==
  /\ Abandon(IF exchange.cancelled = "early" THEN "cancelled" ELSE "raised",
             Latch("transport_error"))
  /\ UNCHANGED http_statuses

CloseRaises == at = "closing" /\ CloseFailed /\ overran' \in {overran, TRUE}

CancelledWhileClosing ==
  /\ at = "closing" /\ exchange.cancelled = "late"
  /\ Abandon("cancelled", stop)
  /\ UNCHANGED <<http_statuses, overran>>

\* Mutant: a cancelled request waits for its close without a bound.
CloseExpiresUncancelled ==
  /\ at = "closing" /\ exchange.cancelled = "no"
  /\ overran' = TRUE
  /\ CloseFailed

\* The close lets the cancellation by its bound through.  asyncio.timeout turns
\* it into TimeoutError only if its own was the only one: after a deadline struck
\* in the close it stays a cancellation.
CloseExpires ==
  /\ at = "closing"
  /\ overran' = TRUE
  /\ IF exchange.cancelled = "late"
     THEN Abandon("cancelled", stop) /\ UNCHANGED http_statuses
     ELSE CloseFailed

Open == Connected \/ ConnectFails
Deadline == DeadlineWhileSending \/ DeadlineWhileClosing
ExchangeNext ==
  \/ Open \/ Replied \/ InnerRaises \/ Deadline
  \/ CloseReturns \/ CloseRaises \/ CancelledWhileClosing \/ CloseExpires

Request == \E request \in Requests : Refuse(request) \/ Accept(request)

MeterNext == Request \/ ExchangeNext

MeterSpec == MeterInit /\ [][MeterNext]_meterVars

\* A coroutine that can run does; the deadline the investigator gives each call
\* passes, and so does the bound of the close.  Nothing is assumed of the
\* provider; of the inner transport, that it ends an await that was cancelled,
\* by letting the cancellation through, by raising or by returning.
ExchangeFairness ==
  WF_meterVars(Open) /\ WF_meterVars(DeadlineWhileSending) /\ WF_meterVars(CloseExpires)

FairMeterSpec == MeterSpec /\ ExchangeFairness
=============================================================================
