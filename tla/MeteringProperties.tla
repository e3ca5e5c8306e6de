------------------------- MODULE MeteringProperties -------------------------
(***************************************************************************)
(* What the metered transport must guarantee, and the prepaid account that *)
(* it implements.                                                          *)
(***************************************************************************)
EXTENDS Metering

Exchange ==
  [size : {request.size : request \in Requests}, reply : Replies \cup {None},
   failed : BOOLEAN, cancelled : {"no", "early", "late"}]

\* The ledger holds natural numbers, and an exchange is in hand exactly while
\* a request is being served.
MeterTypeOK ==
  /\ stop \in Conditions \cup {None}
  /\ calls \in 0 .. MaxModelCalls
  /\ cost \in Nat /\ worst_case_charged \in Nat
  /\ tokens \in [TokenKinds -> Nat]
  /\ http_statuses \in [StatusKeys -> Nat]
  /\ at \in {"idle", "opening", "sending", "closing"}
  /\ IF at = "idle" THEN exchange = None ELSE exchange \in Exchange
  /\ returned \in {"nothing", "response", "raised", "cancelled"}
  /\ overran \in BOOLEAN

InHand == IF at = "idle" THEN 0 ELSE 1
Reserved == IF at = "idle" THEN 0 ELSE WorstCase(exchange.size)

\* A reply that keeps to the token bounds costs at most the worst case that was
\* reserved for it, however its input splits over the three input prices
\* (_worst_case): a provider that keeps to its limits never stops the run.
BoundedReplyIsCovered ==
  at # "idle" =>
    LET reply == exchange.reply IN
    reply # None => (ValidUsage(reply.usage) =>
      LET counts == Count(reply.usage) IN
      InputSide(counts) <= Bound(exchange.size) /\ counts["output_tokens"] <= MaxTokens
        => Cost(counts) <= WorstCase(exchange.size))

\* What is spent, with the worst case of the call in hand, passes max_cost_usd
\* only through a reply that cost more than its own worst case, and that reply
\* has stopped the run (handle_async_request, the cost cap).
SpendWithinCap ==
  cost + Reserved > MaxCost => stop \in {"served_model_mismatch", "worst_case_exceeded"}

\* The calls that were charged their actual usage.
Metered == calls - worst_case_charged - InHand

\* Without a stop those are the calls answered with a 2xx, and no other status
\* has been counted.
CallsReconcile ==
  /\ Metered \in 0 .. http_statuses["2xx"]
  /\ stop = None =>
       /\ http_statuses["2xx"] = Metered
       /\ http_statuses["other"] = 0 /\ http_statuses["invalid"] = 0

\* The cost is what the tokens cost plus as many worst cases as were charged.
CostReconciles ==
  LET worst == cost - Cost(tokens) IN
  \E low, high \in Requests :
    /\ worst_case_charged * WorstCase(low.size) <= worst
    /\ worst <= worst_case_charged * WorstCase(high.size)

\* Every sent call is charged exactly once, however it ended (the finally of
\* handle_async_request): calls, tokens, statuses, worst cases and cost of the
\* ledger account for one another.
LedgerReconciles == CallsReconcile /\ CostReconciles

\* A request either returns a checked response, is cancelled, or has stopped
\* the run; and a failure of the inner transport has stopped it before the
\* close is awaited, so that a cancellation cannot hide it (_exchange, _halt).
FailureNeverHidden ==
  /\ returned = "raised" => stop # None
  /\ at # "idle" => (exchange.failed => stop # None)

\* The first condition is the one that stays, and after it nothing is sent.
StopIsFinal == [][stop # None => stop' = stop /\ calls' = calls]_meterVars

\* The meter is a prepaid account whose limit is the cost cap: a call reserves
\* its worst case, is charged once, and whatever exceeds it closes the account.
Account == INSTANCE PrepaidAccount WITH
  Limit <- MaxCost,
  spent <- cost,
  reserved <- IF at = "idle" THEN None ELSE WorstCase(exchange.size),
  open <- stop = None

ImplementsAccount == Account!AccountSpec

\* evals/SPEC.md, EV-LIVE-04: "a close that overruns it also stops the run".
OverrunStops == overran => stop # None
=============================================================================
