--------------------------- MODULE MeteringProofs ---------------------------
(***************************************************************************)
(* Proofs about the metered transport, for all prices, caps, requests and  *)
(* replies.                                                                *)
(***************************************************************************)
EXTENDS MeteringProperties, LiveRun, TLAPS

-----------------------------------------------------------------------------
(* Arithmetic of prices.                                                   *)

\* A product grows with either factor.
LEMMA TimesMonotone ==
  ASSUME NEW n \in Nat, NEW m \in Nat, NEW p \in Nat, NEW q \in Nat, n <= m, p <= q
  PROVE  n * p <= m * q
<1>1. n * p <= n * q
  <2>1. n * (q - p) \in Nat  BY SMT
  <2>2. n * q = n * p + n * (q - p)  BY SMT
  <2> QED  BY <2>1, <2>2, SMT
<1>2. n * q <= m * q
  <2>1. (m - n) * q \in Nat  BY SMT
  <2>2. m * q = n * q + (m - n) * q  BY SMT
  <2> QED  BY <2>1, <2>2, SMT
<1>3. n * p \in Nat /\ n * q \in Nat /\ m * q \in Nat  BY SMT
<1> QED  BY <1>1, <1>2, <1>3

\* InputPrice is the largest of the three input-side prices.
LEMMA InputPriceIsLargest ==
  /\ InputPrice \in Nat
  /\ \A k \in InputKinds : Price[k] <= InputPrice
<1> DEFINE prices == {Price[k] : k \in InputKinds}
           Largest(p) == p \in prices /\ \A k \in InputKinds : p >= Price[k]
<1>1. Price["input_tokens"] \in Nat /\ Price["cache_creation_input_tokens"] \in Nat
      /\ Price["cache_read_input_tokens"] \in Nat
  BY PriceAssumption DEF TokenKinds
<1>2. InputKinds = {"input_tokens", "cache_creation_input_tokens", "cache_read_input_tokens"}
  BY DEF InputKinds, TokenKinds
<1>3. \E p \in prices : \A k \in InputKinds : p >= Price[k]
  <2>1. \E k \in InputKinds : \A j \in InputKinds : Price[k] >= Price[j]
    BY <1>1, <1>2, SMT
  <2> QED  BY <2>1
<1>4. InputPrice \in prices /\ \A k \in InputKinds : InputPrice >= Price[k]
  BY <1>3 DEF InputPrice
<1>5. \A p \in prices : p \in Nat  BY <1>1, <1>2
<1> QED  BY <1>1, <1>2, <1>4, <1>5

\* The worst case of a request and the cost of any counts are natural numbers.
LEMMA WorstCaseType ==
  ASSUME NEW size \in Nat
  PROVE  WorstCase(size) \in Nat
<1>1. Bound(size) \in Nat  BY ProtocolAssumption DEF Bound
<1>2. Price["output_tokens"] \in Nat  BY PriceAssumption DEF TokenKinds
<1>3. MaxTokens \in Nat  BY ProtocolAssumption
<1>4. Bound(size) * InputPrice \in Nat  BY <1>1, InputPriceIsLargest, SMT
<1>5. MaxTokens * Price["output_tokens"] \in Nat  BY <1>2, <1>3, SMT
<1> QED  BY <1>4, <1>5, SMT DEF WorstCase

LEMMA CostType ==
  ASSUME NEW counts \in [TokenKinds -> Nat]
  PROVE  Cost(counts) \in Nat
<1>1. \A k \in TokenKinds : counts[k] \in Nat /\ Price[k] \in Nat  BY PriceAssumption
<1>2. \A k \in TokenKinds : counts[k] * Price[k] \in Nat  BY <1>1, SMT
<1> DEFINE a == counts["input_tokens"] * Price["input_tokens"]
           b == counts["output_tokens"] * Price["output_tokens"]
           c == counts["cache_creation_input_tokens"] * Price["cache_creation_input_tokens"]
           d == counts["cache_read_input_tokens"] * Price["cache_read_input_tokens"]
<1>3. a \in Nat /\ b \in Nat /\ c \in Nat /\ d \in Nat  BY <1>2 DEF TokenKinds
<1> HIDE DEF a, b, c, d
<1>4. a + b + c + d \in Nat  BY <1>3
<1> QED  BY <1>4 DEF Cost, a, b, c, d

\* Counts within the two bounds cost at most the worst case.
LEMMA BoundedCost ==
  ASSUME NEW counts \in [TokenKinds -> Nat], NEW size \in Nat,
         InputSide(counts) <= Bound(size), counts["output_tokens"] <= MaxTokens
  PROVE  Cost(counts) <= WorstCase(size)
<1> DEFINE i == counts["input_tokens"]
           o == counts["output_tokens"]
           w == counts["cache_creation_input_tokens"]
           r == counts["cache_read_input_tokens"]
           po == Price["output_tokens"]
           P == InputPrice
<1>1. i \in Nat /\ o \in Nat /\ w \in Nat /\ r \in Nat  BY DEF TokenKinds
<1>2. \A k \in TokenKinds : Price[k] \in Nat  BY PriceAssumption
<1>3. P \in Nat /\ \A k \in InputKinds : Price[k] <= P  BY InputPriceIsLargest
<1>4. Bound(size) \in Nat /\ MaxTokens \in Nat  BY ProtocolAssumption DEF Bound
<1>5. i * Price["input_tokens"] <= i * P
  BY <1>1, <1>2, <1>3, TimesMonotone DEF InputKinds, TokenKinds
<1>6. w * Price["cache_creation_input_tokens"] <= w * P
  BY <1>1, <1>2, <1>3, TimesMonotone DEF InputKinds, TokenKinds
<1>7. r * Price["cache_read_input_tokens"] <= r * P
  BY <1>1, <1>2, <1>3, TimesMonotone DEF InputKinds, TokenKinds
<1>8. o * po <= MaxTokens * po
  BY <1>1, <1>2, <1>4, TimesMonotone DEF TokenKinds
<1>9. (i + w + r) * P <= Bound(size) * P
  <2>1. i + w + r \in Nat /\ i + w + r <= Bound(size)  BY <1>1 DEF InputSide
  <2> QED  BY <2>1, <1>3, <1>4, TimesMonotone
<1>10. (i + w + r) * P = i * P + w * P + r * P  BY <1>1, <1>3, SMT
<1> DEFINE a == i * Price["input_tokens"]
           b == w * Price["cache_creation_input_tokens"]
           c == r * Price["cache_read_input_tokens"]
           d == o * po
           ia == i * P   wa == w * P   ra == r * P
           top == Bound(size) * P
           out == MaxTokens * po
<1>11. /\ a \in Nat /\ b \in Nat /\ c \in Nat /\ d \in Nat
       /\ ia \in Nat /\ wa \in Nat /\ ra \in Nat /\ top \in Nat /\ out \in Nat
  <2>1. \A x, y \in Nat : x * y \in Nat  BY SMT
  <2> QED  BY <1>1, <1>2, <1>3, <1>4, <2>1 DEF TokenKinds
<1>12. a <= ia /\ b <= wa /\ c <= ra /\ d <= out /\ ia + wa + ra <= top
  BY <1>5, <1>6, <1>7, <1>8, <1>9, <1>10
<1>13. Cost(counts) = a + d + b + c /\ WorstCase(size) = top + out
  BY DEF Cost, WorstCase
<1> HIDE DEF a, b, c, d, ia, wa, ra, top, out
<1> QED  BY <1>11, <1>12, <1>13

-----------------------------------------------------------------------------
(* The inductive invariant.                                                *)

\* What is true of an exchange in hand: its worst case fits the cap, the run is
\* stopped exactly if it has failed, and it has its reply if it may be checked.
ExchangeInv ==
  at # "idle" =>
    /\ cost + WorstCase(exchange.size) <= MaxCost
    /\ returned = "nothing"
    /\ exchange.failed <=> stop # None
    /\ at # "closing" => ~exchange.failed /\ exchange.cancelled = "no"
    /\ (at = "closing" /\ ~exchange.failed /\ exchange.cancelled # "early")
         => exchange.reply \in Replies

MeterInv ==
  MeterTypeOK /\ ExchangeInv /\ SpendWithinCap /\ FailureNeverHidden

\* An exchange keeps the size of its request, so its worst case is a number.
LEMMA ExchangeWorstCase ==
  ASSUME MeterTypeOK, at # "idle"
  PROVE  exchange.size \in Nat /\ WorstCase(exchange.size) \in Nat
<1>1. exchange.size \in Nat  BY TrafficAssumption DEF MeterTypeOK, Exchange
<1> QED  BY <1>1, WorstCaseType

\* The counts of a valid usage are natural numbers.
LEMMA CountType ==
  ASSUME NEW usage, ValidUsage(usage)
  PROVE  Count(usage) \in [TokenKinds -> Nat]
BY ProtocolAssumption DEF ValidUsage, Count

\* Initially the account is empty and nothing is in hand.
LEMMA MeterInitInv == MeterInit => MeterInv
<1> SUFFICES ASSUME MeterInit PROVE MeterInv  OBVIOUS
<1>1. MeterTypeOK
  <2>1. 0 \in 0 .. MaxModelCalls  BY ProtocolAssumption, SMT
  <2>2. tokens \in [TokenKinds -> Nat] /\ http_statuses \in [StatusKeys -> Nat]
    BY DEF MeterInit
  <2> QED  BY <2>1, <2>2 DEF MeterInit, MeterTypeOK
<1>2. ExchangeInv  BY DEF MeterInit, ExchangeInv
<1>3. SpendWithinCap /\ FailureNeverHidden
  BY ProtocolAssumption
  DEF MeterInit, SpendWithinCap, Reserved, FailureNeverHidden
<1> QED  BY <1>1, <1>2, <1>3 DEF MeterInv

\* Giving up an exchange charges its worst case, which was reserved.
LEMMA AbandonInv ==
  ASSUME MeterInv, at # "idle", NEW outcome \in {"raised", "cancelled"}, NEW condition,
         Abandon(outcome, condition), condition \in Conditions \cup {None},
         outcome = "raised" => condition # None,
         http_statuses' \in [StatusKeys -> Nat], overran' \in BOOLEAN
  PROVE  MeterInv'
<1> USE DEF MeterInv
<1> DEFINE worst == WorstCase(exchange.size)
<1>1. worst \in Nat  BY ExchangeWorstCase
<1>2. cost \in Nat /\ worst_case_charged \in Nat  BY DEF MeterTypeOK
<1>3. cost + worst <= MaxCost  BY DEF ExchangeInv
<1>4. /\ cost' = cost + worst /\ worst_case_charged' = worst_case_charged + 1
      /\ calls' = calls /\ tokens' = tokens /\ stop' = condition
      /\ at' = "idle" /\ exchange' = None /\ returned' = outcome
  BY DEF Abandon, ChargeWorstCase, Ended
<1> HIDE DEF worst
<1>5. cost' \in Nat /\ worst_case_charged' \in Nat  BY <1>1, <1>2, <1>4
<1>6. MeterTypeOK'  BY <1>4, <1>5 DEF MeterTypeOK
<1>7. ExchangeInv' /\ FailureNeverHidden'  BY <1>4 DEF ExchangeInv, FailureNeverHidden
<1>8. SpendWithinCap'
  <2>1. cost' <= MaxCost /\ MaxCost \in Nat  BY <1>3, <1>4, ProtocolAssumption
  <2> QED  BY <2>1, <1>4, <1>5 DEF SpendWithinCap, Reserved
<1> QED  BY <1>6, <1>7, <1>8

\* Checking a reply charges its usage or its worst case, and more than the
\* worst case only as it stops the run.
LEMMA CheckReplyInv ==
  ASSUME MeterInv, at = "closing", ~exchange.failed, exchange.cancelled # "early",
         CheckReply, overran' \in BOOLEAN
  PROVE  MeterInv'
<1> USE DEF MeterInv
<1> DEFINE reply == exchange.reply
           counts == Count(reply.usage)
           anomaly == Anomaly(reply, exchange.size)
           worst == WorstCase(exchange.size)
<1>1. reply \in Replies /\ stop = None  BY DEF ExchangeInv
<1>2. reply.status \in StatusKeys \cup {"unreadable"}  BY <1>1, TrafficAssumption DEF Reply
<1>3. http_statuses' \in [StatusKeys -> Nat]
  BY <1>2 DEF CheckReply, CountStatus, MeterTypeOK
<1>5. CASE Unmetered(reply) # None
  <2>1. Abandon("raised", Latch(Unmetered(reply)))  BY <1>5 DEF CheckReply
  <2>2. Latch(Unmetered(reply)) = Unmetered(reply)  BY <1>1 DEF Latch
  <2>3. Unmetered(reply) \in Conditions  BY <1>5 DEF Unmetered, Conditions
  <2> QED  BY <2>1, <2>2, <2>3, <1>3, <1>5, AbandonInv
<1>6. CASE Unmetered(reply) = None
  <2>1. ValidUsage(reply.usage)  BY <1>6, NoneAssumption DEF Unmetered, Conditions
  <2>2. counts \in [TokenKinds -> Nat] /\ Cost(counts) \in Nat
    BY <2>1, CountType, CostType
  <2>3. /\ cost' = cost + Cost(counts)
        /\ tokens' = [k \in TokenKinds |-> tokens[k] + counts[k]]
        /\ calls' = calls /\ worst_case_charged' = worst_case_charged
        /\ stop' = anomaly
        /\ at' = "idle" /\ exchange' = None
        /\ returned' = IF anomaly = None THEN "response" ELSE "raised"
    BY <1>1, <1>6 DEF CheckReply, ChargeUsage, Ended, Latch
  <2>4. anomaly \in Conditions \cup {None}  BY DEF Anomaly, Conditions
  <2>5. cost \in Nat  BY DEF MeterTypeOK
  <2>6. worst \in Nat /\ cost + worst <= MaxCost
    BY ExchangeWorstCase DEF ExchangeInv
  <2>7. anomaly \notin {"served_model_mismatch", "worst_case_exceeded"}
          => ~(Cost(counts) > worst)
    BY DEF Anomaly
  <2> HIDE DEF counts, anomaly, worst
  <2>8. cost' \in Nat  BY <2>2, <2>3, <2>5
  <2>9. tokens' \in [TokenKinds -> Nat]  BY <2>2, <2>3 DEF MeterTypeOK
  <2>10. MeterTypeOK'  BY <1>3, <2>3, <2>4, <2>8, <2>9 DEF MeterTypeOK
  <2>11. ExchangeInv' /\ FailureNeverHidden'
    BY <2>3 DEF ExchangeInv, FailureNeverHidden
  <2>12. SpendWithinCap'
    BY <2>2, <2>3, <2>5, <2>6, <2>7, ProtocolAssumption DEF SpendWithinCap, Reserved
  <2> QED  BY <2>10, <2>11, <2>12
<1> QED  BY <1>5, <1>6

-----------------------------------------------------------------------------
(* The steps of a request.                                                 *)

\* A refused request changes nothing but the stop.
LEMMA RefuseInv ==
  ASSUME MeterInv, NEW request \in Requests, Refuse(request)
  PROVE  MeterInv'
<1> USE DEF MeterInv
<1>1. /\ at = "idle" /\ at' = at /\ exchange' = exchange /\ returned' = "raised"
      /\ calls' = calls /\ cost' = cost /\ tokens' = tokens
      /\ worst_case_charged' = worst_case_charged /\ http_statuses' = http_statuses
      /\ overran' = overran
  BY DEF Refuse, ledger
<1>2. stop' \in Conditions /\ stop' # None /\ (stop # None => stop' = stop)
  <2>1. Refusal(request) \in Conditions \cup {None}  BY DEF Refusal, Conditions
  <2>2. stop \in Conditions \cup {None}  BY DEF MeterTypeOK
  <2> QED  BY <2>1, <2>2, NoneAssumption DEF Refuse, Latch
<1>3. MeterTypeOK'  BY <1>1, <1>2 DEF MeterTypeOK
<1>4. ExchangeInv' /\ FailureNeverHidden'
  BY <1>1, <1>2 DEF ExchangeInv, FailureNeverHidden
<1>5. SpendWithinCap'  BY <1>1, <1>2, NoneAssumption DEF SpendWithinCap, Reserved, Conditions
<1> QED  BY <1>3, <1>4, <1>5

\* An accepted request fits both caps.
LEMMA AcceptInv ==
  ASSUME MeterInv, NEW request \in Requests, Accept(request)
  PROVE  MeterInv'
<1> USE DEF MeterInv
<1>1. /\ at = "idle" /\ at' = "opening" /\ returned' = "nothing"
      /\ exchange' = [size |-> request.size, reply |-> None,
                      failed |-> FALSE, cancelled |-> "no"]
      /\ calls' = calls + 1 /\ cost' = cost /\ tokens' = tokens
      /\ worst_case_charged' = worst_case_charged /\ http_statuses' = http_statuses
      /\ overran' = overran /\ stop' = stop /\ stop = None
  BY DEF Accept
<1>2. request.size \in Nat  BY TrafficAssumption
<1>3. WorstCase(request.size) \in Nat  BY <1>2, WorstCaseType
<1>4. ~(calls + 1 > MaxModelCalls) /\ ~(cost + WorstCase(request.size) > MaxCost)
  BY NoneAssumption DEF Accept, Refusal, Conditions
<1>5. calls' \in 0 .. MaxModelCalls
  BY <1>1, <1>4, ProtocolAssumption DEF MeterTypeOK
<1>6. cost \in Nat /\ cost + WorstCase(request.size) <= MaxCost
  BY <1>3, <1>4, ProtocolAssumption DEF MeterTypeOK
<1>7. exchange' \in Exchange  BY <1>1 DEF Exchange
<1>8. MeterTypeOK'  BY <1>1, <1>5, <1>7 DEF MeterTypeOK
<1>9. exchange'.size = request.size /\ exchange'.failed = FALSE /\ exchange'.cancelled = "no"
  BY <1>1
<1>10. ExchangeInv'  BY <1>1, <1>6, <1>9 DEF ExchangeInv
<1>11. FailureNeverHidden'  BY <1>1, <1>9 DEF FailureNeverHidden
<1>12. SpendWithinCap'
  BY <1>1, <1>3, <1>6, <1>9, ProtocolAssumption DEF SpendWithinCap, Reserved
<1> QED  BY <1>8, <1>10, <1>11, <1>12

\* Steps that keep the size of the exchange and the ledger keep the account; a
\* failure is latched as it is remembered.
LEMMA CarryOnInv ==
  ASSUME MeterInv, at # "idle", at' \in {"sending", "closing"}, exchange' \in Exchange,
         exchange'.size = exchange.size,
         UNCHANGED <<ledger, returned, overran>>,
         stop' = stop \/ (stop = None /\ stop' = "transport_error"),
         exchange'.failed <=> stop' # None,
         at' = "sending" => ~exchange'.failed /\ exchange'.cancelled = "no",
         (at' = "closing" /\ ~exchange'.failed /\ exchange'.cancelled # "early")
           => exchange'.reply \in Replies
  PROVE  MeterInv'
<1> USE DEF MeterInv, ledger
<1>1. "transport_error" \in Conditions  BY DEF Conditions
<1>2. MeterTypeOK'  BY <1>1 DEF MeterTypeOK
<1>3. ExchangeInv'  BY DEF ExchangeInv
<1>4. FailureNeverHidden'  BY DEF ExchangeInv, FailureNeverHidden
<1>5. SpendWithinCap'
  <2>1. WorstCase(exchange.size) \in Nat  BY ExchangeWorstCase
  <2>2. cost' + WorstCase(exchange'.size) <= MaxCost  BY DEF ExchangeInv
  <2>3. Reserved' = WorstCase(exchange'.size)  BY DEF Reserved
  <2> QED  BY <2>1, <2>2, <2>3, ProtocolAssumption DEF SpendWithinCap, MeterTypeOK
<1> QED  BY <1>2, <1>3, <1>4, <1>5

\* Each step of an exchange keeps the invariant.
LEMMA ExchangeNextInv == MeterInv /\ ExchangeNext => MeterInv'
<1> SUFFICES ASSUME MeterInv, ExchangeNext PROVE MeterInv'  OBVIOUS
<1> USE DEF MeterInv
<1>1. /\ stop \in Conditions \cup {None} /\ "transport_error" \in Conditions
      /\ "transport_error" # None
      /\ http_statuses \in [StatusKeys -> Nat] /\ overran \in BOOLEAN
  BY NoneAssumption DEF MeterTypeOK, Conditions
<1>2. Latch("transport_error") \in Conditions /\ Latch("transport_error") # None
  BY <1>1, NoneAssumption DEF Latch
<1>3. at # "idle" => exchange \in Exchange  BY DEF MeterTypeOK
<1>4. CASE Connected
  BY <1>3, <1>4, CarryOnInv DEF Connected, ExchangeInv
<1>5. CASE ConnectFails
  BY <1>1, <1>2, <1>5, AbandonInv DEF ConnectFails
<1>6. CASE Replied
  <2>1. PICK reply \in Replies :
          /\ exchange' = [exchange EXCEPT !.reply = reply]
          /\ at = "sending" /\ at' = "closing" /\ stop' = stop
          /\ UNCHANGED <<ledger, returned, overran>>
    BY <1>6 DEF Replied, Close
  <2>2. /\ exchange' \in Exchange /\ exchange'.size = exchange.size
        /\ exchange'.failed = exchange.failed /\ exchange'.reply = reply
    BY <1>3, <2>1 DEF Exchange
  <2> QED  BY <2>1, <2>2, CarryOnInv DEF ExchangeInv
<1>7. CASE InnerRaises
  <2>1. /\ exchange' = [exchange EXCEPT !.failed = TRUE]
        /\ at = "sending" /\ at' = "closing" /\ stop' = Latch("transport_error")
        /\ UNCHANGED <<ledger, returned, overran>>
    BY <1>7 DEF InnerRaises, Close
  <2>2. /\ exchange' \in Exchange /\ exchange'.size = exchange.size /\ exchange'.failed
    BY <1>3, <2>1 DEF Exchange
  <2>3. stop' = stop \/ (stop = None /\ stop' = "transport_error")  BY <2>1 DEF Latch
  <2> QED  BY <1>2, <2>1, <2>2, <2>3, CarryOnInv
<1>8. CASE DeadlineWhileSending
  <2>1. /\ exchange' = [exchange EXCEPT !.cancelled = "early"]
        /\ at = "sending" /\ at' = "closing" /\ stop' = stop
        /\ UNCHANGED <<ledger, returned, overran>>
    BY <1>8 DEF DeadlineWhileSending, Close
  <2>2. /\ exchange' \in Exchange /\ exchange'.size = exchange.size
        /\ exchange'.failed = exchange.failed /\ exchange'.cancelled = "early"
    BY <1>3, <2>1 DEF Exchange
  <2> QED  BY <2>1, <2>2, CarryOnInv DEF ExchangeInv
<1>9. CASE DeadlineWhileClosing
  <2>1. /\ exchange' = [exchange EXCEPT !.cancelled = "late"]
        /\ at = "closing" /\ exchange.cancelled = "no" /\ at' = "closing" /\ stop' = stop
        /\ UNCHANGED <<ledger, returned, overran>>
    BY <1>9 DEF DeadlineWhileClosing
  <2>2. /\ exchange' \in Exchange /\ exchange'.size = exchange.size
        /\ exchange'.failed = exchange.failed /\ exchange'.reply = exchange.reply
    BY <1>3, <2>1 DEF Exchange
  <2> QED  BY <2>1, <2>2, CarryOnInv DEF ExchangeInv
<1>10. ASSUME CloseFailed, at = "closing", overran' \in BOOLEAN PROVE MeterInv'
  BY <1>1, <1>2, <1>10, AbandonInv DEF CloseFailed
<1>11. ASSUME Abandon("cancelled", stop), at = "closing", http_statuses' = http_statuses,
              overran' \in BOOLEAN
       PROVE  MeterInv'
  BY <1>1, <1>11, AbandonInv
<1>12. CASE CloseReturns
  <2>1. at = "closing" /\ overran' \in BOOLEAN
    BY <1>1, <1>12 DEF CloseReturns, BoundMayPass
  <2>2. CASE exchange.cancelled = "early"
    BY <1>1, <1>11, <1>12, <2>1, <2>2 DEF CloseReturns
  <2>3. CASE exchange.cancelled # "early" /\ exchange.failed
    BY <1>1, <1>2, <1>12, <2>1, <2>3, AbandonInv DEF CloseReturns
  <2>4. CASE exchange.cancelled # "early" /\ ~exchange.failed
    BY <1>12, <2>1, <2>4, CheckReplyInv DEF CloseReturns
  <2> QED  BY <2>2, <2>3, <2>4
<1>13. CASE CloseRaises  BY <1>1, <1>10, <1>13 DEF CloseRaises
<1>14. CASE CancelledWhileClosing  BY <1>1, <1>11, <1>14 DEF CancelledWhileClosing
<1>15. CASE CloseExpires  BY <1>10, <1>11, <1>15 DEF CloseExpires
<1> QED
  BY <1>4, <1>5, <1>6, <1>7, <1>8, <1>9, <1>12, <1>13, <1>14, <1>15
  DEF ExchangeNext, Open, Deadline

\* The invariant holds of every behaviour of the meter.
LEMMA MeterInvariant == MeterSpec => []MeterInv
<1>1. MeterInv /\ [MeterNext]_meterVars => MeterInv'
  <2>1. MeterInv /\ UNCHANGED meterVars => MeterInv'
    BY DEF meterVars, MeterInv, MeterTypeOK, Exchange, ExchangeInv, SpendWithinCap, Reserved,
           FailureNeverHidden
  <2>2. MeterInv /\ Request => MeterInv'  BY RefuseInv, AcceptInv DEF Request
  <2> QED  BY <2>1, <2>2, ExchangeNextInv DEF MeterNext
<1> QED  BY <1>1, MeterInitInv, PTL DEF MeterSpec

\* The spend passes the cap only by a reply that broke its own worst case.
THEOREM SpendCapHolds == MeterSpec => []SpendWithinCap
BY MeterInvariant, PTL DEF MeterInv

\* A request that did not return a checked response, and was not cancelled,
\* has stopped the run.
THEOREM FailuresStop == MeterSpec => []FailureNeverHidden
BY MeterInvariant, PTL DEF MeterInv

\* The ledger and the exchange keep their types.
THEOREM MeterTypeCorrect == MeterSpec => []MeterTypeOK
BY MeterInvariant, PTL DEF MeterInv

\* EV-LIVE-04: a provider that keeps to the token bounds is never found above
\* the worst case, whatever the prices and however the input is split.
THEOREM BoundedReplies == MeterSpec => []BoundedReplyIsCovered
<1>1. MeterInv => BoundedReplyIsCovered
  <2> SUFFICES ASSUME MeterInv, at # "idle", exchange.reply # None,
                      ValidUsage(exchange.reply.usage),
                      InputSide(Count(exchange.reply.usage)) <= Bound(exchange.size),
                      Count(exchange.reply.usage)["output_tokens"] <= MaxTokens
               PROVE  Cost(Count(exchange.reply.usage)) <= WorstCase(exchange.size)
    BY DEF BoundedReplyIsCovered
  <2>1. exchange.size \in Nat  BY ExchangeWorstCase DEF MeterInv
  <2>2. Count(exchange.reply.usage) \in [TokenKinds -> Nat]  BY CountType
  <2> QED  BY <2>1, <2>2, BoundedCost
<1> QED  BY <1>1, MeterInvariant, PTL

-----------------------------------------------------------------------------
(* Steps.                                                                  *)

\* Once a condition is latched no step changes it, and none sends a request.
LEMMA StopStep == MeterInv /\ [MeterNext]_meterVars => (stop # None => stop' = stop /\ calls' = calls)
<1> SUFFICES ASSUME MeterInv, [MeterNext]_meterVars, stop # None
             PROVE  stop' = stop /\ calls' = calls
  OBVIOUS
<1>1. CASE UNCHANGED meterVars  BY <1>1 DEF meterVars
<1>2. CASE Request  BY <1>2 DEF Request, Refuse, Accept, Latch, ledger
<1>3. CASE ExchangeNext
  <2>1. \A condition : Latch(condition) = stop  BY DEF Latch
  <2>2. ASSUME NEW outcome, NEW condition, Abandon(outcome, condition), condition = stop
        PROVE  stop' = stop /\ calls' = calls
    BY <2>2 DEF Abandon, ChargeWorstCase
  <2>3. CASE Connected \/ Replied \/ InnerRaises \/ Deadline
    BY <2>1, <2>3
    DEF Connected, Replied, InnerRaises, Deadline, DeadlineWhileSending, DeadlineWhileClosing,
        Close, ledger
  <2>4. CASE ConnectFails \/ CloseRaises \/ CancelledWhileClosing \/ CloseExpires
    BY <2>1, <2>2, <2>4 DEF ConnectFails, CloseRaises, CloseFailed, CancelledWhileClosing, CloseExpires
  <2>5. CASE CloseReturns
    <3>1. CASE exchange.cancelled = "early" \/ exchange.failed
      BY <2>1, <2>2, <2>5, <3>1 DEF CloseReturns
    <3>2. CASE ~(exchange.cancelled = "early" \/ exchange.failed)
      BY <2>1, <2>2, <2>5, <3>2 DEF CloseReturns, CheckReply, ChargeUsage
    <3> QED  BY <3>1, <3>2
  <2> QED  BY <1>3, <2>3, <2>4, <2>5 DEF ExchangeNext, Open
<1> QED  BY <1>1, <1>2, <1>3 DEF MeterNext

THEOREM StopHolds == MeterSpec => StopIsFinal
<1>1. MeterInv /\ [MeterNext]_meterVars
        => [stop # None => stop' = stop /\ calls' = calls]_meterVars
  BY StopStep
<1> QED  BY <1>1, MeterInvariant, PTL DEF MeterSpec, StopIsFinal

-----------------------------------------------------------------------------
(* The meter implements the prepaid account.                               *)

\* Every way to end an exchange is one charge of the account.
LEMMA AbandonCharges ==
  ASSUME MeterInv, at # "idle", NEW outcome, NEW condition, Abandon(outcome, condition),
         stop # None => condition # None
  PROVE  Account!Charge
<1> DEFINE worst == WorstCase(exchange.size)
<1>1. worst \in Nat /\ cost \in Nat  BY ExchangeWorstCase DEF MeterInv, MeterTypeOK
<1>2. cost' = cost + worst /\ at' = "idle" /\ stop' = condition
  BY DEF Abandon, ChargeWorstCase, Ended
<1>3. worst # None  BY <1>1, NoneAssumption
<1> HIDE DEF worst
<1>4. cost' \in Nat /\ cost' >= cost /\ ~(cost' > cost + worst)  BY <1>1, <1>2
<1>5. (stop' = None) \in {stop = None, FALSE}  BY <1>2
<1> QED  BY <1>2, <1>3, <1>4, <1>5 DEF Account!Charge, worst

LEMMA CheckReplyCharges ==
  ASSUME MeterInv, at = "closing", ~exchange.failed, exchange.cancelled # "early", CheckReply
  PROVE  Account!Charge
<1> DEFINE reply == exchange.reply
           counts == Count(reply.usage)
           anomaly == Anomaly(reply, exchange.size)
           worst == WorstCase(exchange.size)
<1>1. stop = None  BY DEF MeterInv, ExchangeInv
<1>2. CASE Unmetered(reply) # None
  BY <1>1, <1>2, AbandonCharges DEF CheckReply
<1>3. CASE Unmetered(reply) = None
  <2>1. ValidUsage(reply.usage)  BY <1>3, NoneAssumption DEF Unmetered, Conditions
  <2>2. Cost(counts) \in Nat  BY <2>1, CountType, CostType
  <2>3. cost' = cost + Cost(counts) /\ stop' = anomaly /\ at' = "idle"
    BY <1>1, <1>3 DEF CheckReply, ChargeUsage, Ended, Latch
  <2>4. worst \in Nat /\ cost \in Nat  BY ExchangeWorstCase DEF MeterInv, MeterTypeOK
  <2>5. anomaly = None => ~(Cost(counts) > worst)
    BY NoneAssumption DEF Anomaly, Conditions
  <2>6. worst # None  BY <2>4, NoneAssumption
  <2> HIDE DEF counts, anomaly, worst
  <2>7. cost' \in Nat /\ cost' >= cost /\ (cost' > cost + worst => anomaly # None)
    BY <2>2, <2>3, <2>4, <2>5
  <2>8. (stop' = None) \in {stop = None, FALSE}  BY <1>1, <2>3
  <2>9. cost' > cost + worst => ~(stop' = None)  BY <2>3, <2>7
  <2> QED  BY <2>3, <2>6, <2>7, <2>8, <2>9 DEF Account!Charge, worst
<1> QED  BY <1>2, <1>3

\* Every step of the meter is a step of the account or leaves it alone.
LEMMA AccountStep ==
  MeterInv /\ [MeterNext]_meterVars => [Account!AccountNext]_(Account!accountVars)
<1> SUFFICES ASSUME MeterInv, [MeterNext]_meterVars
             PROVE  Account!AccountNext \/ UNCHANGED Account!accountVars
  OBVIOUS
<1>1. CASE UNCHANGED meterVars  BY <1>1 DEF meterVars, Account!accountVars
<1>2. ASSUME NEW request \in Requests, Refuse(request)
      PROVE  Account!AccountNext \/ UNCHANGED Account!accountVars
  <2>1. at = "idle" /\ at' = "idle" /\ cost' = cost  BY <1>2 DEF Refuse, ledger
  <2>2. stop' # None  BY <1>2 DEF Refuse, Latch
  <2> QED  BY <2>1, <2>2 DEF Account!AccountNext, Account!Shut
<1>3. ASSUME NEW request \in Requests, Accept(request) PROVE Account!Reserve
  <2>1. WorstCase(request.size) \in Nat  BY TrafficAssumption, WorstCaseType
  <2>2. cost \in Nat  BY DEF MeterInv, MeterTypeOK
  <2>3. /\ at = "idle" /\ at' = "opening" /\ stop = None /\ stop' = stop /\ cost' = cost
        /\ exchange'.size = request.size
    BY <1>3 DEF Accept
  <2>4. ~(cost + WorstCase(request.size) > MaxCost)
    BY <1>3, NoneAssumption DEF Accept, Refusal, Conditions
  <2>5. cost + WorstCase(request.size) <= MaxCost  BY <2>1, <2>2, <2>4, ProtocolAssumption
  <2> QED  BY <2>1, <2>3, <2>5 DEF Account!Reserve
<1>4. CASE Connected
  BY <1>4 DEF Connected, ledger, Account!accountVars
<1>5. ASSUME at # "idle", at' # "idle", cost' = cost, exchange'.size = exchange.size,
             stop' = stop \/ stop' # None
      PROVE  Account!Shut \/ UNCHANGED Account!accountVars
  <2>1. CASE stop' = stop  BY <1>5, <2>1 DEF Account!accountVars
  <2>2. CASE stop' # None  BY <1>5, <2>2 DEF Account!Shut
  <2> QED  BY <1>5, <2>1, <2>2
<1>7. CASE Replied \/ DeadlineWhileSending \/ DeadlineWhileClosing \/ InnerRaises
  <2>1. at # "idle" /\ at' # "idle" /\ cost' = cost
    BY <1>7 DEF Replied, DeadlineWhileSending, DeadlineWhileClosing, InnerRaises, Close, ledger
  <2>2. exchange \in Exchange  BY <2>1 DEF MeterInv, MeterTypeOK
  <2>3. CASE Replied
    <3>1. PICK reply \in Replies : exchange' = [exchange EXCEPT !.reply = reply]
      BY <2>3 DEF Replied, Close
    <3>2. exchange'.size = exchange.size  BY <2>2, <3>1 DEF Exchange
    <3> QED  BY <1>5, <2>1, <2>3, <3>2 DEF Replied, Account!AccountNext
  <2>4. CASE DeadlineWhileSending
    <3>1. exchange'.size = exchange.size
      BY <2>2, <2>4 DEF DeadlineWhileSending, Close, Exchange
    <3> QED  BY <1>5, <2>1, <2>4, <3>1 DEF DeadlineWhileSending, Account!AccountNext
  <2>5. CASE DeadlineWhileClosing
    <3>1. exchange'.size = exchange.size
      BY <2>2, <2>5 DEF DeadlineWhileClosing, Exchange
    <3> QED  BY <1>5, <2>1, <2>5, <3>1 DEF DeadlineWhileClosing, Account!AccountNext
  <2>6. CASE InnerRaises
    <3>1. exchange'.size = exchange.size
      BY <2>2, <2>6 DEF InnerRaises, Close, Exchange
    <3>2. stop' = stop \/ stop' # None
      BY <2>6, NoneAssumption DEF InnerRaises, Latch, Conditions
    <3> QED  BY <1>5, <2>1, <3>1, <3>2 DEF Account!AccountNext
  <2> QED  BY <1>7, <2>3, <2>4, <2>5, <2>6
<1>6. CASE ConnectFails \/ CloseReturns \/ CloseRaises \/ CancelledWhileClosing \/ CloseExpires
  <2>1. at # "idle"
    BY <1>6 DEF ConnectFails, CloseReturns, CloseRaises, CancelledWhileClosing, CloseExpires
  <2>2. Latch("transport_error") # None  BY NoneAssumption DEF Latch, Conditions
  <2>3. ASSUME NEW outcome, Abandon(outcome, Latch("transport_error"))
        PROVE  Account!AccountNext
    BY <2>1, <2>2, <2>3, AbandonCharges DEF Account!AccountNext
  <2>4. ASSUME Abandon("cancelled", stop) PROVE Account!AccountNext
    BY <2>1, <2>4, AbandonCharges DEF Account!AccountNext
  <2>5. CASE ConnectFails  BY <2>3, <2>5 DEF ConnectFails
  <2>6. CASE CloseRaises  BY <2>3, <2>6 DEF CloseRaises, CloseFailed
  <2>7. CASE CancelledWhileClosing  BY <2>4, <2>7 DEF CancelledWhileClosing
  <2>8. CASE CloseExpires  BY <2>3, <2>4, <2>8 DEF CloseExpires, CloseFailed
  <2>9. CASE CloseReturns
    <3>1. CASE exchange.cancelled = "early"  BY <2>4, <2>9, <3>1 DEF CloseReturns
    <3>2. CASE exchange.cancelled # "early" /\ exchange.failed
      BY <2>3, <2>9, <3>2 DEF CloseReturns
    <3>3. CASE exchange.cancelled # "early" /\ ~exchange.failed
      BY <2>9, <3>3, CheckReplyCharges DEF CloseReturns, Account!AccountNext
    <3> QED  BY <3>1, <3>2, <3>3
  <2> QED  BY <1>6, <2>5, <2>6, <2>7, <2>8, <2>9
<1> QED
  BY <1>1, <1>2, <1>3, <1>4, <1>6, <1>7
  DEF MeterNext, Request, ExchangeNext, Open, Deadline, Account!AccountNext

THEOREM MeterImplementsAccount == MeterSpec => ImplementsAccount
<1>1. MeterInit => Account!AccountInit  BY DEF MeterInit, Account!AccountInit
<1> QED
  BY <1>1, AccountStep, MeterInvariant, PTL
  DEF MeterSpec, ImplementsAccount, Account!AccountSpec

-----------------------------------------------------------------------------
(* The ledger reconciles.                                                  *)

\* The cost of counts that are added up is the sum of their costs.
LEMMA CostIsAdditive ==
  ASSUME NEW old \in [TokenKinds -> Nat], NEW counts \in [TokenKinds -> Nat]
  PROVE  Cost([k \in TokenKinds |-> old[k] + counts[k]]) = Cost(old) + Cost(counts)
<1> DEFINE new == [k \in TokenKinds |-> old[k] + counts[k]]
<1>1. \A k \in TokenKinds : old[k] \in Nat /\ counts[k] \in Nat /\ Price[k] \in Nat
  BY PriceAssumption
<1>2. \A x, y, p \in Nat : (x + y) * p = x * p + y * p /\ x * p \in Nat  BY SMT
<1>3. \A k \in TokenKinds : new[k] * Price[k] = old[k] * Price[k] + counts[k] * Price[k]
  <2> SUFFICES ASSUME NEW k \in TokenKinds
               PROVE  new[k] * Price[k] = old[k] * Price[k] + counts[k] * Price[k]
    OBVIOUS
  <2>1. new[k] = old[k] + counts[k]  OBVIOUS
  <2> QED  BY <1>1, <1>2, <2>1
<1> HIDE DEF new
<1>4. \A k \in TokenKinds : old[k] * Price[k] \in Nat /\ counts[k] * Price[k] \in Nat
  BY <1>1, <1>2
<1> DEFINE Due(f, k) == f[k] * Price[k]
<1>5. \A f : Cost(f) = Due(f, "input_tokens") + Due(f, "output_tokens")
                      + Due(f, "cache_creation_input_tokens") + Due(f, "cache_read_input_tokens")
  BY DEF Cost
<1>6. \A k \in TokenKinds :
        Due(new, k) = Due(old, k) + Due(counts, k) /\ Due(old, k) \in Nat /\ Due(counts, k) \in Nat
  BY <1>3, <1>4
<1> HIDE DEF Due
<1>7. Cost(new) = Cost(old) + Cost(counts)  BY <1>5, <1>6 DEF TokenKinds
<1> QED  BY <1>7 DEF new

\* One worst case more is one of the worst cases in hand more.
LEMMA OneWorstCaseMore ==
  ASSUME NEW n \in Nat, NEW sum \in Int, NEW more \in Nat, NEW low \in Nat, NEW high \in Nat,
         n * low <= sum, sum <= n * high
  PROVE  /\ \E l \in {low, more} : (n + 1) * l <= sum + more
         /\ \E h \in {high, more} : sum + more <= (n + 1) * h
<1>1. \A x \in Nat : (n + 1) * x = n * x + x /\ n * x \in Nat  BY SMT
<1>2. CASE low <= more
  <2>1. (n + 1) * low <= sum + more  BY <1>1, <1>2
  <2>2. CASE more <= high
    <3>1. sum + more <= (n + 1) * high  BY <1>1, <2>2
    <3> QED  BY <2>1, <3>1
  <2>3. CASE high < more
    <3>1. n * high <= n * more  BY <2>3, TimesMonotone
    <3>2. sum + more <= (n + 1) * more  BY <1>1, <3>1
    <3> QED  BY <2>1, <3>2
  <2> QED  BY <2>2, <2>3
<1>3. CASE more < low
  <2>1. n * more <= n * low  BY <1>3, TimesMonotone
  <2>2. (n + 1) * more <= sum + more  BY <1>1, <2>1
  <2>3. CASE more <= high
    <3>1. sum + more <= (n + 1) * high  BY <1>1, <2>3
    <3> QED  BY <2>2, <3>1
  <2>4. CASE high < more
    <3>1. n * high <= n * more  BY <2>4, TimesMonotone
    <3>2. sum + more <= (n + 1) * more  BY <1>1, <3>1
    <3> QED  BY <2>2, <3>2
  <2> QED  BY <2>3, <2>4
<1> QED  BY <1>2, <1>3

LEMMA LedgerInit == MeterInit => LedgerReconciles
<1> SUFFICES ASSUME MeterInit PROVE LedgerReconciles  OBVIOUS
<1>1. CallsReconcile
  <2>1. Metered = 0  BY DEF MeterInit, Metered, InHand
  <2>2. \A k \in StatusKeys : http_statuses[k] = 0  BY DEF MeterInit
  <2> QED  BY <2>1, <2>2 DEF CallsReconcile, StatusKeys
<1>2. CostReconciles
  <2>1. PICK request \in Requests : TRUE  BY TrafficAssumption
  <2>2. WorstCase(request.size) \in Nat  BY TrafficAssumption, WorstCaseType
  <2>3. \A k \in TokenKinds : tokens[k] = 0 /\ Price[k] \in Nat
    BY PriceAssumption DEF MeterInit
  <2>4. \A n \in Nat : 0 * n = 0  BY SMT
  <2>5. Cost(tokens) = 0  BY <2>3, <2>4 DEF Cost, TokenKinds
  <2>6. cost = 0 /\ worst_case_charged = 0  BY DEF MeterInit
  <2>7. 0 * WorstCase(request.size) = 0  BY <2>2, <2>4
  <2> QED  BY <2>1, <2>5, <2>6, <2>7 DEF CostReconciles
<1> QED  BY <1>1, <1>2 DEF LedgerReconciles

\* Giving up an exchange charges one worst case and counts it.
LEMMA AbandonReconciles ==
  ASSUME MeterInv, LedgerReconciles, at # "idle", NEW outcome, NEW condition,
         Abandon(outcome, condition),
         http_statuses' \in [StatusKeys -> Nat],
         http_statuses'["2xx"] >= http_statuses["2xx"],
         stop' = None => stop = None /\ http_statuses' = http_statuses
  PROVE  LedgerReconciles'
<1> DEFINE worst == WorstCase(exchange.size)
<1>1. /\ cost' = cost + worst /\ worst_case_charged' = worst_case_charged + 1
      /\ calls' = calls /\ tokens' = tokens /\ at' = "idle"
  BY DEF Abandon, ChargeWorstCase, Ended
<1>2. /\ calls \in Nat /\ worst_case_charged \in Nat /\ cost \in Nat
      /\ tokens \in [TokenKinds -> Nat] /\ http_statuses \in [StatusKeys -> Nat]
  BY ProtocolAssumption DEF MeterInv, MeterTypeOK
<1>3. CallsReconcile'
  <2>1. Metered' = Metered  BY <1>1, <1>2 DEF Metered, InHand
  <2>2. http_statuses["2xx"] \in Nat /\ http_statuses'["2xx"] \in Nat
    BY <1>2 DEF StatusKeys
  <2> QED  BY <2>1, <2>2 DEF LedgerReconciles, CallsReconcile
<1>4. CostReconciles'
  <2>1. PICK request \in Requests : exchange.size = request.size
    BY DEF MeterInv, MeterTypeOK, Exchange
  <2>2. worst \in Nat /\ Cost(tokens) \in Nat
    BY <1>2, ExchangeWorstCase, CostType DEF MeterInv
  <2> DEFINE due == cost - Cost(tokens)
  <2>3. PICK low \in Requests, high \in Requests :
          /\ worst_case_charged * WorstCase(low.size) <= due
          /\ due <= worst_case_charged * WorstCase(high.size)
    BY DEF LedgerReconciles, CostReconciles
  <2>4. WorstCase(low.size) \in Nat /\ WorstCase(high.size) \in Nat
    BY TrafficAssumption, WorstCaseType
  <2>5. due \in Int  BY <1>2, <2>2
  <2>6. worst = WorstCase(request.size)  BY <2>1
  <2>7. cost' - Cost(tokens') = due + worst  BY <1>1, <1>2, <2>2
  <2> HIDE DEF due, worst
  <2>8. /\ \E l \in {WorstCase(low.size), worst} : (worst_case_charged + 1) * l <= due + worst
        /\ \E h \in {WorstCase(high.size), worst} : due + worst <= (worst_case_charged + 1) * h
    BY <1>2, <2>2, <2>3, <2>4, <2>5, OneWorstCaseMore
  <2>9. \E l \in Requests : worst_case_charged' * WorstCase(l.size) <= due + worst
    BY <1>1, <2>1, <2>3, <2>6, <2>8
  <2>10. \E h \in Requests : due + worst <= worst_case_charged' * WorstCase(h.size)
    BY <1>1, <2>1, <2>3, <2>6, <2>8
  <2> QED  BY <2>7, <2>9, <2>10 DEF CostReconciles
<1> QED  BY <1>3, <1>4 DEF LedgerReconciles

\* Checking a reply counts its status, and charges its tokens with their cost.
LEMMA CheckReplyReconciles ==
  ASSUME MeterInv, LedgerReconciles, at = "closing", ~exchange.failed,
         exchange.cancelled # "early", CheckReply
  PROVE  LedgerReconciles'
<1> DEFINE reply == exchange.reply
           counts == Count(reply.usage)
<1>1. reply \in Replies /\ stop = None  BY DEF MeterInv, ExchangeInv
<1>2. http_statuses \in [StatusKeys -> Nat]  BY DEF MeterInv, MeterTypeOK
<1>3. /\ http_statuses' \in [StatusKeys -> Nat]
      /\ http_statuses'["2xx"] >= http_statuses["2xx"]
  BY <1>2 DEF CheckReply, CountStatus, StatusKeys
<1>4. CASE Unmetered(reply) # None
  <2>1. Abandon("raised", Latch(Unmetered(reply)))  BY <1>4 DEF CheckReply
  <2>2. stop' # None  BY <1>1, <1>4, <2>1 DEF Abandon, Latch
  <2> QED  BY <1>3, <2>1, <2>2, AbandonReconciles
<1>5. CASE Unmetered(reply) = None
  <2>1. reply.status = "2xx" /\ ValidUsage(reply.usage)
    BY <1>5, NoneAssumption DEF Unmetered, Conditions
  <2>2. counts \in [TokenKinds -> Nat]  BY <2>1, CountType
  <2>3. /\ cost' = cost + Cost(counts) /\ worst_case_charged' = worst_case_charged
        /\ tokens' = [k \in TokenKinds |-> tokens[k] + counts[k]]
        /\ calls' = calls /\ at' = "idle"
    BY <1>5 DEF CheckReply, ChargeUsage, Ended
  <2>4. http_statuses' = [http_statuses EXCEPT !["2xx"] = @ + 1]
    BY <2>1 DEF CheckReply, CountStatus, StatusKeys
  <2>5. /\ calls \in Nat /\ worst_case_charged \in Nat /\ cost \in Nat
        /\ tokens \in [TokenKinds -> Nat]
    BY ProtocolAssumption DEF MeterInv, MeterTypeOK
  <2>6. CallsReconcile'
    <3>1. Metered' = Metered + 1  BY <2>3, <2>5 DEF Metered, InHand
    <3>2. /\ http_statuses'["2xx"] = http_statuses["2xx"] + 1
          /\ http_statuses'["other"] = http_statuses["other"]
          /\ http_statuses'["invalid"] = http_statuses["invalid"]
          /\ http_statuses["2xx"] \in Nat
      BY <1>2, <2>4 DEF StatusKeys
    <3> QED  BY <1>1, <3>1, <3>2 DEF LedgerReconciles, CallsReconcile
  <2>7. CostReconciles'
    <3>1. Cost(tokens') = Cost(tokens) + Cost(counts)  BY <2>2, <2>3, <2>5, CostIsAdditive
    <3>2. Cost(tokens) \in Nat /\ Cost(counts) \in Nat  BY <2>2, <2>5, CostType
    <3>3. cost' - Cost(tokens') = cost - Cost(tokens)  BY <2>3, <2>5, <3>1, <3>2
    <3> QED  BY <2>3, <3>3 DEF LedgerReconciles, CostReconciles
  <2> QED  BY <2>6, <2>7 DEF LedgerReconciles
<1> QED  BY <1>4, <1>5

\* The calls and the cost of the ledger account for one another at every step.
LEMMA LedgerStep == MeterInv /\ LedgerReconciles /\ [MeterNext]_meterVars => LedgerReconciles'
<1> SUFFICES ASSUME MeterInv, LedgerReconciles, [MeterNext]_meterVars PROVE LedgerReconciles'
  OBVIOUS
<1>1. http_statuses \in [StatusKeys -> Nat]  BY DEF MeterInv, MeterTypeOK
<1>2. http_statuses["2xx"] >= http_statuses["2xx"]  BY <1>1 DEF StatusKeys
<1>3. ASSUME UNCHANGED <<calls, cost, tokens, worst_case_charged, http_statuses>>,
             InHand' = InHand, stop' = stop \/ stop' # None
      PROVE  LedgerReconciles'
  <2>1. Metered' = Metered  BY <1>3 DEF Metered
  <2>2. CallsReconcile'  BY <1>3, <2>1 DEF LedgerReconciles, CallsReconcile
  <2>3. CostReconciles'  BY <1>3 DEF LedgerReconciles, CostReconciles
  <2> QED  BY <2>2, <2>3 DEF LedgerReconciles
<1>4. CASE UNCHANGED meterVars  BY <1>3, <1>4 DEF meterVars, InHand
<1>5. ASSUME NEW request \in Requests, Refuse(request) PROVE LedgerReconciles'
  BY <1>3, <1>5, NoneAssumption DEF Refuse, ledger, InHand, Latch, Conditions
<1>6. ASSUME NEW request \in Requests, Accept(request) PROVE LedgerReconciles'
  <2>1. Metered' = Metered
    BY <1>6, ProtocolAssumption DEF Accept, Metered, InHand, MeterInv, MeterTypeOK
  <2>2. CallsReconcile'  BY <1>6, <2>1 DEF Accept, LedgerReconciles, CallsReconcile
  <2>3. CostReconciles'  BY <1>6 DEF Accept, LedgerReconciles, CostReconciles
  <2> QED  BY <2>2, <2>3 DEF LedgerReconciles
<1>7. CASE Connected \/ Replied \/ InnerRaises \/ DeadlineWhileSending \/ DeadlineWhileClosing
  <2>1. Latch("transport_error") # None  BY NoneAssumption DEF Latch, Conditions
  <2> QED
    BY <1>3, <1>7, <2>1
    DEF Connected, Replied, InnerRaises, DeadlineWhileSending, DeadlineWhileClosing, Close,
        ledger, InHand
<1>8. CASE ConnectFails \/ CloseReturns \/ CloseRaises \/ CancelledWhileClosing \/ CloseExpires
  <2>1. at # "idle"
    BY <1>8 DEF ConnectFails, CloseReturns, CloseRaises, CancelledWhileClosing, CloseExpires
  <2>2. Latch("transport_error") # None  BY NoneAssumption DEF Latch, Conditions
  <2>3. ASSUME NEW outcome, Abandon(outcome, Latch("transport_error")),
               http_statuses' = http_statuses
        PROVE  LedgerReconciles'
    <3>1. stop' # None  BY <2>2, <2>3 DEF Abandon
    <3> QED  BY <1>1, <1>2, <2>1, <2>3, <3>1, AbandonReconciles
  <2>4. ASSUME Abandon("cancelled", stop), http_statuses' = http_statuses
        PROVE  LedgerReconciles'
    <3>1. stop' = stop  BY <2>4 DEF Abandon
    <3> QED  BY <1>1, <1>2, <2>1, <2>4, <3>1, AbandonReconciles
  <2>5. CASE ConnectFails  BY <2>3, <2>5 DEF ConnectFails
  <2>6. CASE CloseRaises  BY <2>3, <2>6 DEF CloseRaises, CloseFailed
  <2>7. CASE CancelledWhileClosing  BY <2>4, <2>7 DEF CancelledWhileClosing
  <2>8. CASE CloseExpires  BY <2>3, <2>4, <2>8 DEF CloseExpires, CloseFailed
  <2>9. CASE CloseReturns
    <3>1. CASE exchange.cancelled = "early"  BY <2>4, <2>9, <3>1 DEF CloseReturns
    <3>2. CASE exchange.cancelled # "early" /\ exchange.failed
      BY <2>3, <2>9, <3>2 DEF CloseReturns
    <3>3. CASE exchange.cancelled # "early" /\ ~exchange.failed
      BY <2>9, <3>3, CheckReplyReconciles DEF CloseReturns
    <3> QED  BY <3>1, <3>2, <3>3
  <2> QED  BY <1>8, <2>5, <2>6, <2>7, <2>8, <2>9
<1> QED
  BY <1>4, <1>5, <1>6, <1>7, <1>8
  DEF MeterNext, Request, ExchangeNext, Open, Deadline

\* Every sent call is charged exactly once.
THEOREM LedgerHolds == MeterSpec => []LedgerReconciles
BY LedgerInit, LedgerStep, MeterInvariant, PTL DEF MeterSpec

-----------------------------------------------------------------------------
(* The live run: the cases of a protocol over the metered transport.       *)

\* Whatever the cases do, the transport takes only steps of its own.
LEMMA LiveMeterStep == [LiveNext]_liveVars => [MeterNext]_meterVars
  BY DEF liveVars, LiveNext, BeginCase, CaseCalls, CaseExchanges, EndCase, AbortBeforeCase,
         EvaluateRefuses, CaseEscapes, Evaluated, EvalError, Conclude, WriteReport,
         Leave, MeterNext

LEMMA LiveIsMetered == LiveSpec => MeterSpec
<1>1. LiveInit => MeterInit  BY DEF LiveInit
<1> QED  BY <1>1, LiveMeterStep, PTL DEF LiveSpec, MeterSpec

\* A request is in hand only within a case, a run that goes on has told nothing,
\* and no case is graded beyond the last.
DriverInv ==
  /\ driver \in {"between", "running", "done"}
  /\ at # "idle" => driver = "running"
  /\ driver # "done" => report = None /\ ended = "not yet"
  /\ graded \in 0 .. Cases /\ (driver = "running" => graded < Cases)

RunInv == DriverInv /\ OutcomeIsGenuine

LEMMA RunInit == LiveInit => RunInv
<1> SUFFICES ASSUME LiveInit PROVE RunInv
  OBVIOUS
<1>1. DriverInv
  <2>1. 0 \in 0 .. Cases  BY CasesAssumption, SMT
  <2> QED  BY <2>1 DEF LiveInit, MeterInit, DriverInv
<1>2. OutcomeIsGenuine
  BY DEF LiveInit, OutcomeIsGenuine, CompletedMeansMeasured, StopIsReported, RefusalIsGenuine
<1> QED  BY <1>1, <1>2 DEF RunInv

\* A run that goes on has nothing to answer for.
LEMMA GoesOn ==
  ASSUME driver' # "done", report' = None, ended' = "not yet"
  PROVE  OutcomeIsGenuine'
BY DEF OutcomeIsGenuine, CompletedMeansMeasured, StopIsReported, RefusalIsGenuine

\* run_live reports between or after cases: no exchange is open, so the ledger
\* has settled.
LEMMA ReportIsGenuine ==
  ASSUME MeterInv, LedgerReconciles, DriverInv, at = "idle", driver # "done",
         NEW metrics \in Nat \cup {None}, WriteReport(metrics),
         stop = None => metrics = Cases /\ graded = Cases
  PROVE  OutcomeIsGenuine'
<1> DEFINE final == IF stop = None /\ calls = 0 THEN "no_model_calls" ELSE stop
           new   == [status  |-> IF final = None THEN "completed" ELSE "stopped",
                     stop    |-> final,
                     calls   |-> calls,
                     cost    |-> cost,
                     metrics |-> IF final = None THEN metrics ELSE None]
<1>1. /\ report' = new /\ driver' = "done" /\ ended' = "reported"
      /\ UNCHANGED <<meterVars, graded>>
  BY DEF WriteReport
<1>2. /\ stop' = stop /\ calls' = calls /\ cost' = cost
      /\ http_statuses' = http_statuses /\ worst_case_charged' = worst_case_charged
  BY <1>1 DEF meterVars
<1>3. /\ stop \in Conditions \cup {None} /\ calls \in Nat /\ cost \in Nat
      /\ worst_case_charged \in Nat /\ http_statuses["2xx"] \in Nat
  BY ProtocolAssumption DEF MeterInv, MeterTypeOK, StatusKeys
<1>4. final \in Conditions \cup {"no_model_calls", None}
  BY <1>3
<1>5. new \in Reports /\ new # None
  BY <1>3, <1>4, ReportAssumption DEF Reports
<1>6. CompletedMeansMeasured'
  <2> SUFFICES ASSUME new.status = "completed"
               PROVE  /\ stop = None /\ new.stop = None
                      /\ new.metrics = Cases /\ new.calls > 0
                      /\ new.calls = http_statuses["2xx"] + worst_case_charged
                      /\ new.cost <= MaxCost
    BY <1>1, <1>2 DEF CompletedMeansMeasured
  <2>1. final = None
    OBVIOUS
  <2>2. "no_model_calls" # None  BY ReportAssumption
  <2>3. stop = None /\ calls # 0  BY <2>1, <2>2
  <2>4. http_statuses["2xx"] = calls - worst_case_charged - 0
    BY <2>3 DEF LedgerReconciles, CallsReconcile, Metered, InHand
  <2>5. ~(cost + 0 > MaxCost)
    BY <2>3, NoneAssumption DEF MeterInv, SpendWithinCap, Reserved, Conditions
  <2> QED  BY <1>3, <2>1, <2>3, <2>4, <2>5, ProtocolAssumption
<1>7. StopIsReported'
  <2>1. stop # None => final = stop  OBVIOUS
  <2> QED  BY <1>1, <1>2, <1>5, <2>1 DEF StopIsReported
<1>8. RefusalIsGenuine'
  <2>1. "no_model_calls" \notin Conditions  BY DEF Conditions
  <2>2. final = "no_model_calls" => stop = None /\ calls = 0  BY <1>3, <2>1, ReportAssumption
  <2> QED  BY <1>1, <1>2, <1>3, <2>1, <2>2 DEF RefusalIsGenuine
<1> QED  BY <1>6, <1>7, <1>8 DEF OutcomeIsGenuine

\* While a case runs nothing has been told, whatever the transport does.
LEMMA RunningStep ==
  ASSUME RunInv, driver = "running", UNCHANGED <<driver, graded, report, ended>>
  PROVE  RunInv'
<1>1. OutcomeIsGenuine'  BY GoesOn DEF RunInv, DriverInv
<1> QED  BY <1>1 DEF RunInv, DriverInv

\* A refusal, or an exception that escapes, ends a run nothing was reported of.
LEMMA LeaveStep ==
  ASSUME RunInv, NEW how \in {"refused", "escaped"}, Leave(how), driver # "done",
         at = "idle", how = "refused" => stop = None
  PROVE  RunInv'
<1>1. /\ driver' = "done" /\ ended' = how /\ report' = None /\ stop' = stop /\ at' = at
      /\ graded' = graded
  BY DEF Leave, meterVars, RunInv, DriverInv
<1>2. DriverInv'  BY <1>1 DEF RunInv, DriverInv
<1>3. OutcomeIsGenuine'
  BY <1>1 DEF OutcomeIsGenuine, CompletedMeansMeasured, StopIsReported, RefusalIsGenuine
<1> QED  BY <1>2, <1>3 DEF RunInv

LEMMA ConcludeStep ==
  ASSUME MeterInv, LedgerReconciles, RunInv, at = "idle", driver # "done",
         NEW metrics \in Nat \cup {None}, Conclude(metrics),
         stop = None => metrics = Cases /\ graded = Cases
  PROVE  RunInv'
<1>1. CASE WriteReport(metrics)
  <2>1. OutcomeIsGenuine'  BY <1>1, ReportIsGenuine DEF RunInv
  <2>2. DriverInv'  BY <1>1 DEF WriteReport, meterVars, RunInv, DriverInv
  <2> QED  BY <2>1, <2>2 DEF RunInv
<1>2. CASE Leave("escaped")  BY <1>2, LeaveStep
<1> QED  BY <1>1, <1>2 DEF Conclude

LEMMA EvalErrorStep ==
  ASSUME MeterInv, LedgerReconciles, RunInv, at = "idle", driver # "done", EvalError
  PROVE  RunInv'
BY LeaveStep, ConcludeStep DEF EvalError

LEMMA RunStep ==
  MeterInv /\ LedgerReconciles /\ RunInv /\ [LiveNext]_liveVars => RunInv'
<1> SUFFICES ASSUME MeterInv, LedgerReconciles, RunInv, [LiveNext]_liveVars PROVE RunInv'
  OBVIOUS
<1>0. at # "idle" => driver = "running"  BY DEF RunInv, DriverInv
<1>1. CASE UNCHANGED liveVars
  BY <1>1 DEF liveVars, meterVars, runVars, RunInv, DriverInv, OutcomeIsGenuine,
         CompletedMeansMeasured, StopIsReported, RefusalIsGenuine
<1>2. CASE BeginCase
  <2>1. /\ driver' = "running" /\ report' = None /\ ended' = "not yet"
        /\ UNCHANGED <<at, graded>> /\ graded < Cases
    BY <1>2 DEF BeginCase, meterVars, RunInv, DriverInv
  <2> QED  BY <2>1, GoesOn DEF RunInv, DriverInv
<1>3. CASE CaseCalls
  BY <1>3, RunningStep DEF CaseCalls
<1>4. CASE CaseExchanges
  <2>1. at # "idle"
    BY <1>4 DEF CaseExchanges, ExchangeNext, Open, Connected, ConnectFails, Replied,
           InnerRaises, Deadline, DeadlineWhileSending, DeadlineWhileClosing, CloseReturns,
           CloseRaises, CancelledWhileClosing, CloseExpires
  <2> QED  BY <1>0, <1>4, <2>1, RunningStep DEF CaseExchanges, runVars
<1>5. CASE EndCase
  <2>1. /\ driver = "running" /\ driver' = "between" /\ report' = None /\ ended' = "not yet"
        /\ at' = "idle"
    BY <1>5 DEF EndCase, meterVars, RunInv, DriverInv
  <2>2. graded' = graded + 1 /\ graded < Cases  BY <1>5 DEF EndCase, RunInv, DriverInv
  <2>3. graded \in 0 .. Cases /\ Cases \in Nat  BY CasesAssumption DEF RunInv, DriverInv
  <2>4. graded' \in 0 .. Cases  BY <2>2, <2>3
  <2> QED  BY <2>1, <2>4, GoesOn DEF RunInv, DriverInv
<1>6. CASE AbortBeforeCase
  BY <1>0, <1>6, EvalErrorStep DEF AbortBeforeCase
<1>7. CASE EvaluateRefuses
  BY <1>0, <1>7, EvalErrorStep DEF EvaluateRefuses
<1>8. CASE CaseEscapes
  BY <1>8, LeaveStep DEF CaseEscapes
<1>9. CASE Evaluated
  BY <1>0, <1>9, ConcludeStep, CasesAssumption DEF Evaluated
<1> QED  BY <1>1, <1>2, <1>3, <1>4, <1>5, <1>6, <1>7, <1>8, <1>9 DEF LiveNext

\* Whatever the provider, the transport and the cases do, a run ends with what
\* happened in it, for any number of cases and calls: completed only if all of
\* them were measured within the cap, stopped with the first condition and the
\* whole ledger, refused only if nothing had stopped it (run_live).
THEOREM OutcomeHolds == LiveSpec => []OutcomeIsGenuine
<1>1. RunInv => OutcomeIsGenuine  BY DEF RunInv
<1> QED
  BY <1>1, RunInit, RunStep, LiveIsMetered, MeterInvariant, LedgerHolds, PTL DEF LiveSpec

\* After a stop no further case begins, nothing is sent any more and the
\* condition stays, for any number of cases (run_live's factory, the latch).
THEOREM NoCaseAfterStopHolds == LiveSpec => NoCaseAfterStop
<1>1. MeterInv /\ [LiveNext]_liveVars =>
        [stop # None =>
           /\ stop' = stop /\ calls' = calls
           /\ ~(driver = "between" /\ driver' = "running")]_liveVars
  <2> SUFFICES ASSUME MeterInv, [LiveNext]_liveVars, stop # None
               PROVE  /\ stop' = stop /\ calls' = calls
                      /\ ~(driver = "between" /\ driver' = "running")
    OBVIOUS
  <2>1. stop' = stop /\ calls' = calls  BY LiveMeterStep, StopStep
  <2>2. ~(driver = "between" /\ driver' = "running")
    BY DEF liveVars, runVars, LiveNext, BeginCase, CaseCalls, CaseExchanges, EndCase,
           AbortBeforeCase, EvaluateRefuses, CaseEscapes, Evaluated, EvalError, Conclude,
           WriteReport, Leave
  <2> QED  BY <2>1, <2>2
<1> QED
  BY <1>1, LiveIsMetered, MeterInvariant, PTL DEF LiveSpec, NoCaseAfterStop

\* The live run spends and accounts through the meter alone, so what holds of
\* the meter holds of every run: its spend keeps to the cap, its ledger
\* reconciles, and its failures are never hidden.
THEOREM LiveRunIsMetered ==
  LiveSpec => [](SpendWithinCap /\ LedgerReconciles /\ FailureNeverHidden)
BY LiveIsMetered, SpendCapHolds, LedgerHolds, FailuresStop, PTL
=============================================================================
