---------------------------- MODULE Investigator ----------------------------
(***************************************************************************)
(* Investigator.run over the local JSON repository, for one idempotency    *)
(* key: every submission of an event under this key, from any process,     *)
(* looks the key up, and the one whose mkdir succeeds investigates.        *)
(*                                                                         *)
(* A step is the code between two effects another process or a crash can   *)
(* observe: a repository read, a repository write, an adapter invocation   *)
(* or its answer.  A record write is atomic (os.replace); one that fails   *)
(* before the replace leaves the old record and one that fails after it,   *)
(* at the directory fsync, leaves the new one.                             *)
(*                                                                         *)
(* Of the clock the code asks only whether the remaining time is zero, so  *)
(* the clock is one monotone flag per submission, expired.  The audit log  *)
(* is kept as the number of its entries of each kind.                      *)
(***************************************************************************)
EXTENDS Evidence

CONSTANTS
  Submissions,     \* calls of Investigator.run with this idempotency key
  Configs,         \* what a submission can bring: event, policy, provider,
                   \*   and callable, the tools its adapter really has
  Requests,        \* the reads a model may ask for
  Contents,        \* what a read may return
  Faults,          \* which of FaultKinds the environment exhibits
  ProviderFaults,  \* what an adapter may raise: ProviderErrors
  None             \* no metadata, no request, no result

FaultKinds ==
  {"crash", "read", "write", "context", "oversize", "malformed", "unencodable"}

ProviderErrors == {"TimeoutError", "Exception"} \cup Errors

ASSUME FaultsAssumption ==
  /\ Faults \subseteq FaultKinds
  /\ ProviderFaults \subseteq ProviderErrors

\* A policy's limits are natural numbers: the policy schema.
ASSUME ConfigsAssumption ==
  /\ None \notin Configs
  /\ \A c \in Configs : c.policy.limits \in [Counters -> Nat]

\* What a duplicate submission must agree on with the one that claimed the key.
Metadata(config) ==
  [event |-> config.event, policy |-> config.policy, provider |-> config.provider]

(***************************************************************************)
(* The stored record.  While the claim directory holds no record.json a    *)
(* reader is given the RUNNING placeholder, so that is what "no record"    *)
(* looks like.                                                             *)
(***************************************************************************)
PlainEntries ==
  {"state", "policy_loaded", "adapter_rejected", "model_action",
   "model_result_received", "policy_rejected", "policy_permitted",
   "evidence_added", "failure", "terminal"}
CallEntries == {"budget_reserved", "call_started", "call_completed"}
Entries     == (PlainEntries \X {"-"}) \cup (CallEntries \X CallKinds)

NoAudit == [entry \in Entries |-> 0]

NoRecord ==
  [state |-> "RUNNING", metadata |-> None, audit |-> NoAudit, evidence |-> {},
   result |-> None]

\* What a caller of run can tell about a record it is given.
View(rec) ==
  [state |-> rec.state, metadata |-> rec.metadata, result |-> rec.result]

(***************************************************************************)
(* Answers of the adapters, and what a submission hands to its caller.     *)
(***************************************************************************)
NoAnswer == [kind |-> "none"]
Garbage  == [kind |-> "malformed"]      \* fails the action, draft or evidence schema
\* holds a lone surrogate: JSON to the code, and nothing UTF-8 can encode
Unencodable == [kind |-> "unencodable"]
Finish   == [kind |-> "finish"]
BadBody  == [kind |-> "bad_envelope"]   \* fails the envelope checks of Ledger.add
Ask(request)      == [kind |-> "tool_request", request |-> request]
Draft(draft)      == [kind |-> "draft", draft |-> draft]
Response(content) == [kind |-> "response", content |-> content]

NoOutcome     == [kind |-> "none"]
Returned(rec) == [kind |-> "returned", view |-> View(rec)]
Raised(error) == [kind |-> "raised", error |-> error]

VARIABLES
  dir,       \* whether the claim directory exists
  record,    \* the stored record, NoRecord before the first write
  pc,        \* pc[s]: where submission s is in run
  config,    \* config[s]: what s brought, None before it is submitted
  claims,    \* the submissions whose mkdir succeeded
  work,      \* work[s]: the local variables of run
  expired,   \* expired[s]: whether Budget.remaining() is zero
  invoked,   \* invoked[s][k]: adapter invocations of kind k made for s
  outcome    \* outcome[s]: what s returned or raised

vars == <<dir, record, pc, config, claims, work, expired, invoked, outcome>>

Operations == {"choose_action", "produce_result", "tool"}
KindOf(operation) == IF operation = "tool" THEN "tool_calls" ELSE "model_calls"

Fresh ==
  [state |-> "RECEIVED", usage |-> [c \in Counters |-> 0], ledger |-> {},
   operation |-> "choose_action", request |-> None, answer |-> NoAnswer,
   reason |-> "none", missing |-> FALSE, result |-> None]

Init ==
  /\ dir = FALSE
  /\ record = NoRecord
  /\ pc = [s \in Submissions |-> "idle"]
  /\ config = [s \in Submissions |-> None]
  /\ claims = {}
  /\ work = [s \in Submissions |-> Fresh]
  /\ expired = [s \in Submissions |-> FALSE]
  /\ invoked = [s \in Submissions |-> [k \in CallKinds |-> 0]]
  /\ outcome = [s \in Submissions |-> NoOutcome]

(***************************************************************************)
(* Steps shared by the actions.                                            *)
(***************************************************************************)
Goto(s, next) == pc' = [pc EXCEPT ![s] = next]
Work(s, value) == work' = [work EXCEPT ![s] = value]

\* run ends for the caller of s.
End(s, value) ==
  /\ Goto(s, "done")
  /\ outcome' = [outcome EXCEPT ![s] = value]

\* An InvestigationError inside the try block of run.
Fail(s, error, missing) ==
  /\ Goto(s, "failing")
  /\ Work(s, [work[s] EXCEPT !.reason = error, !.missing = missing])
  /\ UNCHANGED <<dir, record, config, claims, expired, invoked, outcome>>

\* A write of the repository: it replaces the record by rec and the caller
\* goes on at next, or it fails and PersistenceError leaves run.
Writable == record # NoRecord /\ record.state \notin TERMINAL

Write(s, rec, next) ==
  \/ /\ record' = rec
     /\ Goto(s, next)
     /\ UNCHANGED outcome
  \/ /\ "write" \in Faults
     /\ record' \in {record, rec}
     /\ End(s, Raised("PersistenceError"))

\* A write through _running, which refuses a missing or a terminal record.
Persist(s, rec, next) ==
  IF Writable THEN Write(s, rec, next)
  ELSE /\ End(s, Raised("PersistenceError"))
       /\ UNCHANGED record

Noted(rec, kind)         == [rec EXCEPT !.audit[<<kind, "-">>] = @ + 1]
NotedCall(rec, kind, op) == [rec EXCEPT !.audit[<<kind, KindOf(op)>>] = @ + 1]

\* The audit of a step that changes nothing else.
Audit(s, kind, next) ==
  /\ Persist(s, Noted(record, kind), next)
  /\ UNCHANGED <<dir, config, claims, expired, invoked>>

\* move(target): the local state, the audit entry and the state it stores.
Move(s, target, next) ==
  /\ MayMove(work[s].state, target)
  /\ Work(s, [work[s] EXCEPT !.state = target])
  /\ Persist(s, [Noted(record, "state") EXCEPT !.state = target], next)
  /\ UNCHANGED <<dir, config, claims, expired, invoked>>

(***************************************************************************)
(* Looking the key up, and claiming it.                                    *)
(***************************************************************************)
\* Mutant: a duplicate is given whatever record it finds.
DuplicateUnchecked(s) == End(s, Returned(record))

\* _validate_existing: a record with other metadata is a collision; the
\* placeholder has no metadata to compare.
Duplicate(s) ==
  End(s, IF record.metadata \notin {None, Metadata(config[s])}
         THEN Raised("PolicyError") ELSE Returned(record))

\* An event that fails its schema, or cannot be encoded to measure it, is
\* refused before the key is derived.
RefuseEvent(s) ==
  /\ pc[s] = "idle"
  /\ \/ "malformed" \in Faults /\ End(s, Raised("ContractError"))
     \/ "unencodable" \in Faults /\ End(s, Raised("UnicodeEncodeError"))
  /\ UNCHANGED <<dir, record, config, claims, work, expired, invoked>>

Submit(s) ==
  /\ pc[s] = "idle"
  /\ \E c \in Configs : config' = [config EXCEPT ![s] = c]
  /\ Goto(s, "lookup")
  /\ UNCHANGED <<dir, record, claims, work, expired, invoked, outcome>>

\* Mutant: a claim without a record is taken for a crashed one and redone.
LookupReclaims(s) ==
  /\ pc[s] = "lookup"
  /\ \/ /\ ~dir
        /\ Goto(s, "claim")
        /\ UNCHANGED <<claims, outcome>>
     \/ /\ dir /\ record = NoRecord
        /\ Goto(s, "create")
        /\ claims' = claims \cup {s}
        /\ UNCHANGED outcome
     \/ /\ dir /\ record # NoRecord
        /\ Duplicate(s)
        /\ UNCHANGED claims
  /\ UNCHANGED <<dir, record, config, work, expired, invoked>>

Lookup(s) ==
  /\ pc[s] = "lookup"
  /\ IF dir THEN Duplicate(s) ELSE Goto(s, "claim") /\ UNCHANGED outcome
  /\ UNCHANGED <<dir, record, config, claims, work, expired, invoked>>

\* Mutant: mkdir with exist_ok.
ClaimExistOk(s) ==
  /\ pc[s] = "claim"
  /\ Goto(s, "create")
  /\ claims' = claims \cup {s}
  /\ dir' = TRUE
  /\ UNCHANGED <<record, config, work, expired, invoked, outcome>>

\* mkdir: exactly one caller finds the name free.
Claim(s) ==
  /\ pc[s] = "claim"
  /\ IF dir THEN Goto(s, "relookup") /\ UNCHANGED claims
            ELSE Goto(s, "create") /\ claims' = claims \cup {s}
  /\ dir' = TRUE
  /\ UNCHANGED <<record, config, work, expired, invoked, outcome>>

ClaimFails(s) ==
  /\ pc[s] = "claim"
  /\ "write" \in Faults
  /\ ~dir
  /\ End(s, Raised("PersistenceError"))
  /\ UNCHANGED <<dir, record, config, claims, work, expired, invoked>>

Relookup(s) ==
  /\ pc[s] = "relookup"
  /\ Duplicate(s)
  /\ UNCHANGED <<dir, record, config, claims, work, expired, invoked>>

\* The first record: create_investigation's write, not guarded by _running.
Create(s) ==
  /\ pc[s] = "create"
  /\ Write(s, [NoRecord EXCEPT !.state = "RECEIVED",
                               !.metadata = Metadata(config[s])], "open")
  /\ UNCHANGED <<dir, config, claims, work, expired, invoked>>

\* A read of the repository that finds the record unreadable.
ReadFails(s) ==
  /\ pc[s] \in {"lookup", "relookup", "reread"}
  /\ "read" \in Faults
  /\ dir
  /\ End(s, Raised("PersistenceError"))
  /\ UNCHANGED <<dir, record, config, claims, work, expired, invoked>>

(***************************************************************************)
(* The claimer, up to the loop.                                            *)
(***************************************************************************)
Validate(s)   == pc[s] = "open" /\ Move(s, "VALIDATED", "load")
LoadPolicy(s) == pc[s] = "load" /\ Audit(s, "policy_loaded", "loaded") /\ UNCHANGED work
PolicyLoaded(s) == pc[s] = "loaded" /\ Move(s, "POLICY_LOADED", "admit")

Admit(s) ==
  /\ pc[s] = "admit"
  /\ IF AdmitsEvent(config[s].policy, config[s].event)
     THEN Move(s, "INVESTIGATING", "dispatch")
     ELSE Fail(s, "PolicyError", FALSE)

\* Every capability must be callable on the adapter before any call is made.
Dispatch(s) ==
  /\ pc[s] = "dispatch"
  /\ IF Tools \subseteq config[s].callable
     THEN Goto(s, "context") /\ UNCHANGED <<record, work, outcome>>
     ELSE /\ Persist(s, Noted(record, "adapter_rejected"), "failing")
          /\ Work(s, [work[s] EXCEPT !.reason = "ContractError"])
  /\ UNCHANGED <<dir, config, claims, expired, invoked>>

(***************************************************************************)
(* The working context of a model call, and one call: reserve, audit,      *)
(* check the deadline, audit, invoke under the remaining time, check the   *)
(* deadline, audit.                                                        *)
(***************************************************************************)
Context(s) ==
  /\ pc[s] = "context"
  /\ Goto(s, "reserve")
  /\ UNCHANGED <<dir, record, config, claims, work, expired, invoked, outcome>>

ContextTooLarge(s) ==
  /\ pc[s] = "context"
  /\ "context" \in Faults
  /\ Fail(s, "ContractError", FALSE)

Reserve(s) ==
  /\ pc[s] = "reserve"
  /\ LET kind == KindOf(work[s].operation) IN
     IF expired[s] \/ Exhausted(config[s].policy.limits, work[s].usage)
     THEN Fail(s, "BudgetError", FALSE)
     ELSE /\ Work(s, [work[s] EXCEPT !.usage[kind] = @ + 1])
          /\ Persist(s, NotedCall(record, "budget_reserved", work[s].operation), "start")
          /\ UNCHANGED <<dir, config, claims, expired, invoked>>

\* Mutant: the call is made before its start is stored.
StartUnlogged(s) ==
  /\ pc[s] = "start"
  /\ ~expired[s]
  /\ Goto(s, "invoke")
  /\ UNCHANGED <<dir, record, config, claims, work, expired, invoked, outcome>>

StartCall(s) ==
  /\ pc[s] = "start"
  /\ IF expired[s]
     THEN Fail(s, "BudgetError", FALSE)
     ELSE /\ Persist(s, NotedCall(record, "call_started", work[s].operation), "invoke")
          /\ UNCHANGED <<dir, config, claims, work, expired, invoked>>

\* asyncio.wait_for with nothing left cancels the call before it begins.
Invoke(s) ==
  /\ pc[s] = "invoke"
  /\ IF expired[s]
     THEN Fail(s, "BudgetError", FALSE)
     ELSE /\ invoked' = [invoked EXCEPT ![s][KindOf(work[s].operation)] = @ + 1]
          /\ Goto(s, "waiting")
          /\ UNCHANGED <<dir, record, config, claims, work, expired, outcome>>

\* Mutant: the adapter is awaited without wait_for.
TimeoutNever(s) == FALSE /\ Goto(s, pc[s])

\* At the deadline wait_for cancels the adapter and waits until it has
\* finished: this is the step in which it lets the cancellation through.  One
\* that swallows it answers or raises late instead, or never ends the wait.
Timeout(s) ==
  /\ pc[s] = "waiting"
  /\ expired[s]
  /\ Fail(s, "BudgetError", FALSE)

\* What call makes of an exception of the adapter.  A TimeoutError of the
\* adapter's own is the one wait_for raises at the deadline.
Classified(error, kind) ==
  CASE error = "TimeoutError" -> "BudgetError"
    [] error = "Exception"    -> IF kind = "model_calls" THEN "ModelError"
                                                         ELSE "ToolExecutionError"
    [] OTHER                  -> error

\* A read that fails is named in missing_evidence.  A PersistenceError leaves
\* run wherever it comes from.
ProviderRaises(s) ==
  /\ pc[s] = "waiting"
  /\ \E error \in ProviderFaults :
       LET kind   == KindOf(work[s].operation)
           typed  == Classified(error, kind)
       IN  \/ /\ typed = "PersistenceError"
              /\ End(s, Raised(typed))
              /\ UNCHANGED <<dir, record, config, claims, work, expired, invoked>>
           \/ /\ typed # "PersistenceError"
              /\ Fail(s, typed, kind = "tool_calls" /\ typed = "ToolExecutionError")

Answer(s, value) ==
  /\ Goto(s, "answered")
  /\ Work(s, [work[s] EXCEPT !.answer = value])
  /\ UNCHANGED <<dir, record, config, claims, expired, invoked, outcome>>

ModelActs(s) ==
  /\ pc[s] = "waiting" /\ work[s].operation = "choose_action"
  /\ \/ Answer(s, Finish)
     \/ Answer(s, Garbage)
     \/ "unencodable" \in Faults /\ Answer(s, Unencodable)
     \/ \E request \in Requests : Answer(s, Ask(request))

ModelDrafts(s) ==
  /\ pc[s] = "waiting" /\ work[s].operation = "produce_result"
  /\ \/ Answer(s, Garbage)
     \/ "unencodable" \in Faults /\ Answer(s, Unencodable)
     \/ \E draft \in Drafts(work[s].ledger) : Answer(s, Draft(draft))

ToolResponds(s) ==
  /\ pc[s] = "waiting" /\ work[s].operation = "tool"
  /\ \/ Answer(s, Garbage)
     \/ Answer(s, BadBody)
     \/ "unencodable" \in Faults /\ Answer(s, Unencodable)
     \/ \E content \in Contents : Answer(s, Response(content))

AfterCall(operation) ==
  CASE operation = "choose_action"  -> "acted"
    [] operation = "produce_result" -> "drafted"
    [] operation = "tool"           -> "collect"

\* An answer that arrives after the deadline is discarded.
CompleteCall(s) ==
  /\ pc[s] = "answered"
  /\ IF expired[s]
     THEN Fail(s, "BudgetError", FALSE)
     ELSE /\ Persist(s, NotedCall(record, "call_completed", work[s].operation),
                     AfterCall(work[s].operation))
          /\ UNCHANGED <<dir, config, claims, work, expired, invoked>>

(***************************************************************************)
(* What the answer does.                                                   *)
(***************************************************************************)
\* validate and Ledger.add encode the answer to measure it.  UnicodeEncodeError
\* is no InvestigationError: it leaves run and the record as they are.
EncodingFails(s) ==
  /\ pc[s] \in {"acted", "drafted", "collect"}
  /\ work[s].answer = Unencodable
  /\ End(s, Raised("UnicodeEncodeError"))
  /\ UNCHANGED <<dir, record, config, claims, work, expired, invoked>>

\* The action is validated and audited; finish asks the model for a draft.
Acted(s) ==
  /\ pc[s] = "acted"
  /\ LET answer == work[s].answer IN
     \/ /\ answer = Garbage
        /\ Fail(s, "ContractError", FALSE)
     \/ /\ answer = Finish
        /\ Work(s, [work[s] EXCEPT !.operation = "produce_result", !.answer = NoAnswer])
        /\ Audit(s, "model_action", "context")
     \/ /\ answer.kind = "tool_request"
        /\ Work(s, [work[s] EXCEPT !.request = answer.request, !.answer = NoAnswer])
        /\ Audit(s, "model_action", "authorize")

\* policy_rejected is audited before the error leaves the loop.
Authorization(s) ==
  /\ pc[s] = "authorize"
  /\ LET verdict == Authorize(config[s].policy, work[s].request) IN
     IF verdict = "permitted"
     THEN /\ Work(s, [work[s] EXCEPT !.operation = "tool"])
          /\ Audit(s, "policy_permitted", "reserve")
     ELSE /\ Work(s, [work[s] EXCEPT !.reason = verdict])
          /\ Audit(s, "policy_rejected", "failing")

\* Back to the head of the loop.
NextRound(w) ==
  [w EXCEPT !.operation = "choose_action", !.request = None, !.answer = NoAnswer]

\* Mutant: a repeated item is counted and noted again.
CollectAgain(s) ==
  /\ pc[s] = "collect"
  /\ work[s].answer.kind = "response"
  /\ LET item == [request |-> work[s].request, content |-> work[s].answer.content] IN
     /\ Work(s, [NextRound(work[s]) EXCEPT !.ledger = @ \cup {item},
                                           !.usage["evidence_items"] = @ + 1])
     /\ Persist(s, [record EXCEPT !.evidence = @ \cup {item}], "note")
     /\ UNCHANGED <<dir, config, claims, expired, invoked>>

\* Ledger.add: the envelope, the evidence schema, then the identity.  An item
\* the ledger already holds is neither counted nor stored again.
Collect(s) ==
  /\ pc[s] = "collect"
  /\ LET answer == work[s].answer
         item   == [request |-> work[s].request, content |-> answer.content]
     IN
     \/ /\ answer = BadBody
        /\ Fail(s, "ToolExecutionError", TRUE)
     \/ /\ answer = Garbage
        /\ Fail(s, "ContractError", FALSE)
     \/ /\ answer.kind = "response"
        /\ item \in work[s].ledger
        /\ Work(s, NextRound(work[s]))
        /\ Goto(s, "context")
        /\ UNCHANGED <<dir, record, config, claims, expired, invoked, outcome>>
     \/ /\ answer.kind = "response"
        /\ item \notin work[s].ledger
        /\ Work(s, [NextRound(work[s]) EXCEPT !.ledger = @ \cup {item},
                                              !.usage["evidence_items"] = @ + 1])
        /\ Persist(s, [record EXCEPT !.evidence = @ \cup {item}], "note")
        /\ UNCHANGED <<dir, config, claims, expired, invoked>>

NoteEvidence(s) ==
  pc[s] = "note" /\ Audit(s, "evidence_added", "context") /\ UNCHANGED work

Drafted(s) ==
  /\ pc[s] = "drafted"
  /\ \/ /\ work[s].answer = Garbage
        /\ Fail(s, "ContractError", FALSE)
     \/ /\ work[s].answer.kind = "draft"
        /\ Audit(s, "model_result_received", "ground")
        /\ UNCHANGED work

(***************************************************************************)
(* The result, and its two writes.                                         *)
(***************************************************************************)
Result(draft, usage, reason) ==
  [status |-> draft.status, risk |-> draft.risk, cited |-> draft.cited,
   missing |-> draft.missing, usage |-> usage, reason |-> reason]

\* Mutant: a draft that was rejected keeps its status.
UnresolvedAsDrafted(w) ==
  [status |-> IF w.answer.kind = "draft" THEN w.answer.draft.status
                                         ELSE FailureStatus(w.reason),
   risk |-> "unknown", cited |-> {}, missing |-> w.missing]

Unresolved(w) ==
  [status |-> FailureStatus(w.reason), risk |-> "unknown", cited |-> {},
   missing |-> w.missing]

Ground(s) ==
  /\ pc[s] = "ground"
  /\ LET draft == work[s].answer.draft IN
     IF Grounded(draft, work[s].ledger, config[s].event)
     THEN /\ Work(s, [work[s] EXCEPT
                !.reason = "model_finished",
                !.result = Result(draft, work[s].usage, "model_finished")])
          /\ Goto(s, "save")
          /\ UNCHANGED <<dir, record, config, claims, expired, invoked, outcome>>
     ELSE Fail(s, "GroundingError", FALSE)

\* except InvestigationError; a PersistenceError never gets here, see Persist.
RecordFailure(s) ==
  /\ pc[s] = "failing"
  /\ Work(s, [work[s] EXCEPT
       !.result = Result(Unresolved(work[s]), work[s].usage, work[s].reason)])
  /\ Audit(s, "failure", "save")

\* transition checks the final move before anything is saved.
Save(s) ==
  /\ pc[s] = "save"
  /\ LET result == work[s].result IN
     IF MayMove(work[s].state, STATUS_STATE[result.status])
     THEN Persist(s, [record EXCEPT !.result = result], "mark")
     ELSE End(s, Raised("PolicyError")) /\ UNCHANGED record
  /\ UNCHANGED <<dir, config, claims, work, expired, invoked>>

\* A draft within the contract's byte limit whose result exceeds it: the
\* ContractError is raised outside the try block.
ResultTooLarge(s) ==
  /\ pc[s] = "save"
  /\ "oversize" \in Faults
  /\ work[s].reason = "model_finished"
  /\ End(s, Raised("ContractError"))
  /\ UNCHANGED <<dir, record, config, claims, work, expired, invoked>>

\* Mutant: a failed write is ignored.
MarkLeniently(s) ==
  /\ pc[s] = "mark"
  /\ record' \in {record, [Noted(record, "terminal") EXCEPT
                            !.state = STATUS_STATE[work[s].result.status]]}
  /\ Goto(s, "reread")
  /\ UNCHANGED <<dir, config, claims, work, expired, invoked, outcome>>

MarkTerminal(s) ==
  /\ pc[s] = "mark"
  /\ IF record.result = None
     THEN End(s, Raised("PersistenceError")) /\ UNCHANGED record
     ELSE Persist(s, [Noted(record, "terminal") EXCEPT
                        !.state = STATUS_STATE[work[s].result.status]], "reread")
  /\ UNCHANGED <<dir, config, claims, work, expired, invoked>>

Reread(s) ==
  /\ pc[s] = "reread"
  /\ End(s, Returned(record))
  /\ UNCHANGED <<dir, record, config, claims, work, expired, invoked>>

(***************************************************************************)
(* The environment: time passes, a process dies.                           *)
(***************************************************************************)
Bystander == {"idle", "lookup", "claim", "relookup", "done", "crashed"}

\* The budget, and with it the deadline, begins after the first write.
Expire(s) ==
  /\ pc[s] \notin Bystander \cup {"create"}
  /\ ~expired[s]
  /\ expired' = [expired EXCEPT ![s] = TRUE]
  /\ UNCHANGED <<dir, record, pc, config, claims, work, invoked, outcome>>

Crash(s) ==
  /\ "crash" \in Faults
  /\ pc[s] \notin {"idle", "done", "crashed"}
  /\ Goto(s, "crashed")
  /\ UNCHANGED <<dir, record, config, claims, work, expired, invoked, outcome>>

\* Steps the runtime takes on its own.
Entry(s) == Lookup(s) \/ Claim(s) \/ Relookup(s) \/ Create(s)
Opening(s) ==
  Validate(s) \/ LoadPolicy(s) \/ PolicyLoaded(s) \/ Admit(s) \/ Dispatch(s)
Calling(s) ==
  Context(s) \/ Reserve(s) \/ StartCall(s) \/ Invoke(s) \/ CompleteCall(s)
Handling(s) ==
  \/ Acted(s) \/ Authorization(s) \/ Collect(s) \/ NoteEvidence(s)
  \/ Drafted(s) \/ Ground(s) \/ EncodingFails(s)
Closing(s) == RecordFailure(s) \/ Save(s) \/ MarkTerminal(s) \/ Reread(s)
Run(s) == Entry(s) \/ Opening(s) \/ Calling(s) \/ Handling(s) \/ Closing(s)

\* Steps of its callers, its adapters and its host.
Provider(s) ==
  \/ ProviderRaises(s) \/ Timeout(s)
  \/ ModelActs(s) \/ ModelDrafts(s) \/ ToolResponds(s)
Environment(s) ==
  \/ Submit(s) \/ RefuseEvent(s) \/ ClaimFails(s) \/ ReadFails(s)
  \/ ContextTooLarge(s) \/ ResultTooLarge(s) \/ Provider(s) \/ Expire(s) \/ Crash(s)

Next == \E s \in Submissions : Run(s) \/ Environment(s)

Spec == Init /\ [][Next]_vars

\* The event loop runs a coroutine that is ready, and time passes.  Nothing
\* obliges an adapter to answer, but a cancelled one must finish: wait_for has
\* no way to return before it, and docs/architecture.md trusts the registered
\* adapters "to cooperate with cancellation".
Fairness ==
  \A s \in Submissions :
    WF_vars(Run(s)) /\ WF_vars(Expire(s)) /\ WF_vars(Timeout(s))

FairSpec == Spec /\ Fairness
=============================================================================
