------------------------- MODULE InvestigatorProofs -------------------------
(***************************************************************************)
(* Proofs, for any number of submissions, any requests, contents, limits   *)
(* and faults, of what TLC checks on the small instances.                  *)
(***************************************************************************)
EXTENDS InvestigatorProperties, TLAPS

(***************************************************************************)
(* Types.  TypeOK is not inductive: a running submission needs a           *)
(* configuration, a read its request, and a step that uses an answer or a  *)
(* result has to find one.                                                 *)
(***************************************************************************)
ShapeOf(at, c, w) ==
  /\ at \notin {"idle", "done", "crashed"} => c \in Configs
  /\ at = "authorize" \/ w.operation = "tool" => w.request \in Requests
  /\ at \in {"answered", "drafted"} /\ w.operation = "produce_result" =>
       w.answer.kind \in {"malformed", "unencodable", "draft"}
  /\ at = "acted"   => w.operation = "choose_action"
  /\ at = "collect" => w.operation = "tool"
  /\ at = "drafted" => w.operation = "produce_result"
  /\ at = "ground"  => w.answer.kind = "draft"
  /\ at \in {"save", "mark"} => w.result \in Results

Shapes == \A s \in Submissions : ShapeOf(pc[s], config[s], work[s])

TypeInv == TypeOK /\ Shapes

\* A counted audit entry leaves a record a record.
LEMMA NotedType ==
  ASSUME NEW rec \in Records, NEW kind \in PlainEntries
  PROVE  Noted(rec, kind) \in Records
  <1>1. <<kind, "-">> \in Entries
    BY DEF Entries
  <1>2. [rec.audit EXCEPT ![<<kind, "-">>] = @ + 1] \in [Entries -> Nat]
    BY <1>1 DEF Records
  <1> QED BY <1>2 DEF Noted, Records

LEMMA NotedCallType ==
  ASSUME NEW rec \in Records, NEW kind \in CallEntries, NEW op \in Operations
  PROVE  NotedCall(rec, kind, op) \in Records
  <1>1. <<kind, KindOf(op)>> \in Entries
    BY DEF Entries, KindOf, CallKinds
  <1>2. [rec.audit EXCEPT ![<<kind, KindOf(op)>>] = @ + 1] \in [Entries -> Nat]
    BY <1>1 DEF Records
  <1> QED BY <1>2 DEF NotedCall, Records

\* A write, whether it succeeds or fails, leaves a record, an outcome, and its
\* submission either at the next step or done.
LEMMA WriteEffect ==
  ASSUME TypeOK, NEW s \in Submissions, NEW rec \in Records, NEW next \in Locations,
         Write(s, rec, next)
  PROVE  /\ record' \in Records
         /\ outcome' \in [Submissions -> Outcomes]
         /\ \E x \in {next, "done"} : pc' = [pc EXCEPT ![s] = x]
  <1>1. Raised("PersistenceError") \in Outcomes
    BY DEF Raised, Outcomes, Exceptions, Errors
  <1> QED BY <1>1 DEF TypeOK, Write, Goto, End

LEMMA PersistEffect ==
  ASSUME TypeOK, NEW s \in Submissions, NEW rec \in Records, NEW next \in Locations,
         Persist(s, rec, next)
  PROVE  /\ record' \in Records
         /\ outcome' \in [Submissions -> Outcomes]
         /\ \E x \in {next, "done"} : pc' = [pc EXCEPT ![s] = x]
  <1>1. Raised("PersistenceError") \in Outcomes
    BY DEF Raised, Outcomes, Exceptions, Errors
  <1> QED BY <1>1, WriteEffect DEF TypeOK, Persist, Goto, End

\* A step of one submission that leaves the configurations alone.
LEMMA ShapeStep ==
  ASSUME TypeInv, NEW s \in Submissions, NEW x \in Locations, NEW w \in Works,
         pc' = [pc EXCEPT ![s] = x], work' = [work EXCEPT ![s] = w],
         UNCHANGED config, ShapeOf(x, config[s], w)
  PROVE  /\ pc' \in [Submissions -> Locations]
         /\ work' \in [Submissions -> Works]
         /\ Shapes'
  BY DEF TypeInv, TypeOK, Shapes

LEMMA SameWork ==
  ASSUME TypeOK, NEW s \in Submissions, UNCHANGED work
  PROVE  work' = [work EXCEPT ![s] = work[s]] /\ work[s] \in Works
  BY DEF TypeOK

\* Fail only needs its error to be one of the errors.
LEMMA FailType ==
  ASSUME TypeInv, NEW s \in Submissions, NEW error \in Errors, NEW missing \in BOOLEAN,
         pc[s] \notin {"idle", "done", "crashed"}, Fail(s, error, missing)
  PROVE  TypeInv'
  <1> DEFINE w == [work[s] EXCEPT !.reason = error, !.missing = missing]
  <1>1. work[s] \in Works
    BY DEF TypeInv, TypeOK
  <1>2. w \in Works
    BY <1>1 DEF Works, Reasons
  <1>3. ShapeOf("failing", config[s], w)
    BY <1>1 DEF TypeInv, Shapes, ShapeOf, Works
  <1>4. "failing" \in Locations
    BY DEF Locations
  <1>5. pc' = [pc EXCEPT ![s] = "failing"] /\ work' = [work EXCEPT ![s] = w]
    BY DEF Fail, Goto, Work
  <1>6. UNCHANGED config
    BY DEF Fail
  <1>7. /\ pc' \in [Submissions -> Locations]
        /\ work' \in [Submissions -> Works]
        /\ Shapes'
    <2> HIDE DEF w
    <2> QED BY <1>2, <1>3, <1>4, <1>5, <1>6, ShapeStep
  <1> QED BY <1>7 DEF TypeInv, TypeOK, Fail

\* A stored step: what becomes of the submission is either the next step or the
\* end of the call.
LEMMA PersistType ==
  ASSUME TypeInv, NEW s \in Submissions, NEW rec \in Records, NEW next \in Locations,
         NEW w \in Works, Persist(s, rec, next), work' = [work EXCEPT ![s] = w],
         UNCHANGED <<dir, config, claims, expired, invoked>>,
         ShapeOf(next, config[s], w), ShapeOf("done", config[s], w)
  PROVE  TypeInv'
  <1>1. PICK x \in {next, "done"} : pc' = [pc EXCEPT ![s] = x]
    BY PersistEffect DEF TypeInv
  <1>2. x \in Locations /\ ShapeOf(x, config[s], w)
    BY DEF Locations
  <1>3. /\ pc' \in [Submissions -> Locations]
        /\ work' \in [Submissions -> Works]
        /\ Shapes'
    BY <1>1, <1>2, ShapeStep
  <1>4. record' \in Records /\ outcome' \in [Submissions -> Outcomes]
    BY PersistEffect DEF TypeInv
  <1> QED BY <1>3, <1>4 DEF TypeInv, TypeOK

\* A step that only audits, or that does nothing but go on.
LEMMA AuditType ==
  ASSUME TypeInv, NEW s \in Submissions, NEW kind \in PlainEntries,
         NEW next \in Locations, NEW w \in Works,
         work' = [work EXCEPT ![s] = w], Audit(s, kind, next),
         ShapeOf(next, config[s], w), ShapeOf("done", config[s], w)
  PROVE  TypeInv'
  <1>1. Noted(record, kind) \in Records
    BY NotedType DEF TypeInv, TypeOK
  <1> QED BY <1>1, PersistType DEF Audit

LEMMA CallAuditType ==
  ASSUME TypeInv, NEW s \in Submissions, NEW kind \in CallEntries,
         NEW next \in Locations, NEW w \in Works,
         work' = [work EXCEPT ![s] = w],
         Persist(s, NotedCall(record, kind, work[s].operation), next),
         UNCHANGED <<dir, config, claims, expired, invoked>>,
         ShapeOf(next, config[s], w), ShapeOf("done", config[s], w)
  PROVE  TypeInv'
  <1>1. NotedCall(record, kind, work[s].operation) \in Records
    BY NotedCallType DEF TypeInv, TypeOK, Works
  <1> QED BY <1>1, PersistType

LEMMA GoType ==
  ASSUME TypeInv, NEW s \in Submissions, NEW next \in Locations, NEW w \in Works,
         Goto(s, next), work' = [work EXCEPT ![s] = w],
         dir' \in BOOLEAN, claims' \in SUBSET Submissions,
         expired' \in [Submissions -> BOOLEAN],
         invoked' \in [Submissions -> [CallKinds -> Nat]],
         outcome' \in [Submissions -> Outcomes],
         UNCHANGED <<record, config>>, ShapeOf(next, config[s], w)
  PROVE  TypeInv'
  <1>1. /\ pc' \in [Submissions -> Locations]
        /\ work' \in [Submissions -> Works]
        /\ Shapes'
    BY ShapeStep DEF Goto
  <1> QED BY <1>1 DEF TypeInv, TypeOK

LEMMA MoveType ==
  ASSUME TypeInv, NEW s \in Submissions, NEW target \in States, NEW next \in Locations,
         target \in DOMAIN TRANSITIONS, pc[s] \notin {"idle", "done", "crashed"},
         next \notin {"authorize", "answered", "acted", "collect", "drafted",
                      "ground", "save", "mark"},
         Move(s, target, next)
  PROVE  TypeInv'
  <1> DEFINE w == [work[s] EXCEPT !.state = target]
             rec == [Noted(record, "state") EXCEPT !.state = target]
  <1>0. work[s] \in Works
    BY DEF TypeInv, TypeOK
  <1>1. w \in Works
    BY <1>0 DEF Works
  <1>2. Noted(record, "state") \in Records
    BY NotedType DEF TypeInv, TypeOK, PlainEntries
  <1>3. rec \in Records
    BY <1>2 DEF Records
  <1>4. ShapeOf(pc[s], config[s], work[s])
    BY DEF TypeInv, Shapes
  <1>5. ShapeOf(next, config[s], w) /\ ShapeOf("done", config[s], w)
    BY <1>0, <1>4 DEF ShapeOf, Works
  <1>6. /\ Persist(s, rec, next) /\ work' = [work EXCEPT ![s] = w]
        /\ UNCHANGED <<dir, config, claims, expired, invoked>>
    BY DEF Move, Work
  <1> HIDE DEF w, rec
  <1> QED BY <1>1, <1>3, <1>5, <1>6, PersistType

LEMMA DuplicateType ==
  ASSUME TypeInv, NEW s \in Submissions, Duplicate(s),
         UNCHANGED <<dir, record, config, claims, work, expired, invoked>>
  PROVE  TypeInv'
  <1>1. record \in Records
    BY DEF TypeInv, TypeOK
  <1>2. Returned(record) \in Outcomes
    BY <1>1 DEF Returned, View, Outcomes, Views, Records
  <1>3. Raised("PolicyError") \in Outcomes
    BY DEF Raised, Outcomes, Exceptions, Errors
  <1>4. outcome' \in [Submissions -> Outcomes] /\ Goto(s, "done")
    BY <1>2, <1>3 DEF Duplicate, End, TypeInv, TypeOK
  <1>5. ShapeOf("done", config[s], work[s])
    BY DEF TypeInv, Shapes, ShapeOf
  <1>6. "done" \in Locations
    BY DEF Locations
  <1> QED BY <1>4, <1>5, <1>6, SameWork, GoType DEF TypeInv, TypeOK

LEMMA EndType ==
  ASSUME TypeInv, NEW s \in Submissions, NEW answer \in Outcomes, End(s, answer),
         UNCHANGED <<dir, record, config, claims, work, expired, invoked>>
  PROVE  TypeInv'
  <1>1. outcome' \in [Submissions -> Outcomes] /\ Goto(s, "done")
    BY DEF End, TypeInv, TypeOK
  <1>2. ShapeOf("done", config[s], work[s]) /\ "done" \in Locations
    BY DEF TypeInv, Shapes, ShapeOf, Locations
  <1> QED BY <1>1, <1>2, SameWork, GoType DEF TypeInv, TypeOK

LEMMA EntryType ==
  ASSUME TypeInv, NEW s \in Submissions, Entry(s)
  PROVE  TypeInv'
  <1>1. /\ work[s] \in Works /\ record \in Records
        /\ ShapeOf(pc[s], config[s], work[s])
    BY DEF TypeInv, TypeOK, Shapes
  <1>2. CASE Lookup(s)
    <2>1. CASE dir
      BY <1>2, <2>1, DuplicateType DEF Lookup
    <2>2. CASE ~dir
      <3>1. ShapeOf("claim", config[s], work[s]) /\ "claim" \in Locations
        BY <1>1, <1>2 DEF Lookup, ShapeOf, Locations
      <3> QED BY <1>2, <2>2, <3>1, SameWork, GoType DEF Lookup, TypeInv, TypeOK
    <2> QED BY <2>1, <2>2
  <1>3. CASE Claim(s)
    <2>1. \A x \in {"relookup", "create"} :
            ShapeOf(x, config[s], work[s]) /\ x \in Locations
      BY <1>1, <1>3 DEF Claim, ShapeOf, Locations
    <2>2. PICK x \in {"relookup", "create"} : Goto(s, x)
      BY <1>3 DEF Claim
    <2>3. claims' \in SUBSET Submissions /\ dir' \in BOOLEAN
      BY <1>3 DEF Claim, TypeInv, TypeOK
    <2> QED BY <1>3, <2>1, <2>2, <2>3, SameWork, GoType DEF Claim, TypeInv, TypeOK
  <1>4. CASE Relookup(s)
    BY <1>4, DuplicateType DEF Relookup
  <1>5. CASE Create(s)
    <2> DEFINE rec == [NoRecord EXCEPT !.state = "RECEIVED",
                                       !.metadata = Metadata(config[s])]
    <2>1. Metadata(config[s]) \in Metadatas
      BY <1>1, <1>5 DEF Create, ShapeOf, Metadatas
    <2>2. rec \in Records
      BY <2>1 DEF NoRecord, NoAudit, Records, States, TRANSITIONS
    <2>3. Write(s, rec, "open") /\ UNCHANGED <<dir, config, claims, work, expired, invoked>>
      BY <1>5 DEF Create
    <2>4. "open" \in Locations
      BY DEF Locations
    <2>5. PICK x \in {"open", "done"} : pc' = [pc EXCEPT ![s] = x]
      <3> HIDE DEF rec
      <3> QED BY <2>2, <2>3, <2>4, WriteEffect DEF TypeInv
    <2>6. record' \in Records /\ outcome' \in [Submissions -> Outcomes]
      <3> HIDE DEF rec
      <3> QED BY <2>2, <2>3, <2>4, WriteEffect DEF TypeInv
    <2>7. x \in Locations /\ ShapeOf(x, config[s], work[s])
      BY <1>1, <1>5 DEF Create, ShapeOf, Locations
    <2>8. /\ pc' \in [Submissions -> Locations]
          /\ work' \in [Submissions -> Works]
          /\ Shapes'
      BY <2>3, <2>5, <2>7, SameWork, ShapeStep DEF TypeInv
    <2> QED BY <2>3, <2>6, <2>8 DEF TypeInv, TypeOK
  <1> QED BY <1>2, <1>3, <1>4, <1>5 DEF Entry

LEMMA OpeningType ==
  ASSUME TypeInv, NEW s \in Submissions, Opening(s)
  PROVE  TypeInv'
  <1>1. /\ work[s] \in Works /\ record \in Records
        /\ ShapeOf(pc[s], config[s], work[s])
    BY DEF TypeInv, TypeOK, Shapes
  <1>2. CASE Validate(s)
    BY <1>2, MoveType DEF Validate, States, TRANSITIONS, Locations
  <1>3. CASE LoadPolicy(s)
    <2>1. /\ ShapeOf("loaded", config[s], work[s]) /\ ShapeOf("done", config[s], work[s])
          /\ "loaded" \in Locations /\ "policy_loaded" \in PlainEntries
      BY <1>1, <1>3 DEF LoadPolicy, ShapeOf, Locations, PlainEntries
    <2> QED BY <1>3, <2>1, SameWork, AuditType DEF LoadPolicy, TypeInv
  <1>4. CASE PolicyLoaded(s)
    BY <1>4, MoveType DEF PolicyLoaded, States, TRANSITIONS, Locations
  <1>5. CASE Admit(s)
    <2>1. CASE Move(s, "INVESTIGATING", "dispatch")
      BY <1>5, <2>1, MoveType DEF Admit, States, TRANSITIONS, Locations
    <2>2. CASE Fail(s, "PolicyError", FALSE)
      BY <1>5, <2>2, FailType DEF Admit, Errors
    <2> QED BY <1>5, <2>1, <2>2 DEF Admit
  <1>6. CASE Dispatch(s)
    <2>1. CASE Tools \subseteq config[s].callable
      <3>1. ShapeOf("context", config[s], work[s]) /\ "context" \in Locations
        BY <1>1, <1>6 DEF Dispatch, ShapeOf, Locations
      <3> QED BY <1>6, <2>1, <3>1, SameWork, GoType DEF Dispatch, TypeInv, TypeOK
    <2>2. CASE ~(Tools \subseteq config[s].callable)
      <3> DEFINE w == [work[s] EXCEPT !.reason = "ContractError"]
      <3>1. w \in Works
        BY <1>1 DEF Works, Reasons, Errors
      <3>2. ShapeOf("failing", config[s], w) /\ ShapeOf("done", config[s], w)
        BY <1>1, <1>6 DEF Dispatch, ShapeOf, Works
      <3>3. "failing" \in Locations /\ "adapter_rejected" \in PlainEntries
        BY DEF Locations, PlainEntries
      <3>4. Audit(s, "adapter_rejected", "failing") /\ work' = [work EXCEPT ![s] = w]
        BY <1>6, <2>2 DEF Dispatch, Audit, Work
      <3> HIDE DEF w
      <3> QED BY <3>1, <3>2, <3>3, <3>4, AuditType
    <2> QED BY <2>1, <2>2
  <1> QED BY <1>2, <1>3, <1>4, <1>5, <1>6 DEF Opening

LEMMA CallingType ==
  ASSUME TypeInv, NEW s \in Submissions, Calling(s)
  PROVE  TypeInv'
  <1>1. /\ work[s] \in Works /\ record \in Records
        /\ ShapeOf(pc[s], config[s], work[s])
        /\ work[s].operation \in Operations
    BY DEF TypeInv, TypeOK, Shapes, Works
  <1>2. "BudgetError" \in Errors
    BY DEF Errors
  <1>3. CASE Context(s)
    <2>1. ShapeOf("reserve", config[s], work[s]) /\ "reserve" \in Locations
      BY <1>1, <1>3 DEF Context, ShapeOf, Locations
    <2> QED BY <1>3, <2>1, SameWork, GoType DEF Context, TypeInv, TypeOK
  <1>4. CASE Reserve(s)
    <2>1. CASE Fail(s, "BudgetError", FALSE)
      BY <1>2, <1>4, <2>1, FailType DEF Reserve
    <2>2. CASE ~Fail(s, "BudgetError", FALSE)
      <3> DEFINE kind == KindOf(work[s].operation)
                 w == [work[s] EXCEPT !.usage[kind] = @ + 1]
      <3>1. kind \in Counters
        BY DEF KindOf, Counters, CallKinds
      <3>2. [work[s].usage EXCEPT ![kind] = @ + 1] \in Usages
        BY <1>1, <3>1 DEF Works, Usages
      <3>3. w \in Works
        BY <1>1, <3>2 DEF Works
      <3>4. ShapeOf("start", config[s], w) /\ ShapeOf("done", config[s], w)
        BY <1>1, <1>4 DEF Reserve, ShapeOf, Works
      <3>5. "start" \in Locations /\ "budget_reserved" \in CallEntries
        BY DEF Locations, CallEntries
      <3>6. /\ Persist(s, NotedCall(record, "budget_reserved", work[s].operation), "start")
            /\ work' = [work EXCEPT ![s] = w]
            /\ UNCHANGED <<dir, config, claims, expired, invoked>>
        BY <1>4, <2>2 DEF Reserve, Work
      <3> HIDE DEF w
      <3> QED BY <3>3, <3>4, <3>5, <3>6, CallAuditType
    <2> QED BY <2>1, <2>2
  <1>5. CASE StartCall(s)
    <2>1. CASE expired[s]
      BY <1>2, <1>5, <2>1, FailType DEF StartCall
    <2>2. CASE ~expired[s]
      <3>1. /\ ShapeOf("invoke", config[s], work[s]) /\ ShapeOf("done", config[s], work[s])
            /\ "invoke" \in Locations /\ "call_started" \in CallEntries
        BY <1>1, <1>5 DEF StartCall, ShapeOf, Locations, CallEntries
      <3> QED BY <1>5, <2>2, <3>1, SameWork, CallAuditType DEF StartCall, TypeInv
    <2> QED BY <2>1, <2>2
  <1>6. CASE Invoke(s)
    <2>1. CASE expired[s]
      BY <1>2, <1>6, <2>1, FailType DEF Invoke
    <2>2. CASE ~expired[s]
      <3>1. ShapeOf("waiting", config[s], work[s]) /\ "waiting" \in Locations
        BY <1>1, <1>6 DEF Invoke, ShapeOf, Locations
      <3>2. invoked' \in [Submissions -> [CallKinds -> Nat]]
        BY <1>6, <2>2 DEF Invoke, TypeInv, TypeOK, KindOf, CallKinds
      <3> QED BY <1>6, <2>2, <3>1, <3>2, SameWork, GoType DEF Invoke, TypeInv, TypeOK
    <2> QED BY <2>1, <2>2
  <1>7. CASE CompleteCall(s)
    <2>1. CASE expired[s]
      BY <1>2, <1>7, <2>1, FailType DEF CompleteCall
    <2>2. CASE ~expired[s]
      <3> DEFINE next == AfterCall(work[s].operation)
      <3>1. next \in Locations
        BY <1>1 DEF AfterCall, Operations, Locations
      <3>2. ShapeOf(next, config[s], work[s]) /\ ShapeOf("done", config[s], work[s])
        BY <1>1, <1>7 DEF CompleteCall, AfterCall, Operations, ShapeOf
      <3>3. /\ Persist(s, NotedCall(record, "call_completed", work[s].operation), next)
            /\ UNCHANGED <<dir, config, claims, work, expired, invoked>>
            /\ "call_completed" \in CallEntries
        BY <1>7, <2>2 DEF CompleteCall, CallEntries
      <3> HIDE DEF next
      <3> QED BY <3>1, <3>2, <3>3, SameWork, CallAuditType DEF TypeInv
    <2> QED BY <2>1, <2>2
  <1> QED BY <1>3, <1>4, <1>5, <1>6, <1>7 DEF Calling

LEMMA NextRoundType ==
  ASSUME NEW w \in Works PROVE NextRound(w) \in Works
  BY DEF NextRound, Works, Operations, NoAnswer, Answers

LEMMA HandlingType ==
  ASSUME TypeInv, NEW s \in Submissions, Handling(s)
  PROVE  TypeInv'
  <1>1. /\ work[s] \in Works /\ record \in Records
        /\ ShapeOf(pc[s], config[s], work[s])
        /\ work[s].answer \in Answers
    BY DEF TypeInv, TypeOK, Shapes, Works
  <1>2. {"ContractError", "ToolExecutionError", "GroundingError", "BudgetError"} \subseteq Errors
    BY DEF Errors
  <1>3. CASE Acted(s)
    <2>1. CASE Fail(s, "ContractError", FALSE)
      BY <1>2, <1>3, <2>1, FailType DEF Acted
    <2>2. CASE Work(s, [work[s] EXCEPT !.operation = "produce_result", !.answer = NoAnswer])
               /\ Audit(s, "model_action", "context")
      <3> DEFINE w == [work[s] EXCEPT !.operation = "produce_result", !.answer = NoAnswer]
      <3>1. w \in Works
        BY <1>1 DEF Works, Operations, NoAnswer, Answers
      <3>2. ShapeOf("context", config[s], w) /\ ShapeOf("done", config[s], w)
        BY <1>1, <1>3 DEF Acted, ShapeOf, Works
      <3>3. "context" \in Locations /\ "model_action" \in PlainEntries
        BY DEF Locations, PlainEntries
      <3>4. work' = [work EXCEPT ![s] = w]
        BY <2>2 DEF Work
      <3> HIDE DEF w
      <3> QED BY <2>2, <3>1, <3>2, <3>3, <3>4, AuditType
    <2>3. CASE /\ work[s].answer.kind = "tool_request"
               /\ Work(s, [work[s] EXCEPT !.request = work[s].answer.request,
                                          !.answer = NoAnswer])
               /\ Audit(s, "model_action", "authorize")
      <3> DEFINE w == [work[s] EXCEPT !.request = work[s].answer.request, !.answer = NoAnswer]
      <3>1. work[s].answer.request \in Requests
        BY <1>1, <2>3 DEF Answers
      <3>2. w \in Works
        BY <1>1, <3>1 DEF Works, NoAnswer, Answers
      <3>3. ShapeOf("authorize", config[s], w) /\ ShapeOf("done", config[s], w)
        BY <1>1, <1>3, <3>1 DEF Acted, ShapeOf, Works
      <3>4. "authorize" \in Locations /\ "model_action" \in PlainEntries
        BY DEF Locations, PlainEntries
      <3>5. work' = [work EXCEPT ![s] = w]
        BY <2>3 DEF Work
      <3> HIDE DEF w
      <3> QED BY <2>3, <3>2, <3>3, <3>4, <3>5, AuditType
    <2> QED BY <1>3, <2>1, <2>2, <2>3 DEF Acted
  <1>4. CASE Authorization(s)
    <2>1. CASE Authorize(config[s].policy, work[s].request) = "permitted"
      <3> DEFINE w == [work[s] EXCEPT !.operation = "tool"]
      <3>1. w \in Works
        BY <1>1 DEF Works, Operations
      <3>2. ShapeOf("reserve", config[s], w) /\ ShapeOf("done", config[s], w)
        BY <1>1, <1>4 DEF Authorization, ShapeOf, Works
      <3>3. "reserve" \in Locations /\ "policy_permitted" \in PlainEntries
        BY DEF Locations, PlainEntries
      <3>4. Audit(s, "policy_permitted", "reserve") /\ work' = [work EXCEPT ![s] = w]
        BY <1>4, <2>1 DEF Authorization, Work
      <3> HIDE DEF w
      <3> QED BY <3>1, <3>2, <3>3, <3>4, AuditType
    <2>2. CASE Authorize(config[s].policy, work[s].request) # "permitted"
      <3> DEFINE verdict == Authorize(config[s].policy, work[s].request)
                 w == [work[s] EXCEPT !.reason = verdict]
      <3>1. verdict \in Errors
        BY <2>2 DEF Authorize, Errors
      <3>2. w \in Works
        <4> HIDE DEF verdict
        <4> QED BY <1>1, <3>1 DEF Works, Reasons
      <3>3. ShapeOf("failing", config[s], w) /\ ShapeOf("done", config[s], w)
        BY <1>1, <1>4 DEF Authorization, ShapeOf, Works
      <3>4. "failing" \in Locations /\ "policy_rejected" \in PlainEntries
        BY DEF Locations, PlainEntries
      <3>5. Audit(s, "policy_rejected", "failing") /\ work' = [work EXCEPT ![s] = w]
        BY <1>4, <2>2 DEF Authorization, Work
      <3> HIDE DEF w
      <3> QED BY <3>2, <3>3, <3>4, <3>5, AuditType
    <2> QED BY <2>1, <2>2
  <1>5. CASE Collect(s)
    <2> DEFINE item == [request |-> work[s].request, content |-> work[s].answer.content]
    <2>1. work[s].request \in Requests
      BY <1>1, <1>5 DEF Collect, ShapeOf
    <2>2. CASE Fail(s, "ToolExecutionError", TRUE)
      BY <1>2, <1>5, <2>2, FailType DEF Collect
    <2>3. CASE Fail(s, "ContractError", FALSE)
      BY <1>2, <1>5, <2>3, FailType DEF Collect
    <2>4. CASE /\ Work(s, NextRound(work[s])) /\ Goto(s, "context")
               /\ UNCHANGED <<dir, record, config, claims, expired, invoked, outcome>>
      <3>1. NextRound(work[s]) \in Works
        BY <1>1, NextRoundType
      <3>2. ShapeOf("context", config[s], NextRound(work[s])) /\ "context" \in Locations
        BY <1>1, <1>5 DEF Collect, ShapeOf, NextRound, Works, Locations
      <3> QED BY <2>4, <3>1, <3>2, GoType DEF Work, TypeInv, TypeOK
    <2>5. CASE /\ work[s].answer.kind = "response"
               /\ Work(s, [NextRound(work[s]) EXCEPT !.ledger = @ \cup {item},
                                                     !.usage["evidence_items"] = @ + 1])
               /\ Persist(s, [record EXCEPT !.evidence = @ \cup {item}], "note")
               /\ UNCHANGED <<dir, config, claims, expired, invoked>>
      <3> DEFINE v == NextRound(work[s])
                 w == [v EXCEPT !.ledger = @ \cup {item},
                                !.usage["evidence_items"] = @ + 1]
                 rec == [record EXCEPT !.evidence = @ \cup {item}]
      <3>1. item \in Items
        BY <1>1, <2>1, <2>5 DEF Answers, Items
      <3>2. v \in Works
        BY <1>1, NextRoundType
      <3>3. [v.usage EXCEPT !["evidence_items"] = @ + 1] \in Usages
        <4> HIDE DEF v
        <4> QED BY <3>2 DEF Works, Usages, Counters
      <3>4. w \in Works
        <4> HIDE DEF v, item
        <4> QED BY <3>1, <3>2, <3>3 DEF Works
      <3>5. rec \in Records
        <4> HIDE DEF item
        <4> QED BY <1>1, <3>1 DEF Records
      <3>6. w.operation = "choose_action"
        BY <1>1 DEF NextRound, Works
      <3>7. config[s] \in Configs
        BY <1>1, <1>5 DEF Collect, ShapeOf
      <3>8. ShapeOf("note", config[s], w) /\ ShapeOf("done", config[s], w)
        <4> HIDE DEF w
        <4> QED BY <3>6, <3>7 DEF ShapeOf
      <3>9. /\ work' = [work EXCEPT ![s] = w] /\ Persist(s, rec, "note")
            /\ UNCHANGED <<dir, config, claims, expired, invoked>>
        BY <2>5 DEF Work
      <3>10. "note" \in Locations
        BY DEF Locations
      <3> HIDE DEF w, rec
      <3> QED BY <3>4, <3>5, <3>8, <3>9, <3>10, PersistType
    <2> QED BY <1>5, <2>2, <2>3, <2>4, <2>5 DEF Collect
  <1>6. CASE NoteEvidence(s)
    <2>1. /\ ShapeOf("context", config[s], work[s]) /\ ShapeOf("done", config[s], work[s])
          /\ "context" \in Locations /\ "evidence_added" \in PlainEntries
      BY <1>1, <1>6 DEF NoteEvidence, ShapeOf, Locations, PlainEntries
    <2> QED BY <1>6, <2>1, SameWork, AuditType DEF NoteEvidence, TypeInv
  <1>7. CASE Drafted(s)
    <2>1. CASE Fail(s, "ContractError", FALSE)
      BY <1>2, <1>7, <2>1, FailType DEF Drafted
    <2>2. CASE /\ work[s].answer.kind = "draft"
               /\ Audit(s, "model_result_received", "ground") /\ UNCHANGED work
      <3>1. /\ ShapeOf("ground", config[s], work[s]) /\ ShapeOf("done", config[s], work[s])
            /\ "ground" \in Locations /\ "model_result_received" \in PlainEntries
        BY <1>1, <1>7, <2>2 DEF Drafted, ShapeOf, Locations, PlainEntries
      <3> QED BY <2>2, <3>1, SameWork, AuditType DEF TypeInv
    <2> QED BY <1>7, <2>1, <2>2 DEF Drafted
  <1>8. CASE Ground(s)
    <2> DEFINE draft == work[s].answer.draft
               result == Result(draft, work[s].usage, "model_finished")
               w == [work[s] EXCEPT !.reason = "model_finished", !.result = result]
    <2>1. CASE Fail(s, "GroundingError", FALSE)
      BY <1>2, <1>8, <2>1, FailType DEF Ground
    <2>2. CASE ~Fail(s, "GroundingError", FALSE)
      <3>1. draft \in Drafts(Items)
        BY <1>1, <1>8 DEF Ground, ShapeOf, Answers
      <3>2. result \in Results
        <4> HIDE DEF draft
        <4> QED BY <1>1, <3>1 DEF Result, Results, Drafts, Works, Reasons
      <3>3. w \in Works /\ w.result = result /\ w.operation = work[s].operation
            /\ w.request = work[s].request
        <4> HIDE DEF result
        <4> QED BY <1>1, <3>2 DEF Works, Reasons
      <3>4. ShapeOf("save", config[s], w) /\ "save" \in Locations
        <4> HIDE DEF w, result
        <4> QED BY <1>1, <1>8, <3>2, <3>3 DEF Ground, ShapeOf, Locations
      <3>5. /\ Goto(s, "save") /\ work' = [work EXCEPT ![s] = w]
            /\ UNCHANGED <<dir, record, config, claims, expired, invoked, outcome>>
        BY <1>8, <2>2 DEF Ground, Work
      <3> HIDE DEF w
      <3> QED BY <3>3, <3>4, <3>5, GoType DEF TypeInv, TypeOK
    <2> QED BY <2>1, <2>2
  <1>9. CASE EncodingFails(s)
    <2>1. Raised("UnicodeEncodeError") \in Outcomes
      BY DEF Raised, Outcomes, Exceptions
    <2> QED BY <1>9, <2>1, EndType DEF EncodingFails
  <1> QED BY <1>3, <1>4, <1>5, <1>6, <1>7, <1>8, <1>9 DEF Handling

LEMMA ClosingType ==
  ASSUME TypeInv, NEW s \in Submissions, Closing(s)
  PROVE  TypeInv'
  <1>1. /\ work[s] \in Works /\ record \in Records
        /\ ShapeOf(pc[s], config[s], work[s])
    BY DEF TypeInv, TypeOK, Shapes
  <1>2. CASE RecordFailure(s)
    <2> DEFINE result == Result(Unresolved(work[s]), work[s].usage, work[s].reason)
               w == [work[s] EXCEPT !.result = result]
    <2>1. FailureStatus(work[s].reason) \in Statuses
      BY DEF FailureStatus, Statuses, STATUS_STATE
    <2>2. result \in Results
      BY <1>1, <2>1 DEF Result, Results, Unresolved, Risks, Works
    <2>3. w \in Works /\ w.operation = work[s].operation /\ w.request = work[s].request
      <3> HIDE DEF result
      <3> QED BY <1>1, <2>2 DEF Works
    <2>4. w.result = result
      <3> HIDE DEF result
      <3> QED BY <1>1 DEF Works
    <2>5. ShapeOf("save", config[s], w) /\ ShapeOf("done", config[s], w)
      <3> HIDE DEF w, result
      <3> QED BY <1>1, <1>2, <2>2, <2>3, <2>4 DEF RecordFailure, ShapeOf
    <2>6. "save" \in Locations /\ "failure" \in PlainEntries
      BY DEF Locations, PlainEntries
    <2>7. Audit(s, "failure", "save") /\ work' = [work EXCEPT ![s] = w]
      BY <1>2 DEF RecordFailure, Work
    <2> HIDE DEF w
    <2> QED BY <2>3, <2>5, <2>6, <2>7, AuditType
  <1>3. CASE Save(s)
    <2> DEFINE rec == [record EXCEPT !.result = work[s].result]
    <2>1. Raised("PolicyError") \in Outcomes
      BY DEF Raised, Outcomes, Exceptions, Errors
    <2>2. CASE End(s, Raised("PolicyError")) /\ UNCHANGED record
      BY <1>3, <2>1, <2>2, EndType DEF Save
    <2>3. CASE Persist(s, rec, "mark")
      <3>1. rec \in Records
        BY <1>1, <1>3 DEF Save, ShapeOf, Records
      <3>2. /\ ShapeOf("mark", config[s], work[s]) /\ ShapeOf("done", config[s], work[s])
            /\ "mark" \in Locations
        BY <1>1, <1>3 DEF Save, ShapeOf, Locations
      <3> HIDE DEF rec
      <3> QED BY <1>3, <2>3, <3>1, <3>2, SameWork, PersistType DEF Save, TypeInv
    <2> QED BY <1>3, <2>2, <2>3 DEF Save
  <1>4. CASE MarkTerminal(s)
    <2> DEFINE target == STATUS_STATE[work[s].result.status]
               rec == [Noted(record, "terminal") EXCEPT !.state = target]
    <2>1. Raised("PersistenceError") \in Outcomes
      BY DEF Raised, Outcomes, Exceptions, Errors
    <2>2. CASE End(s, Raised("PersistenceError")) /\ UNCHANGED record
      BY <1>4, <2>1, <2>2, EndType DEF MarkTerminal
    <2>3. CASE Persist(s, rec, "reread")
      <3>1. work[s].result.status \in Statuses
        BY <1>1, <1>4 DEF MarkTerminal, ShapeOf, Results
      <3>2. target \in States
        BY <3>1 DEF Statuses, STATUS_STATE, States, TERMINAL
      <3>3. Noted(record, "terminal") \in Records
        BY <1>1, NotedType DEF PlainEntries
      <3>4. rec \in Records
        <4> HIDE DEF target
        <4> QED BY <3>2, <3>3 DEF Records
      <3>5. /\ ShapeOf("reread", config[s], work[s]) /\ ShapeOf("done", config[s], work[s])
            /\ "reread" \in Locations
        BY <1>1, <1>4 DEF MarkTerminal, ShapeOf, Locations
      <3> HIDE DEF rec
      <3> QED BY <1>4, <2>3, <3>4, <3>5, SameWork, PersistType DEF MarkTerminal, TypeInv
    <2> QED BY <1>4, <2>2, <2>3 DEF MarkTerminal
  <1>5. CASE Reread(s)
    <2>1. Returned(record) \in Outcomes
      BY <1>1 DEF Returned, View, Outcomes, Views, Records
    <2> QED BY <1>5, <2>1, EndType DEF Reread
  <1> QED BY <1>2, <1>3, <1>4, <1>5 DEF Closing

\* An answer within the answer types, of a kind its operation expects.
LEMMA AnswerType ==
  ASSUME TypeInv, NEW s \in Submissions, NEW value \in Answers, pc[s] = "waiting",
         work[s].operation = "produce_result" =>
           value.kind \in {"malformed", "unencodable", "draft"},
         Answer(s, value)
  PROVE  TypeInv'
  <1> DEFINE w == [work[s] EXCEPT !.answer = value]
  <1>1. work[s] \in Works /\ ShapeOf(pc[s], config[s], work[s])
    BY DEF TypeInv, TypeOK, Shapes
  <1>2. /\ w \in Works /\ w.answer = value
        /\ w.operation = work[s].operation /\ w.request = work[s].request
    BY <1>1 DEF Works
  <1>3. ShapeOf("answered", config[s], w) /\ "answered" \in Locations
    <2> HIDE DEF w
    <2> QED BY <1>1, <1>2 DEF ShapeOf, Locations
  <1>4. work' = [work EXCEPT ![s] = w]
    BY DEF Answer, Work
  <1> HIDE DEF w
  <1> QED BY <1>2, <1>3, <1>4, GoType DEF Answer, TypeInv, TypeOK

LEMMA ProviderType ==
  ASSUME TypeInv, NEW s \in Submissions, Provider(s)
  PROVE  TypeInv'
  <1>1. work[s] \in Works
    BY DEF TypeInv, TypeOK
  <1>2. /\ {Finish, Garbage, Unencodable, BadBody} \subseteq Answers
        /\ Garbage.kind = "malformed" /\ Unencodable.kind = "unencodable"
    BY DEF Finish, Garbage, Unencodable, BadBody, Answers
  <1>3. CASE ProviderRaises(s)
    <2>1. PICK error \in ProviderFaults :
            LET kind  == KindOf(work[s].operation)
                typed == Classified(error, kind)
            IN  \/ /\ typed = "PersistenceError"
                   /\ End(s, Raised(typed))
                   /\ UNCHANGED <<dir, record, config, claims, work, expired, invoked>>
                \/ Fail(s, typed, kind = "tool_calls" /\ typed = "ToolExecutionError")
      BY <1>3 DEF ProviderRaises
    <2> DEFINE kind  == KindOf(work[s].operation)
               typed == Classified(error, kind)
    <2>2. error \in ProviderErrors
      BY FaultsAssumption
    <2>3. typed \in Errors /\ Raised(typed) \in Outcomes
      <3>1. typed \in Errors
        BY <2>2 DEF Classified, ProviderErrors, Errors
      <3> HIDE DEF typed
      <3> QED BY <3>1 DEF Raised, Outcomes, Exceptions
    <2> HIDE DEF kind, typed
    <2>4. CASE /\ End(s, Raised(typed))
               /\ UNCHANGED <<dir, record, config, claims, work, expired, invoked>>
      BY <2>3, <2>4, EndType
    <2>5. CASE Fail(s, typed, kind = "tool_calls" /\ typed = "ToolExecutionError")
      BY <1>3, <2>3, <2>5, FailType DEF ProviderRaises
    <2> QED BY <2>1, <2>4, <2>5 DEF kind, typed
  <1>4. CASE ModelActs(s)
    <2>1. \A request \in Requests : Ask(request) \in Answers
      BY DEF Ask, Answers
    <2> QED BY <1>2, <1>4, <2>1, AnswerType DEF ModelActs
  <1>5. CASE ModelDrafts(s)
    <2>1. work[s].ledger \subseteq Items
      BY <1>1 DEF Works
    <2>2. \A draft \in Drafts(work[s].ledger) :
            Draft(draft) \in Answers /\ Draft(draft).kind = "draft"
      BY <2>1 DEF Draft, Drafts, Answers
    <2> QED BY <1>2, <1>5, <2>2, AnswerType DEF ModelDrafts
  <1>6. CASE ToolResponds(s)
    <2>1. \A content \in Contents : Response(content) \in Answers
      BY DEF Response, Answers
    <2> QED BY <1>2, <1>6, <2>1, AnswerType DEF ToolResponds
  <1>7. CASE Timeout(s)
    BY <1>7, FailType DEF Timeout, Errors
  <1> QED BY <1>3, <1>4, <1>5, <1>6, <1>7 DEF Provider

LEMMA EnvironmentType ==
  ASSUME TypeInv, NEW s \in Submissions, Environment(s)
  PROVE  TypeInv'
  <1>1. work[s] \in Works /\ ShapeOf(pc[s], config[s], work[s])
    BY DEF TypeInv, TypeOK, Shapes
  <1>2. /\ Raised("ContractError") \in Outcomes /\ Raised("PersistenceError") \in Outcomes
        /\ Raised("UnicodeEncodeError") \in Outcomes
    BY DEF Raised, Outcomes, Exceptions, Errors
  <1>3. CASE Submit(s)
    <2>1. PICK c \in Configs : config' = [config EXCEPT ![s] = c]
      BY <1>3 DEF Submit
    <2>2. ShapeOf("lookup", c, work[s])
      BY <1>1, <1>3 DEF Submit, ShapeOf
    <2>3. pc' \in [Submissions -> Locations] /\ config' \in [Submissions -> Configs \cup {None}]
      BY <1>3, <2>1 DEF Submit, Goto, Locations, TypeInv, TypeOK
    <2>4. Shapes'
      BY <1>3, <2>1, <2>2 DEF Submit, Goto, Shapes, TypeInv, TypeOK
    <2> QED BY <1>3, <2>3, <2>4 DEF Submit, TypeInv, TypeOK
  <1>4. CASE RefuseEvent(s)
    BY <1>2, <1>4, EndType DEF RefuseEvent
  <1>5. CASE ClaimFails(s)
    BY <1>2, <1>5, EndType DEF ClaimFails
  <1>6. CASE ReadFails(s)
    BY <1>2, <1>6, EndType DEF ReadFails
  <1>7. CASE ContextTooLarge(s)
    BY <1>7, FailType DEF ContextTooLarge, Errors
  <1>8. CASE ResultTooLarge(s)
    BY <1>2, <1>8, EndType DEF ResultTooLarge
  <1>9. CASE Provider(s)
    BY <1>9, ProviderType
  <1>10. CASE Expire(s)
    BY <1>10 DEF Expire, TypeInv, TypeOK, Shapes
  <1>11. CASE Crash(s)
    <2>1. ShapeOf("crashed", config[s], work[s]) /\ "crashed" \in Locations
      BY <1>1 DEF ShapeOf, Locations
    <2> QED BY <1>11, <2>1, SameWork, GoType DEF Crash, TypeInv, TypeOK
  <1> QED BY <1>3, <1>4, <1>5, <1>6, <1>7, <1>8, <1>9, <1>10, <1>11 DEF Environment

LEMMA InitType == Init => TypeInv
  <1> SUFFICES ASSUME Init PROVE TypeInv
    OBVIOUS
  <1>1. NoRecord \in Records
    BY DEF NoRecord, NoAudit, Records
  <1>2. Fresh \in Works
    BY DEF Fresh, Works, TRANSITIONS, Usages, Operations, NoAnswer, Answers, Reasons
  <1>3. Fresh.operation = "choose_action"
    BY DEF Fresh
  <1>4. NoOutcome \in Outcomes
    BY DEF NoOutcome, Outcomes
  <1>5. TypeOK
    BY <1>1, <1>2, <1>4 DEF Init, TypeOK, Locations
  <1>6. Shapes
    BY <1>3 DEF Init, Shapes, ShapeOf
  <1> QED BY <1>5, <1>6 DEF TypeInv

LEMMA NextType == TypeInv /\ [Next]_vars => TypeInv'
  <1> SUFFICES ASSUME TypeInv, [Next]_vars PROVE TypeInv'
    OBVIOUS
  <1>1. CASE UNCHANGED vars
    BY <1>1 DEF vars, TypeInv, TypeOK, Shapes
  <1>2. ASSUME NEW s \in Submissions, Run(s) PROVE TypeInv'
    BY <1>2, EntryType, OpeningType, CallingType, HandlingType, ClosingType DEF Run
  <1>3. ASSUME NEW s \in Submissions, Environment(s) PROVE TypeInv'
    BY <1>3, EnvironmentType
  <1> QED BY <1>1, <1>2, <1>3 DEF Next

\* The variables keep their types: no state outside TRANSITIONS, no negative
\* counter, no result outside the result schema reaches the record.
THEOREM TypeCorrect == Spec => []TypeOK
  <1>1. TypeInv => TypeOK
    BY DEF TypeInv
  <1> QED BY <1>1, InitType, NextType, PTL DEF Spec

THEOREM TypeInvariant == Spec => []TypeInv
  BY InitType, NextType, PTL DEF Spec

-----------------------------------------------------------------------------
(* One investigation per key, and the write-ahead rule of its calls.        *)

(***************************************************************************)
(* OneInvestigator, strengthened by: a claimed key has its directory.      *)
(***************************************************************************)
ClaimInv == (claims # {} => dir) /\ OneInvestigator

\* Steps only the claimer takes: they start beyond the bystander locations,
\* concern one submission and touch neither the claim nor the configurations.
Claimer(s) ==
  \/ Opening(s) \/ Calling(s) \/ Handling(s) \/ Closing(s) \/ Provider(s)
  \/ ContextTooLarge(s) \/ ResultTooLarge(s)

LEMMA PersistFrame ==
  ASSUME NEW s, NEW rec, NEW next, Persist(s, rec, next)
  PROVE  \E x : pc' = [pc EXCEPT ![s] = x]
  BY DEF Persist, Write, End, Goto

LEMMA ClaimerFrame ==
  ASSUME TypeInv, NEW s \in Submissions, Claimer(s)
  PROVE  /\ pc[s] \notin Bystander
         /\ UNCHANGED <<dir, claims, config>>
         /\ \E x : pc' = [pc EXCEPT ![s] = x]
         /\ \A t \in Submissions \ {s} : invoked'[t] = invoked[t]
  <1>1. CASE Opening(s)
    BY <1>1, PersistFrame DEF Opening, Validate, LoadPolicy, PolicyLoaded, Admit,
       Dispatch, Move, Audit, Fail, Goto, Bystander
  <1>2. CASE Calling(s)
    <2>1. CASE Invoke(s)
      BY <2>1 DEF Invoke, Fail, Goto, Bystander, TypeInv, TypeOK
    <2>2. CASE Context(s) \/ Reserve(s) \/ StartCall(s) \/ CompleteCall(s)
      BY <2>2, PersistFrame DEF Context, Reserve, StartCall, CompleteCall,
         Fail, Goto, Bystander
    <2> QED BY <1>2, <2>1, <2>2 DEF Calling
  <1>3. CASE Handling(s)
    BY <1>3, PersistFrame DEF Handling, Acted, Authorization, Collect, NoteEvidence,
       Drafted, Ground, EncodingFails, Audit, Fail, End, Goto, Bystander
  <1>4. CASE Closing(s)
    BY <1>4, PersistFrame DEF Closing, RecordFailure, Save, MarkTerminal, Reread,
       Audit, End, Goto, Bystander
  <1>5. CASE Provider(s)
    BY <1>5 DEF Provider, ProviderRaises, Timeout, ModelActs, ModelDrafts, ToolResponds,
       Answer, Fail, End, Goto, Bystander
  <1>6. CASE ContextTooLarge(s) \/ ResultTooLarge(s)
    BY <1>6 DEF ContextTooLarge, ResultTooLarge, Fail, End, Goto, Bystander
  <1> QED BY <1>1, <1>2, <1>3, <1>4, <1>5, <1>6 DEF Claimer

\* A step of the claimer: everybody else stays where it is.
LEMMA ClaimerKeepsClaim ==
  ASSUME TypeInv, ClaimInv, NEW s \in Submissions, Claimer(s)
  PROVE  ClaimInv'
  <1>1. s \in claims
    BY ClaimerFrame DEF ClaimInv, OneInvestigator
  <1>2. PICK x : pc' = [pc EXCEPT ![s] = x]
    BY ClaimerFrame
  <1>3. \A t \in Submissions \ claims : pc'[t] = pc[t] /\ invoked'[t] = invoked[t]
    BY <1>1, <1>2, ClaimerFrame DEF TypeInv, TypeOK
  <1> QED BY <1>3, ClaimerFrame DEF ClaimInv, OneInvestigator

\* A step of a bystander that stays one.
LEMMA BystanderKeepsClaim ==
  ASSUME TypeInv, ClaimInv, NEW s \in Submissions, NEW x,
         pc' = [pc EXCEPT ![s] = x], x \in Bystander,
         UNCHANGED <<dir, claims, invoked>>
  PROVE  ClaimInv'
  BY DEF ClaimInv, OneInvestigator, TypeInv, TypeOK

LEMMA NextClaim == TypeInv /\ ClaimInv /\ [Next]_vars => ClaimInv'
  <1> SUFFICES ASSUME TypeInv, ClaimInv, [Next]_vars PROVE ClaimInv'
    OBVIOUS
  <1>1. CASE UNCHANGED vars
    BY <1>1 DEF vars, ClaimInv, OneInvestigator
  <1>2. ASSUME NEW s \in Submissions, Claimer(s) PROVE ClaimInv'
    BY <1>2, ClaimerKeepsClaim
  <1>3. ASSUME NEW s \in Submissions, Claim(s) PROVE ClaimInv'
    <2>1. CASE dir
      BY <1>3, <2>1, BystanderKeepsClaim DEF Claim, Goto, Bystander
    <2>2. CASE ~dir
      <3>1. claims = {} /\ claims' = {s} /\ dir'
        BY <1>3, <2>2 DEF Claim, ClaimInv
      <3>2. \A t \in Submissions \ {s} : pc'[t] = pc[t] /\ invoked'[t] = invoked[t]
        BY <1>3 DEF Claim, Goto, TypeInv, TypeOK
      <3> QED BY <3>1, <3>2 DEF ClaimInv, OneInvestigator
    <2> QED BY <2>1, <2>2
  <1>4. ASSUME NEW s \in Submissions, Create(s) PROVE ClaimInv'
    <2>1. s \in claims /\ UNCHANGED <<dir, claims, invoked>>
      BY <1>4 DEF Create, ClaimInv, OneInvestigator, Bystander
    <2>2. \A t \in Submissions \ {s} : pc'[t] = pc[t]
      BY <1>4 DEF Create, Write, Goto, End, TypeInv, TypeOK
    <2> QED BY <2>1, <2>2 DEF ClaimInv, OneInvestigator
  <1>5. ASSUME NEW s \in Submissions, Lookup(s) \/ Relookup(s) PROVE ClaimInv'
    BY <1>5, BystanderKeepsClaim DEF Lookup, Relookup, Duplicate, End, Goto, Bystander
  <1>6. ASSUME NEW s \in Submissions,
               Submit(s) \/ RefuseEvent(s) \/ ClaimFails(s) \/ ReadFails(s) \/ Crash(s)
        PROVE ClaimInv'
    BY <1>6, BystanderKeepsClaim DEF Submit, RefuseEvent, ClaimFails, ReadFails,
       Crash, End, Goto, Bystander
  <1>7. ASSUME NEW s \in Submissions, Expire(s) PROVE ClaimInv'
    BY <1>7 DEF Expire, ClaimInv, OneInvestigator
  <1> QED
    BY <1>1, <1>2, <1>3, <1>4, <1>5, <1>6, <1>7 DEF Next, Run, Entry, Environment, Claimer

\* However many submissions arrive and whichever of them crash or fail to
\* write, at most one investigates the key.
THEOREM OneInvestigatorHolds == Spec => []OneInvestigator
  <1>1. Init => ClaimInv
    BY DEF Init, ClaimInv, OneInvestigator, Bystander
  <1>2. ClaimInv => OneInvestigator
    BY DEF ClaimInv
  <1> QED BY <1>1, <1>2, NextClaim, TypeInvariant, PTL DEF Spec

(***************************************************************************)
(* WriteAhead, strengthened by what each step of a call has behind it: at  *)
(* "start" one reservation more than there are starts, at "invoke" one     *)
(* start more than there were invocations, and for a read one permission   *)
(* more, which holds because only an authorized request makes the          *)
(* operation a read, and the next round ends that.                         *)
(***************************************************************************)
ReservedIn(rec, k) == rec.audit[<<"budget_reserved", k>>]
StartedIn(rec, k)  == rec.audit[<<"call_started", k>>]
PermittedIn(rec)   == rec.audit[<<"policy_permitted", "-">>]

Calls == {"reserve", "start", "invoke"}
Reading ==
  Calls \cup {"waiting", "answered", "collect", "failing", "save", "mark",
              "reread", "done", "crashed"}

AheadOf(at, op, n, rec) ==
  /\ \A k \in CallKinds :
       n[k] <= StartedIn(rec, k) /\ StartedIn(rec, k) <= ReservedIn(rec, k)
  /\ n["tool_calls"] <= PermittedIn(rec)
  /\ at = "start"  => StartedIn(rec, KindOf(op)) + 1 <= ReservedIn(rec, KindOf(op))
  /\ at = "invoke" => n[KindOf(op)] + 1 <= StartedIn(rec, KindOf(op))
  /\ at \in Calls /\ op = "tool" => n["tool_calls"] + 1 <= PermittedIn(rec)
  /\ op = "tool" => at \in Reading
  /\ at = "create" => \A k \in CallKinds : n[k] = 0

AheadInv ==
  \A s \in Submissions : AheadOf(pc[s], work[s].operation, invoked[s], record)

\* What the audit of a step does to the three counts.
LEMMA NotedCounts ==
  ASSUME NEW rec \in Records, NEW kind \in PlainEntries
  PROVE  /\ \A k \in CallKinds :
              /\ ReservedIn(Noted(rec, kind), k) = ReservedIn(rec, k)
              /\ StartedIn(Noted(rec, kind), k) = StartedIn(rec, k)
         /\ PermittedIn(Noted(rec, kind)) =
              IF kind = "policy_permitted" THEN PermittedIn(rec) + 1 ELSE PermittedIn(rec)
  <1>1. /\ <<kind, "-">> \in Entries /\ <<"policy_permitted", "-">> \in Entries
        /\ \A k \in CallKinds : <<"budget_reserved", k>> \in Entries
                             /\ <<"call_started", k>> \in Entries
    BY DEF Entries, PlainEntries, CallEntries
  <1>2. rec.audit \in [Entries -> Nat]
    BY DEF Records
  <1>3. Noted(rec, kind).audit = [rec.audit EXCEPT ![<<kind, "-">>] = @ + 1]
    BY DEF Noted, Records
  <1>4. kind # "budget_reserved" /\ kind # "call_started"
    BY DEF PlainEntries
  <1> QED BY <1>1, <1>2, <1>3, <1>4 DEF ReservedIn, StartedIn, PermittedIn

LEMMA NotedCallCounts ==
  ASSUME NEW rec \in Records, NEW kind \in CallEntries, NEW op \in Operations
  PROVE  /\ \A k \in CallKinds :
              /\ ReservedIn(NotedCall(rec, kind, op), k) =
                   IF kind = "budget_reserved" /\ k = KindOf(op)
                   THEN ReservedIn(rec, k) + 1 ELSE ReservedIn(rec, k)
              /\ StartedIn(NotedCall(rec, kind, op), k) =
                   IF kind = "call_started" /\ k = KindOf(op)
                   THEN StartedIn(rec, k) + 1 ELSE StartedIn(rec, k)
         /\ PermittedIn(NotedCall(rec, kind, op)) = PermittedIn(rec)
  <1>1. /\ KindOf(op) \in CallKinds
        /\ <<kind, KindOf(op)>> \in Entries /\ <<"policy_permitted", "-">> \in Entries
        /\ \A k \in CallKinds : <<"budget_reserved", k>> \in Entries
                             /\ <<"call_started", k>> \in Entries
    BY DEF Entries, PlainEntries, CallEntries, KindOf, CallKinds
  <1>2. rec.audit \in [Entries -> Nat]
    BY DEF Records
  <1>3. NotedCall(rec, kind, op).audit = [rec.audit EXCEPT ![<<kind, KindOf(op)>>] = @ + 1]
    BY DEF NotedCall, Records
  <1>4. kind # "policy_permitted"
    BY DEF CallEntries
  <1> QED BY <1>1, <1>2, <1>3, <1>4 DEF ReservedIn, StartedIn, PermittedIn

LEMMA CountTypes ==
  ASSUME NEW rec \in Records
  PROVE  /\ \A k \in CallKinds : ReservedIn(rec, k) \in Nat /\ StartedIn(rec, k) \in Nat
         /\ PermittedIn(rec) \in Nat
  BY DEF Records, Entries, PlainEntries, CallEntries, ReservedIn, StartedIn, PermittedIn

\* Records with the same three counts are the same to AheadOf.
SameCounts(rec, other) ==
  /\ \A k \in CallKinds : /\ ReservedIn(rec, k) = ReservedIn(other, k)
                          /\ StartedIn(rec, k) = StartedIn(other, k)
  /\ PermittedIn(rec) = PermittedIn(other)

\* A step of the claimer preserves AheadInv once it does so for the claimer:
\* nobody else has invoked anything or is in a call.
LEMMA AheadStep ==
  ASSUME TypeInv, ClaimInv, AheadInv, NEW s \in claims, NEW x, NEW op, NEW n,
         pc' = [pc EXCEPT ![s] = x],
         work'[s].operation = op, \A t \in Submissions \ {s} : work'[t] = work[t],
         invoked' = [invoked EXCEPT ![s] = n],
         record' \in Records, AheadOf(x, op, n, record')
  PROVE  AheadInv'
  <1>1. s \in Submissions
    BY DEF TypeInv, TypeOK
  <1>2. AheadOf(pc'[s], work'[s].operation, invoked'[s], record')
    BY <1>1 DEF TypeInv, TypeOK
  <1>3. ASSUME NEW t \in Submissions \ {s}
        PROVE  AheadOf(pc'[t], work'[t].operation, invoked'[t], record')
    <2>1. pc'[t] = pc[t] /\ work'[t] = work[t] /\ invoked'[t] = invoked[t]
      BY <1>1 DEF TypeInv, TypeOK
    <2>2. pc[t] \in Bystander /\ \A k \in CallKinds : invoked[t][k] = 0
      BY DEF ClaimInv, OneInvestigator
    <2>3. /\ \A k \in CallKinds : StartedIn(record', k) <= ReservedIn(record', k)
          /\ \A k \in CallKinds : StartedIn(record', k) \in Nat
          /\ PermittedIn(record') \in Nat
      BY CountTypes DEF AheadOf
    <2>4. work[t].operation = "tool" => pc[t] \in Reading
      BY DEF AheadInv, AheadOf
    <2> QED BY <2>1, <2>2, <2>3, <2>4 DEF AheadOf, Bystander, Calls, CallKinds
  <1>4. \A t \in Submissions : AheadOf(pc'[t], work'[t].operation, invoked'[t], record')
    BY <1>2, <1>3
  <1> QED BY <1>4 DEF AheadInv

\* A stored step of the claimer.
LEMMA AheadPersist ==
  ASSUME TypeInv, ClaimInv, AheadInv, NEW s \in claims, NEW rec \in Records,
         NEW next \in Locations, NEW op, Persist(s, rec, next),
         work'[s].operation = op, \A t \in Submissions \ {s} : work'[t] = work[t],
         UNCHANGED invoked, AheadOf(next, op, invoked[s], rec)
  PROVE  AheadInv'
  <1>1. s \in Submissions /\ invoked' = [invoked EXCEPT ![s] = invoked[s]]
    BY DEF TypeInv, TypeOK
  <1>2. AheadOf("done", op, invoked[s], rec)
    <2>1. "done" \in Reading /\ "done" \notin Calls /\ "done" # "create"
      BY DEF Reading, Calls
    <2> QED BY <2>1 DEF AheadOf
  <1>3. AheadOf("done", op, invoked[s], record)
    <2>1. "done" \in Reading /\ "done" \notin Calls /\ "done" # "create"
      BY DEF Reading, Calls
    <2> QED BY <1>1, <2>1 DEF AheadInv, AheadOf
  <1>4. \/ record' = rec /\ pc' = [pc EXCEPT ![s] = next]
        \/ record' \in {record, rec} /\ pc' = [pc EXCEPT ![s] = "done"]
    BY DEF Persist, Write, Goto, End
  <1>5. record' \in Records
    BY <1>4 DEF TypeInv, TypeOK
  <1>6. CASE record' = rec /\ pc' = [pc EXCEPT ![s] = next]
    BY <1>1, <1>5, <1>6, AheadStep
  <1>7. CASE record' \in {record, rec} /\ pc' = [pc EXCEPT ![s] = "done"]
    <2>1. CASE record' = record
      <3>1. AheadOf("done", op, invoked[s], record')
        BY <1>3, <2>1
      <3> QED BY <1>1, <1>5, <1>7, <3>1, AheadStep
    <2>2. CASE record' = rec
      <3>1. AheadOf("done", op, invoked[s], record')
        BY <1>2, <2>2
      <3> QED BY <1>1, <1>5, <1>7, <3>1, AheadStep
    <2> QED BY <1>7, <2>1, <2>2
  <1> QED BY <1>4, <1>6, <1>7

\* A step of the claimer that stores nothing and makes no call.
LEMMA AheadQuiet ==
  ASSUME TypeInv, ClaimInv, AheadInv, NEW s \in claims, NEW x, NEW op,
         pc' = [pc EXCEPT ![s] = x], x \notin Calls \cup {"create"},
         op = "tool" => x \in Reading,
         work'[s].operation = op, \A t \in Submissions \ {s} : work'[t] = work[t],
         UNCHANGED <<record, invoked>>
  PROVE  AheadInv'
  <1>1. s \in Submissions /\ invoked' = [invoked EXCEPT ![s] = invoked[s]]
    BY DEF TypeInv, TypeOK
  <1>2. AheadOf(x, op, invoked[s], record)
    BY <1>1 DEF AheadInv, AheadOf, Calls
  <1> QED BY <1>1, <1>2, AheadStep DEF TypeInv, TypeOK

LEMMA AheadFail ==
  ASSUME TypeInv, ClaimInv, AheadInv, NEW s \in claims, NEW error, NEW missing,
         Fail(s, error, missing)
  PROVE  AheadInv'
  <1>1. s \in Submissions /\ work[s] \in Works
    BY DEF TypeInv, TypeOK
  <1>2. work'[s].operation = work[s].operation
    BY <1>1 DEF Fail, Work, TypeInv, TypeOK, Works
  <1>3. /\ pc' = [pc EXCEPT ![s] = "failing"] /\ UNCHANGED <<record, invoked>>
        /\ \A t \in Submissions \ {s} : work'[t] = work[t]
    BY <1>1 DEF Fail, Work, Goto, TypeInv, TypeOK
  <1>4. "failing" \notin Calls \cup {"create"} /\ "failing" \in Reading
    BY DEF Calls, Reading
  <1> QED BY <1>2, <1>3, <1>4, AheadQuiet

\* An audit other than the permission of a read.
LEMMA AheadAudit ==
  ASSUME TypeInv, ClaimInv, AheadInv, NEW s \in claims,
         NEW kind \in PlainEntries, kind # "policy_permitted",
         NEW next \in Locations, NEW op, next \notin Calls \cup {"create"},
         op = "tool" => next \in Reading,
         Persist(s, Noted(record, kind), next), UNCHANGED invoked,
         work'[s].operation = op, \A t \in Submissions \ {s} : work'[t] = work[t]
  PROVE  AheadInv'
  <1>1. s \in Submissions /\ record \in Records
    BY DEF TypeInv, TypeOK
  <1>2. Noted(record, kind) \in Records
    BY <1>1, NotedType
  <1>3. SameCounts(Noted(record, kind), record)
    BY <1>1, NotedCounts DEF SameCounts
  <1>4. AheadOf(next, op, invoked[s], Noted(record, kind))
    BY <1>1, <1>3 DEF AheadInv, AheadOf, SameCounts, Calls
  <1> QED BY <1>2, <1>4, AheadPersist

LEMMA AheadMove ==
  ASSUME TypeInv, ClaimInv, AheadInv, NEW s \in claims, NEW target \in States,
         NEW next \in Locations, next \notin Calls \cup {"create"},
         work[s].operation # "tool", Move(s, target, next)
  PROVE  AheadInv'
  <1> DEFINE rec == [Noted(record, "state") EXCEPT !.state = target]
  <1>1. s \in Submissions /\ record \in Records /\ work[s] \in Works
    BY DEF TypeInv, TypeOK
  <1>2. Noted(record, "state") \in Records /\ SameCounts(Noted(record, "state"), record)
    BY <1>1, NotedType, NotedCounts DEF PlainEntries, SameCounts
  <1>3. rec \in Records /\ rec.audit = Noted(record, "state").audit
    BY <1>2 DEF Records
  <1>4. SameCounts(rec, record)
    BY <1>2, <1>3 DEF SameCounts, ReservedIn, StartedIn, PermittedIn
  <1>5. AheadOf(next, work[s].operation, invoked[s], rec)
    BY <1>1, <1>4 DEF AheadInv, AheadOf, SameCounts, Calls
  <1>6. /\ work'[s].operation = work[s].operation
        /\ \A t \in Submissions \ {s} : work'[t] = work[t]
    BY <1>1 DEF Move, Work, TypeInv, TypeOK, Works
  <1>7. Persist(s, rec, next) /\ UNCHANGED invoked
    BY DEF Move
  <1> HIDE DEF rec
  <1> QED BY <1>3, <1>5, <1>6, <1>7, AheadPersist

\* Most steps of the claimer leave the operation of its call alone.
LEMMA WorkFrame ==
  ASSUME TypeInv, NEW s \in Submissions, NEW w, work' = [work EXCEPT ![s] = w]
  PROVE  work'[s] = w /\ \A t \in Submissions \ {s} : work'[t] = work[t]
  BY DEF TypeInv, TypeOK

LEMMA OpeningAhead ==
  ASSUME TypeInv, ClaimInv, AheadInv, NEW s \in claims, Opening(s)
  PROVE  AheadInv'
  <1>1. /\ s \in Submissions /\ record \in Records /\ work[s] \in Works
        /\ work[s].operation = "tool" => pc[s] \in Reading
    BY DEF TypeInv, TypeOK, AheadInv, AheadOf
  <1>2. work[s].operation # "tool"
    BY <1>1 DEF Opening, Validate, LoadPolicy, PolicyLoaded, Admit, Dispatch, Reading, Calls
  <1>3. /\ {"load", "loaded", "admit", "dispatch", "context", "failing"}
             \subseteq Locations \ (Calls \cup {"create"})
        /\ {"VALIDATED", "POLICY_LOADED", "INVESTIGATING"} \subseteq States
        /\ {"policy_loaded", "adapter_rejected"} \subseteq PlainEntries
    BY DEF Locations, Calls, States, TRANSITIONS, PlainEntries
  <1>4. CASE Validate(s) \/ PolicyLoaded(s)
    BY <1>2, <1>3, <1>4, AheadMove DEF Validate, PolicyLoaded
  <1>5. CASE LoadPolicy(s)
    BY <1>1, <1>2, <1>3, <1>5, AheadAudit DEF LoadPolicy, Audit
  <1>6. CASE Admit(s)
    BY <1>2, <1>3, <1>6, AheadMove, AheadFail DEF Admit
  <1>7. CASE Dispatch(s)
    <2>1. CASE Tools \subseteq config[s].callable
      BY <1>1, <1>2, <1>3, <1>7, <2>1, AheadQuiet DEF Dispatch, Goto
    <2>2. CASE ~(Tools \subseteq config[s].callable)
      <3> DEFINE w == [work[s] EXCEPT !.reason = "ContractError"]
      <3>1. w.operation = work[s].operation
        BY <1>1 DEF Works
      <3>2. /\ Persist(s, Noted(record, "adapter_rejected"), "failing")
            /\ work' = [work EXCEPT ![s] = w] /\ UNCHANGED invoked
        BY <1>7, <2>2 DEF Dispatch, Work
      <3> HIDE DEF w
      <3>3. work'[s] = w /\ \A t \in Submissions \ {s} : work'[t] = work[t]
        BY <1>1, <3>2, WorkFrame
      <3> QED BY <1>2, <1>3, <3>1, <3>2, <3>3, AheadAudit
    <2> QED BY <2>1, <2>2
  <1> QED BY <1>4, <1>5, <1>6, <1>7 DEF Opening

LEMMA CallingAhead ==
  ASSUME TypeInv, ClaimInv, AheadInv, NEW s \in claims, Calling(s)
  PROVE  AheadInv'
  <1> DEFINE op == work[s].operation
  <1>1. /\ s \in Submissions /\ record \in Records /\ work[s] \in Works
        /\ op \in Operations /\ invoked[s] \in [CallKinds -> Nat]
        /\ AheadOf(pc[s], op, invoked[s], record)
    BY DEF TypeInv, TypeOK, Works, AheadInv
  <1>2. KindOf(op) \in CallKinds /\ (op = "tool" => KindOf(op) = "tool_calls")
    BY DEF KindOf, CallKinds
  <1>3. CASE Context(s)
    <2>1. op # "tool"
      BY <1>1, <1>3 DEF Context, AheadOf, Reading, Calls
    <2>2. AheadOf("reserve", op, invoked[s], record)
      BY <1>1, <2>1 DEF AheadOf
    <2>3. /\ pc' = [pc EXCEPT ![s] = "reserve"] /\ invoked' = [invoked EXCEPT ![s] = invoked[s]]
          /\ UNCHANGED <<record, work>>
      BY <1>3 DEF Context, Goto, TypeInv, TypeOK
    <2> QED BY <1>1, <2>2, <2>3, AheadStep
  <1>4. CASE Reserve(s)
    <2>1. CASE Fail(s, "BudgetError", FALSE)
      BY <2>1, AheadFail
    <2>2. CASE ~Fail(s, "BudgetError", FALSE)
      <3> DEFINE rec == NotedCall(record, "budget_reserved", op)
                 w == [work[s] EXCEPT !.usage[KindOf(op)] = @ + 1]
      <3>1. rec \in Records
        BY <1>1, NotedCallType DEF CallEntries
      <3>2. /\ \A k \in CallKinds :
                 /\ ReservedIn(rec, k) = IF k = KindOf(op) THEN ReservedIn(record, k) + 1
                                                          ELSE ReservedIn(record, k)
                 /\ StartedIn(rec, k) = StartedIn(record, k)
            /\ PermittedIn(rec) = PermittedIn(record)
        BY <1>1, NotedCallCounts DEF CallEntries
      <3>3. /\ \A k \in CallKinds : ReservedIn(record, k) \in Nat /\ StartedIn(record, k) \in Nat
            /\ PermittedIn(record) \in Nat
        BY <1>1, CountTypes
      <3>4. AheadOf("start", op, invoked[s], rec)
        <4> HIDE DEF rec
        <4>1. pc[s] = "reserve"
          BY <1>4 DEF Reserve
        <4> QED BY <1>1, <1>2, <3>2, <3>3, <4>1 DEF AheadOf, Calls, Reading
      <3>5. /\ Persist(s, rec, "start") /\ UNCHANGED invoked
            /\ work' = [work EXCEPT ![s] = w]
        BY <1>4, <2>2 DEF Reserve, Work
      <3>6. w.operation = op
        BY <1>1 DEF Works
      <3>7. "start" \in Locations
        BY DEF Locations
      <3> HIDE DEF w, rec
      <3>8. work'[s] = w /\ \A t \in Submissions \ {s} : work'[t] = work[t]
        BY <1>1, <3>5, WorkFrame
      <3> QED BY <3>1, <3>4, <3>5, <3>6, <3>7, <3>8, AheadPersist
    <2> QED BY <2>1, <2>2
  <1>5. CASE StartCall(s)
    <2>1. CASE expired[s]
      BY <1>5, <2>1, AheadFail DEF StartCall
    <2>2. CASE ~expired[s]
      <3> DEFINE rec == NotedCall(record, "call_started", op)
      <3>1. rec \in Records
        BY <1>1, NotedCallType DEF CallEntries
      <3>2. /\ \A k \in CallKinds :
                 /\ StartedIn(rec, k) = IF k = KindOf(op) THEN StartedIn(record, k) + 1
                                                          ELSE StartedIn(record, k)
                 /\ ReservedIn(rec, k) = ReservedIn(record, k)
            /\ PermittedIn(rec) = PermittedIn(record)
        BY <1>1, NotedCallCounts DEF CallEntries
      <3>3. /\ \A k \in CallKinds : ReservedIn(record, k) \in Nat /\ StartedIn(record, k) \in Nat
            /\ PermittedIn(record) \in Nat
        BY <1>1, CountTypes
      <3>4. AheadOf("invoke", op, invoked[s], rec)
        <4> HIDE DEF rec
        <4>1. pc[s] = "start"
          BY <1>5 DEF StartCall
        <4> QED BY <1>1, <1>2, <3>2, <3>3, <4>1 DEF AheadOf, Calls, Reading
      <3>5. Persist(s, rec, "invoke") /\ UNCHANGED <<invoked, work>>
        BY <1>5, <2>2 DEF StartCall
      <3>6. "invoke" \in Locations
        BY DEF Locations
      <3> HIDE DEF rec
      <3> QED BY <1>1, <3>1, <3>4, <3>5, <3>6, AheadPersist
    <2> QED BY <2>1, <2>2
  <1>6. CASE Invoke(s)
    <2>1. CASE expired[s]
      BY <1>6, <2>1, AheadFail DEF Invoke
    <2>2. CASE ~expired[s]
      <3> DEFINE n == [invoked[s] EXCEPT ![KindOf(op)] = @ + 1]
      <3>1. /\ pc[s] = "invoke" /\ pc' = [pc EXCEPT ![s] = "waiting"]
            /\ invoked' = [invoked EXCEPT ![s] = n] /\ UNCHANGED <<record, work>>
        BY <1>6, <2>2 DEF Invoke, Goto
      <3>2. /\ \A k \in CallKinds : ReservedIn(record, k) \in Nat /\ StartedIn(record, k) \in Nat
            /\ PermittedIn(record) \in Nat
        BY <1>1, CountTypes
      <3>3. \A k \in CallKinds :
              n[k] = IF k = KindOf(op) THEN invoked[s][k] + 1 ELSE invoked[s][k]
        BY <1>1
      <3>4. KindOf(op) = "tool_calls" <=> op = "tool"
        BY DEF KindOf
      <3>5. AheadOf("waiting", op, n, record)
        <4> HIDE DEF n
        <4> QED BY <1>1, <1>2, <3>1, <3>2, <3>3, <3>4 DEF AheadOf, Calls, Reading, CallKinds
      <3> HIDE DEF n
      <3> QED BY <1>1, <3>1, <3>5, AheadStep
    <2> QED BY <2>1, <2>2
  <1>7. CASE CompleteCall(s)
    <2>1. CASE expired[s]
      BY <1>7, <2>1, AheadFail DEF CompleteCall
    <2>2. CASE ~expired[s]
      <3> DEFINE rec  == NotedCall(record, "call_completed", op)
                 next == AfterCall(op)
      <3>1. rec \in Records
        BY <1>1, NotedCallType DEF CallEntries
      <3>2. SameCounts(rec, record)
        BY <1>1, NotedCallCounts DEF CallEntries, SameCounts
      <3>3. next \in Locations /\ next \notin Calls \cup {"create"}
            /\ (op = "tool" => next \in Reading)
        BY <1>1 DEF AfterCall, Operations, Locations, Calls, Reading
      <3>4. AheadOf(next, op, invoked[s], rec)
        <4> HIDE DEF rec, next
        <4> QED BY <1>1, <3>2, <3>3 DEF AheadOf, SameCounts, Calls
      <3>5. Persist(s, rec, next) /\ UNCHANGED <<invoked, work>>
        BY <1>7, <2>2 DEF CompleteCall
      <3> HIDE DEF rec, next
      <3> QED BY <1>1, <3>1, <3>3, <3>4, <3>5, AheadPersist
    <2> QED BY <2>1, <2>2
  <1> QED BY <1>3, <1>4, <1>5, <1>6, <1>7 DEF Calling

\* An exception that leaves run stores nothing.
LEMMA AheadEnd ==
  ASSUME TypeInv, ClaimInv, AheadInv, NEW s \in claims, NEW answer, End(s, answer),
         UNCHANGED <<record, invoked, work>>
  PROVE  AheadInv'
  <1>1. s \in Submissions /\ "done" \in Reading /\ "done" \notin Calls \cup {"create"}
    BY DEF TypeInv, TypeOK, Reading, Calls
  <1> QED BY <1>1, AheadQuiet DEF End, Goto

LEMMA HandlingAhead ==
  ASSUME TypeInv, ClaimInv, AheadInv, NEW s \in claims, Handling(s)
  PROVE  AheadInv'
  <1> DEFINE op == work[s].operation
  <1>1. /\ s \in Submissions /\ record \in Records /\ work[s] \in Works
        /\ op \in Operations /\ invoked[s] \in [CallKinds -> Nat]
        /\ AheadOf(pc[s], op, invoked[s], record)
        /\ ShapeOf(pc[s], config[s], work[s])
    BY DEF TypeInv, TypeOK, Works, AheadInv, Shapes
  <1>2. /\ {"context", "authorize", "failing", "note", "ground", "save"}
             \subseteq Locations \ (Calls \cup {"create"})
        /\ {"model_action", "policy_rejected", "evidence_added", "model_result_received"}
             \subseteq PlainEntries \ {"policy_permitted"}
        /\ "failing" \in Reading
    BY DEF Locations, Calls, PlainEntries, Reading
  <1>3. CASE Acted(s)
    <2>1. ASSUME NEW error, NEW missing, Fail(s, error, missing) PROVE AheadInv'
      BY <2>1, AheadFail
    <2>2. ASSUME NEW w, w.operation # "tool", NEW next \in {"context", "authorize"},
                 Work(s, w), Audit(s, "model_action", next)
          PROVE  AheadInv'
      <3>1. /\ Persist(s, Noted(record, "model_action"), next) /\ UNCHANGED invoked
            /\ work'[s] = w /\ \A t \in Submissions \ {s} : work'[t] = work[t]
        BY <1>1, <2>2, WorkFrame DEF Audit, Work
      <3> QED BY <1>2, <2>2, <3>1, AheadAudit
    <2>3. op = "choose_action"
      BY <1>1, <1>3 DEF Acted, ShapeOf
    <2>4. /\ [work[s] EXCEPT !.operation = "produce_result",
                             !.answer = NoAnswer].operation # "tool"
          /\ [work[s] EXCEPT !.request = work[s].answer.request,
                             !.answer = NoAnswer].operation # "tool"
      BY <1>1, <2>3 DEF Works
    <2> QED BY <1>3, <2>1, <2>2, <2>4 DEF Acted
  <1>4. CASE Authorization(s)
    <2>1. CASE Authorize(config[s].policy, work[s].request) = "permitted"
      <3> DEFINE rec == Noted(record, "policy_permitted")
                 w == [work[s] EXCEPT !.operation = "tool"]
      <3>1. rec \in Records
        BY <1>1, NotedType DEF PlainEntries
      <3>2. /\ \A k \in CallKinds : /\ ReservedIn(rec, k) = ReservedIn(record, k)
                                    /\ StartedIn(rec, k) = StartedIn(record, k)
            /\ PermittedIn(rec) = PermittedIn(record) + 1
        BY <1>1, NotedCounts DEF PlainEntries
      <3>3. PermittedIn(record) \in Nat
        BY <1>1, CountTypes
      <3>4. AheadOf("reserve", "tool", invoked[s], rec)
        <4> HIDE DEF rec
        <4> QED BY <1>1, <3>2, <3>3 DEF AheadOf, Calls, Reading, CallKinds
      <3>5. /\ Persist(s, rec, "reserve") /\ UNCHANGED invoked
            /\ work' = [work EXCEPT ![s] = w]
        BY <1>4, <2>1 DEF Authorization, Audit, Work
      <3>6. w.operation = "tool" /\ "reserve" \in Locations
        BY <1>1 DEF Works, Locations
      <3> HIDE DEF w, rec
      <3>7. work'[s] = w /\ \A t \in Submissions \ {s} : work'[t] = work[t]
        BY <1>1, <3>5, WorkFrame
      <3> QED BY <3>1, <3>4, <3>5, <3>6, <3>7, AheadPersist
    <2>2. CASE Authorize(config[s].policy, work[s].request) # "permitted"
      <3> DEFINE w == [work[s] EXCEPT !.reason = Authorize(config[s].policy, work[s].request)]
      <3>1. w.operation = op
        BY <1>1 DEF Works
      <3>2. /\ Persist(s, Noted(record, "policy_rejected"), "failing")
            /\ UNCHANGED invoked /\ work' = [work EXCEPT ![s] = w]
        BY <1>4, <2>2 DEF Authorization, Audit, Work
      <3> HIDE DEF w
      <3>3. work'[s] = w /\ \A t \in Submissions \ {s} : work'[t] = work[t]
        BY <1>1, <3>2, WorkFrame
      <3> QED BY <1>2, <3>1, <3>2, <3>3, AheadAudit
    <2> QED BY <2>1, <2>2
  <1>5. CASE Collect(s)
    <2> DEFINE item == [request |-> work[s].request, content |-> work[s].answer.content]
               v == NextRound(work[s])
    <2>0. v \in Works /\ v.operation = "choose_action"
      BY <1>1, NextRoundType DEF NextRound, Works
    <2>1. ASSUME NEW error, NEW missing, Fail(s, error, missing) PROVE AheadInv'
      BY <2>1, AheadFail
    <2>2. CASE /\ Work(s, v) /\ Goto(s, "context")
               /\ UNCHANGED <<dir, record, config, claims, expired, invoked, outcome>>
      <3> HIDE DEF v
      <3>1. work'[s] = v /\ \A t \in Submissions \ {s} : work'[t] = work[t]
        BY <1>1, <2>2, WorkFrame DEF Work
      <3> QED BY <1>2, <2>0, <2>2, <3>1, AheadQuiet DEF Goto
    <2>3. CASE /\ work[s].answer.kind = "response"
               /\ Work(s, [v EXCEPT !.ledger = @ \cup {item},
                                    !.usage["evidence_items"] = @ + 1])
               /\ Persist(s, [record EXCEPT !.evidence = @ \cup {item}], "note")
               /\ UNCHANGED invoked
      <3> DEFINE w == [v EXCEPT !.ledger = @ \cup {item},
                                !.usage["evidence_items"] = @ + 1]
                 rec == [record EXCEPT !.evidence = @ \cup {item}]
      <3>1. work[s].request \in Requests /\ work[s].answer \in Answers
        BY <1>1, <1>5 DEF Collect, ShapeOf, Works
      <3>2. item \in Items
        BY <2>3, <3>1 DEF Answers, Items
      <3>3. rec \in Records /\ rec.audit = record.audit
        <4> HIDE DEF item
        <4> QED BY <1>1, <3>2 DEF Records
      <3>4. w.operation = "choose_action"
        <4> HIDE DEF v, item
        <4> QED BY <2>0 DEF Works
      <3>5. SameCounts(rec, record)
        BY <3>3 DEF SameCounts, ReservedIn, StartedIn, PermittedIn
      <3>6. AheadOf("note", "choose_action", invoked[s], rec)
        <4> HIDE DEF rec
        <4> QED BY <1>1, <3>5 DEF AheadOf, SameCounts, Calls
      <3>7. /\ Persist(s, rec, "note") /\ UNCHANGED invoked
            /\ work' = [work EXCEPT ![s] = w]
        BY <2>3 DEF Work
      <3> HIDE DEF w, rec
      <3>8. work'[s] = w /\ \A t \in Submissions \ {s} : work'[t] = work[t]
        BY <1>1, <3>7, WorkFrame
      <3> QED BY <1>2, <3>3, <3>4, <3>6, <3>7, <3>8, AheadPersist
    <2> QED BY <1>5, <2>1, <2>2, <2>3 DEF Collect
  <1>6. CASE NoteEvidence(s)
    <2>1. op # "tool"
      BY <1>1, <1>6 DEF NoteEvidence, AheadOf, Reading, Calls
    <2> QED BY <1>1, <1>2, <1>6, <2>1, AheadAudit DEF NoteEvidence, Audit
  <1>7. CASE Drafted(s)
    <2>1. op # "tool"
      BY <1>1, <1>7 DEF Drafted, ShapeOf
    <2> QED BY <1>1, <1>2, <1>7, <2>1, AheadFail, AheadAudit DEF Drafted, Audit
  <1>8. CASE Ground(s)
    <2> DEFINE w == [work[s] EXCEPT
                 !.reason = "model_finished",
                 !.result = Result(work[s].answer.draft, work[s].usage, "model_finished")]
    <2>1. CASE Fail(s, "GroundingError", FALSE)
      BY <2>1, AheadFail
    <2>2. CASE ~Fail(s, "GroundingError", FALSE)
      <3>1. w.operation = op
        BY <1>1 DEF Works
      <3>2. op # "tool"
        BY <1>1, <1>8 DEF Ground, AheadOf, Reading, Calls
      <3>3. /\ work' = [work EXCEPT ![s] = w] /\ pc' = [pc EXCEPT ![s] = "save"]
            /\ UNCHANGED <<record, invoked>>
        BY <1>8, <2>2 DEF Ground, Work, Goto
      <3> HIDE DEF w
      <3>4. work'[s] = w /\ \A t \in Submissions \ {s} : work'[t] = work[t]
        BY <1>1, <3>3, WorkFrame
      <3> QED BY <1>2, <3>1, <3>2, <3>3, <3>4, AheadQuiet
    <2> QED BY <2>1, <2>2
  <1>9. CASE EncodingFails(s)
    BY <1>9, AheadEnd DEF EncodingFails
  <1> QED BY <1>3, <1>4, <1>5, <1>6, <1>7, <1>8, <1>9 DEF Handling

LEMMA ClosingAhead ==
  ASSUME TypeInv, ClaimInv, AheadInv, NEW s \in claims, Closing(s)
  PROVE  AheadInv'
  <1> DEFINE op == work[s].operation
  <1>1. /\ s \in Submissions /\ record \in Records /\ work[s] \in Works
        /\ AheadOf(pc[s], op, invoked[s], record)
        /\ ShapeOf(pc[s], config[s], work[s])
    BY DEF TypeInv, TypeOK, AheadInv, Shapes
  <1>2. /\ {"save", "mark", "reread", "done"}
             \subseteq (Locations \cap Reading) \ (Calls \cup {"create"})
        /\ {"failure", "terminal"} \subseteq PlainEntries \ {"policy_permitted"}
    BY DEF Locations, Calls, PlainEntries, Reading
  <1>3. ASSUME NEW answer, End(s, answer), UNCHANGED <<record, invoked, work>>
        PROVE  AheadInv'
    BY <1>3, AheadEnd
  <1>4. CASE RecordFailure(s)
    <2> DEFINE w == [work[s] EXCEPT
                 !.result = Result(Unresolved(work[s]), work[s].usage, work[s].reason)]
    <2>1. w.operation = op
      BY <1>1 DEF Works
    <2>2. /\ Persist(s, Noted(record, "failure"), "save") /\ UNCHANGED invoked
          /\ work' = [work EXCEPT ![s] = w]
      BY <1>4 DEF RecordFailure, Audit, Work
    <2> HIDE DEF w
    <2>3. work'[s] = w /\ \A t \in Submissions \ {s} : work'[t] = work[t]
      BY <1>1, <2>2, WorkFrame
    <2> QED BY <1>2, <2>1, <2>2, <2>3, AheadAudit
  <1>5. ASSUME NEW rec \in Records, SameCounts(rec, record), NEW next \in {"mark", "reread"},
               Persist(s, rec, next), UNCHANGED <<invoked, work>>
        PROVE  AheadInv'
    <2>1. AheadOf(next, op, invoked[s], rec)
      BY <1>1, <1>2, <1>5 DEF AheadOf, SameCounts, Calls
    <2> QED BY <1>1, <1>2, <1>5, <2>1, AheadPersist
  <1>6. CASE Save(s)
    <2> DEFINE rec == [record EXCEPT !.result = work[s].result]
    <2>1. rec \in Records /\ rec.audit = record.audit
      BY <1>1, <1>6 DEF Save, ShapeOf, Records
    <2>2. SameCounts(rec, record)
      BY <2>1 DEF SameCounts, ReservedIn, StartedIn, PermittedIn
    <2>3. UNCHANGED <<invoked, work>>
      BY <1>6 DEF Save
    <2>4. CASE Persist(s, rec, "mark")
      <3> HIDE DEF rec
      <3> QED BY <1>5, <2>1, <2>2, <2>3, <2>4
    <2> QED BY <1>3, <1>6, <2>3, <2>4 DEF Save
  <1>7. CASE MarkTerminal(s)
    <2> DEFINE target == STATUS_STATE[work[s].result.status]
               rec == [Noted(record, "terminal") EXCEPT !.state = target]
    <2>1. target \in States
      BY <1>1, <1>7 DEF MarkTerminal, ShapeOf, Results, Statuses, STATUS_STATE, States, TERMINAL
    <2>2. Noted(record, "terminal") \in Records /\ SameCounts(Noted(record, "terminal"), record)
      BY <1>1, NotedType, NotedCounts DEF PlainEntries, SameCounts
    <2>3. rec \in Records /\ rec.audit = Noted(record, "terminal").audit
      <3> HIDE DEF target
      <3> QED BY <2>1, <2>2 DEF Records
    <2>4. SameCounts(rec, record)
      BY <2>2, <2>3 DEF SameCounts, ReservedIn, StartedIn, PermittedIn
    <2>5. UNCHANGED <<invoked, work>>
      BY <1>7 DEF MarkTerminal
    <2>6. CASE Persist(s, rec, "reread")
      <3> HIDE DEF rec
      <3> QED BY <1>5, <2>3, <2>4, <2>5, <2>6
    <2> QED BY <1>3, <1>7, <2>5, <2>6 DEF MarkTerminal
  <1>8. CASE Reread(s)
    BY <1>3, <1>8 DEF Reread
  <1> QED BY <1>4, <1>6, <1>7, <1>8 DEF Closing

LEMMA ProviderAhead ==
  ASSUME TypeInv, ClaimInv, AheadInv, NEW s \in claims, Provider(s)
  PROVE  AheadInv'
  <1>1. s \in Submissions /\ work[s] \in Works
    BY DEF TypeInv, TypeOK
  <1>2. ASSUME NEW error, NEW missing, Fail(s, error, missing) PROVE AheadInv'
    BY <1>2, AheadFail
  <1>3. ASSUME NEW value, Answer(s, value) PROVE AheadInv'
    <2> DEFINE w == [work[s] EXCEPT !.answer = value]
    <2>1. w.operation = work[s].operation
      BY <1>1 DEF Works
    <2>2. /\ work' = [work EXCEPT ![s] = w] /\ pc' = [pc EXCEPT ![s] = "answered"]
          /\ UNCHANGED <<record, invoked>>
      BY <1>3 DEF Answer, Work, Goto
    <2> HIDE DEF w
    <2>3. work'[s] = w /\ \A t \in Submissions \ {s} : work'[t] = work[t]
      BY <1>1, <2>2, WorkFrame
    <2>4. "answered" \in Reading /\ "answered" \notin Calls \cup {"create"}
      BY DEF Reading, Calls
    <2> QED BY <2>1, <2>2, <2>3, <2>4, AheadQuiet
  <1>4. ASSUME NEW answer, End(s, answer), UNCHANGED <<record, invoked, work>>
        PROVE  AheadInv'
    BY <1>4, AheadEnd
  <1> QED BY <1>2, <1>3, <1>4 DEF Provider, ProviderRaises, Timeout, ModelActs,
             ModelDrafts, ToolResponds

\* A step that moves one submission, outside any call, and nothing else.
LEMMA AheadStay ==
  ASSUME TypeInv, AheadInv, NEW s \in Submissions, NEW x,
         pc' = [pc EXCEPT ![s] = x], x \notin Calls \cup {"create"},
         pc[s] \in Reading => x \in Reading,
         UNCHANGED <<record, work, invoked>>
  PROVE  AheadInv'
  <1>1. AheadOf(x, work[s].operation, invoked[s], record)
    BY DEF AheadInv, AheadOf, Calls
  <1>2. \A t \in Submissions : AheadOf(pc'[t], work[t].operation, invoked[t], record)
    BY <1>1 DEF AheadInv, TypeInv, TypeOK
  <1> QED BY <1>2 DEF AheadInv

LEMMA NextAhead == TypeInv /\ ClaimInv /\ AheadInv /\ [Next]_vars => AheadInv'
  <1> SUFFICES ASSUME TypeInv, ClaimInv, AheadInv, [Next]_vars PROVE AheadInv'
    OBVIOUS
  <1>1. CASE UNCHANGED vars
    BY <1>1 DEF vars, AheadInv
  <1>2. ASSUME NEW s \in Submissions, Claimer(s) PROVE AheadInv'
    <2>1. s \in claims
      BY <1>2, ClaimerFrame DEF ClaimInv, OneInvestigator
    <2>2. CASE ResultTooLarge(s)
      BY <2>2, AheadStay DEF ResultTooLarge, End, Goto, Calls, Reading
    <2> QED BY <1>2, <2>1, <2>2, OpeningAhead, CallingAhead, HandlingAhead, ClosingAhead,
               ProviderAhead, AheadFail DEF Claimer, ContextTooLarge
  <1>3. ASSUME NEW s \in Submissions, Create(s) PROVE AheadInv'
    <2> DEFINE op  == work[s].operation
               rec == [NoRecord EXCEPT !.state = "RECEIVED",
                                       !.metadata = Metadata(config[s])]
    <2>1. s \in claims /\ pc[s] = "create"
      BY <1>3 DEF Create, ClaimInv, OneInvestigator, Bystander
    <2>2. /\ \A k \in CallKinds : invoked[s][k] = 0
          /\ op # "tool" /\ "open" \notin Calls \cup {"create"}
      BY <2>1 DEF AheadInv, AheadOf, Calls, Reading
    <2>3. rec.audit = NoAudit
      BY DEF NoRecord
    <2>4. /\ \A k \in CallKinds : ReservedIn(rec, k) = 0 /\ StartedIn(rec, k) = 0
          /\ PermittedIn(rec) = 0
      BY <2>3 DEF NoAudit, ReservedIn, StartedIn, PermittedIn, Entries, PlainEntries,
         CallEntries
    <2>5. ASSUME NEW x \in {"open", "done"} PROVE AheadOf(x, op, invoked[s], rec)
      <3> HIDE DEF rec
      <3> QED BY <2>2, <2>4 DEF AheadOf, Calls, CallKinds
    <2>6. AheadOf("done", op, invoked[s], record)
      BY <1>3, <2>2 DEF AheadInv, AheadOf, Calls
    <2>7. PICK x \in {"open", "done"} : /\ pc' = [pc EXCEPT ![s] = x]
                                        /\ \/ record' = rec
                                           \/ record' = record /\ x = "done"
      BY <1>3 DEF Create, Write, Goto, End
    <2>8. record' \in Records
      BY <1>3, NextType DEF Next, Run, Entry, TypeInv, TypeOK
    <2>9. UNCHANGED work /\ invoked' = [invoked EXCEPT ![s] = invoked[s]]
      BY <1>3 DEF Create, TypeInv, TypeOK
    <2> HIDE DEF rec
    <2>10. AheadOf(x, op, invoked[s], record')
      BY <2>5, <2>6, <2>7
    <2> QED BY <2>1, <2>7, <2>8, <2>9, <2>10, AheadStep
  <1>4. ASSUME NEW s \in Submissions, Claim(s) PROVE AheadInv'
    <2>1. CASE dir
      BY <1>4, <2>1, AheadStay DEF Claim, Goto, Calls, Reading
    <2>2. CASE ~dir
      <3>1. s \notin claims /\ pc[s] = "claim"
        BY <1>4, <2>2 DEF Claim, ClaimInv
      <3>2. \A k \in CallKinds : invoked[s][k] = 0
        BY <3>1 DEF ClaimInv, OneInvestigator
      <3>3. AheadOf("create", work[s].operation, invoked[s], record)
        BY <3>1, <3>2 DEF AheadInv, AheadOf, Calls, Reading
      <3>4. \A t \in Submissions : AheadOf(pc'[t], work[t].operation, invoked[t], record)
        BY <1>4, <2>2, <3>3 DEF Claim, Goto, AheadInv, TypeInv, TypeOK
      <3> QED BY <1>4, <3>4 DEF Claim, AheadInv
    <2> QED BY <2>1, <2>2
  <1>5. ASSUME NEW s \in Submissions,
               \/ Lookup(s) \/ Relookup(s) \/ Submit(s) \/ RefuseEvent(s)
               \/ ClaimFails(s) \/ ReadFails(s) \/ Crash(s)
        PROVE AheadInv'
    BY <1>5, AheadStay DEF Lookup, Relookup, Duplicate, Submit, RefuseEvent, ClaimFails,
       ReadFails, Crash, End, Goto, Calls, Reading
  <1>6. ASSUME NEW s \in Submissions, Expire(s) PROVE AheadInv'
    BY <1>6 DEF Expire, AheadInv
  <1> QED
    BY <1>1, <1>2, <1>3, <1>4, <1>5, <1>6 DEF Next, Run, Entry, Environment, Claimer

LEMMA InitAhead == Init => AheadInv
  <1> SUFFICES ASSUME Init, NEW s \in Submissions
               PROVE  AheadOf(pc[s], work[s].operation, invoked[s], record)
    BY DEF AheadInv
  <1>1. record.audit = NoAudit /\ invoked[s] = [k \in CallKinds |-> 0]
    BY DEF Init, NoRecord
  <1>2. /\ \A k \in CallKinds : ReservedIn(record, k) = 0 /\ StartedIn(record, k) = 0
        /\ PermittedIn(record) = 0
    BY <1>1 DEF NoAudit, ReservedIn, StartedIn, PermittedIn, Entries, PlainEntries,
       CallEntries
  <1>3. pc[s] = "idle" /\ work[s].operation # "tool"
    BY DEF Init, Fresh
  <1> QED BY <1>1, <1>2, <1>3 DEF AheadOf, Calls, CallKinds

\* Whatever crashes and whichever writes fail, the record accounts for every
\* adapter invocation: reserved, started and, for a read, permitted before it.
THEOREM WriteAheadHolds == Spec => []WriteAhead
  <1>1. Init => AheadInv
    BY InitAhead
  <1>2. AheadInv => WriteAhead
    BY DEF AheadInv, AheadOf, WriteAhead, ReservedIn, StartedIn, PermittedIn
  <1>3. Init => ClaimInv
    BY DEF Init, ClaimInv, OneInvestigator, Bystander
  <1> QED BY <1>1, <1>2, <1>3, NextClaim, NextAhead, TypeInvariant, PTL DEF Spec
=============================================================================
