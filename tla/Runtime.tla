------------------------------ MODULE Runtime ------------------------------
(***************************************************************************)
(* The rules of src/src/agenticdef/domain: the states of an investigation  *)
(* and the moves between them, the closed catalog of evidence reads, the   *)
(* authorization of one read against a trusted policy, and the budget      *)
(* check that precedes every provider call.  Pure definitions, no state.   *)
(***************************************************************************)
EXTENDS Integers

(***************************************************************************)
(* The state machine of one investigation.                                 *)
(***************************************************************************)
TERMINAL == {"COMPLETED", "INSUFFICIENT_EVIDENCE", "INCONCLUSIVE", "FAILED"}

\* Mutant: an investigation that ran out of budget has no way to end.
TransitionsWithoutBudget ==
  [RECEIVED      |-> {"VALIDATED", "FAILED"},
   VALIDATED     |-> {"POLICY_LOADED", "FAILED"},
   POLICY_LOADED |-> {"INVESTIGATING", "FAILED"},
   INVESTIGATING |-> TERMINAL \ {"INCONCLUSIVE"}]

TRANSITIONS ==
  [RECEIVED      |-> {"VALIDATED", "FAILED"},
   VALIDATED     |-> {"POLICY_LOADED", "FAILED"},
   POLICY_LOADED |-> {"INVESTIGATING", "FAILED"},
   INVESTIGATING |-> TERMINAL]

MayMove(current, target) ==
  current \in DOMAIN TRANSITIONS /\ target \in TRANSITIONS[current]

States == DOMAIN TRANSITIONS \cup TERMINAL

STATUS_STATE ==
  [confirmed_suspicious  |-> "COMPLETED",
   likely_benign         |-> "COMPLETED",
   insufficient_evidence |-> "INSUFFICIENT_EVIDENCE",
   inconclusive          |-> "INCONCLUSIVE",
   investigation_failed  |-> "FAILED"]

Statuses   == DOMAIN STATUS_STATE
Risks      == {"high", "low", "unknown"}
Conclusive == {"confirmed_suspicious", "likely_benign"}

(***************************************************************************)
(* How a failed investigation is classified: the errors are the subclasses *)
(* of InvestigationError.                                                  *)
(***************************************************************************)
Errors ==
  {"ContractError", "PolicyError", "BudgetError", "ToolNotAllowedError",
   "ScopeError", "ToolExecutionError", "ModelError", "GroundingError",
   "PersistenceError"}

\* Mutant: a status the result schema does not know.
FailureStatusUnknown(error) ==
  IF error = "BudgetError" THEN "inconclusive" ELSE "failed"

FailureStatus(error) ==
  CASE error = "ToolExecutionError" -> "insufficient_evidence"
    [] error = "BudgetError"        -> "inconclusive"
    [] OTHER                        -> "investigation_failed"

(***************************************************************************)
(* The catalog.  A request is a record with the fields                     *)
(*   tool   the name the model asks for,                                   *)
(*   keys   the names of its arguments,                                    *)
(*   sound  whether every argument is a string within the length bounds,   *)
(*   value  what the arguments identify: the one identifier, or for        *)
(*          get_rbac_object the whole kind/namespace/name/version object.  *)
(***************************************************************************)
CAPABILITIES ==
  [get_change_event     |-> [arguments |-> {"event_id"},
                             scope_field |-> "event_ids"],
   get_rbac_object      |-> [arguments |-> {"kind", "namespace", "name", "version"},
                             scope_field |-> "rbac_objects"],
   get_subject_bindings |-> [arguments |-> {"subject_id"},
                             scope_field |-> "subject_ids"],
   get_approval_record  |-> [arguments |-> {"change_id"},
                             scope_field |-> "change_ids"]]

Tools == DOMAIN CAPABILITIES

Read(tool, value) ==
  [tool |-> tool, keys |-> CAPABILITIES[tool].arguments, sound |-> TRUE,
   value |-> value]

(***************************************************************************)
(* A policy is a record: allowed_tools, resource_scope (a set of values    *)
(* per scope field) and limits (one bound per counter).                    *)
(***************************************************************************)
AdmitsEvent(policy, event) == event.event_id \in policy.resource_scope.event_ids

\* Mutant: the arguments are checked for their shape, not for their scope.
AuthorizeShape(policy, request) ==
  IF request.tool \notin Tools \cap policy.allowed_tools
    THEN "ToolNotAllowedError"
  ELSE IF request.keys # CAPABILITIES[request.tool].arguments \/ ~request.sound
    THEN "ContractError"
  ELSE "permitted"

\* The error Policy.authorize raises for a request, or "permitted".  The
\* checks are ordered: the catalog, the shape, then the scope.
Authorize(policy, request) ==
  IF request.tool \notin Tools \cap policy.allowed_tools
    THEN "ToolNotAllowedError"
  ELSE IF request.keys # CAPABILITIES[request.tool].arguments \/ ~request.sound
    THEN "ContractError"
  ELSE IF request.value \notin
            policy.resource_scope[CAPABILITIES[request.tool].scope_field]
    THEN "ScopeError"
  ELSE "permitted"

(***************************************************************************)
(* The budget.  Only calls are reserved; evidence_items counts what was    *)
(* stored.  Budget.check refuses a call of either kind as soon as any of   *)
(* the three counters has reached its limit.                               *)
(***************************************************************************)
CallKinds == {"model_calls", "tool_calls"}
Counters  == CallKinds \cup {"evidence_items"}

\* Mutant: only the calls are counted.
ExhaustedCalls(limits, usage) == \E c \in CallKinds : usage[c] >= limits[c]

Exhausted(limits, usage) == \E c \in Counters : usage[c] >= limits[c]
=============================================================================
