------------------------------ MODULE Evidence ------------------------------
(***************************************************************************)
(* The evidence ledger and the grounding check of                          *)
(* src/src/agenticdef/domain/evidence.py.                                  *)
(*                                                                         *)
(* An evidence identity is the SHA-256 of the tool, its arguments and the  *)
(* response, so an item is modelled by exactly these: the request and the  *)
(* content of the response.  Equal items have equal identities and, the    *)
(* hash taken as injective, only they do.  The ledger is a set of items.   *)
(***************************************************************************)
EXTENDS Runtime

CONSTANT Fabricated   \* an evidence identity that no read ever produced

\* The five reads a conclusive verdict rests on.  before_version and
\* after_version stand for the role object at that version.
RequiredRequests(event) ==
  { Read("get_change_event", event.event_id),
    Read("get_rbac_object", event.before_version),
    Read("get_rbac_object", event.after_version),
    Read("get_subject_bindings", event.subject_id),
    Read("get_approval_record", event.change_id) }

Collected(ledger) == {item.request : item \in ledger}

Drafts(ledger) ==
  [status : Statuses, risk : Risks, cited : SUBSET (ledger \cup {Fabricated}),
   missing : BOOLEAN]

(***************************************************************************)
(* validate_grounding.  A draft has findings exactly when it cites         *)
(* something: the draft schema gives every finding at least one identity.  *)
(***************************************************************************)
ExpectedRisk(status) ==
  CASE status = "confirmed_suspicious" -> "high"
    [] status = "likely_benign"        -> "low"
    [] OTHER                           -> "unknown"

\* Mutant: every tool was used, but not for every read the event requires.
GroundedByTool(draft, ledger, event) ==
  /\ draft.cited \subseteq ledger
  /\ draft.status \in Conclusive =>
       /\ draft.cited # {}
       /\ ~draft.missing
       /\ Tools \subseteq {request.tool : request \in Collected(ledger)}
  /\ draft.risk = ExpectedRisk(draft.status)

Grounded(draft, ledger, event) ==
  /\ draft.cited \subseteq ledger
  /\ draft.status \in Conclusive =>
       /\ draft.cited # {}
       /\ ~draft.missing
       /\ Tools \subseteq {request.tool : request \in Collected(ledger)}
       /\ RequiredRequests(event) \subseteq Collected(ledger)
  /\ draft.risk = ExpectedRisk(draft.status)
=============================================================================
