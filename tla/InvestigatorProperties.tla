----------------------- MODULE InvestigatorProperties -----------------------
(***************************************************************************)
(* What Investigator.run promises to its callers, to its operator and to   *)
(* whoever reads the stored record later.                                  *)
(***************************************************************************)
EXTENDS Investigator, FiniteSets

(***************************************************************************)
(* Types.                                                                  *)
(***************************************************************************)
Locations ==
  {"idle", "lookup", "claim", "relookup", "create", "open", "load", "loaded",
   "admit", "dispatch", "context", "reserve", "start", "invoke", "waiting",
   "answered", "acted", "authorize", "collect", "note", "drafted", "ground",
   "failing", "save", "mark", "reread", "done", "crashed"}

Items     == [request : Requests, content : Contents]
Usages    == [Counters -> Nat]
Reasons   == Errors \cup {"none", "model_finished"}
Metadatas == {Metadata(c) : c \in Configs}
Results   ==
  [status : Statuses, risk : Risks, cited : SUBSET (Items \cup {Fabricated}),
   missing : BOOLEAN, usage : Usages, reason : Reasons]

Records ==
  [state : States \cup {"RUNNING"}, metadata : Metadatas \cup {None},
   audit : [Entries -> Nat], evidence : SUBSET Items, result : Results \cup {None}]

\* What stands for nothing is neither metadata nor a result: both are dicts in
\* the code, never None.
ASSUME NoneAssumption == None \notin Metadatas \cup Results

Answers ==
  [kind : {"none", "malformed", "unencodable", "finish", "bad_envelope"}]
    \cup [kind : {"tool_request"}, request : Requests]
    \cup [kind : {"draft"}, draft : Drafts(Items)]
    \cup [kind : {"response"}, content : Contents]

Works ==
  [state : DOMAIN TRANSITIONS, usage : Usages, ledger : SUBSET Items,
   operation : Operations, request : Requests \cup {None}, answer : Answers,
   reason : Reasons, missing : BOOLEAN, result : Results \cup {None}]

Views ==
  [state : States \cup {"RUNNING"}, metadata : Metadatas \cup {None},
   result : Results \cup {None}]
\* What leaves run: one exception that can is not an InvestigationError.
Exceptions == Errors \cup {"UnicodeEncodeError"}
Outcomes ==
  [kind : {"none"}] \cup [kind : {"raised"}, error : Exceptions]
    \cup [kind : {"returned"}, view : Views]

\* Every variable has the shape the code gives it; in particular no local
\* state outside TRANSITIONS, no counter below zero, and no result outside the
\* result schema.
TypeOK ==
  /\ dir \in BOOLEAN
  /\ record \in Records
  /\ pc \in [Submissions -> Locations]
  /\ config \in [Submissions -> Configs \cup {None}]
  /\ claims \in SUBSET Submissions
  /\ work \in [Submissions -> Works]
  /\ expired \in [Submissions -> BOOLEAN]
  /\ invoked \in [Submissions -> [CallKinds -> Nat]]
  /\ outcome \in [Submissions -> Outcomes]

(***************************************************************************)
(* One investigation per key.                                              *)
(***************************************************************************)
\* At most one submission ever investigates a key, however many arrive and
\* whoever crashes: only the submission whose mkdir succeeded gets past the
\* lookup or invokes an adapter.
OneInvestigator ==
  /\ \A s, t \in claims : s = t
  /\ \A s \in Submissions \ claims :
       pc[s] \in Bystander /\ \A k \in CallKinds : invoked[s][k] = 0

\* Callers that are given a finished record are given the same result, and a
\* caller that is given a real record brought the metadata stored in it.
AnswersAgree ==
  \A s, t \in Submissions :
    /\ outcome[s].kind = "returned" /\ outcome[s].view.metadata # None =>
         outcome[s].view.metadata = Metadata(config[s])
    /\ /\ outcome[s].kind = "returned" /\ outcome[s].view.state \in TERMINAL
       /\ outcome[t].kind = "returned" /\ outcome[t].view.state \in TERMINAL
       => outcome[s].view = outcome[t].view

\* The claimer is answered with a terminal record, in the state its result calls
\* for, or with an exception, and everyone else with what the claimer stored: no answer holds a result that
\* the record does not hold from then on.
AnswersAreDurable ==
  \A s \in Submissions :
    outcome[s].kind = "returned" =>
      /\ s \in claims =>
           /\ outcome[s].view.state \in TERMINAL /\ outcome[s].view.result # None
           /\ outcome[s].view.state = STATUS_STATE[outcome[s].view.result.status]
      /\ outcome[s].view.result # None => outcome[s].view.result = record.result

(***************************************************************************)
(* Accounting: what is stored covers what was done.                        *)
(***************************************************************************)
\* An adapter is never invoked before its reservation, its start and, for a
\* read, its permission are in the stored record; so after any crash the
\* record accounts for every invocation.
WriteAhead ==
  \A s \in Submissions :
    /\ \A k \in CallKinds :
         /\ invoked[s][k] <= record.audit[<<"call_started", k>>]
         /\ record.audit[<<"call_started", k>>] <= record.audit[<<"budget_reserved", k>>]
    /\ invoked[s]["tool_calls"] <= record.audit[<<"policy_permitted", "-">>]

\* The usage a result reports is the usage the record shows: as many calls as
\* reservations, as many evidence items as were stored and noted.
UsageIsAudited ==
  record.result # None =>
    LET usage == record.result.usage IN
    /\ \A k \in CallKinds : usage[k] = record.audit[<<"budget_reserved", k>>]
    /\ usage["evidence_items"] = Cardinality(record.evidence)
    /\ usage["evidence_items"] = record.audit[<<"evidence_added", "-">>]

\* A call is made only while time is left and while, its own reservation set
\* aside, no counter has reached its limit: exhausting any counter stops every
\* further call of either kind.
NoCallAfterExhaustion ==
  [][\A s \in Submissions, k \in CallKinds :
       invoked'[s][k] # invoked[s][k] =>
         /\ ~expired[s]
         /\ \A c \in Counters :
              work[s].usage[c] - (IF c = k THEN 1 ELSE 0) < config[s].policy.limits[c]]_vars

WithinPolicy(policy, request) ==
  LET capability == CAPABILITIES[request.tool] IN
  /\ request.tool \in policy.allowed_tools
  /\ request.sound /\ request.keys = capability.arguments
  /\ request.value \in policy.resource_scope[capability.scope_field]

\* A read an adapter is performing, and every item of evidence in the record,
\* was asked for within the tools and the scope of the trusted policy.
OnlyPermittedReads ==
  /\ \A s \in Submissions :
       pc[s] = "waiting" /\ work[s].operation = "tool" =>
         WithinPolicy(config[s].policy, work[s].request)
  /\ \A item \in record.evidence : WithinPolicy(record.metadata.policy, item.request)

(***************************************************************************)
(* Verdicts.                                                               *)
(***************************************************************************)
\* A conclusive result in the record is borne out by the evidence in the same
\* record: it cites only stored items, and the five reads its event requires
\* are all stored, however the write of a result and a crash interleave.
VerdictIsGrounded ==
  record.result # None /\ record.result.status \in Conclusive =>
    /\ record.result.cited # {}
    /\ record.result.cited \subseteq record.evidence
    /\ RequiredRequests(record.metadata.event) \subseteq Collected(record.evidence)
    /\ ~record.result.missing
    /\ record.result.risk # "unknown"

\* An investigation in which anything failed, was rejected or was left
\* unanswered never ends in a verdict: a failure entry means an unresolved
\* result of unknown risk, and behind a conclusive result every call that was
\* started was completed.
FailureNeverBenign ==
  record.result # None =>
    /\ record.audit[<<"failure", "-">>] > 0 =>
         record.result.status \notin Conclusive /\ record.result.risk = "unknown"
    /\ record.result.status \in Conclusive =>
         /\ record.audit[<<"policy_rejected", "-">>] = 0
         /\ record.audit[<<"adapter_rejected", "-">>] = 0
         /\ \A k \in CallKinds :
              record.audit[<<"call_started", k>>] = record.audit[<<"call_completed", k>>]

(***************************************************************************)
(* Progress.                                                               *)
(***************************************************************************)
\* Every submission is answered, by a record or by an exception, even if the
\* adapters never answer of their own accord: the budget bounds the loop, the
\* deadline the wait, provided that a cancelled adapter gives up.
Settles ==
  \A s \in Submissions : pc[s] = "lookup" ~> pc[s] \in {"done", "crashed"}

\* Exceptions that leave run with the claim unresolved: of the store, of an
\* answer that cannot be encoded, and of a result beyond the byte limit.
Unrecorded == {"PersistenceError", "UnicodeEncodeError", "ContractError"}

\* A claimed key gets a terminal record, whatever cancellable adapters answer,
\* raise or leave open, unless its owner crashed or was told by one of these
\* exceptions that it did not.
ReachesVerdict ==
  dir ~> \/ record.state \in TERMINAL
         \/ \E s \in claims :
              \/ pc[s] = "crashed"
              \/ outcome[s].kind = "raised" /\ outcome[s].error \in Unrecorded

(***************************************************************************)
(* What the documentation says of the code, where the code does otherwise. *)
(***************************************************************************)
\* docs/adr-0001.md: "A changed event/policy/provider under an existing key is
\* refused": a record is returned only to a submission that agrees with the
\* one that owns the key.
ChangedSubmissionRefused ==
  \A s \in Submissions, t \in claims :
    outcome[s].kind = "returned" => Metadata(config[s]) = Metadata(config[t])
=============================================================================
