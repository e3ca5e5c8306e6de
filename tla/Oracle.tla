------------------------------- MODULE Oracle -------------------------------
(***************************************************************************)
(* The RBAC reference oracle of evals/oracle.py: rules are expanded to     *)
(* permission atoms, the atoms the after version newly grants are sorted   *)
(* into twelve escalation categories, and the category set together with   *)
(* the approval record gives the label of a case.                          *)
(*                                                                         *)
(* A resource is a pair <<name, subresource>>, the subresource "" if there *)
(* is none; <<"*", "">> is the pattern for everything and <<"*", s>> the   *)
(* pattern "*/s".  A rule is a record that has only the fields the rule    *)
(* has, each a sequence.  Every OracleError is the one value OracleError.  *)
(***************************************************************************)
EXTENDS Integers, Sequences, FiniteSets, Functions, FiniteSetsExt, SequencesExt

MAX_ATOMS_PER_OBJECT == 2048

RBAC == "rbac.authorization.k8s.io"
Admission == "admissionregistration.k8s.io"
Certificates == "certificates.k8s.io"

-----------------------------------------------------------------------------
(* Permission atoms <<group, resource, verb, name>>.                       *)

Star == <<"*", "">>
Plain(name) == <<name, "">>

ResourceMatch(pattern, resource) ==
  \/ pattern \in {Star, resource}
  \/ pattern[1] = "*" /\ pattern[2] # "" /\ resource[2] = pattern[2]

Covers(q, a) ==
  /\ q[1] \in {"*", a[1]} /\ ResourceMatch(q[2], a[2])
  /\ q[3] \in {"*", a[3]} /\ q[4] \in {"*", a[4]}

Grants(atom, triple) ==
  /\ atom[1] \in {"*", triple[1]} /\ ResourceMatch(atom[2], triple[2])
  /\ atom[3] \in {"*", triple[3]}

RuleKeys == {"apiGroups", "resources", "verbs", "resourceNames"}

\* The empty string is an API group, and no resource, verb or name.
WellFormedRule(rule) ==
  /\ {"resources", "verbs"} \subseteq DOMAIN rule /\ DOMAIN rule \subseteq RuleKeys
  /\ \A key \in DOMAIN rule :
       /\ rule[key] # <<>>
       /\ key \in {"verbs", "resourceNames"} => "" \notin Range(rule[key])
       /\ key = "resources" => Plain("") \notin Range(rule[key])

Listed(rule, key) == IF key \in DOMAIN rule THEN rule[key] ELSE <<"*">>

\* The places an atom is expanded from; what is repeated counts every time.
AtomPlaces(rules) ==
  UNION {{i} \X (DOMAIN Listed(rules[i], "apiGroups")) \X (DOMAIN rules[i]["resources"])
           \X (DOMAIN rules[i]["verbs"]) \X (DOMAIN Listed(rules[i], "resourceNames")) :
         i \in DOMAIN rules}

WellFormed(rules) ==
  /\ \A i \in DOMAIN rules : WellFormedRule(rules[i])
  /\ Cardinality(AtomPlaces(rules)) <= MAX_ATOMS_PER_OBJECT

RuleAtoms(rule) ==
  Range(Listed(rule, "apiGroups")) \X Range(rule["resources"])
    \X Range(rule["verbs"]) \X Range(Listed(rule, "resourceNames"))

AtomsOf(rules) == UNION {RuleAtoms(rules[i]) : i \in DOMAIN rules}

-----------------------------------------------------------------------------
(* Escalation categories.                                                  *)

Triples ==
  [secrets_read |-> {""} \X {Plain("secrets")} \X {"get", "list", "watch"},
   workload_creation |->
     ({""} \X {Plain("pods"), Plain("replicationcontrollers")} \X {"create"})
     \cup ({"apps"} \X {Plain("deployments"), Plain("replicasets"), Plain("statefulsets"),
                        Plain("daemonsets")} \X {"create"})
     \cup ({"batch"} \X {Plain("jobs"), Plain("cronjobs")} \X {"create"}),
   persistent_volume_creation |-> {<<"", Plain("persistentvolumes"), "create">>},
   escalate_verb |-> {RBAC} \X {Plain("roles"), Plain("clusterroles")} \X {"escalate"},
   bind_verb |-> {RBAC} \X {Plain("roles"), Plain("clusterroles")} \X {"bind"},
   token_request |-> {<<"", <<"serviceaccounts", "token">>, "create">>},
   admission_webhook_control |->
     {Admission} \X {Plain("validatingwebhookconfigurations"),
                     Plain("mutatingwebhookconfigurations")}
       \X {"create", "update", "patch", "delete", "deletecollection"},
   namespace_modification |-> {""} \X {Plain("namespaces")} \X {"patch", "update"}]

NodesProxy == <<"nodes", "proxy">>
CsrCreate == <<Certificates, Plain("certificatesigningrequests"), "create">>
CsrApprove == <<Certificates, <<"certificatesigningrequests", "approval">>, "update">>

Categories ==
  DOMAIN Triples \cup {"wildcard_grant", "nodes_proxy", "impersonate_verb", "csr_issuing"}

GrantsAny(atoms, triple) == \E atom \in atoms : Grants(atom, triple)
CsrGranted(atoms) == GrantsAny(atoms, CsrCreate) /\ GrantsAny(atoms, CsrApprove)

NewAtoms(before, after) == {a \in after : ~\E q \in before : Covers(q, a)}

\* One category is newly granted from the before to the after atoms.
NewlyGrants(category, before, after) ==
  LET new == NewAtoms(before, after) IN
  CASE category \in DOMAIN Triples -> \E triple \in Triples[category] : GrantsAny(new, triple)
    [] category = "wildcard_grant" -> \E a \in new : a[2] = Star \/ a[3] = "*"
    [] category = "nodes_proxy" ->
         \E a \in new : a[1] \in {"*", ""} /\ ResourceMatch(a[2], NodesProxy)
    [] category = "impersonate_verb" -> \E a \in new : a[3] \in {"*", "impersonate"}
    [] category = "csr_issuing" -> CsrGranted(after) /\ ~CsrGranted(before)

NewlyGranted(before, after) == {c \in Categories : NewlyGrants(c, before, after)}

-----------------------------------------------------------------------------
(* Judging a case: an event, a policy and a sequence of evidence entries   *)
(* [tool, arguments, data].                                                *)

RequiredTools ==
  {"get_change_event", "get_rbac_object", "get_subject_bindings", "get_approval_record"}

RequiredReads(event) ==
  << <<"get_change_event", event.event_id>>,
     <<"get_rbac_object", <<event.resource, event.before_version>>>>,
     <<"get_rbac_object", <<event.resource, event.after_version>>>>,
     <<"get_subject_bindings", event.subject_id>>,
     <<"get_approval_record", event.change_id>> >>

ScopeField ==
  [get_change_event |-> "event_ids", get_rbac_object |-> "rbac_objects",
   get_subject_bindings |-> "subject_ids", get_approval_record |-> "change_ids"]

PolicyCovers(policy, event) ==
  /\ RequiredTools \subseteq policy.allowed_tools
  /\ \A read \in Range(RequiredReads(event)) :
       read[2] \in policy.resource_scope[ScopeField[read[1]]]

Matches(evidence, read) ==
  {i \in DOMAIN evidence : evidence[i].tool = read[1] /\ evidence[i].arguments = read[2]}

\* The data of the one entry that answers a required read; {} without one.
Found(evidence, read) ==
  IF Cardinality(Matches(evidence, read)) # 1 THEN {}
  ELSE {evidence[i].data : i \in Matches(evidence, read)}

ReadableObject(data, read) ==
  DOMAIN data = {"identity", "rules"} /\ data.identity = read[2] /\ WellFormed(data.rules)

ApprovalKeys == {"approved", "change_id", "subject_id", "resource", "after_version"}

\* Mutant: the approval may be for another version of the object.
ApprovesAnyVersion(data, event) ==
  /\ data.approved = "true" /\ data.change_id = event.change_id
  /\ data.subject_id = event.subject_id /\ data.resource = event.resource

Approves(data, event) ==
  /\ data.approved = "true" /\ data.change_id = event.change_id
  /\ data.subject_id = event.subject_id /\ data.resource = event.resource
  /\ data.after_version = event.after_version

OracleError == [label |-> "error", categories |-> {}]
Unresolved == [label |-> "unresolved", categories |-> {}]

\* A read that is there is checked before any label is chosen.
Readable(found, reads) ==
  /\ \A i \in {2, 3} : \A data \in found[i] : ReadableObject(data, reads[i])
  /\ \A data \in found[5] : ApprovalKeys \subseteq DOMAIN data

Label(categories, approved) ==
  IF categories # {} /\ ~approved THEN "suspicious" ELSE "benign"

Judge(event, evidence) ==
  LET reads == RequiredReads(event)
      found == [i \in DOMAIN reads |-> Found(evidence, reads[i])]
      the(i) == CHOOSE data \in found[i] : TRUE
  IN  IF ~Readable(found, reads) THEN OracleError
      ELSE IF \E i \in DOMAIN reads : found[i] = {} THEN Unresolved
      ELSE LET categories == NewlyGranted(AtomsOf(the(2).rules), AtomsOf(the(3).rules)) IN
           [label |-> Label(categories, Approves(the(5), event)), categories |-> categories]

Evaluate(case) ==
  IF PolicyCovers(case.policy, case.event) THEN Judge(case.event, case.evidence)
                                           ELSE OracleError

\* What the runtime may end with, for a label.
Expected(label) ==
  [statuses |-> CASE label = "suspicious" -> {"confirmed_suspicious"}
                  [] label = "benign" -> {"likely_benign"}
                  [] OTHER -> {"insufficient_evidence", "inconclusive", "investigation_failed"},
   risk |-> CASE label = "suspicious" -> "high" [] label = "benign" -> "low" [] OTHER -> "unknown",
   methods |-> IF label = "unresolved" THEN {} ELSE RequiredTools,
   reason |-> IF label = "unresolved" THEN "ToolExecutionError" ELSE "model_finished"]
=============================================================================
