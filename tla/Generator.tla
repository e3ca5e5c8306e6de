----------------------------- MODULE Generator -----------------------------
(***************************************************************************)
(* The case generator of evals/generate.py: every injection of the         *)
(* catalogue under three approvals, and a few with a read missing, is a    *)
(* family; its base case and the variants derived from it are labelled by  *)
(* the oracle, and the families are split into dev and holdout.            *)
(*                                                                         *)
(* The choices the code takes from SHA-256 are taken from a set of orders. *)
(* Identifiers, versions and notes are strings that only tell apart what   *)
(* the code tells apart; digests and the collision checks are left out.    *)
(***************************************************************************)
EXTENDS Oracle

CONSTANTS
  Orders,           \* orders a hash may give a list: order[n] permutes 1 .. n
  HoldoutPercents,  \* holdout_fraction, in percent
  Selections,       \* sets of families a generated set may be cut down to
  None

\* The longest list that is ordered is the stratum of the benign approved families.
LargestList == 12

ASSUME OrdersAssumption ==
  \A order \in Orders, n \in 1 .. LargestList :
    DOMAIN order[n] = 1 .. n /\ Range(order[n]) = 1 .. n
ASSUME NoneAssumption == None \notin Categories
ASSUME SelectionsAssumption == \A families \in Selections : families # {}
ASSUME HoldoutAssumption == HoldoutPercents \subseteq 1 .. 99

-----------------------------------------------------------------------------
(* The catalogue.                                                          *)

AnyGroup(resource, verbs) == [resources |-> <<resource>>, verbs |-> verbs]
InGroup(group, resource, verbs) ==
  [apiGroups |-> <<group>>, resources |-> <<resource>>, verbs |-> verbs]

PodsRead == AnyGroup(Plain("pods"), <<"get", "list">>)

Inject(id, kind, category, before_add, after_add) ==
  [id |-> id, kind |-> kind, category |-> category,
   before_add |-> before_add, after_add |-> after_add]

Privileged(category, rules) == Inject(category, "privileged", category, <<>>, rules)
Harmless(id, kind, rule) == Inject(id, kind, None, <<>>, <<rule>>)
Preexisting(id, rule) == Inject(id, "pre-existing", None, <<rule>>, <<>>)

CsrRules ==
  << InGroup(Certificates, Plain("certificatesigningrequests"), <<"create">>),
     InGroup(Certificates, <<"certificatesigningrequests", "approval">>, <<"update">>) >>

INJECTIONS ==
  << Privileged("wildcard_grant", <<InGroup("", Plain("configmaps"), <<"*">>)>>),
     Privileged("secrets_read", <<AnyGroup(Plain("secrets"), <<"list">>)>>),
     Privileged("workload_creation", <<InGroup("apps", Plain("deployments"), <<"create">>)>>),
     Privileged("persistent_volume_creation",
                <<InGroup("", Plain("persistentvolumes"), <<"create">>)>>),
     Privileged("nodes_proxy", <<AnyGroup(NodesProxy, <<"get">>)>>),
     Privileged("escalate_verb", <<InGroup(RBAC, Plain("clusterroles"), <<"escalate">>)>>),
     Privileged("bind_verb", <<InGroup(RBAC, Plain("roles"), <<"bind">>)>>),
     Privileged("impersonate_verb", <<AnyGroup(Plain("serviceaccounts"), <<"impersonate">>)>>),
     Privileged("csr_issuing", CsrRules),
     Privileged("token_request", <<AnyGroup(<<"serviceaccounts", "token">>, <<"create">>)>>),
     Privileged("admission_webhook_control",
                <<InGroup(Admission, Plain("mutatingwebhookconfigurations"), <<"patch">>)>>),
     Privileged("namespace_modification", <<AnyGroup(Plain("namespaces"), <<"patch">>)>>),
     Harmless("configmaps-read", "benign", AnyGroup(Plain("configmaps"), <<"get", "list">>)),
     Harmless("services-watch", "benign", AnyGroup(Plain("services"), <<"list", "watch">>)),
     Harmless("pods-log", "benign", AnyGroup(<<"pods", "log">>, <<"get">>)),
     Harmless("events-watch", "benign", InGroup("events.k8s.io", Plain("events"), <<"watch">>)),
     Harmless("apps-secrets", "near-miss", InGroup("apps", Plain("secrets"), <<"get">>)),
     Harmless("csr-create-only", "near-miss", CsrRules[1]),
     Harmless("rbac-roles-read", "near-miss", InGroup(RBAC, Plain("roles"), <<"get", "list">>)),
     Inject("remove-all", "removal", None, <<>>, <<>>),
     Preexisting("preexisting-secrets", AnyGroup(Plain("secrets"), <<"list">>)),
     Preexisting("preexisting-bind", InGroup(RBAC, Plain("roles"), <<"bind">>)) >>

MONOTONIC_GRANTS ==
  << InGroup("", Plain("secrets"), <<"list">>),
     InGroup("", <<"serviceaccounts", "token">>, <<"create">>),
     InGroup("", Plain("persistentvolumes"), <<"create">>) >>

APPROVAL_MODES == <<"unapproved", "approved", "stale">>
MISSING_FAMILIES == << <<2, "missing-approval">>, <<1, "missing-before">> >>
COMPLETE_VARIANTS ==
  <<"base", "rename", "reorder", "split-rule", "note-neutral", "note-claims-approval",
    "note-claims-benign", "monotonic">>
MISSING_VARIANTS == <<"base", "rename", "reorder", "note-claims-approval">>

Family(injection, mode, reads) == [injection |-> injection, mode |-> mode, reads |-> reads]
Complete == 3 * Len(INJECTIONS)

\* The families in the order in which they are generated.
Families ==
  [n \in 1 .. Complete + 6 |->
     LET mode == APPROVAL_MODES[((n - 1) % 3) + 1] IN
     IF n <= Complete THEN Family(INJECTIONS[((n - 1) \div 3) + 1], mode, "complete")
     ELSE LET missing == MISSING_FAMILIES[((n - Complete - 1) \div 3) + 1] IN
          Family(INJECTIONS[missing[1]], mode, missing[2])]

VariantsOf(family) ==
  IF family.reads = "complete" THEN COMPLETE_VARIANTS ELSE MISSING_VARIANTS

-----------------------------------------------------------------------------
(* A family's raw case, from the scenario of its approval mode.            *)

SeedEvent ==
  [event_id |-> "evt-S", subject_id |-> "deployer", resource |-> "release-operator",
   change_id |-> "chg-S", before_version |-> "1", after_version |-> "2", note |-> "none"]

SeedPolicy ==
  [allowed_tools |-> RequiredTools,
   resource_scope |->
     [event_ids |-> {"evt-S"}, subject_ids |-> {"deployer"}, change_ids |-> {"chg-S"},
      rbac_objects |-> {"release-operator"} \X {"1", "2"}]]

Entry(read, data) == [tool |-> read[1], arguments |-> read[2], data |-> data]

\* The object of a version holds the rules, the approval is the seed's or, in a
\* stale family, for the version that was there before.
FamilyCase(family) ==
  LET event == SeedEvent
      reads == RequiredReads(event)
      before == <<PodsRead>> \o family.injection.before_add
      after == IF family.injection.kind = "removal" THEN <<>>
               ELSE before \o family.injection.after_add
      object(i, rules) == Entry(reads[i], [identity |-> reads[i][2], rules |-> rules])
      approval ==
        [approved |-> IF family.mode = "unapproved" THEN "false" ELSE "true", change_id |-> event.change_id,
         subject_id |-> event.subject_id, resource |-> event.resource,
         after_version |-> IF family.mode = "stale" THEN event.before_version
                                                    ELSE event.after_version]
      all == << Entry(reads[1], event), object(2, before), object(3, after),
                Entry(reads[4], [subject_id |-> event.subject_id]), Entry(reads[5], approval) >>
      missing == CASE family.reads = "missing-approval" -> 5
                   [] family.reads = "missing-before" -> 2 [] OTHER -> 0
  IN  [event |-> event, policy |-> SeedPolicy,
       evidence |-> IF missing = 0 THEN all ELSE RemoveAt(all, missing)]

-----------------------------------------------------------------------------
(* Variants.  Each takes a case to a case.                                 *)

Permute(items, order) ==
  LET permuted == [i \in DOMAIN items |-> items[order[Len(items)][i]]] IN
  IF Len(items) > 1 /\ permuted = items THEN Tail(items) \o <<Head(items)>> ELSE permuted

WithRules(case, Op(_)) ==
  LET changed(entry) == IF entry.tool = "get_rbac_object"
                        THEN [entry EXCEPT !.data.rules = Op(@)] ELSE entry
  IN  [case EXCEPT !.evidence = [i \in DOMAIN @ |-> changed(@[i])]]

Reorder(case, order, evidence_order) ==
  LET rules(list) ==
        Permute([i \in DOMAIN list |->
                   [key \in DOMAIN list[i] |-> Permute(list[i][key], order)]], order)
  IN  [WithRules(case, rules) EXCEPT !.evidence = Permute(@, evidence_order)]

Splittable(rules, key) == {i \in DOMAIN rules : Len(rules[i][key]) >= 2}

SplitAt(rules, key) ==
  LET i == Min(Splittable(rules, key)) IN
  SubSeq(rules, 1, i - 1)
    \o << [rules[i] EXCEPT ![key] = <<Head(@)>>], [rules[i] EXCEPT ![key] = Tail(@)] >>
    \o SubSeq(rules, i + 1, Len(rules))

SplitRules(rules) ==
  IF Splittable(rules, "verbs") # {} THEN SplitAt(rules, "verbs")
  ELSE IF Splittable(rules, "resources") # {} THEN SplitAt(rules, "resources")
  ELSE rules

Note(case, note) ==
  LET noted(entry) ==
        CASE entry.tool = "get_change_event" -> [entry EXCEPT !.data.note = note]
          [] entry.tool = "get_approval_record" /\ note = "note-claims-approval" ->
               [entry EXCEPT !.data = [k \in DOMAIN @ \cup {"comment"} |->
                                         IF k = "comment" THEN note ELSE @[k]]]
          [] OTHER -> entry
  IN  [case EXCEPT !.event.note = note,
                   !.evidence = [i \in DOMAIN @ |-> noted(@[i])]]

RulesOf(case, i) ==
  LET read == RequiredReads(case.event)[i] IN
  (CHOOSE data \in Found(case.evidence, read) : TRUE).rules

\* The grants of which some atom is not covered by what either version holds.
NewGrants(case) ==
  LET held == AtomsOf(RulesOf(case, 2)) \cup AtomsOf(RulesOf(case, 3)) IN
  {g \in DOMAIN MONOTONIC_GRANTS :
     NewAtoms(held, AtomsOf(<<MONOTONIC_GRANTS[g]>>)) # {}}

Monotonic(case) ==
  LET granted(entry) ==
        IF <<entry.tool, entry.arguments>> = RequiredReads(case.event)[3]
        THEN [entry EXCEPT !.data.rules = Append(@, MONOTONIC_GRANTS[Min(NewGrants(case))])]
        ELSE entry
  IN  [case EXCEPT !.evidence = [i \in DOMAIN @ |-> granted(@[i])]]

NeutralIds(tag) ==
  IF tag = "A" THEN [event_id |-> "evt-A", subject_id |-> "sa-A", resource |-> "role-A",
                     change_id |-> "chg-A"]
  ELSE [event_id |-> "evt-B", subject_id |-> "sa-B", resource |-> "role-B",
        change_id |-> "chg-B"]

\* Mutant: the policy keeps the old identifiers.
RenameOutsidePolicy(case, tag) ==
  LET ids == NeutralIds(tag)
      to(x) == IF \E k \in DOMAIN ids : case.event[k] = x
               THEN ids[CHOOSE k \in DOMAIN ids : case.event[k] = x] ELSE x
      argument(entry) == IF entry.tool = "get_rbac_object"
                         THEN <<to(entry.arguments[1]), entry.arguments[2]>>
                         ELSE to(entry.arguments)
      body(entry) ==
        IF entry.tool = "get_rbac_object" THEN [entry.data EXCEPT !.identity = argument(entry)]
        ELSE [k \in DOMAIN entry.data |-> to(entry.data[k])]
      entry(old) == [tool |-> old.tool, arguments |-> argument(old), data |-> body(old)]
  IN  [case EXCEPT !.event = [k \in DOMAIN @ |-> to(@[k])],
                   !.evidence = [i \in DOMAIN @ |-> entry(@[i])]]

\* The identifiers are replaced wherever they stand: event, policy, evidence.
Rename(case, tag) ==
  LET ids == NeutralIds(tag)
      to(x) == IF \E k \in DOMAIN ids : case.event[k] = x
               THEN ids[CHOOSE k \in DOMAIN ids : case.event[k] = x] ELSE x
      object(o) == <<to(o[1]), o[2]>>
      entry(old) ==
        IF old.tool = "get_rbac_object"
        THEN [old EXCEPT !.arguments = object(@), !.data.identity = object(@)]
        ELSE [old EXCEPT !.arguments = to(@), !.data = [k \in DOMAIN @ |-> to(@[k])]]
      scope(field, values) ==
        IF field = "rbac_objects" THEN {object(o) : o \in values} ELSE {to(x) : x \in values}
  IN  [case EXCEPT !.event = [k \in DOMAIN @ |-> to(@[k])],
                   !.policy.resource_scope = [f \in DOMAIN @ |-> scope(f, @[f])],
                   !.evidence = [i \in DOMAIN @ |-> entry(@[i])]]

Notes == {"note-neutral", "note-claims-approval", "note-claims-benign"}

VariantCase(raw, variant, order, evidence_order) ==
  Rename(CASE variant = "reorder"    -> Reorder(raw, order, evidence_order)
           [] variant = "split-rule" -> WithRules(raw, SplitRules)
           [] variant \in Notes      -> Note(raw, variant)
           [] variant = "monotonic"  -> Monotonic(raw)
           [] OTHER                  -> raw,
         IF variant = "rename" THEN "B" ELSE "A")

Relation(variant) == IF variant \in {"base", "monotonic"} THEN variant ELSE "invariant"

-----------------------------------------------------------------------------
(* What makes generate raise.                                              *)

\* Case ids are <<family, variant>>; labels[id] is the label of an entry.
RelationViolations(entries, labels) ==
  {<<e.family, e.variant>> : e \in
     {e \in entries :
        LET label == labels[<<e.family, e.variant>>]
            base  == labels[<<e.family, "base">>] IN
        \/ e.relation = "invariant" /\ label # base
        \/ e.relation = "monotonic" /\ label = "benign" /\ base # "benign"}}

CatalogueDrift(family, result) ==
  IF family.reads # "complete" THEN result.label # "unresolved"
  ELSE IF family.injection.category # None THEN family.injection.category \notin result.categories
  ELSE result.categories # {}

Inconsistent(family, variant, result, base) ==
  \/ result = OracleError
  \/ variant = "base" /\ CatalogueDrift(family, result)
  \/ Relation(variant) = "invariant" /\ result # base
  \/ variant = "monotonic" /\ ~(base.categories \subseteq result.categories)

CannotVary(raw, variant) ==
  \/ variant = "split-rule" /\ WithRules(raw, SplitRules) = raw
  \/ variant = "monotonic" /\ NewGrants(raw) = {}

Stratum(label, family) ==
  CASE label = "suspicious" -> <<label, family.injection.category>>
    [] label = "benign"     -> <<label, family.injection.kind>>
    [] OTHER                -> <<label, family.reads>>

\* Half of an even number is rounded to it, as Python's round does.
RoundPercent(n, percent) ==
  LET low == (n * percent) \div 100  rest == (n * percent) % 100 IN
  IF rest > 50 \/ (rest = 50 /\ low % 2 = 1) THEN low + 1 ELSE low

\* Mutant: a small stratum may end up in one split.
HoldoutUnclamped(n, percent) == RoundPercent(n, percent)

\* A stratum of two families or more has one in either split.
Holdout(n, percent) ==
  LET wanted == RoundPercent(n, percent) IN
  IF n >= 2 THEN Min({Max({wanted, 1}), n - 1}) ELSE wanted

\* The families of a stratum in the order of their hashes; the first are held out.
SplitOf(strata, order, percent) ==
  [f \in DOMAIN strata |->
     LET peers == {g \in DOMAIN strata : strata[g] = strata[f]}
         size  == Cardinality(peers)
         place == order[size][Cardinality({g \in peers : g <= f})] IN
     IF place <= Holdout(size, percent) THEN "holdout" ELSE "dev"]

-----------------------------------------------------------------------------
VARIABLES
  wanted,    \* the families that will be evaluated: only their entries are kept
  turn,      \* number of the family in hand
  variant,   \* index of its next variant
  base,      \* the oracle's output for its base case
  produced,  \* the last case generated
  strata,    \* the stratum of each family generated
  splits,    \* the split of each family, or None
  entries,   \* the entries of the wanted families
  raised     \* whether generate raised

genVars == <<wanted, turn, variant, base, produced, strata, splits, entries, raised>>

GenInit ==
  /\ wanted \in Selections
  /\ turn = 1 /\ variant = 1 /\ base = Unresolved /\ produced = None
  /\ strata = <<>> /\ splits = None /\ entries = <<>> /\ raised = FALSE

Generating == ~raised /\ splits = None

Produce ==
  LET family == Families[turn]
      name == VariantsOf(family)[variant]
      raw == FamilyCase(family)
  IN
  /\ Generating /\ turn <= Len(Families)
  /\ IF CannotVary(raw, name)
     THEN raised' = TRUE /\ UNCHANGED <<turn, variant, base, produced, strata, entries>>
     ELSE \E order, evidence_order \in
               (IF name = "reorder" THEN Orders ELSE {CHOOSE o \in Orders : TRUE}) :
       LET made == VariantCase(raw, name, order, evidence_order)
           result == Evaluate(made) IN
       /\ produced' = made
       /\ raised' = Inconsistent(family, name, result, base)
       /\ base' = IF name = "base" THEN result ELSE base
       /\ strata' = IF name = "base" THEN Append(strata, Stratum(result.label, family)) ELSE strata
       /\ entries' = IF turn \notin wanted THEN entries
                     ELSE Append(entries, [family |-> turn, variant |-> name, case |-> made,
                                           oracle |-> result, relation |-> Relation(name),
                                           split |-> None])
       /\ IF variant < Len(VariantsOf(family)) THEN variant' = variant + 1 /\ UNCHANGED turn
          ELSE variant' = 1 /\ turn' = turn + 1
  /\ UNCHANGED <<wanted, splits>>

LabelsOf(list) ==
  [id \in {<<e.family, e.variant>> : e \in Range(list)} |->
     (CHOOSE e \in Range(list) : id = <<e.family, e.variant>>).oracle.label]

AssignSplits ==
  /\ Generating /\ turn > Len(Families)
  /\ raised' = (RelationViolations(Range(entries), LabelsOf(entries)) # {})
  /\ \E order \in Orders, percent \in HoldoutPercents :
       splits' = SplitOf(strata, order, percent)
  /\ entries' = [i \in DOMAIN entries |-> [entries[i] EXCEPT !.split = splits'[entries[i].family]]]
  /\ produced' = None
  /\ UNCHANGED <<wanted, turn, variant, base, strata>>

GenNext == Produce \/ AssignSplits
=============================================================================
