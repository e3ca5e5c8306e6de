--------------------------- MODULE OracleReference ---------------------------
(***************************************************************************)
(* What the oracle is compared with: RBAC as a request meets it, without   *)
(* permission atoms.                                                       *)
(***************************************************************************)
EXTENDS Oracle

\* Whether a rule set allows a request, as Kubernetes reads one: without the oracle's atoms.
Allows(rules, request) ==
  \E i \in DOMAIN rules :
    LET rule == rules[i] IN
    /\ "apiGroups" \in DOMAIN rule => Range(rule.apiGroups) \cap {"*", request[1]} # {}
    /\ \E r \in Range(rule.resources) :
         \/ r = Star \/ r = request[2]
         \/ r[1] = "*" /\ r[2] # "" /\ r[2] = request[2][2]
    /\ Range(rule.verbs) \cap {"*", request[3]} # {}

\* Requests that alone raise what their holder may do.
Dangerous ==
  (UNION {Triples[c] : c \in DOMAIN Triples})
    \cup ({""} \X {NodesProxy} \X {"get", "create"})
    \cup ({""} \X {Plain("users"), Plain("groups"), Plain("serviceaccounts")} \X {"impersonate"})
=============================================================================
