-------------------------- MODULE EvaluationProofs --------------------------
(***************************************************************************)
(* Proofs about the oracle, for every pair of rule sets: of any length,    *)
(* with any groups, resources, verbs and names; and about evaluations, for *)
(* every call and whatever the hashes, the transports and the factories do. *)
(***************************************************************************)
EXTENDS EvaluationProperties, FiniteSetTheorems, TLAPS

-----------------------------------------------------------------------------
(* Covering.                                                               *)

\* What a pattern's pattern matches, the pattern matches.
LEMMA MatchTransitive ==
  ASSUME NEW p, NEW q, NEW r, ResourceMatch(p, q), ResourceMatch(q, r)
  PROVE  ResourceMatch(p, r)
<1>1. CASE p = Star  BY <1>1 DEF ResourceMatch
<1>2. CASE p = q  BY <1>2
<1>3. CASE p[1] = "*" /\ p[2] # "" /\ q[2] = p[2]
  <2>1. Star[2] = ""  BY DEF Star
  <2>2. q # Star  BY <1>3, <2>1
  <2> QED  BY <1>3, <2>2 DEF ResourceMatch
<1> QED  BY <1>1, <1>2, <1>3 DEF ResourceMatch

\* Covering is reflexive and transitive: expanding a permission further never makes a
\* held one look new.
THEOREM CoversIsAPreorder ==
  ASSUME NEW a, NEW b, NEW c
  PROVE  Covers(a, a) /\ (Covers(a, b) /\ Covers(b, c) => Covers(a, c))
<1>1. Covers(a, a)  BY DEF Covers, ResourceMatch
<1>2. ASSUME Covers(a, b), Covers(b, c) PROVE Covers(a, c)
  <2>1. ResourceMatch(a[2], c[2])  BY <1>2, MatchTransitive DEF Covers
  <2> QED  BY <1>2, <2>1 DEF Covers
<1> QED  BY <1>1, <1>2

\* What an atom grants, an atom that covers it grants as well.
LEMMA CoverGrants ==
  ASSUME NEW q, NEW a, NEW request, Covers(q, a), Grants(a, request)
  PROVE  Grants(q, request)
<1>1. ResourceMatch(q[2], request[2])  BY MatchTransitive DEF Covers, Grants
<1> QED  BY <1>1 DEF Covers, Grants

-----------------------------------------------------------------------------
(* Rules and their atoms.                                                  *)

\* A rule as the oracle accepts it: every field is a list.
IsRule(rule) ==
  /\ WellFormedRule(rule)
  /\ \A key \in DOMAIN rule : \E S : rule[key] \in Seq(S)

LEMMA SomeName ==
  ASSUME NEW rule, IsRule(rule)
  PROVE  Range(Listed(rule, "resourceNames")) # {}
<1>1. ASSUME NEW S, NEW s \in Seq(S), s # <<>> PROVE Range(s) # {}
  <2>1. Len(s) # 0  BY <1>1
  <2>2. 1 \in DOMAIN s  BY <2>1
  <2> QED  BY <2>2 DEF Range
<1>2. CASE "resourceNames" \in DOMAIN rule
  BY <1>1, <1>2 DEF IsRule, WellFormedRule, Listed
<1>3. CASE "resourceNames" \notin DOMAIN rule  BY <1>3 DEF Listed, Range
<1> QED  BY <1>2, <1>3

\* One rule allows a request exactly when one of its atoms grants it.
RuleAllows(rule, request) ==
  /\ "apiGroups" \in DOMAIN rule => Range(rule.apiGroups) \cap {"*", request[1]} # {}
  /\ \E r \in Range(rule.resources) :
       \/ r = Star \/ r = request[2]
       \/ r[1] = "*" /\ r[2] # "" /\ r[2] = request[2][2]
  /\ Range(rule.verbs) \cap {"*", request[3]} # {}

LEMMA RuleAllowsIsGranted ==
  ASSUME NEW rule, IsRule(rule), NEW request
  PROVE  RuleAllows(rule, request) <=> \E a \in RuleAtoms(rule) : Grants(a, request)
<1>1. ASSUME RuleAllows(rule, request)
      PROVE  \E a \in RuleAtoms(rule) : Grants(a, request)
  <2>1. PICK g \in Range(Listed(rule, "apiGroups")) : g \in {"*", request[1]}
    <3>1. "*" \in Range(<<"*">>)  BY DEF Range
    <3> QED  BY <1>1, <3>1 DEF RuleAllows, Listed
  <2>2. PICK r \in Range(rule["resources"]) : ResourceMatch(r, request[2])
    BY <1>1 DEF RuleAllows, ResourceMatch
  <2>3. PICK v \in Range(rule["verbs"]) : v \in {"*", request[3]}
    BY <1>1 DEF RuleAllows
  <2>4. PICK n \in Range(Listed(rule, "resourceNames")) : TRUE  BY SomeName
  <2>5. <<g, r, v, n>> \in RuleAtoms(rule)  BY DEF RuleAtoms
  <2>6. Grants(<<g, r, v, n>>, request)  BY <2>1, <2>2, <2>3 DEF Grants
  <2> QED  BY <2>5, <2>6
<1>2. ASSUME NEW a \in RuleAtoms(rule), Grants(a, request)
      PROVE  RuleAllows(rule, request)
  <2>1. /\ a[1] \in Range(Listed(rule, "apiGroups")) /\ a[2] \in Range(rule["resources"])
        /\ a[3] \in Range(rule["verbs"])
    BY DEF RuleAtoms
  <2> QED  BY <1>2, <2>1 DEF Grants, ResourceMatch, RuleAllows, Listed
<1> QED  BY <1>1, <1>2

AreRules(rules) == \A i \in DOMAIN rules : IsRule(rules[i])

\* The atoms of a rule set grant exactly the requests that its rules allow.
THEOREM AtomsGrantWhatRulesAllow ==
  ASSUME NEW rules, AreRules(rules), NEW request
  PROVE  Allows(rules, request) <=> GrantsAny(AtomsOf(rules), request)
<1>1. Allows(rules, request) <=> \E i \in DOMAIN rules : RuleAllows(rules[i], request)
  BY DEF Allows, RuleAllows
<1>2. \A i \in DOMAIN rules :
        RuleAllows(rules[i], request) <=> \E a \in RuleAtoms(rules[i]) : Grants(a, request)
  BY RuleAllowsIsGranted DEF AreRules
<1> QED  BY <1>1, <1>2 DEF AtomsOf, GrantsAny

-----------------------------------------------------------------------------
(* Escalation.                                                             *)

\* A request the after version grants and the before version does not is granted by an
\* atom that is new.
LEMMA NewRequestHasNewAtom ==
  ASSUME NEW before, NEW after, NEW request,
         GrantsAny(after, request), ~GrantsAny(before, request)
  PROVE  GrantsAny(NewAtoms(before, after), request)
<1>1. PICK a \in after : Grants(a, request)  BY DEF GrantsAny
<1>2. \A q \in before : ~Covers(q, a)  BY <1>1, CoverGrants DEF GrantsAny
<1> QED  BY <1>1, <1>2 DEF GrantsAny, NewAtoms

\* The categories that are not looked up in the table of triples.
LEMMA OtherCategories ==
  {"wildcard_grant", "nodes_proxy", "impersonate_verb", "csr_issuing"} \cap DOMAIN Triples = {}
BY DEF Triples

LEMMA TripleCategory ==
  ASSUME NEW before, NEW after, NEW c \in DOMAIN Triples
  PROVE  NewlyGrants(c, before, after) <=>
           \E triple \in Triples[c] : GrantsAny(NewAtoms(before, after), triple)
<1>1. c \notin {"wildcard_grant", "nodes_proxy", "impersonate_verb", "csr_issuing"}
  BY OtherCategories
<1> QED  BY <1>1 DEF NewlyGrants

\* A dangerous request that is newly granted has its category, whatever the rules.
LEMMA NewRequestHasCategory ==
  ASSUME NEW before, NEW after, NEW request \in Dangerous,
         GrantsAny(after, request), ~GrantsAny(before, request)
  PROVE  NewlyGranted(before, after) # {}
<1> DEFINE new == NewAtoms(before, after)
<1>1. GrantsAny(new, request)  BY NewRequestHasNewAtom
<1>2. ASSUME NEW c \in DOMAIN Triples, request \in Triples[c]
      PROVE  c \in NewlyGranted(before, after)
  BY <1>1, <1>2, TripleCategory DEF NewlyGranted, Categories
<1>3. CASE request \in {""} \X {NodesProxy} \X {"get", "create"}
  <2>1. \E a \in new : a[1] \in {"*", ""} /\ ResourceMatch(a[2], NodesProxy)
    BY <1>1, <1>3 DEF GrantsAny, Grants
  <2> QED  BY <2>1, OtherCategories DEF NewlyGranted, NewlyGrants, Categories
<1>4. CASE request[3] = "impersonate"
  <2>1. \E a \in new : a[3] \in {"*", "impersonate"}
    BY <1>1, <1>4 DEF GrantsAny, Grants
  <2> QED  BY <2>1, OtherCategories DEF NewlyGranted, NewlyGrants, Categories
<1>5. \/ \E c \in DOMAIN Triples : request \in Triples[c]
      \/ request \in {""} \X {NodesProxy} \X {"get", "create"}
      \/ request[3] = "impersonate"
  <2> DEFINE listed      == UNION {Triples[c] : c \in DOMAIN Triples}
             proxied     == {""} \X {NodesProxy} \X {"get", "create"}
             subjects    == {Plain("users"), Plain("groups"), Plain("serviceaccounts")}
             impersonate == {""} \X subjects \X {"impersonate"}
  <2>1. request \in listed => \E c \in DOMAIN Triples : request \in Triples[c]
    OBVIOUS
  <2>2. request \in impersonate => request[3] = "impersonate"  OBVIOUS
  <2>3. Dangerous = listed \cup proxied \cup impersonate  BY DEF Dangerous
  <2>4. request \in listed \cup proxied \cup impersonate  BY <2>3
  <2> HIDE DEF listed, impersonate
  <2> QED  BY <2>1, <2>2, <2>4
<1> QED  BY <1>2, <1>3, <1>4, <1>5

\* What the after version grants in addition is never held against it less: a category
\* newly granted stays so when the after version only grows.
THEOREM EscalationIsMonotone ==
  ASSUME NEW before, NEW after, NEW larger, after \subseteq larger
  PROVE  NewlyGranted(before, after) \subseteq NewlyGranted(before, larger)
<1>1. NewAtoms(before, after) \subseteq NewAtoms(before, larger)  BY DEF NewAtoms
<1>2. \A request : GrantsAny(after, request) => GrantsAny(larger, request)
  BY DEF GrantsAny
<1>3. \A request : GrantsAny(NewAtoms(before, after), request)
                     => GrantsAny(NewAtoms(before, larger), request)
  BY <1>1 DEF GrantsAny
<1>4. ASSUME NEW c \in Categories, NewlyGrants(c, before, after)
      PROVE  NewlyGrants(c, before, larger)
  <2>1. CASE c \in DOMAIN Triples  BY <1>3, <1>4, <2>1, TripleCategory
  <2>2. CASE c \notin DOMAIN Triples
    BY <1>1, <1>2, <1>4, <2>2 DEF NewlyGrants, CsrGranted, Categories
  <2> QED  BY <2>1, <2>2
<1> QED  BY <1>4 DEF NewlyGranted

\* No case is labelled benign, without an approval of that very version, when its after
\* version allows a dangerous request that its before version does not.
THEOREM BenignAllowsNothingNew ==
  ASSUME NEW event, NEW evidence, NEW before, NEW after, NEW approval,
         Found(evidence, RequiredReads(event)[2]) = {before},
         Found(evidence, RequiredReads(event)[3]) = {after},
         Found(evidence, RequiredReads(event)[5]) = {approval},
         AreRules(before.rules), AreRules(after.rules),
         Judge(event, evidence).label = "benign", ~Approves(approval, event),
         NEW request \in Dangerous, Allows(after.rules, request)
  PROVE  Allows(before.rules, request)
<1> DEFINE held    == AtomsOf(before.rules)
           granted == AtomsOf(after.rules)
           reads   == RequiredReads(event)
           found   == [i \in DOMAIN reads |-> Found(evidence, reads[i])]
           the(i)  == CHOOSE data \in found[i] : TRUE
           judged  == NewlyGranted(AtomsOf(the(2).rules), AtomsOf(the(3).rules))
<1>1. DOMAIN reads = 1 .. 5  BY DEF RequiredReads
<1>2. the(2) = before /\ the(3) = after /\ the(5) = approval
  <2>1. \A x : (CHOOSE data \in {x} : TRUE) = x  OBVIOUS
  <2>2. found[2] = {before} /\ found[3] = {after} /\ found[5] = {approval}  BY <1>1
  <2> QED  BY <2>1, <2>2
<1>3. judged = NewlyGranted(held, granted)  BY <1>2
<1>4. Judge(event, evidence)
        \in {OracleError, Unresolved,
             [label |-> Label(judged, Approves(the(5), event)), categories |-> judged]}
  BY DEF Judge
<1>5. Label(judged, Approves(the(5), event)) = "benign"
  BY <1>4 DEF OracleError, Unresolved
<1>6. NewlyGranted(held, granted) = {}  BY <1>2, <1>3, <1>5 DEF Label
<1>7. GrantsAny(granted, request)  BY AtomsGrantWhatRulesAllow
<1>8. GrantsAny(held, request)  BY <1>6, <1>7, NewRequestHasCategory
<1> QED  BY <1>8, AtomsGrantWhatRulesAllow

-----------------------------------------------------------------------------
(* Sets of numbers.                                                        *)

\* Counting from below numbers the elements of a finite set.
LEMMA RankIsBijective ==
  ASSUME NEW T \in SUBSET Nat, IsFiniteSet(T)
  PROVE  [x \in T |-> Cardinality({y \in T : y <= x})]
           \in Injection(T, 1 .. Cardinality(T)) \cap Surjection(T, 1 .. Cardinality(T))
<1> DEFINE below(x) == {y \in T : y <= x}
           rank == [x \in T |-> Cardinality(below(x))]
           size == Cardinality(T)
<1>1. \A x \in T : IsFiniteSet(below(x)) /\ Cardinality(below(x)) <= size
  BY FS_Subset
<1>2. size \in Nat /\ \A x \in T : Cardinality(below(x)) \in Nat
  BY <1>1, FS_CardinalityType
<1>3. \A x \in T : Cardinality(below(x)) # 0
  BY <1>1, FS_EmptySet
<1>4. rank \in [T -> 1 .. size]  BY <1>1, <1>2, <1>3
<1>5. ASSUME NEW x \in T, NEW z \in T, x < z PROVE rank[x] # rank[z]
  <2>1. below(x) \subseteq below(z) /\ z \in below(z) /\ z \notin below(x)
    <3>1. x \in Nat /\ z \in Nat  OBVIOUS
    <3>2. ~(z <= x)  BY <1>5, <3>1
    <3>3. \A y \in T : y <= x => y <= z
      <4>1. \A y \in Nat : y <= x => y <= z  BY <1>5, <3>1
      <4> QED  BY <4>1
    <3>4. z <= z  BY <3>1
    <3> QED  BY <3>2, <3>3, <3>4
  <2>2. below(x) # below(z)  BY <2>1
  <2> HIDE DEF below
  <2>3. Cardinality(below(x)) < Cardinality(below(z))
    BY <1>1, <2>1, <2>2, FS_Subset, FS_CardinalityType
  <2> QED  BY <1>2, <2>3
<1>6. \A x \in T, z \in T : x < z \/ x = z \/ z < x  OBVIOUS
<1>7. rank \in Injection(T, 1 .. size)
  <2> HIDE DEF rank
  <2>1. \A x \in T, z \in T : rank[x] = rank[z] => x = z  BY <1>5, <1>6
  <2> QED  BY <1>4, <2>1 DEF Injection, IsInjective
<1>8. IsFiniteSet(1 .. size) /\ Cardinality(1 .. size) = size
  BY <1>2, FS_Interval
<1>9. rank \in Surjection(T, 1 .. size)
  <2> HIDE DEF rank
  <2> QED  BY <1>7, <1>8, FS_Injection
<1> QED  BY <1>7, <1>9

\* A set of numbers that is not empty has a least element.
LEMMA LeastElement ==
  ASSUME NEW T \in SUBSET Nat, T # {}
  PROVE  Min(T) \in T /\ \A y \in T : Min(T) <= y
<1>1. PICK n \in T : TRUE  OBVIOUS
<1> DEFINE U == T \cap (0 .. n)
           rank == [x \in U |-> Cardinality({y \in U : y <= x})]
<1>2. IsFiniteSet(U) /\ U \in SUBSET Nat
  <2>1. IsFiniteSet(0 .. n)  BY FS_Interval
  <2> QED  BY <2>1, FS_Subset
<1>3. rank \in Surjection(U, 1 .. Cardinality(U))  BY <1>2, RankIsBijective
<1>4. Cardinality(U) \in Nat /\ 1 \in 1 .. Cardinality(U)
  <2>1. n \in U  BY <1>1
  <2> HIDE DEF U
  <2>2. Cardinality(U) \in Nat /\ Cardinality(U) # 0
    BY <1>2, <2>1, FS_CardinalityType, FS_EmptySet
  <2> QED  BY <2>2
<1>5. PICK x \in U : rank[x] = 1
  <2> HIDE DEF rank
  <2> QED  BY <1>3, <1>4 DEF Surjection
<1>6. Cardinality({y \in U : y <= x}) = 1  BY <1>5
<1>7. IsFiniteSet({y \in U : y <= x})  BY <1>2, FS_Subset
<1>8. PICK z : {y \in U : y <= x} = {z}  BY <1>6, <1>7, FS_Singleton
<1>9. \A y \in T : x <= y  BY <1>1, <1>8
<1> QED  BY <1>9 DEF Min

-----------------------------------------------------------------------------
(* The splits.                                                             *)

LEMMA HoldoutIsProper ==
  ASSUME NEW n \in Nat, n >= 2, NEW percent \in 1 .. 99
  PROVE  Holdout(n, percent) \in 1 .. n - 1
<1> DEFINE wanted_ == RoundPercent(n, percent)
           larger == Max({wanted_, 1})
<1>1. wanted_ \in Nat
  <2>1. n * percent \in Nat  OBVIOUS
  <2>2. \A x \in Nat : x \div 100 \in Nat /\ x % 100 \in Nat  OBVIOUS
  <2> QED  BY <2>1, <2>2 DEF RoundPercent
<1>2. larger \in Nat /\ larger >= 1
  <2> HIDE DEF wanted_
  <2>1. \E x \in {wanted_, 1} : \A y \in {wanted_, 1} : x >= y
    <3>1. CASE wanted_ >= 1  BY <1>1, <3>1
    <3>2. CASE ~(wanted_ >= 1)  BY <1>1, <3>2
    <3> QED  BY <3>1, <3>2
  <2>2. larger \in {wanted_, 1} /\ \A y \in {wanted_, 1} : larger >= y
    BY <2>1 DEF Max
  <2> QED  BY <1>1, <2>2
<1>3. Min({larger, n - 1}) \in 1 .. n - 1
  <2> HIDE DEF larger
  <2>1. {larger, n - 1} \in SUBSET Nat /\ {larger, n - 1} # {}  BY <1>2
  <2>2. /\ Min({larger, n - 1}) \in {larger, n - 1}
        /\ \A y \in {larger, n - 1} : Min({larger, n - 1}) <= y
    BY <2>1, LeastElement
  <2> QED  BY <1>2, <2>2
<1> QED  BY <1>3 DEF Holdout

IsNumbered(list) == DOMAIN list \in SUBSET Nat /\ IsFiniteSet(DOMAIN list)
Permutes(order, n) == DOMAIN order[n] = 1 .. n /\ Range(order[n]) = 1 .. n

\* Whatever fraction is held out and whatever order the hashes give, a stratum of two
\* families or more has a family in either split (_assign_splits): none of its labels is
\* only ever measured on one side.
THEOREM EveryStratumInBothSplits ==
  ASSUME NEW list, IsNumbered(list),
         NEW f \in DOMAIN list, \E g \in DOMAIN list : g # f /\ list[g] = list[f],
         NEW peers, peers = {h \in DOMAIN list : list[h] = list[f]},
         NEW percent \in HoldoutPercents, NEW order, Permutes(order, Cardinality(peers))
  PROVE  \A split \in {"dev", "holdout"} :
           \E h \in peers : SplitOf(list, order, percent)[h] = split
<1> TAKE split \in {"dev", "holdout"}
<1> PICK g \in DOMAIN list : g # f /\ list[g] = list[f]  OBVIOUS
<1> DEFINE size == Cardinality(peers)
           rank == [h \in peers |-> Cardinality({i \in peers : i <= h})]
           hold == Holdout(size, percent)
           place(h) == order[size][Cardinality({i \in peers : i <= h})]
<1>0. /\ size = Cardinality(peers) /\ DOMAIN order[size] = 1 .. size
      /\ Range(order[size]) = 1 .. size
  BY DEF Permutes
<1>1. peers \in SUBSET Nat /\ IsFiniteSet(peers) /\ size \in Nat /\ size = Cardinality(peers)
  <2>1. peers \in SUBSET DOMAIN list /\ peers \in SUBSET Nat  BY DEF IsNumbered
  <2>2. IsFiniteSet(peers)  BY <2>1, FS_Subset DEF IsNumbered
  <2> QED  BY <2>1, <2>2, FS_CardinalityType
<1>2. size >= 2
  <2>1. f \in peers /\ g \in peers /\ f # g  BY Zenon
  <2>2. size # 0  BY ONLY <1>1, <2>1, FS_EmptySet
  <2>3. size # 1  BY ONLY <1>1, <2>1, FS_Singleton
  <2> QED  BY <1>1, <2>2, <2>3
<1> HIDE DEF size
<1>3. hold \in 1 .. size - 1
  <2>1. percent \in 1 .. 99  BY HoldoutAssumption
  <2> QED  BY <1>1, <1>2, <2>1, HoldoutIsProper
<1>4. rank \in Surjection(peers, 1 .. size)
  <2> QED  BY <1>1, RankIsBijective
<1>5. ASSUME NEW p \in 1 .. size PROVE \E h \in peers : place(h) = p
  <2>1. PICK i \in 1 .. size : order[size][i] = p  BY <1>0 DEF Range
  <2>2. PICK h \in peers : rank[h] = i
    <3> HIDE DEF rank
    <3> QED  BY <1>4 DEF Surjection
  <2> QED  BY <2>1, <2>2
<1>6. ASSUME NEW h \in peers
      PROVE  SplitOf(list, order, percent)[h] = IF place(h) <= hold THEN "holdout" ELSE "dev"
  <2>1. peers = {i \in DOMAIN list : list[i] = list[h]} /\ h \in DOMAIN list  OBVIOUS
  <2> QED  BY <1>0, <2>1 DEF SplitOf
<1> HIDE DEF place, hold
<1>7. CASE split = "holdout"
  <2>1. 1 \in 1 .. size  BY <1>1, <1>2
  <2>2. PICK h \in peers : place(h) = 1  BY <1>5, <2>1
  <2>3. place(h) <= hold  BY <1>1, <1>3, <2>2
  <2>4. SplitOf(list, order, percent)[h] = split  BY <1>6, <1>7, <2>3
  <2> QED  BY <2>4
<1>8. CASE split = "dev"
  <2>1. size \in 1 .. size  BY <1>1, <1>2
  <2>2. PICK h \in peers : place(h) = size  BY <1>5, <2>1
  <2>3. ~(place(h) <= hold)  BY <1>1, <1>3, <2>2
  <2>4. SplitOf(list, order, percent)[h] = split  BY <1>6, <1>8, <2>3
  <2> QED  BY <2>4
<1> QED  BY <1>7, <1>8

-----------------------------------------------------------------------------
(* The generated entries.                                                  *)

LEMMA VariantNames ==
  ASSUME NEW family
  PROVE  LET names == VariantsOf(family) IN
         /\ Len(names) \in Nat \ {0} /\ DOMAIN names = 1 .. Len(names) /\ names[1] = "base"
         /\ \A i, j \in 1 .. Len(names) : names[i] = names[j] => i = j
<1> DEFINE Named(names) ==
             /\ Len(names) \in Nat \ {0} /\ DOMAIN names = 1 .. Len(names) /\ names[1] = "base"
             /\ \A i, j \in 1 .. Len(names) : names[i] = names[j] => i = j
<1>1. Named(COMPLETE_VARIANTS)
  <2>1. Len(COMPLETE_VARIANTS) = 8 /\ DOMAIN COMPLETE_VARIANTS = 1 .. 8
    BY DEF COMPLETE_VARIANTS
  <2>2. COMPLETE_VARIANTS[1] = "base"  BY DEF COMPLETE_VARIANTS
  <2>3. \A i, j \in 1 .. 8 : COMPLETE_VARIANTS[i] = COMPLETE_VARIANTS[j] => i = j
    BY DEF COMPLETE_VARIANTS
  <2> QED  BY <2>1, <2>2, <2>3
<1>2. Named(MISSING_VARIANTS)
  <2>1. Len(MISSING_VARIANTS) = 4 /\ DOMAIN MISSING_VARIANTS = 1 .. 4
    BY DEF MISSING_VARIANTS
  <2>2. MISSING_VARIANTS[1] = "base"  BY DEF MISSING_VARIANTS
  <2>3. \A i, j \in 1 .. 4 : MISSING_VARIANTS[i] = MISSING_VARIANTS[j] => i = j
    BY DEF MISSING_VARIANTS
  <2> QED  BY <2>1, <2>2, <2>3
<1> QED  BY <1>1, <1>2 DEF VariantsOf

IsEntry(e) ==
  e = [family |-> e.family, variant |-> e.variant, case |-> e.case, oracle |-> e.oracle,
       relation |-> e.relation, split |-> e.split]

\* The entry was produced before the variant in hand.
Earlier(e) ==
  /\ e.family \in Nat
  /\ \E i \in 1 .. Len(VariantsOf(Families[e.family])) :
       /\ e.variant = VariantsOf(Families[e.family])[i]
       /\ e.family < turn \/ (e.family = turn /\ i < variant)

SameCase(e, b) == e.family = b.family /\ e.variant = b.variant
IsBaseOf(b, e) == b.family = e.family /\ b.variant = "base"

\* The relation of an entry to its base holds between their labels.
Related(e, b) ==
  /\ e.relation = "invariant" => e.oracle.label = b.oracle.label
  /\ e.relation = "monotonic" /\ e.oracle.label = "benign" => b.oracle.label = "benign"

EntriesInv ==
  /\ turn \in Nat /\ variant \in 1 .. Len(VariantsOf(Families[turn]))
  /\ \E S : entries \in Seq(S)
  /\ \A e \in Range(entries) : IsEntry(e) /\ Earlier(e)
  /\ \A e, b \in Range(entries) : SameCase(e, b) => e = b
  /\ \A e \in Range(entries) : \E b \in Range(entries) : IsBaseOf(b, e)
  /\ turn \in wanted /\ variant > 1 =>
       \E b \in Range(entries) : b.family = turn /\ b.variant = "base"
  /\ ~raised => \A e \in Range(entries) : e.oracle # OracleError /\ e.oracle = Evaluate(e.case)
  /\ splits # None /\ ~raised =>
       \A e, b \in Range(entries) : IsBaseOf(b, e) => Related(e, b)

LEMMA RangeOfAppend ==
  ASSUME NEW S, NEW s \in Seq(S), NEW x
  PROVE  /\ Range(Append(s, x)) = Range(s) \cup {x}
         /\ \E T : Append(s, x) \in Seq(T)
<1>1. s \in Seq(S \cup {x})  OBVIOUS
<1>2. Append(s, x) \in Seq(S \cup {x})  BY <1>1
<1>3. /\ DOMAIN Append(s, x) = DOMAIN s \cup {Len(s) + 1}
      /\ Append(s, x)[Len(s) + 1] = x
      /\ \A i \in DOMAIN s : Append(s, x)[i] = s[i]
  BY <1>1
<1>4. Range(Append(s, x)) = Range(s) \cup {x}  BY <1>3 DEF Range
<1> QED  BY <1>2, <1>4

LEMMA EntriesInit ==
  ASSUME GenInit
  PROVE  EntriesInv
<1>1. entries \in Seq({})  BY DEF GenInit
<1>2. Range(entries) = {}  BY DEF GenInit, Range
<1>3. turn = 1 /\ variant = 1 /\ splits = None  BY DEF GenInit
<1>4. 1 \in 1 .. Len(VariantsOf(Families[1]))  BY VariantNames
<1> QED  BY <1>1, <1>2, <1>3, <1>4 DEF EntriesInv

\* The variant in hand has no entry yet.
LEMMA NewCase ==
  ASSUME EntriesInv, NEW e \in Range(entries), NEW new,
         new.family = turn, new.variant = VariantsOf(Families[turn])[variant]
  PROVE  ~SameCase(e, new)
<1> DEFINE names == VariantsOf(Families[turn])
<1> SUFFICES ASSUME SameCase(e, new) PROVE FALSE  OBVIOUS
<1>1. turn \in Nat /\ variant \in 1 .. Len(names)  BY DEF EntriesInv
<1>2. /\ Len(names) \in Nat \ {0}
      /\ \A i, j \in 1 .. Len(names) : names[i] = names[j] => i = j
  BY VariantNames
<1>3. e.family = turn /\ e.variant = names[variant]  BY DEF SameCase
<1>4. PICK i \in 1 .. Len(VariantsOf(Families[e.family])) :
        /\ e.variant = VariantsOf(Families[e.family])[i]
        /\ e.family < turn \/ (e.family = turn /\ i < variant)
  BY DEF EntriesInv, Earlier
<1>5. i \in 1 .. Len(names) /\ e.variant = names[i]  BY <1>3, <1>4
<1> HIDE DEF names
<1>6. i < variant  BY <1>1, <1>3, <1>4
<1>7. i = variant  BY <1>1, <1>2, <1>3, <1>5
<1> QED  BY <1>1, <1>2, <1>5, <1>6, <1>7

LEMMA ProduceEntries ==
  ASSUME EntriesInv, Produce
  PROVE  EntriesInv'
<1> DEFINE names == VariantsOf(Families[turn])
           name == names[variant]
<1>1. /\ turn \in Nat /\ variant \in 1 .. Len(names)
      /\ \A e \in Range(entries) : IsEntry(e) /\ Earlier(e)
      /\ \A e, b \in Range(entries) : SameCase(e, b) => e = b
      /\ \A e \in Range(entries) : \E b \in Range(entries) : IsBaseOf(b, e)
      /\ turn \in wanted /\ variant > 1 =>
           \E b \in Range(entries) : b.family = turn /\ b.variant = "base"
      /\ \A e \in Range(entries) : e.oracle # OracleError /\ e.oracle = Evaluate(e.case)
      /\ splits' = None /\ wanted' = wanted
  BY DEF EntriesInv, Produce, Generating
<1>2. CASE CannotVary(FamilyCase(Families[turn]), name)
  <2>1. raised' /\ UNCHANGED <<turn, variant, entries, wanted, splits>>
    BY <1>2 DEF Produce
  <2> QED  BY <2>1 DEF EntriesInv, Earlier
<1>3. CASE ~CannotVary(FamilyCase(Families[turn]), name)
  <2>1. PICK order, evidence_order :
          LET made == VariantCase(FamilyCase(Families[turn]), name, order, evidence_order)
              result == Evaluate(made)
              entry == [family |-> turn, variant |-> name, case |-> made,
                        oracle |-> result, relation |-> Relation(name), split |-> None] IN
          /\ raised' = Inconsistent(Families[turn], name, result, base)
          /\ entries' = IF turn \notin wanted THEN entries ELSE Append(entries, entry)
          /\ IF variant < Len(names) THEN variant' = variant + 1 /\ UNCHANGED turn
             ELSE variant' = 1 /\ turn' = turn + 1
    BY <1>3 DEF Produce
  <2> DEFINE made == VariantCase(FamilyCase(Families[turn]), name, order, evidence_order)
             entry == [family |-> turn, variant |-> name, case |-> made,
                       oracle |-> Evaluate(made), relation |-> Relation(name), split |-> None]
  <2> HIDE DEF made
  <2>2. /\ entry.family = turn /\ entry.variant = name /\ entry.case = made
        /\ entry.oracle = Evaluate(made) /\ IsEntry(entry)
    BY DEF IsEntry
  <2>3. Len(names) \in Nat \ {0} /\ names[1] = "base"
        /\ \A i, j \in 1 .. Len(names) : names[i] = names[j] => i = j
    BY VariantNames
  <2>4. \/ turn' = turn /\ variant' = variant + 1 /\ variant < Len(names)
        \/ turn' = turn + 1 /\ variant' = 1
    BY <2>1
  <2>5. /\ \E S : entries' \in Seq(S)
        /\ Range(entries') = Range(entries) \cup {e \in {entry} : turn \in wanted}
    <3>1. PICK S : entries \in Seq(S)  BY DEF EntriesInv
    <3>2. CASE turn \notin wanted  BY <2>1, <3>1, <3>2
    <3>3. CASE turn \in wanted
      <4>1. entries' = Append(entries, entry)  BY <2>1, <3>3 DEF made
      <4> HIDE DEF entry
      <4> QED  BY <3>1, <3>3, <4>1, RangeOfAppend
    <3> QED  BY <3>2, <3>3
  <2> HIDE DEF entry, names
  <2>6. turn' \in Nat /\ variant' \in 1 .. Len(VariantsOf(Families[turn']))
    <3>1. CASE turn' = turn /\ variant' = variant + 1 /\ variant < Len(names)
      BY <1>1, <2>3, <3>1 DEF names
    <3>2. CASE turn' = turn + 1 /\ variant' = 1
      <4>1. Len(VariantsOf(Families[turn'])) \in Nat \ {0}  BY VariantNames
      <4> QED  BY <1>1, <3>2, <4>1
    <3> QED  BY <2>4, <3>1, <3>2
  <2>7. ASSUME NEW e \in Range(entries') PROVE IsEntry(e) /\ Earlier(e)'
    <3>1. CASE e \in Range(entries)
      <4>1. PICK i \in 1 .. Len(VariantsOf(Families[e.family])) :
              /\ e.variant = VariantsOf(Families[e.family])[i]
              /\ e.family < turn \/ (e.family = turn /\ i < variant)
        BY <1>1, <3>1 DEF Earlier
      <4>2. e.family \in Nat /\ i \in Nat  BY <1>1, <3>1, VariantNames DEF Earlier
      <4>3. e.family < turn' \/ (e.family = turn' /\ i < variant')
        BY <1>1, <2>3, <2>4, <4>1, <4>2
      <4> QED  BY <1>1, <3>1, <4>1, <4>2, <4>3 DEF Earlier
    <3>2. CASE e = entry
      <4>1. turn < turn' \/ (turn = turn' /\ variant < variant')  BY <1>1, <2>3, <2>4
      <4> QED  BY <1>1, <2>2, <3>2, <4>1 DEF Earlier, names
    <3> QED  BY <2>5, <3>1, <3>2
  <2>8. \A e \in Range(entries) : ~SameCase(e, entry)
    BY <2>2, NewCase DEF names
  <2>9. \A e, b \in Range(entries') : SameCase(e, b) => e = b
    <3>1. \A e, b : SameCase(e, b) => SameCase(b, e)  BY DEF SameCase
    <3> QED  BY <1>1, <2>5, <2>8, <3>1
  <2>10. turn \in wanted =>
           \E b \in Range(entries') : b.family = turn /\ b.variant = "base"
    <3>1. CASE variant = 1  BY <2>2, <2>3, <2>5, <3>1
    <3>2. CASE variant > 1  BY <1>1, <2>5, <3>2
    <3> QED  BY <1>1, <2>3, <3>1, <3>2
  <2>11. \A e \in Range(entries') : \E b \in Range(entries') : IsBaseOf(b, e)
    <3>1. ASSUME NEW e \in Range(entries) PROVE \E b \in Range(entries') : IsBaseOf(b, e)
      BY <1>1, <2>5
    <3>2. turn \in wanted => \E b \in Range(entries') : IsBaseOf(b, entry)
      BY <2>2, <2>10 DEF IsBaseOf
    <3> QED  BY <2>5, <3>1, <3>2
  <2>12. turn' \in wanted' /\ variant' > 1 =>
           \E b \in Range(entries') : b.family = turn' /\ b.variant = "base"
    BY <1>1, <2>4, <2>10
  <2>13. ~raised' => \A e \in Range(entries') : e.oracle # OracleError /\ e.oracle = Evaluate(e.case)
    <3>1. ~raised' => Evaluate(made) # OracleError  BY <2>1 DEF Inconsistent, made
    <3> QED  BY <1>1, <2>2, <2>5, <3>1
  <2> QED  BY <1>1, <2>5, <2>6, <2>7, <2>9, <2>11, <2>12, <2>13 DEF EntriesInv, names
<1> QED  BY <1>2, <1>3

\* A set of entries in which no relation is violated is one whose labels are related.
LEMMA NoViolation ==
  ASSUME NEW set, NEW labels, RelationViolations(set, labels) = {},
         NEW e \in set, NEW b, IsBaseOf(b, e),
         labels[<<e.family, e.variant>>] = e.oracle.label,
         labels[<<b.family, b.variant>>] = b.oracle.label
  PROVE  Related(e, b)
<1>1. labels[<<e.family, "base">>] = b.oracle.label  BY DEF IsBaseOf
<1>2. ~(\/ e.relation = "invariant" /\ e.oracle.label # b.oracle.label
        \/ e.relation = "monotonic" /\ e.oracle.label = "benign" /\ b.oracle.label # "benign")
  BY <1>1 DEF RelationViolations
<1> QED  BY <1>2 DEF Related

LEMMA AssignEntries ==
  ASSUME EntriesInv, AssignSplits
  PROVE  EntriesInv'
<1> DEFINE marked(e) == [e EXCEPT !.split = splits'[e.family]]
<1>1. /\ turn \in Nat /\ variant \in 1 .. Len(VariantsOf(Families[turn]))
      /\ \A e \in Range(entries) : IsEntry(e) /\ Earlier(e)
      /\ \A e, b \in Range(entries) : SameCase(e, b) => e = b
      /\ \A e \in Range(entries) : \E b \in Range(entries) : IsBaseOf(b, e)
      /\ turn \in wanted /\ variant > 1 =>
           \E b \in Range(entries) : b.family = turn /\ b.variant = "base"
      /\ \A e \in Range(entries) : e.oracle # OracleError /\ e.oracle = Evaluate(e.case)
      /\ UNCHANGED <<turn, variant, wanted>>
      /\ raised' = (RelationViolations(Range(entries), LabelsOf(entries)) # {})
      /\ entries' = [i \in DOMAIN entries |-> marked(entries[i])]
  BY DEF EntriesInv, AssignSplits, Generating
<1>2. \A e \in Range(entries) :
        LET m == marked(e) IN
        /\ IsEntry(m) /\ m.family = e.family /\ m.variant = e.variant /\ m.case = e.case
        /\ m.oracle = e.oracle /\ m.relation = e.relation
  BY <1>1 DEF IsEntry
<1>3. \A e \in Range(entries) : LabelsOf(entries)[<<e.family, e.variant>>] = e.oracle.label
  <2> TAKE e \in Range(entries)
  <2> DEFINE id == <<e.family, e.variant>>
             same == {b \in Range(entries) : id = <<b.family, b.variant>>}
  <2>1. same = {e}  BY <1>1 DEF SameCase
  <2>2. (CHOOSE b \in Range(entries) : id = <<b.family, b.variant>>) = e  BY <2>1
  <2>3. id \in {<<b.family, b.variant>> : b \in Range(entries)}  OBVIOUS
  <2> QED  BY <2>2, <2>3 DEF LabelsOf
<1> HIDE DEF marked
<1>4. Range(entries') = {marked(e) : e \in Range(entries)}  BY <1>1 DEF Range
<1>5. \E S : entries' \in Seq(S)
  <2>1. PICK S : entries \in Seq(S)  BY DEF EntriesInv
  <2>2. DOMAIN entries = 1 .. Len(entries) /\ Len(entries) \in Nat  BY <2>1
  <2>3. entries' \in [1 .. Len(entries) -> Range(entries')]  BY <1>1, <2>2 DEF Range
  <2>4. entries' \in Seq(Range(entries'))  BY <2>2, <2>3
  <2> QED  BY <2>4
<1>6. ASSUME NEW e \in Range(entries') PROVE IsEntry(e) /\ Earlier(e)'
  <2>1. PICK f \in Range(entries) : e = marked(f)  BY <1>4
  <2>2. IsEntry(e) /\ e.family = f.family /\ e.variant = f.variant  BY <1>2, <2>1
  <2>3. Earlier(f)  BY <1>1
  <2> QED  BY <1>1, <2>2, <2>3 DEF Earlier
<1>7. \A e, b \in Range(entries') : SameCase(e, b) => e = b
  BY <1>1, <1>2, <1>4 DEF SameCase
<1>8. ASSUME NEW e \in Range(entries') PROVE \E b \in Range(entries') : IsBaseOf(b, e)
  <2>1. PICK f \in Range(entries) : e = marked(f)  BY <1>4
  <2>2. PICK g \in Range(entries) : IsBaseOf(g, f)  BY <1>1
  <2>3. marked(g) \in Range(entries')  BY <1>4
  <2>4. IsBaseOf(marked(g), e)  BY <1>2, <2>1, <2>2 DEF IsBaseOf
  <2> QED  BY <2>3, <2>4
<1>9. turn \in wanted /\ variant > 1 =>
        \E b \in Range(entries') : b.family = turn /\ b.variant = "base"
  BY <1>1, <1>2, <1>4, SMTT(30)
<1>10. \A e \in Range(entries') : e.oracle # OracleError /\ e.oracle = Evaluate(e.case)
  BY <1>1, <1>2, <1>4
<1>11. ASSUME ~raised', NEW e \in Range(entries'), NEW b \in Range(entries'), IsBaseOf(b, e)
       PROVE  Related(e, b)
  <2>1. PICK f \in Range(entries) : e = marked(f)  BY <1>4
  <2>2. PICK g \in Range(entries) : b = marked(g)  BY <1>4
  <2>3. IsBaseOf(g, f)  BY <1>2, <1>11, <2>1, <2>2 DEF IsBaseOf
  <2>4. RelationViolations(Range(entries), LabelsOf(entries)) = {}  BY <1>1, <1>11
  <2>5. Related(f, g)  BY <1>3, <2>3, <2>4, NoViolation
  <2> QED  BY <1>2, <2>1, <2>2, <2>5 DEF Related
<1> QED  BY <1>1, <1>5, <1>6, <1>7, <1>8, <1>9, <1>10, <1>11 DEF EntriesInv

-----------------------------------------------------------------------------
(* The reference baseline.                                                 *)

\* A case the oracle can judge has a read missing, and is unresolved, or none, and is not.
LEMMA JudgeLabels ==
  ASSUME NEW event, NEW evidence, Judge(event, evidence) # OracleError
  PROVE  LET reads == RequiredReads(event) IN
         IF \E i \in DOMAIN reads : Found(evidence, reads[i]) = {}
         THEN Judge(event, evidence).label = "unresolved"
         ELSE Judge(event, evidence).label \in {"suspicious", "benign"}
<1> DEFINE reads   == RequiredReads(event)
           found   == [i \in DOMAIN reads |-> Found(evidence, reads[i])]
           the(i)  == CHOOSE data \in found[i] : TRUE
           judged  == NewlyGranted(AtomsOf(the(2).rules), AtomsOf(the(3).rules))
           labelled == [label |-> Label(judged, Approves(the(5), event)), categories |-> judged]
<1>1. Judge(event, evidence) =
        IF ~Readable(found, reads) THEN OracleError
        ELSE IF \E i \in DOMAIN reads : found[i] = {} THEN Unresolved ELSE labelled
  BY DEF Judge
<1>2. labelled.label \in {"suspicious", "benign"}  BY DEF Label
<1>3. (\E i \in DOMAIN reads : found[i] = {})
        <=> \E i \in DOMAIN reads : Found(evidence, reads[i]) = {}
  OBVIOUS
<1> HIDE DEF labelled, found, reads
<1>4. Unresolved.label = "unresolved"  BY DEF Unresolved
<1>5. IF \E i \in DOMAIN reads : found[i] = {} THEN Judge(event, evidence) = Unresolved
      ELSE Judge(event, evidence) = labelled
  BY <1>1
<1> QED  BY <1>2, <1>3, <1>4, <1>5 DEF reads

ReferenceModel == "baseline_deterministic_oracle"

\* The reference baseline ends every case as its label expects, a missing read included.
LEMMA ReferencePasses ==
  ASSUME NEW entry, Evaluate(entry.case) # OracleError, NEW trial,
         NEW model, model.provenance = ReferenceModel, NEW result \in Results(model, entry, trial)
  PROVE  LET label == Evaluate(entry.case).label IN
         Passed(label, result) /\ STATUS_LABEL[result.status] = label
<1> DEFINE event == entry.case.event
           evidence == entry.case.evidence
           label == Judge(event, evidence).label
           reads == RequiredReads(event)
           gaps  == {i \in DOMAIN reads : Found(evidence, reads[i]) = {}}
<1>1. Evaluate(entry.case) = Judge(event, evidence)  BY DEF Evaluate
<1>2. Results(model, entry, trial) = {ReadsThenVerdict(entry.case, VERDICTS[label])}
  BY DEF Results, ReferenceModel
<1>3. CASE gaps = {}
  <2>1. label \in {"suspicious", "benign"}  BY <1>1, <1>3, JudgeLabels
  <2>2. result = Result(VERDICTS[label], "model_finished", RequiredTools)
    BY <1>2, <1>3 DEF ReadsThenVerdict
  <2> HIDE DEF label
  <2>3. /\ result.status = VERDICTS[label] /\ result.reason = "model_finished"
        /\ result.methods = RequiredTools
    BY <2>2 DEF Result
  <2>4. label = "suspicious" => Passed(label, result) /\ STATUS_LABEL[result.status] = label
    BY <2>3 DEF VERDICTS, Passed, VerdictPass, Expected, RiskOf, STATUS_LABEL
  <2>5. label = "benign" => Passed(label, result) /\ STATUS_LABEL[result.status] = label
    BY <2>3 DEF VERDICTS, Passed, VerdictPass, Expected, RiskOf, STATUS_LABEL
  <2> QED  BY <1>1, <2>1, <2>4, <2>5 DEF label
<1>4. CASE gaps # {}
  <2>1. label = "unresolved"  BY <1>1, <1>4, JudgeLabels
  <2>2. /\ result.status = "investigation_failed" /\ result.reason = "ToolExecutionError"
    BY <1>2, <1>4 DEF ReadsThenVerdict, Result
  <2> HIDE DEF label
  <2>3. Passed(label, result) /\ STATUS_LABEL[result.status] = label
    BY <2>1, <2>2 DEF Passed, VerdictPass, Expected, RiskOf, STATUS_LABEL
  <2> QED  BY <1>1, <2>3 DEF label
<1> QED  BY <1>3, <1>4

-----------------------------------------------------------------------------
(* The runs.                                                               *)

\* The run is of a generated entry, counted as generated; the reference baseline's is
\* right; its model is one that its provider's mode may run.
GoodRun(o) ==
  /\ \E e \in Range(entries) :
       /\ o.case = <<e.family, e.variant>> /\ e.family \in call.families
       /\ o.label = e.oracle.label /\ o.split = e.split /\ o.relation = e.relation
  /\ o.model = ReferenceModel => o.passed /\ o.outcome = o.label
  /\ \E p \in 1 .. at[1] :
       /\ p <= Len(call.providers) /\ o.provider = call.providers[p].name
       /\ o.model \in MODE_MODEL_PROVIDERS[call.providers[p].mode]

Made(p, t, e) ==
  \E o \in observations :
    o.provider = call.providers[p].name /\ o.trial = t /\ o.case = <<e.family, e.variant>>

ChosenNow == ChosenFrom(entries, call.families, 1)

\* While the cases run, everything before the position has been run.
RunningInv ==
  /\ snapshot = entries /\ RequestOk(call, entries)
  /\ call.k \in Int /\ Len(call.providers) \in Nat /\ at[1] <= Len(call.providers)
  /\ at[2] >= 1 /\ at[3] \in ChosenNow
  /\ \A t \in Nat \ {0}, i \in ChosenNow :
       t < at[2] \/ (t = at[2] /\ i < at[3]) => Made(at[1], t, entries[i])

WrongRunBehind(r) ==
  \A violation \in r.violated :
    \E o \in RunsOf(r) :
      /\ o.trial = violation[2] /\ o.case[1] = violation[1][1]
      /\ o.case[2] \in {violation[1][2], "base"} /\ o.outcome # o.label

OneModel(i) ==
  \E model \in MODE_MODEL_PROVIDERS[call.providers[i].mode] :
    \A o \in RunsOf(report[i]) : o.model = model

ReportInv ==
  /\ \E S : report \in Seq(S)
  /\ Len(report) = at[1] - 1
  /\ \A i \in 1 .. Len(report) :
       report[i].provider = call.providers[i].name /\ OneModel(i) /\ WrongRunBehind(report[i])

EvalInv ==
  /\ EntriesInv
  /\ at \in Nat \X Nat \X Nat /\ at[1] >= 1
  /\ phase = "idle" => observations = {} /\ report = <<>> /\ at[1] = 1
  /\ phase # "idle" => splits # None /\ ~raised
  /\ phase = "running" => RunningInv
  /\ phase = "reported" => snapshot = entries
  /\ IsFiniteSet(observations)
  /\ \A o \in observations : GoodRun(o)
  /\ ReportInv

LEMMA EvaluationInit ==
  ASSUME EvalInit
  PROVE  EvalInv
<1>1. EntriesInv  BY EntriesInit DEF EvalInit
<1>2. /\ phase = "idle" /\ observations = {} /\ report = <<>> /\ at = <<1, 1, 1>>
  BY DEF EvalInit
<1>3. report \in Seq({}) /\ Len(report) = 0  BY <1>2
<1>4. ReportInv  BY <1>2, <1>3 DEF ReportInv
<1>5. IsFiniteSet(observations)  BY <1>2, FS_EmptySet
<1> QED  BY <1>1, <1>2, <1>4, <1>5 DEF EvalInv

\* The set does not change once it is evaluated.
LEMMA GenerateStep ==
  ASSUME EvalInv, Generate
  PROVE  EvalInv'
<1>1. splits = None /\ UNCHANGED evalVars /\ GenNext
  BY DEF Generate, GenNext, Produce, AssignSplits, Generating
<1>2. phase = "idle" /\ observations = {} /\ report = <<>>  BY <1>1 DEF EvalInv
<1>3. EntriesInv'
  BY <1>1, ProduceEntries, AssignEntries DEF EvalInv, GenNext
<1>4. UNCHANGED <<phase, given, snapshot, call, at, observations, report>>
  BY <1>1 DEF evalVars
<1>5. Len(report) = at[1] - 1 /\ \E S : report \in Seq(S)  BY DEF EvalInv, ReportInv
<1>6. ReportInv'  BY <1>2, <1>4, <1>5 DEF ReportInv
<1> QED  BY <1>2, <1>3, <1>4, <1>6 DEF EvalInv

\* In a set that holds a chosen family there is a first chosen position.
LEMMA FirstChosen ==
  ASSUME NEW S, NEW list \in Seq(S), NEW families, families # {},
         families \subseteq {e.family : e \in Range(list)}
  PROVE  LET chosen == ChosenFrom(list, families, 1) IN
         Min(chosen) \in chosen /\ \A i \in chosen : Min(chosen) <= i
<1> DEFINE chosen == ChosenFrom(list, families, 1)
<1>1. PICK e \in Range(list) : e.family \in families  OBVIOUS
<1>2. PICK i \in DOMAIN list : list[i] = e  BY DEF Range
<1>3. DOMAIN list = 1 .. Len(list) /\ Len(list) \in Nat  OBVIOUS
<1>4. i \in chosen  BY <1>1, <1>2, <1>3 DEF ChosenFrom
<1>5. chosen \in SUBSET Nat  BY <1>3 DEF ChosenFrom
<1> HIDE DEF chosen
<1>6. Min(chosen) \in chosen /\ \A j \in chosen : Min(chosen) <= j
  BY <1>4, <1>5, LeastElement
<1> QED  BY <1>6 DEF chosen

LEMMA BeginStep ==
  ASSUME EvalInv, Begin
  PROVE  EvalInv'
<1>1. PICK c \in Calls, edit \in Edits :
        LET set == Edited(entries, edit) IN
        /\ call' = c /\ given' = set /\ snapshot' = set
        /\ IF /\ RequestOk(c, set)
              /\ StoredEntriesOk(InFamilies(set, c.families))
              /\ Reproducible(set)
           THEN phase' = "running" /\ at' = <<1, 1, Min(ChosenFrom(set, c.families, 1))>>
           ELSE phase' = "refused" /\ UNCHANGED at
  BY DEF Begin
<1>2. /\ phase = "idle" /\ splits # None /\ ~raised /\ UNCHANGED genVars
      /\ UNCHANGED <<observations, report>>
  BY DEF Begin
<1>3. /\ EntriesInv /\ observations = {} /\ report = <<>> /\ at[1] = 1
      /\ at \in Nat \X Nat \X Nat
  BY <1>2 DEF EvalInv
<1>4. UNCHANGED <<wanted, turn, variant, base, produced, strata, splits, entries, raised>>
  BY <1>2 DEF genVars
<1>5. EntriesInv'  BY <1>3, <1>4 DEF EntriesInv, Earlier
<1>6. IsFiniteSet(observations') /\ \A o \in observations' : GoodRun(o)'
  BY <1>2, <1>3, FS_EmptySet
<1>7. Len(report) = 0 /\ report \in Seq({})  BY <1>3
<1>8. CASE phase' = "running"
  <2>1. /\ call' = c /\ snapshot' = entries /\ RequestOk(c, entries)
        /\ at' = <<1, 1, Min(ChosenFrom(entries, c.families, 1))>>
    BY <1>1, <1>8 DEF Reproducible
  <2>2. PICK S : entries \in Seq(S)  BY <1>3 DEF EntriesInv
  <2>3. c.families # {} /\ c.families \subseteq {e.family : e \in Range(entries)}
    BY <2>1 DEF RequestOk
  <2> DEFINE chosen == ChosenFrom(entries, c.families, 1)
  <2>4. Min(chosen) \in chosen /\ \A i \in chosen : Min(chosen) <= i
    BY <2>2, <2>3, FirstChosen
  <2>5. chosen \in SUBSET Nat  BY <2>2 DEF ChosenFrom
  <2>6. c.k \in Int /\ c.providers \in Seq(Range(c.providers))  BY CallsAssumption
  <2>7. Len(c.providers) \in Nat /\ 1 <= Len(c.providers)
    <3>1. c.providers # <<>>  BY <2>1 DEF RequestOk
    <3> QED  BY <2>6, <3>1
  <2> DEFINE least == Min(chosen)
  <2>8. least \in chosen /\ least \in Nat /\ \A i \in chosen : i \in Nat /\ ~(i < least)
    BY <2>4, <2>5
  <2> HIDE DEF least
  <2>9. at' = <<1, 1, least>>  BY <2>1 DEF least
  <2>10. at' \in Nat \X Nat \X Nat /\ at'[1] = 1 /\ at'[2] = 1 /\ at'[3] = least
    BY <2>8, <2>9
  <2>11. ChosenNow' = chosen  BY <1>4, <2>1 DEF ChosenNow
  <2> HIDE DEF chosen
  <2>12. \A t \in Nat \ {0}, i \in ChosenNow' : ~(t < at'[2] \/ (t = at'[2] /\ i < at'[3]))
    BY <2>8, <2>10, <2>11
  <2>13. RunningInv'
    BY <1>4, <2>1, <2>6, <2>7, <2>8, <2>10, <2>11, <2>12 DEF RunningInv
  <2> QED
    BY <1>2, <1>3, <1>4, <1>5, <1>6, <1>7, <1>8, <2>10, <2>13 DEF EvalInv, ReportInv
<1>9. CASE phase' = "refused"
  BY <1>1, <1>2, <1>3, <1>4, <1>5, <1>6, <1>7, <1>9 DEF EvalInv, ReportInv
<1> QED  BY <1>1, <1>8, <1>9

LEMMA EscapeStep ==
  ASSUME EvalInv, Escape
  PROVE  EvalInv'
<1>1. /\ phase = "running" /\ phase' = "escaped" /\ UNCHANGED genVars
      /\ UNCHANGED <<given, snapshot, call, at, observations, report>>
  BY DEF Escape
<1>2. UNCHANGED <<wanted, turn, variant, base, produced, strata, splits, entries, raised>>
  BY <1>1 DEF genVars
<1>3. EntriesInv'  BY <1>2 DEF EvalInv, EntriesInv, Earlier
<1>4. \A o \in observations : GoodRun(o)'  BY <1>1, <1>2 DEF EvalInv, GoodRun
<1>5. ReportInv'  BY <1>1 DEF EvalInv, ReportInv, OneModel, WrongRunBehind, RunsOf
<1> QED  BY <1>1, <1>2, <1>3, <1>4, <1>5 DEF EvalInv

\* Nothing chosen lies between a position and the next.
LEMMA AfterIsNext ==
  ASSUME EvalInv, phase = "running"
  PROVE  /\ After(at) \in Nat \X Nat \X Nat /\ After(at)[1] = at[1]
         /\ After(at)[2] >= 1 /\ After(at)[3] \in ChosenNow
         /\ \A t \in Nat \ {0}, i \in ChosenNow :
              t < After(at)[2] \/ (t = After(at)[2] /\ i < After(at)[3]) =>
                \/ t < at[2] \/ (t = at[2] /\ i < at[3]) \/ (t = at[2] /\ i = at[3])
<1> DEFINE later == ChosenFrom(snapshot, call.families, at[3] + 1)
           least == Min(later)
           a == at[1]  b == at[2]  c == at[3]
<1>1. /\ snapshot = entries /\ RequestOk(call, entries) /\ at = <<a, b, c>>
      /\ a \in Nat /\ b \in Nat /\ c \in Nat /\ b >= 1 /\ c \in ChosenNow
  BY DEF EvalInv, RunningInv
<1>2. PICK S : entries \in Seq(S)  BY DEF EvalInv, EntriesInv
<1>3. call.families # {} /\ call.families \subseteq {e.family : e \in Range(entries)}
  BY <1>1 DEF RequestOk
<1>4. First \in ChosenNow /\ \A i \in ChosenNow : First <= i
  BY <1>1, <1>2, <1>3, FirstChosen DEF First, ChosenNow
<1>5. Len(entries) \in Nat /\ ChosenNow \in SUBSET Nat  BY <1>2 DEF ChosenNow, ChosenFrom
<1>6. \A i \in Nat : i \in later <=> i \in ChosenNow /\ i > c
  BY <1>1, <1>5 DEF ChosenNow, ChosenFrom
<1>7. later \in SUBSET Nat  BY <1>1, <1>5 DEF ChosenFrom
<1>8. After(at) = IF later # {} THEN <<a, b, least>> ELSE <<a, b + 1, First>>
  BY DEF After
<1> HIDE DEF later, a, b, c
<1>9. CASE later # {}
  <2>1. least \in later /\ \A i \in later : least <= i  BY <1>7, <1>9, LeastElement
  <2> HIDE DEF least
  <2>2. least \in Nat /\ least \in ChosenNow  BY <1>6, <1>7, <2>1
  <2>3. After(at) = <<a, b, least>>  BY <1>8, <1>9
  <2>4. ASSUME NEW t \in Nat \ {0}, NEW i \in ChosenNow, t < b \/ (t = b /\ i < least)
        PROVE  t < b \/ (t = b /\ i < c) \/ (t = b /\ i = c)
    <3>1. i \in Nat  BY <1>5
    <3>2. i < least => ~(i > c)  BY <1>6, <2>1, <2>2, <3>1
    <3> QED  BY <1>1, <2>4, <3>1, <3>2
  <2> QED  BY <1>1, <2>2, <2>3, <2>4 DEF a, b, c
<1>10. CASE later = {}
  <2>1. After(at) = <<a, b + 1, First>>  BY <1>8, <1>10
  <2>2. First \in Nat  BY <1>4, <1>5
  <2>3. ASSUME NEW t \in Nat \ {0}, NEW i \in ChosenNow, t < b + 1 \/ (t = b + 1 /\ i < First)
        PROVE  t < b \/ (t = b /\ i < c) \/ (t = b /\ i = c)
    <3>1. i \in Nat  BY <1>5
    <3>2. ~(i > c)  BY <1>6, <1>10, <3>1
    <3>3. ~(i < First)  BY <1>4, <2>2, <3>1
    <3> QED  BY <1>1, <2>3, <3>1, <3>2, <3>3
  <2> QED  BY <1>1, <1>4, <2>1, <2>2, <2>3 DEF a, b, c
<1> QED  BY <1>9, <1>10

\* The run at the position, of a model that may run, is one of the good runs.
LEMMA NewRunIsGood ==
  ASSUME EvalInv, phase = "running", NEW model, NEW result \in Results(model, entries[at[3]], at[2]),
         model.provenance \in MODE_MODEL_PROVIDERS[Provider.mode],
         Evaluate(entries[at[3]].case).label = entries[at[3]].oracle.label
  PROVE  LET o == Observation(Provider, model, entries[at[3]], at[2], result) IN
         /\ GoodRun(o) /\ o.provider = Provider.name /\ o.trial = at[2]
         /\ o.case = <<entries[at[3]].family, entries[at[3]].variant>>
<1> DEFINE entry == entries[at[3]]
           o == Observation(Provider, model, entry, at[2], result)
           label == Evaluate(entry.case).label
<1>1. /\ o.provider = Provider.name /\ o.trial = at[2] /\ o.case = <<entry.family, entry.variant>>
      /\ o.label = label /\ o.split = entry.split /\ o.relation = entry.relation
      /\ o.model = model.provenance /\ o.outcome = STATUS_LABEL[result.status]
      /\ o.passed = Passed(label, result)
  BY DEF Observation
<1>2. entry \in Range(entries) /\ entry.family \in call.families
  <2>1. PICK S : entries \in Seq(S)  BY DEF EvalInv, EntriesInv
  <2> QED  BY <2>1 DEF EvalInv, RunningInv, ChosenNow, ChosenFrom, Range
<1>3. entry.oracle = Evaluate(entry.case) /\ entry.oracle # OracleError
  BY <1>2 DEF EvalInv, EntriesInv
<1>4. ASSUME model.provenance = ReferenceModel
      PROVE  Passed(label, result) /\ STATUS_LABEL[result.status] = label
  BY <1>3, <1>4, ReferencePasses
<1>5. at[1] \in Nat /\ at[1] >= 1 /\ at[1] <= Len(call.providers)
  BY DEF EvalInv, RunningInv
<1>6. at[1] \in 1 .. at[1] /\ Provider = call.providers[at[1]]  BY <1>5 DEF Provider
<1> HIDE DEF o, entry
<1>7. o.model = ReferenceModel => o.passed /\ o.outcome = o.label  BY <1>1, <1>4
<1>8. GoodRun(o)  BY <1>1, <1>2, <1>3, <1>5, <1>6, <1>7 DEF GoodRun, entry
<1> QED  BY <1>1, <1>8 DEF entry, o

\* What is reported of a provider stands while another one runs.
LEMMA RunsStand ==
  ASSUME EvalInv, phase = "running", UNCHANGED <<call, report>>,
         observations \subseteq observations',
         \A o \in observations' \ observations : o.provider = Provider.name,
         NEW i \in 1 .. Len(report)
  PROVE  RunsOf(report[i])' = RunsOf(report[i])
<1>1. at[1] \in Nat /\ at[1] >= 1 /\ at[1] <= Len(call.providers) /\ Len(call.providers) \in Nat
  BY DEF EvalInv, RunningInv
<1>2. \A p, q \in 1 .. Len(call.providers) :
        call.providers[p].name = call.providers[q].name => p = q
  BY DEF EvalInv, RunningInv, RequestOk, Position
<1>3. ReportInv /\ Len(report) = at[1] - 1  BY DEF EvalInv, ReportInv
<1>4. i \in 1 .. Len(call.providers) /\ at[1] \in 1 .. Len(call.providers) /\ i # at[1]
  BY <1>1, <1>3
<1>5. report[i].provider = call.providers[i].name  BY <1>3 DEF ReportInv
<1>6. report[i].provider # Provider.name  BY <1>2, <1>4, <1>5 DEF Provider
<1> QED  BY <1>6 DEF RunsOf

LEMMA ReportsStand ==
  ASSUME EvalInv, phase = "running", UNCHANGED <<call, report>>, at'[1] = at[1],
         observations \subseteq observations',
         \A o \in observations' \ observations : o.provider = Provider.name
  PROVE  ReportInv'
<1>1. ReportInv  BY DEF EvalInv
<1>2. ASSUME NEW i \in 1 .. Len(report)
      PROVE  OneModel(i)' /\ WrongRunBehind(report[i])'
  <2>1. OneModel(i) /\ WrongRunBehind(report[i])  BY <1>1 DEF ReportInv
  <2>2. RunsOf(report[i])' = RunsOf(report[i])  BY RunsStand
  <2>3. OneModel(i)'  BY <2>1, <2>2 DEF OneModel
  <2>4. WrongRunBehind(report[i])'  BY <2>1, <2>2 DEF WrongRunBehind
  <2> QED  BY <2>3, <2>4
<1> QED  BY <1>1, <1>2 DEF ReportInv

LEMMA RunCaseStep ==
  ASSUME EvalInv, RunCase
  PROVE  EvalInv'
<1>0. PICK model \in Provider.models[at[2]] : RunModel(model, StoredEntry(at[3]))
  BY DEF RunCase
<1> DEFINE entry == entries[at[3]]
           allowed == /\ TransportAllowed(Provider.mode, model)
                      /\ model.provenance \in MODE_MODEL_PROVIDERS[Provider.mode]
                      /\ Evaluate(entry.case).label = entry.oracle.label
<1>1. /\ phase = "running" /\ UNCHANGED <<genVars, snapshot, call, report>>
      /\ snapshot = entries
  BY DEF RunCase, EvalInv, RunningInv
<1>2. UNCHANGED <<wanted, turn, variant, base, produced, strata, splits, entries, raised>>
  BY <1>1 DEF genVars
<1>3. EntriesInv'  BY <1>2 DEF EvalInv, EntriesInv, Earlier
<1>4. StoredEntry(at[3]) = entry  BY <1>1 DEF StoredEntry
<1>7. RunModel(model, entry)  BY <1>0, <1>4
<1>5. CASE allowed
  <2>1. PICK result \in Results(model, entry, at[2]) :
          observations' = observations \cup {Observation(Provider, model, entry, at[2], result)}
    BY <1>5, <1>7 DEF RunModel
  <2>2. at' = After(at) /\ phase' = phase  BY <1>5, <1>7 DEF RunModel
  <2> DEFINE o == Observation(Provider, model, entry, at[2], result)
  <2>3. /\ GoodRun(o) /\ o.provider = Provider.name /\ o.trial = at[2]
        /\ o.case = <<entry.family, entry.variant>>
    BY <1>1, <1>5, NewRunIsGood
  <2> HIDE DEF o, entry, allowed
  <2>4. /\ at' \in Nat \X Nat \X Nat /\ at'[1] = at[1] /\ at'[2] >= 1 /\ at'[3] \in ChosenNow
        /\ \A t \in Nat \ {0}, i \in ChosenNow :
             t < at'[2] \/ (t = at'[2] /\ i < at'[3]) =>
               \/ t < at[2] \/ (t = at[2] /\ i < at[3]) \/ (t = at[2] /\ i = at[3])
    BY <1>1, <2>2, AfterIsNext
  <2>5. observations' = observations \cup {o}  BY <2>1 DEF o
  <2>6. ASSUME NEW r \in observations' PROVE GoodRun(r)'
    <3>1. GoodRun(r)  BY <2>3, <2>5 DEF EvalInv
    <3>2. at'[1] = at[1]  BY <2>4
    <3> QED  BY <1>1, <1>2, <3>1, <3>2 DEF GoodRun
  <2>7. IsFiniteSet(observations')  BY <2>5, FS_AddElement DEF EvalInv
  <2>8. ChosenNow' = ChosenNow /\ Provider' = Provider
    BY <1>1, <1>2, <2>4 DEF ChosenNow, Provider
  <2>9. ASSUME NEW t \in Nat \ {0}, NEW i \in ChosenNow,
               t < at'[2] \/ (t = at'[2] /\ i < at'[3])
        PROVE  Made(at[1], t, entries[i])'
    <3>1. CASE t < at[2] \/ (t = at[2] /\ i < at[3])
      <4>1. Made(at[1], t, entries[i])  BY <1>1, <3>1 DEF EvalInv, RunningInv
      <4> QED  BY <1>1, <1>2, <2>4, <2>5, <4>1 DEF Made
    <3>2. CASE t = at[2] /\ i = at[3]
      <4>1. o \in observations'  BY <2>5
      <4>2. call'.providers[at'[1]].name = Provider.name  BY <1>1, <2>4 DEF Provider
      <4> QED  BY <1>2, <2>3, <2>4, <3>2, <4>1, <4>2 DEF Made, entry
    <3> QED  BY <2>4, <2>9, <3>1, <3>2
  <2>10. RunningInv'
    <3>1. RunningInv  BY <1>1 DEF EvalInv
    <3>2. RequestOk(call, entries)'  BY <1>1, <1>2, <3>1 DEF RunningInv, RequestOk
    <3> QED  BY <1>1, <1>2, <2>4, <2>8, <2>9, <3>1, <3>2 DEF RunningInv
  <2>11. ReportInv'  BY <1>1, <2>3, <2>4, <2>5, ReportsStand
  <2>12. at[1] >= 1 /\ splits # None /\ ~raised  BY <1>1 DEF EvalInv
  <2> QED
    BY <1>1, <1>2, <1>3, <2>2, <2>4, <2>6, <2>7, <2>10, <2>11, <2>12 DEF EvalInv
<1>6. CASE ~allowed
  <2>1. phase' = "refused" /\ UNCHANGED <<at, observations>>
    BY <1>6, <1>7 DEF RunModel
  <2> HIDE DEF allowed
  <2>2. \A o \in observations : GoodRun(o)'  BY <1>1, <1>2, <2>1 DEF EvalInv, GoodRun
  <2>3. ReportInv'  BY <1>1, <2>1, ReportsStand
  <2> QED  BY <1>1, <1>2, <1>3, <2>1, <2>2, <2>3 DEF EvalInv
<1> QED  BY <1>5, <1>6

-----------------------------------------------------------------------------
(* The report.                                                             *)

\* A relation is violated in a trial only by a wrong run of the case or of its base: had
\* both been right, the labels of generate would violate it, and generate raises then.
LEMMA ViolatedIsWrong ==
  ASSUME EvalInv, phase = "running", at[2] > call.k,
         NEW violation \in Violated({o \in observations : o.provider = Provider.name})
  PROVE  \E o \in observations :
           /\ o.provider = Provider.name
           /\ o.trial = violation[2] /\ o.case[1] = violation[1][1]
           /\ o.case[2] \in {violation[1][2], "base"} /\ o.outcome # o.label
<1> DEFINE runs == {o \in observations : o.provider = Provider.name}
           idOf(e) == <<e.family, e.variant>>
           labelIn(t, e) == LabelsIn(runs, t)[idOf(e)]
           behind(o) == /\ o.trial = violation[2] /\ o.case[1] = violation[1][1]
                        /\ o.case[2] \in {violation[1][2], "base"}
<1> SUFFICES ASSUME \A o \in runs : behind(o) => o.outcome = o.label
             PROVE  FALSE
  OBVIOUS
<1>1. /\ snapshot = entries /\ call.k \in Int /\ at[2] \in Nat /\ splits # None /\ ~raised
      /\ \A t \in Nat \ {0}, i \in ChosenNow : t < at[2] => Made(at[1], t, entries[i])
  BY DEF EvalInv, RunningInv
<1>2. PICK t \in 1 .. call.k :
        \E id \in RelationViolations(EntriesInUse, LabelsIn(runs, t)) : violation = <<id, t>>
  <2>1. PICK t \in 1 .. call.k :
          violation \in RelationViolations(EntriesInUse, LabelsIn(runs, t)) \X {t}
    BY DEF Violated
  <2>2. \A A, v : v \in A \X {t} => v[1] \in A /\ v = <<v[1], t>>  OBVIOUS
  <2> QED  BY <2>1, <2>2
<1>3. PICK e \in EntriesInUse :
        /\ violation = <<idOf(e), t>>
        /\ \/ e.relation = "invariant" /\ LabelsIn(runs, t)[idOf(e)]
                                            # LabelsIn(runs, t)[<<e.family, "base">>]
           \/ /\ e.relation = "monotonic" /\ LabelsIn(runs, t)[idOf(e)] = "benign"
              /\ LabelsIn(runs, t)[<<e.family, "base">>] # "benign"
  BY <1>2 DEF RelationViolations
<1>4. e \in Range(entries) /\ e.family \in call.families
  BY <1>1 DEF EntriesInUse, InFamilies
<1>5. PICK b \in Range(entries) : IsBaseOf(b, e)  BY <1>4 DEF EvalInv, EntriesInv
<1>6. Related(e, b)  BY <1>1, <1>4, <1>5 DEF EvalInv, EntriesInv
<1>7. ASSUME NEW f \in Range(entries), f.family = e.family, f.variant \in {e.variant, "base"}
      PROVE  labelIn(t, f) = f.oracle.label
  <2>1. PICK i \in DOMAIN entries : entries[i] = f  BY DEF Range
  <2>2. i \in ChosenNow
    <3>1. PICK S : entries \in Seq(S)  BY DEF EvalInv, EntriesInv
    <3> QED  BY <1>4, <1>7, <2>1, <3>1 DEF ChosenNow, ChosenFrom
  <2>3. t \in Nat \ {0} /\ t < at[2]  BY <1>1
  <2>4. Made(at[1], t, f)  BY <1>1, <2>1, <2>2, <2>3
  <2>5. \E o \in runs : o.case = idOf(f) /\ o.trial = t  BY <2>4 DEF Made, Provider
  <2>6. PICK o \in runs : /\ o.case = idOf(f) /\ o.trial = t
                          /\ o = CHOOSE r \in runs : r.case = idOf(f) /\ r.trial = t
    BY <2>5
  <2>7. labelIn(t, f) = o.outcome
    <3>1. idOf(f) \in {r.case : r \in runs}  BY <2>6
    <3> QED  BY <2>6, <3>1 DEF LabelsIn
  <2>8. o.outcome = o.label
    <3>1. /\ o.trial = violation[2] /\ o.case[1] = violation[1][1]
          /\ o.case[2] \in {violation[1][2], "base"}
      BY <1>2, <1>3, <1>7, <2>6
    <3> QED  BY <3>1
  <2>9. GoodRun(o)  BY DEF EvalInv
  <2>10. PICK g \in Range(entries) : o.case = idOf(g) /\ o.label = g.oracle.label
    BY <2>9 DEF GoodRun
  <2>11. SameCase(g, f)  BY <2>6, <2>10 DEF SameCase
  <2>12. g = f  BY <2>11 DEF EvalInv, EntriesInv
  <2> QED  BY <2>7, <2>8, <2>10, <2>12
<1>8. labelIn(t, e) = e.oracle.label  BY <1>4, <1>7
<1>9. LabelsIn(runs, t)[<<e.family, "base">>] = b.oracle.label
  <2>1. labelIn(t, b) = b.oracle.label  BY <1>5, <1>7 DEF IsBaseOf
  <2>2. idOf(b) = <<e.family, "base">>  BY <1>5 DEF IsBaseOf
  <2> QED  BY <2>1, <2>2
<1> QED  BY <1>3, <1>6, <1>8, <1>9 DEF Related

LEMMA OneModelOf ==
  ASSUME NEW runs, IsFiniteSet(runs), OneProvenance(runs)
  PROVE  \E model : {o.model : o \in runs} = {model}
<1> DEFINE models == {o.model : o \in runs}
           f == [o \in runs |-> o.model]
<1>1. f \in [runs -> models] /\ \A m \in models : \E o \in runs : f[o] = m  OBVIOUS
<1>2. f \in Surjection(runs, models)
  <2> HIDE DEF f, models
  <2> QED  BY <1>1 DEF Surjection
<1>3. IsFiniteSet(models)
  <2> HIDE DEF f, models
  <2> QED  BY <1>2, FS_Surjection
<1>4. Cardinality(models) = 1  BY DEF OneProvenance
<1> HIDE DEF models
<1>5. \E model : models = {model}  BY <1>3, <1>4, FS_Singleton
<1> QED  BY <1>5 DEF models

LEMMA SummarizeStep ==
  ASSUME EvalInv, Summarize
  PROVE  EvalInv'
<1> DEFINE runs == {o \in observations : o.provider = Provider.name}
           violated == Violated(runs)
           row == [provider |-> Provider.name, violated |-> violated,
                   splits |-> [s \in SPLITS |-> summarize(InSplit(runs, s), violated, call.k)]]
<1>1. /\ phase = "running" /\ at[2] > call.k /\ UNCHANGED <<genVars, given, snapshot, call, observations>>
  BY DEF Summarize
<1>2. UNCHANGED <<wanted, turn, variant, base, produced, strata, splits, entries, raised>>
  BY <1>1 DEF genVars
<1>3. EntriesInv'  BY <1>2 DEF EvalInv, EntriesInv, Earlier
<1>4. /\ RunningInv /\ at \in Nat \X Nat \X Nat /\ at[1] >= 1 /\ splits # None /\ ~raised
      /\ IsFiniteSet(observations) /\ ReportInv /\ snapshot = entries
  BY <1>1 DEF EvalInv, RunningInv
<1>5. PICK a \in Nat :
        a = at[1] /\ a <= Len(call.providers) /\ Len(call.providers) \in Nat
  BY <1>4 DEF RunningInv
<1>6. CASE ~OneProvenance(runs)
  <2>1. phase' = "refused" /\ UNCHANGED <<report, at>>  BY <1>6 DEF Summarize
  <2>2. \A o \in observations : GoodRun(o)'  BY <1>1, <1>2, <2>1 DEF EvalInv, GoodRun
  <2>3. ReportInv'  BY <1>1, <2>1, ReportsStand
  <2> QED  BY <1>1, <1>2, <1>3, <1>4, <2>1, <2>2, <2>3 DEF EvalInv
<1>7. CASE OneProvenance(runs)
  <2>1. /\ report' = Append(report, row) /\ at' = <<at[1] + 1, 1, First>>
        /\ phase' = IF at[1] = Len(call.providers) THEN "reported" ELSE phase
    BY <1>7 DEF Summarize
  <2>2. row.provider = call.providers[a].name /\ row.violated = violated  BY <1>5 DEF Provider
  <2> HIDE DEF row
  <2>3. PICK S : entries \in Seq(S)  BY <1>4 DEF EvalInv, EntriesInv
  <2>4. call.families # {} /\ call.families \subseteq {e.family : e \in Range(entries)}
    BY <1>4 DEF RunningInv, RequestOk
  <2>5. First \in ChosenNow /\ \A i \in ChosenNow : First <= i
    BY <1>4, <2>3, <2>4, FirstChosen DEF First, ChosenNow
  <2>6. ChosenNow \in SUBSET Nat  BY <2>3 DEF ChosenNow, ChosenFrom
  <2>7. /\ at' \in Nat \X Nat \X Nat /\ at'[1] = a + 1 /\ at'[2] = 1 /\ at'[3] = First
    BY <1>5, <2>1, <2>5, <2>6
  <2>8. ChosenNow' = ChosenNow  BY <1>1, <1>2 DEF ChosenNow
  <2>9. ASSUME NEW o \in observations PROVE GoodRun(o)'
    <3>1. GoodRun(o)  BY DEF EvalInv
    <3>2. PICK p \in 1 .. a : /\ p <= Len(call.providers) /\ o.provider = call.providers[p].name
                              /\ o.model \in MODE_MODEL_PROVIDERS[call.providers[p].mode]
      BY <1>5, <3>1 DEF GoodRun
    <3>3. p \in 1 .. at'[1]  BY <1>5, <2>7
    <3> QED  BY <1>1, <1>2, <3>1, <3>2, <3>3 DEF GoodRun
  <2>10. PICK T : report \in Seq(T)  BY <1>4 DEF ReportInv
  <2>11. /\ \E U : report' \in Seq(U)
         /\ Len(report') = at'[1] - 1 /\ Len(report) = a - 1
         /\ report'[a] = row /\ \A i \in 1 .. Len(report) : report'[i] = report[i]
    <3>1. Len(report) = a - 1 /\ a \in Nat  BY <1>4, <1>5 DEF ReportInv
    <3>2. \E U : report' \in Seq(U)  BY <2>1, <2>10, RangeOfAppend
    <3>3. report \in Seq(T \cup {row})  BY <2>10
    <3>4. /\ Len(report') = Len(report) + 1 /\ report'[Len(report) + 1] = row
          /\ \A i \in 1 .. Len(report) : report'[i] = report[i]
      BY <2>1, <3>3
    <3> QED  BY <2>7, <3>1, <3>2, <3>4
  <2>12. ASSUME NEW i \in 1 .. Len(report)
         PROVE  /\ report'[i].provider = call.providers[i].name
                /\ OneModel(i)' /\ WrongRunBehind(report[i])'
    <3>1. /\ report[i].provider = call.providers[i].name
          /\ OneModel(i) /\ WrongRunBehind(report[i]) /\ report'[i] = report[i]
      BY <1>4, <2>11 DEF ReportInv
    <3>2. RunsOf(report[i])' = RunsOf(report[i])  BY <1>1, <3>1 DEF RunsOf
    <3>3. OneModel(i)'  BY <1>1, <3>1, <3>2 DEF OneModel
    <3>4. WrongRunBehind(report[i])'  BY <3>1, <3>2 DEF WrongRunBehind
    <3> QED  BY <3>1, <3>3, <3>4
  <2>13. RunsOf(report[a])' = runs
    <3>1. report'[a].provider = Provider.name  BY <1>5, <2>2, <2>11 DEF Provider
    <3> QED  BY <1>1, <3>1 DEF RunsOf
  <2>14. OneModel(a)'
    <3>1. PICK model : {o.model : o \in runs} = {model}
      <4>1. IsFiniteSet(runs)  BY <1>4, FS_Subset
      <4> QED  BY <1>7, <4>1, OneModelOf
    <3>2. PICK o \in runs : o.model = model  BY <3>1
    <3>3. PICK p \in 1 .. a : /\ p <= Len(call.providers) /\ o.provider = call.providers[p].name
                              /\ o.model \in MODE_MODEL_PROVIDERS[call.providers[p].mode]
      <4>1. GoodRun(o)  BY DEF EvalInv
      <4> QED  BY <1>5, <4>1 DEF GoodRun
    <3>4. p = a
      <4>1. \A i, j \in 1 .. Len(call.providers) :
              call.providers[i].name = call.providers[j].name => i = j
        BY <1>4 DEF RunningInv, RequestOk, Position
      <4>2. p \in 1 .. Len(call.providers) /\ a \in 1 .. Len(call.providers)
        BY <1>4, <1>5, <3>3
      <4>3. call.providers[p].name = call.providers[a].name  BY <1>5, <3>2, <3>3 DEF Provider
      <4> QED  BY <4>1, <4>2, <4>3
    <3>5. \A r \in runs : r.model = model  BY <3>1
    <3>6. model \in MODE_MODEL_PROVIDERS[call.providers[a].mode]  BY <3>2, <3>3, <3>4
    <3> QED  BY <1>1, <2>13, <3>5, <3>6 DEF OneModel
  <2>15. WrongRunBehind(report[a])'
    <3>1. report'[a].violated = violated  BY <2>2, <2>11
    <3>2. ASSUME NEW violation \in violated
          PROVE  \E o \in runs :
                   /\ o.trial = violation[2] /\ o.case[1] = violation[1][1]
                   /\ o.case[2] \in {violation[1][2], "base"} /\ o.outcome # o.label
      BY <1>1, ViolatedIsWrong
    <3> HIDE DEF runs, violated
    <3> QED  BY <2>13, <3>1, <3>2 DEF WrongRunBehind
  <2>16. ReportInv'
    <3>1. Len(report') = a /\ Len(report) = a - 1 /\ a \in Nat  BY <1>5, <2>7, <2>11
    <3>2. report'[a].provider = call'.providers[a].name  BY <1>1, <2>2, <2>11
    <3>3. \A i \in 1 .. a : i \in 1 .. Len(report) \/ i = a  BY <3>1
    <3>4. \A i \in 1 .. Len(report') :
            /\ report'[i].provider = call'.providers[i].name
            /\ OneModel(i)' /\ WrongRunBehind(report[i])'
      BY <1>1, <2>12, <2>14, <2>15, <3>1, <3>2, <3>3
    <3> QED  BY <2>11, <3>4 DEF ReportInv
  <2>17. phase' = "running" => RunningInv'
    <3> SUFFICES ASSUME phase' = "running" PROVE RunningInv'  OBVIOUS
    <3>1. a # Len(call.providers)  BY <1>5, <2>1
    <3>2. at'[1] <= Len(call.providers)  BY <1>5, <2>7, <3>1
    <3>3. RequestOk(call, entries)'  BY <1>1, <1>2, <1>4 DEF RunningInv, RequestOk
    <3>4. \A t \in Nat \ {0}, i \in ChosenNow : ~(t < at'[2] \/ (t = at'[2] /\ i < at'[3]))
      BY <2>5, <2>6, <2>7
    <3> QED  BY <1>1, <1>2, <1>4, <2>5, <2>7, <2>8, <3>2, <3>3, <3>4 DEF RunningInv
  <2>18. phase' \in {"running", "reported"}  BY <1>1, <2>1
  <2> QED
    BY <1>1, <1>2, <1>3, <1>4, <1>5, <2>7, <2>9, <2>16, <2>17, <2>18 DEF EvalInv
<1> QED  BY <1>6, <1>7

-----------------------------------------------------------------------------
(* The theorems.                                                           *)

THEOREM EvaluationInvariant == EvaluationSpec => []EvalInv
<1>1. EvalInit => EvalInv  BY EvaluationInit
<1>2. EvalInv /\ [Generate \/ EvalNext]_vars => EvalInv'
  <2> SUFFICES ASSUME EvalInv, [Generate \/ EvalNext]_vars PROVE EvalInv'  OBVIOUS
  <2>1. CASE Generate  BY <2>1, GenerateStep
  <2>2. CASE Begin  BY <2>2, BeginStep
  <2>3. CASE RunCase  BY <2>3, RunCaseStep
  <2>4. CASE Escape  BY <2>4, EscapeStep
  <2>5. CASE Summarize  BY <2>5, SummarizeStep
  <2>6. CASE UNCHANGED vars
    <3>1. /\ UNCHANGED <<wanted, turn, variant, base, produced, strata, splits, entries, raised>>
          /\ UNCHANGED <<phase, given, snapshot, call, at, observations, report>>
      BY <2>6 DEF vars, genVars, evalVars
    <3>2. EntriesInv'  BY <3>1 DEF EvalInv, EntriesInv, Earlier
    <3>3. ASSUME phase' = "running" PROVE RunningInv'
      <4>1. RunningInv  BY <3>1, <3>3 DEF EvalInv
      <4>2. ChosenNow' = ChosenNow  BY <3>1 DEF ChosenNow
      <4>3. \A p, t, e : Made(p, t, e)' <=> Made(p, t, e)  BY <3>1 DEF Made
      <4>4. RequestOk(call, entries)'  BY <3>1, <4>1 DEF RunningInv, RequestOk
      <4>5. \A t \in Nat \ {0}, i \in ChosenNow :
              t < at[2] \/ (t = at[2] /\ i < at[3]) => Made(at[1], t, entries[i])
        BY <4>1 DEF RunningInv
      <4>6. \A t \in Nat \ {0}, i \in ChosenNow' :
              t < at'[2] \/ (t = at'[2] /\ i < at'[3]) => Made(at[1], t, entries[i])'
        BY <3>1, <4>2, <4>3, <4>5
      <4> QED  BY <3>1, <4>1, <4>2, <4>4, <4>6 DEF RunningInv
    <3>4. \A o \in observations' : GoodRun(o)'  BY <3>1 DEF EvalInv, GoodRun
    <3>5. ReportInv'
      <4>1. \A r : RunsOf(r)' = RunsOf(r)  BY <3>1 DEF RunsOf
      <4>2. \A i : OneModel(i)' <=> OneModel(i)  BY <3>1, <4>1 DEF OneModel
      <4>3. \A r : WrongRunBehind(r)' <=> WrongRunBehind(r)  BY <4>1 DEF WrongRunBehind
      <4> QED  BY <3>1, <4>2, <4>3 DEF EvalInv, ReportInv
    <3> QED  BY <3>1, <3>2, <3>3, <3>4, <3>5 DEF EvalInv
  <2> QED  BY <2>1, <2>2, <2>3, <2>4, <2>5, <2>6 DEF EvalNext
<1> QED  BY <1>1, <1>2, PTL DEF EvaluationSpec

\* What runs is the set that generate produces, and every run is counted under what was
\* produced for its case (evaluate copies and regenerates the set before the first run),
\* for any set, any call and whatever factories do to the caller's set meanwhile.
THEOREM RunsMatchSetHolds == EvaluationSpec => []RunsMatchSet
<1>1. EvalInv => RunsMatchSet  BY DEF EvalInv, RunningInv, GoodRun, RunsMatchSet
<1> QED  BY <1>1, EvaluationInvariant, PTL

\* A metamorphic violation is only counted in a trial in which the run of the case, or of
\* its base, is wrong (_violations): generate raises when the labels themselves violate a
\* relation, so a violation always accuses a run and never the set.
THEOREM ViolationHolds == EvaluationSpec => []ViolationMeansAWrongRun
<1>1. EvalInv => ViolationMeansAWrongRun
  <2> SUFFICES ASSUME EvalInv, NEW r \in Range(report) PROVE WrongRunBehind(r)
    BY DEF ViolationMeansAWrongRun, WrongRunBehind
  <2>1. PICK S : report \in Seq(S)  BY DEF EvalInv, ReportInv
  <2>2. PICK i \in 1 .. Len(report) : r = report[i]  BY <2>1 DEF Range
  <2> QED  BY <2>2 DEF EvalInv, ReportInv
<1> QED  BY <1>1, EvaluationInvariant, PTL

\* The reference baseline passes the checks modelled in every case of every set, a missing read included, and
\* violates no relation: a provider can be compared with it, whatever the catalogue holds.
THEOREM CeilingHolds == EvaluationSpec => []OracleIsCeiling
<1>1. EvalInv /\ ViolationMeansAWrongRun => OracleIsCeiling
  <2> SUFFICES ASSUME EvalInv, ViolationMeansAWrongRun PROVE OracleIsCeiling  OBVIOUS
  <2>1. \A o \in observations : o.model = ReferenceModel => o.passed /\ o.outcome = o.label
    BY DEF EvalInv, GoodRun
  <2>2. ASSUME NEW r \in Range(report), \A o \in RunsOf(r) : o.model = ReferenceModel
        PROVE  r.violated = {}
    <3> SUFFICES ASSUME NEW violation \in r.violated PROVE FALSE  OBVIOUS
    <3>1. PICK o \in RunsOf(r) : o.outcome # o.label  BY DEF ViolationMeansAWrongRun
    <3> QED  BY <2>1, <2>2, <3>1 DEF RunsOf
  <2> QED  BY <2>1, <2>2 DEF OracleIsCeiling, ReferenceModel
<1> QED  BY <1>1, EvaluationInvariant, ViolationHolds, PTL

\* A provider that is reported ran one model, and one that its mode may run: what is
\* published of a mode is never a mixture with, or a stand-in by, another model.
THEOREM OneModelReported == EvaluationSpec => []ReportedRanOneModel
<1>1. EvalInv => ReportedRanOneModel
  <2> SUFFICES ASSUME EvalInv, NEW i \in DOMAIN report PROVE OneModel(i)
    BY DEF ReportedRanOneModel, OneModel
  <2>1. PICK S : report \in Seq(S)  BY DEF EvalInv, ReportInv
  <2>2. i \in 1 .. Len(report)  BY <2>1
  <2> QED  BY <2>2 DEF EvalInv, ReportInv
<1> QED  BY <1>1, EvaluationInvariant, PTL

-----------------------------------------------------------------------------
(* The catalogue and its strata.                                           *)

LEMMA CatalogueCategories ==
  /\ Len(INJECTIONS) = 22
  /\ INJECTIONS[1].category = "wildcard_grant"  /\ INJECTIONS[2].category = "secrets_read"
  /\ INJECTIONS[3].category = "workload_creation"
  /\ INJECTIONS[4].category = "persistent_volume_creation"
  /\ INJECTIONS[5].category = "nodes_proxy"     /\ INJECTIONS[6].category = "escalate_verb"
  /\ INJECTIONS[7].category = "bind_verb"       /\ INJECTIONS[8].category = "impersonate_verb"
  /\ INJECTIONS[9].category = "csr_issuing"     /\ INJECTIONS[10].category = "token_request"
  /\ INJECTIONS[11].category = "admission_webhook_control"
  /\ INJECTIONS[12].category = "namespace_modification"
  /\ \A i \in 13 .. 22 : INJECTIONS[i].category = None
<1>1. \A id, kind, category, b, a : Inject(id, kind, category, b, a).category = category
  BY DEF Inject
<1>2. \A category, rules : Privileged(category, rules).category = category
  BY <1>1 DEF Privileged
<1>3. \A id, kind, rule : Harmless(id, kind, rule).category = None  BY <1>1 DEF Harmless
<1>4. \A id, rule : Preexisting(id, rule).category = None  BY <1>1 DEF Preexisting
<1>5. Len(INJECTIONS) = 22  BY DEF INJECTIONS
<1>6. /\ INJECTIONS[1].category = "wildcard_grant"  /\ INJECTIONS[2].category = "secrets_read"
      /\ INJECTIONS[3].category = "workload_creation"
      /\ INJECTIONS[4].category = "persistent_volume_creation"
      /\ INJECTIONS[5].category = "nodes_proxy"     /\ INJECTIONS[6].category = "escalate_verb"
  BY <1>2 DEF INJECTIONS
<1>7. /\ INJECTIONS[7].category = "bind_verb"       /\ INJECTIONS[8].category = "impersonate_verb"
      /\ INJECTIONS[9].category = "csr_issuing"     /\ INJECTIONS[10].category = "token_request"
      /\ INJECTIONS[11].category = "admission_webhook_control"
      /\ INJECTIONS[12].category = "namespace_modification"
  BY <1>2 DEF INJECTIONS
<1>8. \A i \in 13 .. 22 : INJECTIONS[i].category = None
  <2>1. /\ INJECTIONS[13].category = None /\ INJECTIONS[14].category = None
        /\ INJECTIONS[15].category = None /\ INJECTIONS[16].category = None
        /\ INJECTIONS[17].category = None
    BY <1>3 DEF INJECTIONS
  <2>2. /\ INJECTIONS[18].category = None /\ INJECTIONS[19].category = None
        /\ INJECTIONS[20].category = None /\ INJECTIONS[21].category = None
        /\ INJECTIONS[22].category = None
    BY <1>1, <1>3, <1>4 DEF INJECTIONS
  <2>3. \A i \in 13 .. 22 : i \in {13, 14, 15, 16, 17} \/ i \in {18, 19, 20, 21, 22}  OBVIOUS
  <2> QED  BY <2>1, <2>2, <2>3
<1> QED  BY <1>5, <1>6, <1>7, <1>8

\* Each category has one injection, and only that one.
LEMMA OneInjection ==
  ASSUME NEW c \in Categories
  PROVE  \E i \in 1 .. 12 : \A j \in 1 .. 22 : INJECTIONS[j].category = c <=> i = j
<1>1. c \in {"secrets_read", "workload_creation", "persistent_volume_creation", "escalate_verb",
             "bind_verb", "token_request", "admission_webhook_control", "namespace_modification",
             "wildcard_grant", "nodes_proxy", "impersonate_verb", "csr_issuing"}
  BY DEF Categories, Triples
<1>2. c # None  BY NoneAssumption
<1>3. \A j \in 1 .. 22 : j \in 1 .. 12 \/ j \in 13 .. 22  OBVIOUS
<1>4. \E i \in 1 .. 12 : \A j \in 1 .. 12 : INJECTIONS[j].category = c <=> i = j
  <2>1. \A j \in 1 .. 12 : j \in {1, 2, 3, 4, 5, 6} \/ j \in {7, 8, 9, 10, 11, 12}  OBVIOUS
  <2> QED  BY <1>1, <2>1, CatalogueCategories
<1>5. \A j \in 13 .. 22 : INJECTIONS[j].category # c  BY <1>2, CatalogueCategories
<1> QED  BY <1>3, <1>4, <1>5

LEMMA FamilyFields ==
  ASSUME NEW injection, NEW mode, NEW reads
  PROVE  /\ Family(injection, mode, reads).injection = injection
         /\ Family(injection, mode, reads).mode = mode
         /\ Family(injection, mode, reads).reads = reads
BY DEF Family

\* The families of an injection are the three of its own, and some with a read missing.
LEMMA FamiliesOfInjections ==
  /\ DOMAIN Families = 1 .. 72 /\ Len(Families) = 72
  /\ \A i \in 1 .. 22 :
       /\ Families[3 * i - 2] = Family(INJECTIONS[i], "unapproved", "complete")
       /\ Families[3 * i] = Family(INJECTIONS[i], "stale", "complete")
  /\ \A n \in 1 .. 72 : \E j \in 1 .. 22 :
       Families[n].injection = INJECTIONS[j] /\ (n \in 3 * j - 2 .. 3 * j \/ n \in 67 .. 72)
<1>1. Complete = 66  BY CatalogueCategories DEF Complete
<1> DEFINE made(n) ==
      LET mode == APPROVAL_MODES[((n - 1) % 3) + 1] IN
      IF n <= Complete THEN Family(INJECTIONS[((n - 1) \div 3) + 1], mode, "complete")
      ELSE LET missing == MISSING_FAMILIES[((n - Complete - 1) \div 3) + 1] IN
           Family(INJECTIONS[missing[1]], mode, missing[2])
<1>2. Families = [n \in 1 .. 72 |-> made(n)]  BY <1>1 DEF Families
<1>3. DOMAIN Families = 1 .. 72 /\ \A n \in 1 .. 72 : Families[n] = made(n)
  <2> HIDE DEF made
  <2> QED  BY <1>2
<1>4. Len(Families) = 72
  <2> HIDE DEF made
  <2>1. Families \in [1 .. 72 -> {Families[n] : n \in 1 .. 72}]  BY <1>2
  <2>2. \A n \in Nat : \A T, f : f \in [1 .. n -> T] => Len(f) = n
    <3>1. \A n \in Nat : \A T, f : f \in [1 .. n -> T] => f \in Seq(T)  OBVIOUS
    <3> QED  BY <3>1
  <2>3. 72 \in Nat  OBVIOUS
  <2> QED  BY <2>1, <2>2, <2>3
<1>5. APPROVAL_MODES[1] = "unapproved" /\ APPROVAL_MODES[3] = "stale"  BY DEF APPROVAL_MODES
<1>6. MISSING_FAMILIES[1][1] = 2 /\ MISSING_FAMILIES[2][1] = 1  BY DEF MISSING_FAMILIES
<1>7. ASSUME NEW i \in 1 .. 22
      PROVE  /\ Families[3 * i - 2] = Family(INJECTIONS[i], "unapproved", "complete")
             /\ Families[3 * i] = Family(INJECTIONS[i], "stale", "complete")
  <2>1. /\ 3 * i - 2 \in 1 .. 66 /\ (3 * i - 2 - 1) % 3 = 0 /\ (3 * i - 2 - 1) \div 3 = i - 1
        /\ 3 * i \in 1 .. 66 /\ (3 * i - 1) % 3 = 2 /\ (3 * i - 1) \div 3 = i - 1
    OBVIOUS
  <2>2. i - 1 + 1 = i  OBVIOUS
  <2>3. made(3 * i - 2) = Family(INJECTIONS[i], "unapproved", "complete")
    BY <1>1, <1>5, <2>1, <2>2
  <2>4. made(3 * i) = Family(INJECTIONS[i], "stale", "complete")
    BY <1>1, <1>5, <2>1, <2>2
  <2> HIDE DEF made
  <2> QED  BY <1>3, <2>1, <2>3, <2>4
<1>8. ASSUME NEW n \in 1 .. 72
      PROVE  \E j \in 1 .. 22 :
               Families[n].injection = INJECTIONS[j] /\ (n \in 3 * j - 2 .. 3 * j \/ n \in 67 .. 72)
  <2>1. CASE n <= 66
    <3> DEFINE j == ((n - 1) \div 3) + 1
    <3>1. j \in 1 .. 22 /\ n \in 3 * j - 2 .. 3 * j  BY <2>1
    <3>2. made(n).injection = INJECTIONS[j]  BY <1>1, <2>1, FamilyFields
    <3> HIDE DEF made, j
    <3> QED  BY <1>3, <3>1, <3>2
  <2>2. CASE n > 66
    <3>1. (n - 66 - 1) \div 3 \in {0, 1}  BY <2>2
    <3>2. made(n).injection \in {INJECTIONS[1], INJECTIONS[2]}
      <4>1. CASE (n - 66 - 1) \div 3 = 0  BY <1>1, <1>6, <2>2, <4>1, FamilyFields
      <4>2. CASE (n - 66 - 1) \div 3 = 1  BY <1>1, <1>6, <2>2, <4>2, FamilyFields
      <4> QED  BY <3>1, <4>1, <4>2
    <3> HIDE DEF made
    <3> QED  BY <1>3, <2>2, <3>2
  <2> QED  BY <2>1, <2>2
<1> QED  BY <1>3, <1>4, <1>7, <1>8

\* The approval record of a family that is not approved approves nothing, under the names
\* of the case as before: either it is denied, or it is for the earlier version.
LEMMA NotApproved ==
  ASSUME NEW family, family.reads = "complete", family.mode \in {"unapproved", "stale"},
         NEW made, made = Rename(FamilyCase(family), "A"),
         NEW data \in Found(made.evidence, RequiredReads(made.event)[5])
  PROVE  ~Approves(data, made.event)
<1> DEFINE raw == FamilyCase(family)
           reads == RequiredReads(SeedEvent)
           approval ==
             [approved |-> IF family.mode = "unapproved" THEN "false" ELSE "true",
              change_id |-> SeedEvent.change_id, subject_id |-> SeedEvent.subject_id,
              resource |-> SeedEvent.resource,
              after_version |-> IF family.mode = "stale" THEN SeedEvent.before_version
                                                         ELSE SeedEvent.after_version]
           ids == NeutralIds("A")
           to(x) == IF \E k \in DOMAIN ids : raw.event[k] = x
                    THEN ids[CHOOSE k \in DOMAIN ids : raw.event[k] = x] ELSE x
           renamed(old) ==
             IF old.tool = "get_rbac_object"
             THEN [old EXCEPT !.arguments = <<to(@[1]), @[2]>>, !.data.identity = <<to(@[1]), @[2]>>]
             ELSE [old EXCEPT !.arguments = to(@), !.data = [k \in DOMAIN @ |-> to(@[k])]]
<1>1. \E a, b, c, d :
        raw = [event |-> SeedEvent, policy |-> SeedPolicy,
               evidence |-> << Entry(reads[1], a), Entry(reads[2], b), Entry(reads[3], c),
                               Entry(reads[4], d), Entry(reads[5], approval) >>]
  BY DEF FamilyCase
<1>2. /\ reads[1][1] = "get_change_event" /\ reads[2][1] = "get_rbac_object"
      /\ reads[3][1] = "get_rbac_object" /\ reads[4][1] = "get_subject_bindings"
      /\ reads[5][1] = "get_approval_record"
  BY DEF RequiredReads
<1>3. /\ raw.event = SeedEvent /\ DOMAIN raw.evidence = 1 .. 5
      /\ \A i \in 1 .. 5 :
           /\ raw.evidence[i] = [tool |-> raw.evidence[i].tool, arguments |-> raw.evidence[i].arguments,
                                 data |-> raw.evidence[i].data]
           /\ raw.evidence[i].tool = "get_approval_record" => i = 5
      /\ raw.evidence[5].tool = "get_approval_record" /\ raw.evidence[5].data = approval
      /\ raw = [event |-> raw.event, policy |-> raw.policy, evidence |-> raw.evidence]
  <2> HIDE DEF approval, reads, raw
  <2> QED  BY <1>1, <1>2 DEF Entry
<1>4. /\ made.event = [k \in DOMAIN SeedEvent |-> to(SeedEvent[k])]
      /\ made.evidence = [i \in 1 .. 5 |-> renamed(raw.evidence[i])]
  <2> HIDE DEF raw
  <2> QED  BY <1>3 DEF Rename, raw
<1> HIDE DEF approval, reads, raw, ids
<1>5. PICK i \in 1 .. 5 : renamed(raw.evidence[i]).tool = "get_approval_record"
                          /\ data = renamed(raw.evidence[i]).data
  <2>1. RequiredReads(made.event)[5][1] = "get_approval_record"  BY DEF RequiredReads
  <2>2. PICK i \in DOMAIN made.evidence : made.evidence[i].tool = "get_approval_record"
                                          /\ data = made.evidence[i].data
    BY <2>1 DEF Found, Matches
  <2> HIDE DEF renamed
  <2> QED  BY <1>4, <2>2
<1>6. renamed(raw.evidence[i]).tool = raw.evidence[i].tool  BY <1>3
<1>7. i = 5  BY <1>3, <1>5, <1>6
<1>8. data = [k \in DOMAIN approval |-> to(approval[k])]  BY <1>3, <1>5, <1>7
<1>9. /\ to("false") = "false" /\ to("1") = "1" /\ to("2") = "2"
  <2>1. \A k \in DOMAIN ids : k \in {"event_id", "subject_id", "resource", "change_id"}
    BY DEF ids, NeutralIds
  <2>2. \A k \in DOMAIN ids : raw.event[k] \notin {"false", "1", "2"}
    BY <1>3, <2>1 DEF SeedEvent
  <2> QED  BY <2>2
<1> HIDE DEF to
<1>10. /\ made.event.after_version = "2"
  BY <1>4, <1>9 DEF SeedEvent
<1>11. CASE family.mode = "unapproved"
  <2>1. data.approved = "false"  BY <1>8, <1>9, <1>11 DEF approval
  <2> QED  BY <2>1 DEF Approves
<1>12. CASE family.mode = "stale"
  <2>1. data.after_version = "1"  BY <1>8, <1>9, <1>12 DEF approval, SeedEvent
  <2> QED  BY <1>10, <2>1 DEF Approves
<1> QED  BY <1>11, <1>12

\* The base case of such a family is suspicious, of the category it was made for: generate
\* raises when the oracle does not find that category.
LEMMA BaseIsSuspicious ==
  ASSUME NEW family, family.reads = "complete", family.mode \in {"unapproved", "stale"},
         family.injection.category \in Categories,
         NEW made, made = Rename(FamilyCase(family), "A"), NEW any,
         ~Inconsistent(family, "base", Evaluate(made), any)
  PROVE  Stratum(Evaluate(made).label, family) = <<"suspicious", family.injection.category>>
<1> DEFINE result  == Evaluate(made)
           reads   == RequiredReads(made.event)
           found   == [i \in DOMAIN reads |-> Found(made.evidence, reads[i])]
           the(i)  == CHOOSE data \in found[i] : TRUE
           judged  == NewlyGranted(AtomsOf(the(2).rules), AtomsOf(the(3).rules))
           labelled == [label |-> Label(judged, Approves(the(5), made.event)), categories |-> judged]
<1>1. result # OracleError /\ family.injection.category \in result.categories
  BY NoneAssumption DEF Inconsistent, CatalogueDrift
<1>2. result \in {OracleError, Judge(made.event, made.evidence)}  BY DEF Evaluate
<1>3. Judge(made.event, made.evidence) =
        IF ~Readable(found, reads) THEN OracleError
        ELSE IF \E i \in DOMAIN reads : found[i] = {} THEN Unresolved ELSE labelled
  BY DEF Judge
<1> HIDE DEF result, found, reads, labelled
<1>4. Unresolved.categories = {}  BY DEF Unresolved
<1>5. result = labelled /\ ~ \E i \in DOMAIN reads : found[i] = {}
  BY <1>1, <1>2, <1>3, <1>4
<1>6. the(5) \in Found(made.evidence, reads[5])
  <2>1. 5 \in DOMAIN reads  BY DEF reads, RequiredReads
  <2>2. found[5] = Found(made.evidence, reads[5])  BY <2>1 DEF found
  <2> QED  BY <1>5, <2>1, <2>2
<1>7. ~Approves(the(5), made.event)  BY <1>6, NotApproved DEF reads
<1>8. judged # {}  BY <1>1, <1>5 DEF labelled
<1>9. result.label = "suspicious"
  <2> HIDE DEF judged, the
  <2> QED  BY <1>5, <1>7, <1>8 DEF labelled, Label
<1> QED  BY <1>9 DEF Stratum, result

\* What is known of the stratum of a family that was generated.
StratumKnown(f) ==
  LET injection == Families[f].injection IN
  /\ strata[f][1] = "suspicious" => strata[f][2] = injection.category
  /\ Families[f].reads = "complete" /\ Families[f].mode \in {"unapproved", "stale"}
     /\ injection.category \in Categories => strata[f] = <<"suspicious", injection.category>>

StrataInv ==
  /\ splits = None /\ ~raised =>
       /\ turn <= 73 /\ (variant > 1 => turn <= 72)
       /\ \E S : strata \in Seq(S)
       /\ Len(strata) = IF variant = 1 THEN turn - 1 ELSE turn
       /\ \A f \in 1 .. Len(strata) : StratumKnown(f)
  /\ SplitsCoverCategories

LEMMA ProduceStrata ==
  ASSUME EntriesInv, StrataInv, Produce
  PROVE  StrataInv'
<1> DEFINE names == VariantsOf(Families[turn])
           name == names[variant]
           family == Families[turn]
<1>1. /\ turn \in Nat /\ variant \in 1 .. Len(names) /\ turn <= Len(Families)
      /\ splits = None /\ splits' = None
      /\ turn <= 73 /\ Len(strata) = (IF variant = 1 THEN turn - 1 ELSE turn)
      /\ \A f \in 1 .. Len(strata) : StratumKnown(f)
  BY DEF EntriesInv, StrataInv, Produce, Generating
<1>2. SplitsCoverCategories'  BY <1>1 DEF SplitsCoverCategories
<1>3. CASE CannotVary(FamilyCase(family), name)
  BY <1>2, <1>3 DEF Produce, StrataInv
<1>4. CASE ~CannotVary(FamilyCase(family), name)
  <2> SUFFICES ASSUME ~raised' PROVE StrataInv'  BY <1>2 DEF StrataInv
  <2>1. PICK order, evidence_order :
          LET made == VariantCase(FamilyCase(family), name, order, evidence_order)
              result == Evaluate(made) IN
          /\ raised' = Inconsistent(family, name, result, base)
          /\ strata' = IF name = "base" THEN Append(strata, Stratum(result.label, family)) ELSE strata
          /\ IF variant < Len(names) THEN variant' = variant + 1 /\ UNCHANGED turn
             ELSE variant' = 1 /\ turn' = turn + 1
    BY <1>4 DEF Produce
  <2> DEFINE made == VariantCase(FamilyCase(family), name, order, evidence_order)
             stratum == Stratum(Evaluate(made).label, family)
  <2>2. Len(names) \in Nat \ {0} /\ names[1] = "base"
        /\ \A i, j \in 1 .. Len(names) : names[i] = names[j] => i = j
    BY VariantNames
  <2> HIDE DEF names
  <2>3. name = "base" <=> variant = 1  BY <1>1, <2>2
  <2>4. PICK S : strata \in Seq(S)  BY DEF StrataInv, Produce, Generating
  <2>5. Len(Families) = 72 /\ turn <= 72  BY <1>1, FamiliesOfInjections
  <2>6. turn' <= 73 /\ (variant' > 1 => turn' <= 72)
    BY <1>1, <2>1, <2>2, <2>5
  <2>7. (IF variant' = 1 THEN turn' - 1 ELSE turn') = turn
    BY <1>1, <2>1, <2>2
  <2>8. CASE variant = 1
    <3>1. name = "base" /\ Len(strata) = turn - 1  BY <1>1, <2>3, <2>8
    <3>2. made = Rename(FamilyCase(family), "A")  BY <3>1 DEF VariantCase, Notes
    <3>3. ~Inconsistent(family, "base", Evaluate(made), base)  BY <2>1, <3>1
    <3> HIDE DEF made, name
    <3>4. strata' = Append(strata, stratum)  BY <2>1, <3>1 DEF made
    <3> HIDE DEF family
    <3>5. stratum[1] = "suspicious" => stratum[2] = family.injection.category
      BY DEF Stratum
    <3>6. /\ family.reads = "complete" /\ family.mode \in {"unapproved", "stale"}
          /\ family.injection.category \in Categories
          => stratum = <<"suspicious", family.injection.category>>
      BY <3>2, <3>3, BaseIsSuspicious
    <3> HIDE DEF stratum
    <3>7. /\ Len(strata') = turn /\ strata'[turn] = stratum
          /\ \A f \in 1 .. Len(strata) : strata'[f] = strata[f]
      BY <1>1, <2>4, <3>1, <3>4
    <3>8. \E T : strata' \in Seq(T)  BY <2>4, <3>4, RangeOfAppend
    <3>9. \A f \in 1 .. Len(strata') : f = turn \/ f \in 1 .. Len(strata)
      BY <1>1, <3>1, <3>7
    <3>10. ASSUME NEW f, f = turn PROVE StratumKnown(f)'
      <4>1. Families[f] = family /\ strata'[f] = stratum  BY <3>7, <3>10 DEF family
      <4> QED  BY <3>5, <3>6, <4>1 DEF StratumKnown
    <3>11. \A f \in 1 .. Len(strata) : StratumKnown(f)'
      BY <1>1, <3>7 DEF StratumKnown
    <3>12. \A f \in 1 .. Len(strata') : StratumKnown(f)'  BY <3>9, <3>10, <3>11
    <3> QED  BY <1>1, <1>2, <2>6, <2>7, <3>7, <3>8, <3>12 DEF StrataInv
  <2>9. CASE variant # 1
    <3>1. name # "base" /\ Len(strata) = turn  BY <1>1, <2>3, <2>9
    <3>2. strata' = strata  BY <2>1, <3>1
    <3>3. \A f \in 1 .. Len(strata) : StratumKnown(f)'
      BY <1>1, <3>2 DEF StratumKnown
    <3> HIDE DEF name, family, made, stratum
    <3> QED  BY <1>1, <1>2, <2>4, <2>6, <2>7, <3>1, <3>2, <3>3 DEF StrataInv
  <2> QED  BY <2>8, <2>9
<1> QED  BY <1>3, <1>4

\* Three families of an injection and six with a read missing fit an order.
LEMMA ShortStratum ==
  ASSUME NEW i \in 1 .. 22, NEW peers, peers \subseteq (3 * i - 2 .. 3 * i) \cup 67 .. 72,
         NEW x \in peers
  PROVE  Cardinality(peers) \in 1 .. LargestList
<1> DEFINE f == 3 * i - 2  g == 3 * i  own == f .. g  missing == 67 .. 72
<1>1. f \in Int /\ g \in Int /\ ~(f > g) /\ g - f + 1 = 3  OBVIOUS
<1>2. 67 \in Int /\ 72 \in Int /\ ~(67 > 72) /\ 72 - 67 + 1 = 6  OBVIOUS
<1> HIDE DEF f, g
<1>3. IsFiniteSet(own) /\ Cardinality(own) = 3
  <2>1. IsFiniteSet(f .. g) /\ Cardinality(f .. g) = IF f > g THEN 0 ELSE g - f + 1
    BY <1>1, FS_Interval
  <2> QED  BY <1>1, <2>1
<1>4. IsFiniteSet(missing) /\ Cardinality(missing) = 6
  <2>1. IsFiniteSet(67 .. 72) /\ Cardinality(67 .. 72) = IF 67 > 72 THEN 0 ELSE 72 - 67 + 1
    BY <1>2, FS_Interval
  <2> QED  BY <1>2, <2>1
<1>5. peers \subseteq own \cup missing  BY DEF f, g
<1> HIDE DEF own, missing
<1>6. /\ IsFiniteSet(own \cup missing)
      /\ Cardinality(own \cup missing)
           = Cardinality(own) + Cardinality(missing) - Cardinality(own \cap missing)
  BY <1>3, <1>4, FS_Union
<1>7. IsFiniteSet(own \cap missing)  BY <1>3, FS_Intersection
<1>8. Cardinality(own \cap missing) \in Nat  BY <1>7, FS_CardinalityType
<1>9. Cardinality(own \cup missing) \in Nat /\ Cardinality(own \cup missing) <= 9
  <2> DEFINE all == Cardinality(own \cup missing)  both == Cardinality(own \cap missing)
  <2>1. all = 3 + 6 - both /\ both \in Nat  BY <1>3, <1>4, <1>6, <1>8
  <2>2. all \in Nat  BY <1>6, FS_CardinalityType
  <2> HIDE DEF all, both
  <2>3. all <= 9  BY <2>1, <2>2
  <2> QED  BY <2>2, <2>3 DEF all
<1>10. IsFiniteSet(peers) /\ Cardinality(peers) <= Cardinality(own \cup missing)
  BY <1>5, <1>6, FS_Subset
<1>11. Cardinality(peers) \in Nat  BY <1>10, FS_CardinalityType
<1>12. Cardinality(peers) # 0  BY <1>10, FS_EmptySet
<1> QED  BY <1>9, <1>10, <1>11, <1>12 DEF LargestList

\* The last six families are those with a read missing; an injection has no other family
\* than these and its own three, so a stratum of a category is never longer than nine.
LEMMA CategoryStratum ==
  ASSUME NEW category \in Categories, Len(strata) = 72, \A f \in 1 .. 72 : StratumKnown(f)
  PROVE  \E f, g \in 1 .. 72 :
           /\ f # g /\ strata[f] = <<"suspicious", category>>
           /\ strata[g] = <<"suspicious", category>>
           /\ Cardinality({h \in 1 .. 72 : strata[h] = <<"suspicious", category>>})
                \in 1 .. LargestList
<1>1. PICK i \in 1 .. 12 : \A j \in 1 .. 22 : INJECTIONS[j].category = category <=> i = j
  BY OneInjection
<1> DEFINE f == 3 * i - 2
           g == 3 * i
           peers == {h \in 1 .. 72 : strata[h] = <<"suspicious", category>>}
<1>2. f \in 1 .. 72 /\ g \in 1 .. 72 /\ f # g /\ i \in 1 .. 22  OBVIOUS
<1>3. INJECTIONS[i].category = category  BY <1>1, <1>2
<1>4. \A h \in {f, g} :
        /\ Families[h].injection = INJECTIONS[i] /\ Families[h].reads = "complete"
        /\ Families[h].mode \in {"unapproved", "stale"}
  <2>1. /\ Families[f] = Family(INJECTIONS[i], "unapproved", "complete")
        /\ Families[g] = Family(INJECTIONS[i], "stale", "complete")
    BY <1>2, FamiliesOfInjections
  <2> HIDE DEF f, g
  <2> QED  BY <2>1, FamilyFields
<1>5. \A h \in {f, g} : strata[h] = <<"suspicious", category>>
  <2> HIDE DEF f, g
  <2> QED  BY <1>2, <1>3, <1>4 DEF StratumKnown
<1>6. ASSUME NEW h \in peers PROVE h \in (f .. g) \cup 67 .. 72
  <2>1. Families[h].injection.category = category
    <3>1. h \in 1 .. 72 /\ strata[h] = <<"suspicious", category>> /\ StratumKnown(h)  OBVIOUS
    <3>2. strata[h][1] = "suspicious" /\ strata[h][2] = category  BY <3>1
    <3> HIDE DEF peers, f, g
    <3> QED  BY <3>1, <3>2 DEF StratumKnown
  <2>2. PICK j \in 1 .. 22 :
          Families[h].injection = INJECTIONS[j] /\ (h \in 3 * j - 2 .. 3 * j \/ h \in 67 .. 72)
    BY FamiliesOfInjections
  <2>3. i = j  BY <1>1, <2>1, <2>2
  <2> QED  BY <2>2, <2>3
<1>7. Cardinality(peers) \in 1 .. LargestList
  <2>1. peers \subseteq (f .. g) \cup 67 .. 72 /\ f \in peers  BY <1>2, <1>5, <1>6
  <2> HIDE DEF peers
  <2> QED  BY <1>2, <2>1, ShortStratum
<1> HIDE DEF peers
<1> QED  BY <1>2, <1>5, <1>7 DEF peers

\* The splits are assigned when every family has its stratum.
LEMMA AllFamilies ==
  ASSUME EntriesInv, StrataInv, AssignSplits
  PROVE  /\ turn = 73 /\ variant = 1 /\ splits = None /\ ~raised
         /\ \E S : strata \in Seq(S)
         /\ DOMAIN strata = 1 .. 72 /\ Len(strata) = 72 /\ \A f \in 1 .. 72 : StratumKnown(f)
<1>1. splits = None /\ ~raised /\ turn > Len(Families)  BY DEF AssignSplits, Generating
<1>2. /\ turn = 73 /\ variant = 1
  <2>1. turn \in Nat /\ variant \in 1 .. Len(VariantsOf(Families[turn]))
        /\ turn <= 73 /\ (variant > 1 => turn <= 72)
    BY <1>1 DEF EntriesInv, StrataInv
  <2>2. Len(VariantsOf(Families[turn])) \in Nat  BY VariantNames
  <2>3. Len(Families) = 72  BY FamiliesOfInjections
  <2>4. variant \in Nat /\ variant >= 1  BY <2>1, <2>2
  <2>5. turn = 73  BY <1>1, <2>1, <2>3
  <2> QED  BY <2>1, <2>4, <2>5
<1>3. PICK S : strata \in Seq(S)  BY <1>1 DEF StrataInv
<1>4. Len(strata) = 72 /\ \A f \in 1 .. 72 : StratumKnown(f)
  <2>1. /\ Len(strata) = IF variant = 1 THEN turn - 1 ELSE turn
        /\ \A f \in 1 .. Len(strata) : StratumKnown(f)
    BY <1>1 DEF StrataInv
  <2>2. Len(strata) = 72  BY <1>2, <2>1
  <2> QED  BY <2>1, <2>2
<1>5. DOMAIN strata = 1 .. 72  BY <1>3, <1>4
<1> QED  BY <1>1, <1>2, <1>3, <1>4, <1>5

LEMMA AssignStrata ==
  ASSUME EntriesInv, StrataInv, AssignSplits
  PROVE  StrataInv'
<1>1. UNCHANGED <<turn, variant, strata>>  BY DEF AssignSplits
<1>2. turn = 73 /\ variant = 1 /\ DOMAIN strata = 1 .. 72  BY AllFamilies
<1>3. PICK S : strata \in Seq(S)  BY AllFamilies
<1>4. Len(strata) = 72 /\ \A f \in 1 .. 72 : StratumKnown(f)  BY AllFamilies
<1>5. PICK order \in Orders, percent \in HoldoutPercents :
        splits' = SplitOf(strata, order, percent)
  BY DEF AssignSplits
<1>6. DOMAIN splits' = 1 .. 72  BY <1>2, <1>5 DEF SplitOf
<1>7. ASSUME NEW category \in Categories, NEW split \in {"dev", "holdout"}
      PROVE  \E h \in DOMAIN splits' :
               splits'[h] = split /\ strata'[h] = <<"suspicious", category>>
  <2>1. PICK f, g \in 1 .. 72 :
          /\ f # g /\ strata[f] = <<"suspicious", category>>
          /\ strata[g] = <<"suspicious", category>>
          /\ Cardinality({h \in 1 .. 72 : strata[h] = <<"suspicious", category>>})
               \in 1 .. LargestList
    BY <1>4, CategoryStratum
  <2> DEFINE peers == {h \in 1 .. 72 : strata[h] = <<"suspicious", category>>}
             size == Cardinality(peers)
  <2>2. size \in 1 .. LargestList  BY <2>1
  <2>3. Permutes(order, size)  BY <2>2, OrdersAssumption DEF Permutes
  <2>4. IsNumbered(strata)
    <3>1. 1 \in Int /\ 72 \in Int  OBVIOUS
    <3>2. IsFiniteSet(1 .. 72)  BY <3>1, FS_Interval
    <3> QED  BY <1>2, <3>2 DEF IsNumbered
  <2>5. peers = {h \in DOMAIN strata : strata[h] = strata[f]}
    BY <1>2, <2>1
  <2>6. f \in DOMAIN strata /\ \E h \in DOMAIN strata : h # f /\ strata[h] = strata[f]
    BY <1>2, <2>1
  <2>7. \A side \in {"dev", "holdout"} :
          \E h \in peers : SplitOf(strata, order, percent)[h] = side
    <3> HIDE DEF peers
    <3> QED  BY <2>3, <2>4, <2>5, <2>6, EveryStratumInBothSplits
  <2> QED  BY <1>1, <1>5, <1>6, <2>1, <2>7
<1>8. SplitsCoverCategories'  BY <1>7 DEF SplitsCoverCategories
<1>9. splits' = None /\ ~raised' =>
         /\ turn' <= 73 /\ (variant' > 1 => turn' <= 72)
         /\ \E T : strata' \in Seq(T)
         /\ Len(strata') = IF variant' = 1 THEN turn' - 1 ELSE turn'
         /\ \A f \in 1 .. Len(strata') : StratumKnown(f)'
  <2>1. \A f : StratumKnown(f)' <=> StratumKnown(f)  BY <1>1 DEF StratumKnown
  <2>2. \A f \in 1 .. Len(strata') : StratumKnown(f)'  BY <1>1, <1>4, <2>1
  <2>3. \E T : strata' \in Seq(T)  BY <1>1, <1>3
  <2> QED  BY <1>1, <1>2, <1>4, <2>2, <2>3
<1> QED  BY <1>8, <1>9 DEF StrataInv

LEMMA StrataHold == EvaluationSpec => []StrataInv
<1>1. EvalInit => StrataInv
  <2> SUFFICES ASSUME EvalInit PROVE StrataInv  OBVIOUS
  <2>1. strata = <<>> /\ turn = 1 /\ variant = 1 /\ splits = None
    BY DEF EvalInit, GenInit
  <2>2. strata \in Seq({}) /\ Len(strata) = 0  BY <2>1
  <2> QED  BY <2>1, <2>2 DEF StrataInv, SplitsCoverCategories
<1>2. EvalInv /\ StrataInv /\ [Generate \/ EvalNext]_vars => StrataInv'
  <2> SUFFICES ASSUME EvalInv, StrataInv, [Generate \/ EvalNext]_vars PROVE StrataInv'
    OBVIOUS
  <2>1. CASE Generate
    BY <2>1, ProduceStrata, AssignStrata DEF Generate, GenNext, EvalInv
  <2>2. CASE UNCHANGED genVars
    <3>1. UNCHANGED <<turn, variant, strata, splits, raised>>  BY <2>2 DEF genVars
    <3>2. \A f : StratumKnown(f)' <=> StratumKnown(f)  BY <3>1 DEF StratumKnown
    <3>3. SplitsCoverCategories'  BY <3>1 DEF StrataInv, SplitsCoverCategories
    <3> QED  BY <3>1, <3>2, <3>3 DEF StrataInv
  <2>3. Generate \/ UNCHANGED genVars
    BY DEF EvalNext, Begin, RunCase, Escape, Summarize, vars
  <2> QED  BY <2>1, <2>2, <2>3
<1> QED  BY <1>1, <1>2, EvaluationInvariant, PTL DEF EvaluationSpec

\* The set splits every escalation category on both sides, whatever fraction is held out
\* and whatever order the hashes give the families (_assign_splits): the oracle labels two
\* families of each category suspicious, and a stratum of two has one on either side.
THEOREM SplitsCoverHolds == EvaluationSpec => []SplitsCoverCategories
<1>1. StrataInv => SplitsCoverCategories  BY DEF StrataInv
<1> QED  BY <1>1, StrataHold, PTL

-----------------------------------------------------------------------------
(* The rates of a summary.                                                 *)

RateNames ==
  {"wrong_benign", "false_alarm", "abstention", "coverage", "selective_accuracy",
   "verdict_accuracy", "unresolved_kept", "adapter_or_format_failure", "policy_rejection",
   "grounding_failure", "metamorphic_violation"}

\* Whether a rate is taken over a run, and whether the run is one of its hits.
Rated(name, o) ==
  CASE name = "wrong_benign" -> o.label = "suspicious"
    [] name = "false_alarm" -> o.label = "benign"
    [] name \in {"abstention", "coverage"} -> o.label \in CONCLUSIVE
    [] name = "selective_accuracy" -> o.label \in CONCLUSIVE /\ o.outcome \in CONCLUSIVE
    [] name = "unresolved_kept" -> o.label = "unresolved"
    [] name = "metamorphic_violation" -> o.relation \in {"invariant", "monotonic"}
    [] OTHER -> TRUE

IsHit(name, violated, o) ==
  CASE name = "wrong_benign" -> o.outcome = "benign"
    [] name = "false_alarm" -> o.outcome = "suspicious"
    [] name = "abstention" -> o.outcome \notin CONCLUSIVE
    [] name = "coverage" -> o.outcome \in CONCLUSIVE
    [] name \in {"selective_accuracy", "verdict_accuracy"} -> o.outcome = o.label
    [] name = "unresolved_kept" -> o.outcome = "unresolved"
    [] name = "adapter_or_format_failure" -> o.reason \in FORMAT_FAILURES
    [] name = "policy_rejection" -> o.reason \in POLICY_REJECTIONS
    [] name = "grounding_failure" -> o.reason = "GroundingError"
    [] name = "metamorphic_violation" -> <<o.case, o.trial>> \in violated

RatedRuns(name, runs) == {o \in runs : Rated(name, o)}
Hits(name, runs, violated) == {o \in runs : Rated(name, o) /\ IsHit(name, violated, o)}

\* Each rate of a summary is taken over the runs it is about.
LEMMA RatesOf ==
  ASSUME NEW runs, NEW violated, NEW k
  PROVE  LET rates == summarize(runs, violated, k).rates IN
         /\ DOMAIN rates = RateNames
         /\ \A name \in RateNames :
              rates[name] = clustered_rate(RatedRuns(name, runs), Hits(name, runs, violated))
<1> DEFINE labelled(labels) == {o \in runs : o.label \in labels}
           varied == {o \in runs : o.relation \in {"invariant", "monotonic"}}
           sure == {o \in labelled(CONCLUSIVE) : o.outcome \in CONCLUSIVE}
           wrong == {o \in labelled({"suspicious"}) : o.outcome = "benign"}
           alarms == {o \in labelled({"benign"}) : o.outcome = "suspicious"}
           abstained == {o \in labelled(CONCLUSIVE) : ~(o.outcome \in CONCLUSIVE)}
           right == {o \in sure : o.outcome = o.label}
           accurate == {o \in runs : o.outcome = o.label}
           kept == {o \in labelled({"unresolved"}) : o.outcome = "unresolved"}
           broken == {o \in runs : o.reason \in FORMAT_FAILURES}
           rejected == {o \in runs : o.reason \in POLICY_REJECTIONS}
           ungrounded == {o \in runs : o.reason = "GroundingError"}
           violations == {o \in varied : <<o.case, o.trial>> \in violated}
           rates == summarize(runs, violated, k).rates
<1>1. rates =
        [wrong_benign |-> clustered_rate(labelled({"suspicious"}), wrong),
         false_alarm |-> clustered_rate(labelled({"benign"}), alarms),
         abstention |-> clustered_rate(labelled(CONCLUSIVE), abstained),
         coverage |-> clustered_rate(labelled(CONCLUSIVE), sure),
         selective_accuracy |-> clustered_rate(sure, right),
         verdict_accuracy |-> clustered_rate(runs, accurate),
         unresolved_kept |-> clustered_rate(labelled({"unresolved"}), kept),
         adapter_or_format_failure |-> clustered_rate(runs, broken),
         policy_rejection |-> clustered_rate(runs, rejected),
         grounding_failure |-> clustered_rate(runs, ungrounded),
         metamorphic_violation |-> clustered_rate(varied, violations)]
  BY DEF summarize
<1>2. /\ labelled({"suspicious"}) = RatedRuns("wrong_benign", runs)
      /\ wrong = Hits("wrong_benign", runs, violated)
      /\ labelled({"benign"}) = RatedRuns("false_alarm", runs)
      /\ alarms = Hits("false_alarm", runs, violated)
      /\ labelled(CONCLUSIVE) = RatedRuns("abstention", runs)
      /\ abstained = Hits("abstention", runs, violated)
      /\ labelled(CONCLUSIVE) = RatedRuns("coverage", runs)
      /\ sure = Hits("coverage", runs, violated)
  BY DEF RatedRuns, Hits, Rated, IsHit
<1>3. /\ sure = RatedRuns("selective_accuracy", runs)
      /\ right = Hits("selective_accuracy", runs, violated)
      /\ runs = RatedRuns("verdict_accuracy", runs)
      /\ accurate = Hits("verdict_accuracy", runs, violated)
      /\ labelled({"unresolved"}) = RatedRuns("unresolved_kept", runs)
      /\ kept = Hits("unresolved_kept", runs, violated)
      /\ runs = RatedRuns("adapter_or_format_failure", runs)
      /\ broken = Hits("adapter_or_format_failure", runs, violated)
  BY DEF RatedRuns, Hits, Rated, IsHit
<1>4. /\ runs = RatedRuns("policy_rejection", runs)
      /\ rejected = Hits("policy_rejection", runs, violated)
      /\ runs = RatedRuns("grounding_failure", runs)
      /\ ungrounded = Hits("grounding_failure", runs, violated)
      /\ varied = RatedRuns("metamorphic_violation", runs)
      /\ violations = Hits("metamorphic_violation", runs, violated)
  BY DEF RatedRuns, Hits, Rated, IsHit
<1> HIDE DEF labelled, varied, wrong, alarms, abstained, sure, right, accurate, kept, broken,
             rejected, ungrounded, violations, rates
<1>5. /\ DOMAIN rates = RateNames
      /\ \A name \in RateNames :
           rates[name] = clustered_rate(RatedRuns(name, runs), Hits(name, runs, violated))
  BY <1>1, <1>2, <1>3, <1>4 DEF RateNames
<1> QED  BY <1>5 DEF rates

LEMMA RateFields ==
  ASSUME NEW runs, NEW hits
  PROVE  /\ clustered_rate(runs, hits).k = Cardinality(hits)
         /\ clustered_rate(runs, hits).n = Cardinality(runs)
         /\ clustered_rate(runs, hits).clusters = Cardinality({o.family : o \in runs})
BY DEF clustered_rate

\* The parts of a finite set add up to it.
LEMMA CardinalityOfParts ==
  ASSUME NEW S, IsFiniteSet(S), NEW A, NEW B, S = A \cup B, A \cap B = {}
  PROVE  Cardinality(S) = Cardinality(A) + Cardinality(B)
<1>1. A \subseteq S /\ B \subseteq S  OBVIOUS
<1>2. IsFiniteSet(A) /\ IsFiniteSet(B)  BY <1>1, FS_Subset
<1>3. Cardinality(A \cup B) = Cardinality(A) + Cardinality(B) - Cardinality(A \cap B)
  BY <1>2, FS_Union
<1>4. Cardinality(A \cap B) = 0  BY FS_EmptySet
<1>5. Cardinality(A) \in Nat /\ Cardinality(B) \in Nat  BY <1>2, FS_CardinalityType
<1> QED  BY <1>3, <1>4, <1>5

\* The labels part the runs, and a conclusive case is covered or abstained from.
LEMMA LabelsPart ==
  ASSUME NEW runs, IsFiniteSet(runs),
         \A o \in runs : o.label \in {"suspicious", "benign", "unresolved"},
         NEW violated, NEW k
  PROVE  LET rates == summarize(runs, violated, k).rates IN
         /\ rates.wrong_benign.n + rates.false_alarm.n = rates.coverage.n
         /\ rates.coverage.k + rates.abstention.k = rates.coverage.n
         /\ rates.coverage.n + rates.unresolved_kept.n = rates.verdict_accuracy.n
         /\ rates.selective_accuracy.n = rates.coverage.k
         /\ rates.verdict_accuracy.n = Cardinality(runs)
<1> DEFINE rates == summarize(runs, violated, k).rates
           R(name) == RatedRuns(name, runs)
           H(name) == Hits(name, runs, violated)
<1>1. \A name \in RateNames :
        rates[name].n = Cardinality(R(name)) /\ rates[name].k = Cardinality(H(name))
  <2> TAKE name \in RateNames
  <2>1. rates[name] = clustered_rate(R(name), H(name))  BY RatesOf
  <2> HIDE DEF rates, R, H
  <2>2. /\ clustered_rate(R(name), H(name)).k = Cardinality(H(name))
        /\ clustered_rate(R(name), H(name)).n = Cardinality(R(name))
    BY RateFields
  <2> QED  BY <2>1, <2>2
<1>2. \A name \in RateNames : IsFiniteSet(R(name)) /\ IsFiniteSet(H(name))
  BY FS_Subset DEF RatedRuns, Hits
<1>3. {"wrong_benign", "false_alarm", "coverage", "abstention", "unresolved_kept",
       "verdict_accuracy", "selective_accuracy"} \subseteq RateNames
  BY DEF RateNames
<1>4. /\ R("coverage") = R("wrong_benign") \cup R("false_alarm")
      /\ R("wrong_benign") \cap R("false_alarm") = {}
  BY DEF RatedRuns, Rated, CONCLUSIVE
<1>5. /\ R("coverage") = H("coverage") \cup H("abstention")
      /\ H("coverage") \cap H("abstention") = {}
  BY DEF RatedRuns, Rated, Hits, IsHit
<1>6. /\ R("verdict_accuracy") = R("coverage") \cup R("unresolved_kept")
      /\ R("coverage") \cap R("unresolved_kept") = {}
  BY DEF RatedRuns, Rated, CONCLUSIVE
<1>7. R("selective_accuracy") = H("coverage")
  BY DEF RatedRuns, Rated, Hits, IsHit
<1>8. R("verdict_accuracy") = runs  BY DEF RatedRuns, Rated
<1> HIDE DEF rates, R, H
<1>9. Cardinality(R("coverage"))
        = Cardinality(R("wrong_benign")) + Cardinality(R("false_alarm"))
  BY <1>2, <1>3, <1>4, CardinalityOfParts
<1>10. Cardinality(R("coverage")) = Cardinality(H("coverage")) + Cardinality(H("abstention"))
  BY <1>2, <1>3, <1>5, CardinalityOfParts
<1>11. Cardinality(R("verdict_accuracy"))
         = Cardinality(R("coverage")) + Cardinality(R("unresolved_kept"))
  BY <1>2, <1>3, <1>6, CardinalityOfParts
<1>12. /\ rates.wrong_benign.n + rates.false_alarm.n = rates.coverage.n
       /\ rates.coverage.k + rates.abstention.k = rates.coverage.n
       /\ rates.coverage.n + rates.unresolved_kept.n = rates.verdict_accuracy.n
       /\ rates.selective_accuracy.n = rates.coverage.k
       /\ rates.verdict_accuracy.n = Cardinality(runs)
  BY <1>1, <1>3, <1>7, <1>8, <1>9, <1>10, <1>11
<1> QED  BY <1>12 DEF rates

LEMMA FamiliesAreFinite ==
  ASSUME NEW runs, IsFiniteSet(runs)
  PROVE  IsFiniteSet({o.family : o \in runs})
<1> DEFINE families == {o.family : o \in runs}
           f == [o \in runs |-> o.family]
<1>1. f \in [runs -> families] /\ \A m \in families : \E o \in runs : f[o] = m  OBVIOUS
<1> HIDE DEF f, families
<1>2. f \in Surjection(runs, families)  BY <1>1 DEF Surjection
<1>3. IsFiniteSet(families)  BY <1>2, FS_Surjection
<1> QED  BY <1>3 DEF families

\* Runs of a family are all in one split, so the two splits add up to the whole, in runs,
\* in hits and in families.
LEMMA SplitsAddUp ==
  ASSUME NEW runs, IsFiniteSet(runs), \A o \in runs : o.split \in {"dev", "holdout"},
         \A o, r \in runs : o.family = r.family => o.split = r.split,
         NEW violated, NEW k
  PROVE  LET rates(s) == summarize(InSplit(runs, s), violated, k).rates IN
         /\ DOMAIN rates("all") = RateNames
         /\ \A name \in RateNames, count \in {"k", "n", "clusters"} :
              rates("all")[name][count]
                = rates("dev")[name][count] + rates("holdout")[name][count]
<1> DEFINE rates(s) == summarize(InSplit(runs, s), violated, k).rates
           R(s, name) == RatedRuns(name, InSplit(runs, s))
           H(s, name) == Hits(name, InSplit(runs, s), violated)
           F(s, name) == {o.family : o \in R(s, name)}
<1>1. \A s : DOMAIN rates(s) = RateNames  BY RatesOf
<1>2. ASSUME NEW name \in RateNames
      PROVE  \A s : /\ rates(s)[name].k = Cardinality(H(s, name))
                    /\ rates(s)[name].n = Cardinality(R(s, name))
                    /\ rates(s)[name].clusters = Cardinality(F(s, name))
  <2>1. \A s : rates(s)[name] = clustered_rate(R(s, name), H(s, name))  BY RatesOf
  <2> HIDE DEF rates, R, H
  <2> QED  BY <2>1, RateFields
<1>3. InSplit(runs, "all") = runs  BY DEF InSplit
<1>4. ASSUME NEW name \in RateNames
      PROVE  /\ R("all", name) = R("dev", name) \cup R("holdout", name)
             /\ R("dev", name) \cap R("holdout", name) = {}
             /\ H("all", name) = H("dev", name) \cup H("holdout", name)
             /\ H("dev", name) \cap H("holdout", name) = {}
             /\ F("all", name) = F("dev", name) \cup F("holdout", name)
             /\ F("dev", name) \cap F("holdout", name) = {}
             /\ IsFiniteSet(R("all", name)) /\ IsFiniteSet(H("all", name))
             /\ IsFiniteSet(F("all", name))
  <2>1. /\ \A s, o : o \in InSplit(runs, s) <=> o \in runs /\ s \in {"all", o.split}
    BY DEF InSplit
  <2>2. \A o \in runs : /\ o.split \in {"dev", "holdout"}
                        /\ o \in InSplit(runs, "dev") <=> o.split = "dev"
                        /\ o \in InSplit(runs, "holdout") <=> o.split = "holdout"
    BY <2>1
  <2>3. \A s, o : /\ o \in R(s, name) <=> o \in InSplit(runs, s) /\ Rated(name, o)
                  /\ o \in H(s, name) <=> /\ o \in InSplit(runs, s) /\ Rated(name, o)
                                          /\ IsHit(name, violated, o)
    BY DEF RatedRuns, Hits
  <2>4. \A s, f : f \in F(s, name) <=> \E o \in R(s, name) : f = o.family  OBVIOUS
  <2>5. InSplit(runs, "dev") \subseteq runs /\ InSplit(runs, "holdout") \subseteq runs
    BY DEF InSplit
  <2> HIDE DEF R, H, F
  <2>6. /\ R("all", name) = R("dev", name) \cup R("holdout", name)
        /\ R("dev", name) \cap R("holdout", name) = {}
        /\ H("all", name) = H("dev", name) \cup H("holdout", name)
        /\ H("dev", name) \cap H("holdout", name) = {}
    BY <1>3, <2>2, <2>3, <2>5
  <2>7. F("all", name) = F("dev", name) \cup F("holdout", name)  BY <2>4, <2>6
  <2>8. F("dev", name) \cap F("holdout", name) = {}
    BY <2>2, <2>3, <2>4, <2>5
  <2>9. R("all", name) \subseteq runs /\ H("all", name) \subseteq runs  BY <1>3, <2>3
  <2>10. IsFiniteSet(R("all", name)) /\ IsFiniteSet(H("all", name))  BY <2>9, FS_Subset
  <2>11. IsFiniteSet(F("all", name))
    <3> QED  BY <2>10, FamiliesAreFinite DEF F
  <2> QED  BY <2>6, <2>7, <2>8, <2>10, <2>11
<1> HIDE DEF rates, R, H, F
<1>5. ASSUME NEW name \in RateNames
      PROVE  /\ rates("all")[name].k = rates("dev")[name].k + rates("holdout")[name].k
             /\ rates("all")[name].n = rates("dev")[name].n + rates("holdout")[name].n
             /\ rates("all")[name].clusters
                  = rates("dev")[name].clusters + rates("holdout")[name].clusters
  BY <1>2, <1>4, CardinalityOfParts
<1> QED  BY <1>1, <1>5 DEF rates

-----------------------------------------------------------------------------
(* No run is lost or counted twice.                                        *)

IdOf(e) == <<e.family, e.variant>>
Chosen == InFamilies(entries, call.families)

\* The entries are of different cases, and those of a family in one split.
ListInv ==
  /\ turn >= 1
  /\ \A i \in DOMAIN entries : entries[i].family >= 1
  /\ \A i, j \in DOMAIN entries : SameCase(entries[i], entries[j]) => i = j
  /\ splits # None =>
       \A e \in Range(entries) : e.split = splits[e.family] /\ e.split \in {"dev", "holdout"}

LEMMA ProduceList ==
  ASSUME EntriesInv, ListInv, Produce
  PROVE  ListInv'
<1>1. PICK S : entries \in Seq(S)  BY DEF EntriesInv
<1>2. turn \in Nat /\ splits' = splits /\ splits = None
  BY DEF EntriesInv, Produce, Generating
<1>3. turn' \in {turn, turn + 1}  BY DEF Produce
<1>4. CASE entries' = entries  BY <1>2, <1>3, <1>4 DEF ListInv
<1>5. CASE entries' # entries
  <2>1. PICK new : /\ entries' = Append(entries, new) /\ new.family = turn
                   /\ new.variant = VariantsOf(Families[turn])[variant]
    <3> DEFINE name == VariantsOf(Families[turn])[variant]
    <3>1. PICK made : entries' = Append(entries,
              [family |-> turn, variant |-> name, case |-> made, oracle |-> Evaluate(made),
               relation |-> Relation(name), split |-> None])
      BY <1>5 DEF Produce
    <3> HIDE DEF name
    <3> DEFINE entry == [family |-> turn, variant |-> name, case |-> made,
                         oracle |-> Evaluate(made),
                         relation |-> Relation(name), split |-> None]
    <3>2. entry.family = turn /\ entry.variant = name  OBVIOUS
    <3> HIDE DEF entry
    <3>3. entries' = Append(entries, entry)  BY <3>1 DEF entry
    <3> QED  BY <3>2, <3>3 DEF name
  <2>2. \A e \in Range(entries) : ~SameCase(e, new)  BY <2>1, NewCase
  <2>3. /\ DOMAIN entries' = DOMAIN entries \cup {Len(entries) + 1}
        /\ entries'[Len(entries) + 1] = new
        /\ \A i \in DOMAIN entries : entries'[i] = entries[i] /\ entries[i] \in Range(entries)
    <3>1. entries \in Seq(S \cup {new})  BY <1>1
    <3> QED  BY <2>1, <3>1 DEF Range
  <2>4. \A i, j \in DOMAIN entries' : SameCase(entries'[i], entries'[j]) => i = j
    <3>1. \A e, b : SameCase(e, b) => SameCase(b, e)  BY DEF SameCase
    <3> QED  BY <2>2, <2>3, <3>1 DEF ListInv
  <2>5. \A i \in DOMAIN entries' : entries'[i].family >= 1
    BY <2>1, <2>3 DEF ListInv
  <2> QED  BY <1>2, <1>3, <2>4, <2>5 DEF ListInv
<1> QED  BY <1>4, <1>5

LEMMA AssignList ==
  ASSUME EntriesInv, StrataInv, ListInv, AssignSplits
  PROVE  ListInv'
<1>1. /\ UNCHANGED <<turn, variant, strata>>
      /\ entries' =
           [i \in DOMAIN entries |-> [entries[i] EXCEPT !.split = splits'[entries[i].family]]]
  BY DEF AssignSplits
<1>2. turn = 73 /\ variant = 1 /\ DOMAIN strata = 1 .. 72  BY AllFamilies
<1>3. \A f \in 1 .. 72 : splits'[f] \in {"dev", "holdout"}
  BY <1>2 DEF AssignSplits, SplitOf
<1>4. ASSUME NEW i \in DOMAIN entries
      PROVE  /\ entries'[i].family = entries[i].family
             /\ entries'[i].variant = entries[i].variant
             /\ entries'[i].split = splits'[entries[i].family] /\ entries[i].family \in 1 .. 72
  <2>1. IsEntry(entries[i]) /\ Earlier(entries[i]) /\ entries[i].family >= 1
    BY DEF EntriesInv, ListInv, Range
  <2>2. PICK j \in 1 .. Len(VariantsOf(Families[entries[i].family])) :
          entries[i].family < turn \/ (entries[i].family = turn /\ j < variant)
    BY <2>1 DEF Earlier
  <2>3. entries[i].family \in Nat /\ Len(VariantsOf(Families[entries[i].family])) \in Nat
    BY <2>1, VariantNames DEF Earlier
  <2>4. entries[i].family < 73
    <3>1. variant = 1 /\ j \in Nat /\ j >= 1 /\ turn = 73  BY <1>2, <2>3
    <3> QED  BY <2>2, <2>3, <3>1
  <2>5. entries[i].family \in 1 .. 72
    <3>1. entries[i].family >= 1 /\ entries[i].family \in Nat  BY <2>1, <2>3
    <3>2. \A f \in Nat : f >= 1 /\ f < 73 => f \in 1 .. 72  OBVIOUS
    <3> QED  BY <2>4, <3>1, <3>2
  <2> DEFINE e == entries[i]
             marked == [e EXCEPT !.split = splits'[e.family]]
  <2>6. /\ marked.family = e.family /\ marked.variant = e.variant
        /\ marked.split = splits'[e.family]
    BY <2>1 DEF IsEntry
  <2>7. entries'[i] = marked  BY <1>1
  <2> HIDE DEF marked
  <2> QED  BY <2>5, <2>6, <2>7
<1>5. DOMAIN entries' = DOMAIN entries  BY <1>1
<1>6. \A i, j \in DOMAIN entries' : SameCase(entries'[i], entries'[j]) => i = j
  BY <1>4, <1>5 DEF SameCase, ListInv
<1>7. \A e \in Range(entries') : e.split = splits'[e.family] /\ e.split \in {"dev", "holdout"}
  BY <1>3, <1>4, <1>5 DEF Range
<1> QED  BY <1>1, <1>4, <1>5, <1>6, <1>7 DEF ListInv

\* A run is of one of the k trials.
Accounted(o) == o.trial \in 1 .. call.k /\ o.family = o.case[1]

SameRun(o, r) == o.provider = r.provider /\ o.trial = r.trial /\ o.case = r.case

\* The run comes before the position.
Past(o) ==
  \E i \in ChosenNow : /\ o.case = IdOf(entries[i])
                       /\ o.trial < at[2] \/ (o.trial = at[2] /\ i < at[3])

\* A provider that is reported has every run, and its summaries are of them.
Row(i) ==
  /\ call.k \in Nat
  /\ report[i].splits =
       [s \in SPLITS |-> summarize(InSplit(RunsOf(report[i]), s), report[i].violated, call.k)]
  /\ \A t \in 1 .. call.k, j \in ChosenNow : Made(i, t, entries[j])

CountInv ==
  /\ ListInv
  /\ \A o \in observations : Accounted(o)
  /\ \A o, r \in observations : SameRun(o, r) => o = r
  /\ phase = "running" => \A o \in observations : o.provider = Provider.name => Past(o)
  /\ \A i \in 1 .. Len(report) : Row(i)

LEMMA AfterIsLater ==
  ASSUME EvalInv, phase = "running"
  PROVE  \/ After(at)[2] = at[2] /\ at[3] < After(at)[3]
         \/ After(at)[2] = at[2] + 1
<1> DEFINE later == ChosenFrom(snapshot, call.families, at[3] + 1)
           least == Min(later)
<1>1. snapshot = entries /\ at \in Nat \X Nat \X Nat  BY DEF EvalInv, RunningInv
<1>2. PICK S : entries \in Seq(S)  BY DEF EvalInv, EntriesInv
<1>3. later \in SUBSET Nat /\ \A i \in later : i > at[3]  BY <1>1, <1>2 DEF ChosenFrom
<1>4. After(at) = IF later # {} THEN <<at[1], at[2], least>> ELSE <<at[1], at[2] + 1, First>>
  BY DEF After
<1> HIDE DEF later
<1>5. CASE later # {}
  <2>1. least \in later  BY <1>3, <1>5, LeastElement
  <2>2. least > at[3]  BY <1>3, <2>1
  <2>3. After(at) = <<at[1], at[2], least>>  BY <1>4, <1>5
  <2>4. least \in Nat /\ at[3] \in Nat  BY <1>1, <1>3, <2>1
  <2> HIDE DEF least
  <2>5. at[3] < least  BY <2>2, <2>4
  <2>6. After(at)[2] = at[2] /\ After(at)[3] = least  BY <2>3
  <2> QED  BY <2>5, <2>6
<1>6. CASE later = {}
  <2>1. After(at) = <<at[1], at[2] + 1, First>>  BY <1>4, <1>6
  <2> QED  BY <2>1
<1> QED  BY <1>5, <1>6

\* What is counted of a reported provider stands while another one runs.
LEMMA RowsStand ==
  ASSUME EvalInv, CountInv, phase = "running", UNCHANGED <<call, report, genVars>>,
         observations \subseteq observations',
         \A o \in observations' \ observations : o.provider = Provider.name,
         NEW i \in 1 .. Len(report)
  PROVE  Row(i)'
<1>1. Row(i)  BY DEF CountInv
<1>2. RunsOf(report[i])' = RunsOf(report[i])  BY RunsStand
<1>3. entries' = entries  BY DEF genVars
<1>4. ChosenNow' = ChosenNow  BY <1>3 DEF ChosenNow
<1>5. \A t, e : Made(i, t, e) => Made(i, t, e)'  BY DEF Made
<1>6. \A t \in 1 .. call.k, j \in ChosenNow' : Made(i, t, entries[j])'
  BY <1>1, <1>3, <1>4, <1>5 DEF Row
<1> QED  BY <1>1, <1>2, <1>6 DEF Row

LEMMA CountGenerate ==
  ASSUME EvalInv, StrataInv, CountInv, Generate
  PROVE  CountInv'
<1>1. splits = None /\ UNCHANGED evalVars /\ GenNext
  BY DEF Generate, GenNext, Produce, AssignSplits, Generating
<1>2. phase = "idle" /\ observations = {} /\ report = <<>>  BY <1>1 DEF EvalInv
<1>3. UNCHANGED <<phase, observations, report>>  BY <1>1 DEF evalVars
<1>4. ListInv'
  BY <1>1, ProduceList, AssignList DEF EvalInv, CountInv, GenNext
<1>5. Len(report') = 0  BY <1>2, <1>3
<1> QED  BY <1>2, <1>3, <1>4, <1>5 DEF CountInv

LEMMA ListStands ==
  ASSUME ListInv, UNCHANGED genVars
  PROVE  ListInv'
BY DEF genVars, ListInv

LEMMA CountBegin ==
  ASSUME EvalInv, CountInv, Begin
  PROVE  CountInv'
<1>1. phase = "idle" /\ UNCHANGED genVars /\ UNCHANGED <<observations, report>>
  BY DEF Begin
<1>2. observations = {} /\ report = <<>>  BY <1>1 DEF EvalInv
<1>3. ListInv'  BY <1>1, ListStands DEF CountInv
<1>4. Len(report') = 0  BY <1>1, <1>2
<1> QED  BY <1>1, <1>2, <1>3, <1>4 DEF CountInv

LEMMA CountEscape ==
  ASSUME EvalInv, CountInv, Escape
  PROVE  CountInv'
<1>1. /\ phase = "running" /\ phase' = "escaped" /\ UNCHANGED genVars
      /\ UNCHANGED <<given, snapshot, call, at, observations, report>>
  BY DEF Escape
<1>2. ListInv'  BY <1>1, ListStands DEF CountInv
<1>3. \A i \in 1 .. Len(report) : Row(i)'  BY <1>1, RowsStand
<1>4. \A o \in observations' : Accounted(o)'  BY <1>1 DEF CountInv, Accounted
<1> QED  BY <1>1, <1>2, <1>3, <1>4 DEF CountInv

LEMMA CountRunCase ==
  ASSUME EvalInv, CountInv, RunCase
  PROVE  CountInv'
<1>0. PICK model \in Provider.models[at[2]] : RunModel(model, StoredEntry(at[3]))
  BY DEF RunCase
<1> DEFINE entry == entries[at[3]]
           allowed == /\ TransportAllowed(Provider.mode, model)
                      /\ model.provenance \in MODE_MODEL_PROVIDERS[Provider.mode]
                      /\ Evaluate(entry.case).label = entry.oracle.label
<1>1. /\ phase = "running" /\ UNCHANGED <<genVars, snapshot, call, report>>
      /\ snapshot = entries /\ at[2] <= call.k
  BY DEF RunCase, EvalInv, RunningInv
<1>2. entries' = entries /\ ListInv'
  BY <1>1, ListStands DEF CountInv, genVars
<1>3. StoredEntry(at[3]) = entry  BY <1>1 DEF StoredEntry
<1>7. RunModel(model, entry)  BY <1>0, <1>3
<1>4. CASE allowed
  <2>1. PICK result \in Results(model, entry, at[2]) :
          observations' = observations \cup {Observation(Provider, model, entry, at[2], result)}
    BY <1>4, <1>7 DEF RunModel
  <2>2. at' = After(at) /\ phase' = phase  BY <1>4, <1>7 DEF RunModel
  <2> DEFINE o == Observation(Provider, model, entry, at[2], result)
  <2>3. /\ o.provider = Provider.name /\ o.trial = at[2] /\ o.case = IdOf(entry)
        /\ o.family = entry.family
    BY DEF Observation, IdOf
  <2> HIDE DEF o, entry, allowed
  <2>4. observations' = observations \cup {o}  BY <2>1 DEF o
  <2>5. /\ at[2] \in Nat /\ at[2] >= 1 /\ at[3] \in ChosenNow /\ call.k \in Int
        /\ ChosenNow \subseteq DOMAIN entries /\ ChosenNow \subseteq Nat
    <3>1. PICK S : entries \in Seq(S)  BY DEF EvalInv, EntriesInv
    <3>2. ChosenNow \subseteq DOMAIN entries /\ ChosenNow \subseteq Nat
      BY <3>1 DEF ChosenNow, ChosenFrom
    <3> QED  BY <1>1, <3>2 DEF EvalInv, RunningInv
  <2>6. Accounted(o)  BY <1>1, <2>3, <2>5 DEF Accounted, IdOf
  <2>7. ASSUME NEW r \in observations PROVE ~SameRun(o, r)
    <3> SUFFICES ASSUME SameRun(o, r) PROVE FALSE  OBVIOUS
    <3>1. r.provider = Provider.name /\ r.trial = at[2] /\ r.case = IdOf(entry)
      BY <2>3 DEF SameRun
    <3>2. PICK i \in ChosenNow : /\ r.case = IdOf(entries[i])
                                 /\ r.trial < at[2] \/ (r.trial = at[2] /\ i < at[3])
      BY <1>1, <3>1 DEF CountInv, Past
    <3>3. i < at[3]  BY <2>5, <3>1, <3>2
    <3>4. SameCase(entries[i], entries[at[3]])  BY <3>1, <3>2 DEF SameCase, IdOf, entry
    <3>5. i = at[3]  BY <2>5, <3>4 DEF CountInv, ListInv
    <3> QED  BY <2>5, <3>3, <3>5
  <2>8. \A r, s \in observations' : SameRun(r, s) => r = s
    <3>1. \A r, s : SameRun(r, s) => SameRun(s, r)  BY DEF SameRun
    <3> QED  BY <2>4, <2>7, <3>1 DEF CountInv
  <2>9. /\ at' \in Nat \X Nat \X Nat /\ at'[1] = at[1]
        /\ \/ at'[2] = at[2] /\ at[3] < at'[3]
           \/ at'[2] = at[2] + 1
    BY <1>1, <2>2, AfterIsNext, AfterIsLater
  <2>10. ChosenNow' = ChosenNow /\ Provider' = Provider
    BY <1>1, <1>2, <2>9 DEF ChosenNow, Provider
  <2>11. ASSUME NEW r \in observations', r.provider = Provider'.name PROVE Past(r)'
    <3>1. CASE r = o
      <4>1. o.trial < at'[2] \/ (o.trial = at'[2] /\ at[3] < at'[3])  BY <2>3, <2>5, <2>9
      <4> QED  BY <1>2, <2>3, <2>5, <2>10, <3>1, <4>1 DEF Past, entry
    <3>2. CASE r \in observations
      <4>1. PICK i \in ChosenNow : /\ r.case = IdOf(entries[i])
                                   /\ r.trial < at[2] \/ (r.trial = at[2] /\ i < at[3])
        BY <1>1, <2>10, <2>11, <3>2 DEF CountInv, Past
      <4>2. r.trial \in Int  BY <3>2 DEF CountInv, Accounted
      <4>3. at[3] \in Nat /\ at'[3] \in Nat /\ i \in Nat  BY <2>5, <2>9, <4>1
      <4>4. r.trial < at'[2] \/ (r.trial = at'[2] /\ i < at'[3])
        BY <2>5, <2>9, <4>1, <4>2, <4>3
      <4> QED  BY <1>2, <2>10, <4>1, <4>4 DEF Past
    <3> QED  BY <2>4, <3>1, <3>2
  <2>12. \A i \in 1 .. Len(report) : Row(i)'
    <3>1. \A r \in observations' \ observations : r.provider = Provider.name  BY <2>3, <2>4
    <3>2. observations \subseteq observations'  BY <2>4
    <3> QED  BY <1>1, <3>1, <3>2, RowsStand
  <2>13. \A r \in observations' : Accounted(r)'
    BY <1>1, <2>4, <2>6 DEF CountInv, Accounted
  <2> QED  BY <1>1, <1>2, <2>8, <2>11, <2>12, <2>13 DEF CountInv
<1>5. CASE ~allowed
  <2>1. phase' = "refused" /\ UNCHANGED <<at, observations>>
    BY <1>5, <1>7 DEF RunModel
  <2> HIDE DEF allowed
  <2>2. \A i \in 1 .. Len(report) : Row(i)'  BY <1>1, <2>1, RowsStand
  <2>3. \A o \in observations' : Accounted(o)'  BY <1>1, <2>1 DEF CountInv, Accounted
  <2> QED  BY <1>1, <1>2, <2>1, <2>2, <2>3 DEF CountInv
<1> QED  BY <1>4, <1>5

LEMMA CountSummarize ==
  ASSUME EvalInv, CountInv, Summarize
  PROVE  CountInv'
<1> DEFINE runs == {o \in observations : o.provider = Provider.name}
           violated == Violated(runs)
           row == [provider |-> Provider.name, violated |-> violated,
                   splits |-> [s \in SPLITS |-> summarize(InSplit(runs, s), violated, call.k)]]
<1>1. /\ phase = "running" /\ at[2] > call.k
      /\ UNCHANGED <<genVars, given, snapshot, call, observations>>
  BY DEF Summarize
<1>2. entries' = entries /\ ListInv'  BY <1>1, ListStands DEF CountInv, genVars
<1>3. /\ RunningInv /\ at \in Nat \X Nat \X Nat /\ at[1] >= 1 /\ ReportInv
  BY <1>1 DEF EvalInv
<1>4. \A o \in observations' : Accounted(o)'  BY <1>1 DEF CountInv, Accounted
<1>5. \A o, r \in observations' : SameRun(o, r) => o = r  BY <1>1 DEF CountInv
<1>6. CASE ~OneProvenance(runs)
  <2>1. phase' = "refused" /\ UNCHANGED <<report, at>>  BY <1>6 DEF Summarize
  <2>2. \A i \in 1 .. Len(report) : Row(i)'  BY <1>1, <2>1, RowsStand
  <2> QED  BY <1>2, <1>4, <1>5, <2>1, <2>2 DEF CountInv
<1>7. CASE OneProvenance(runs)
  <2>1. report' = Append(report, row) /\ at' = <<at[1] + 1, 1, First>>
    BY <1>7 DEF Summarize
  <2>2. /\ row.provider = Provider.name /\ row.violated = violated
        /\ row.splits = [s \in SPLITS |-> summarize(InSplit(runs, s), violated, call.k)]
    OBVIOUS
  <2> HIDE DEF row
  <2>3. PICK T : report \in Seq(T)  BY <1>3 DEF ReportInv
  <2>4. PICK a \in Nat : /\ a = at[1] /\ a >= 1 /\ a <= Len(call.providers)
                         /\ Len(report) = a - 1 /\ Len(call.providers) \in Nat
    BY <1>3 DEF RunningInv, ReportInv
  <2>5. /\ Len(report') = a /\ report'[a] = row
        /\ \A i \in 1 .. Len(report) : report'[i] = report[i]
    <3>1. report \in Seq(T \cup {row})  BY <2>3
    <3>2. /\ Len(report') = Len(report) + 1 /\ report'[Len(report) + 1] = row
          /\ \A i \in 1 .. Len(report) : report'[i] = report[i]
      BY <2>1, <3>1
    <3> QED  BY <2>4, <3>2
  <2>6. /\ ChosenNow' = ChosenNow /\ \A r : RunsOf(r)' = RunsOf(r)
        /\ \A p, t, e : Made(p, t, e) => Made(p, t, e)'
    BY <1>1, <1>2 DEF ChosenNow, RunsOf, Made
  <2>7. ASSUME NEW i \in 1 .. Len(report) PROVE Row(i)'
    <3>1. Row(i) /\ report'[i] = report[i]  BY <2>5 DEF CountInv
    <3>2. RunsOf(report[i])' = RunsOf(report[i])  BY <1>1, <3>1 DEF RunsOf
    <3>3. \A t \in 1 .. call.k, j \in ChosenNow' : Made(i, t, entries[j])'
      BY <1>2, <2>6, <3>1 DEF Row
    <3> QED  BY <1>1, <3>1, <3>2, <3>3 DEF Row
  <2>8. Row(a)'
    <3>1. RunsOf(report[a])' = runs
      <4>1. report'[a].provider = Provider.name  BY <2>2, <2>5
      <4> QED  BY <1>1, <4>1 DEF RunsOf
    <3>2. call.k \in Nat
      BY <1>3 DEF RunningInv, RequestOk
    <3>3. ASSUME NEW t \in 1 .. call.k, NEW j \in ChosenNow PROVE Made(a, t, entries[j])'
      <4>1. t \in Nat \ {0} /\ t < at[2]  BY <1>1, <1>3, <3>2
      <4>2. Made(at[1], t, entries[j])  BY <1>3, <4>1 DEF RunningInv
      <4> QED  BY <1>2, <2>4, <2>6, <4>2
    <3>4. \A t \in 1 .. call'.k, j \in ChosenNow' : Made(a, t, entries[j])'
      BY <1>1, <2>6, <3>3
    <3>5. report'[a].splits = [s \in SPLITS |-> summarize(InSplit(runs, s), violated, call.k)]
          /\ report'[a].violated = violated
      BY <2>2, <2>5
    <3> HIDE DEF runs, violated
    <3> QED  BY <1>1, <3>1, <3>2, <3>4, <3>5 DEF Row
  <2>9. ASSUME phase' = "running", NEW o \in observations PROVE o.provider # Provider'.name
    <3>1. a # Len(call.providers) /\ at'[1] = a + 1
      BY <1>7, <2>1, <2>4, <2>9 DEF Summarize
    <3>2. PICK p \in 1 .. a : p <= Len(call.providers) /\ o.provider = call.providers[p].name
      <4>1. GoodRun(o)  BY DEF EvalInv
      <4> QED  BY <2>4, <4>1 DEF GoodRun
    <3>3. \A i, j \in 1 .. Len(call.providers) :
            call.providers[i].name = call.providers[j].name => i = j
      BY <1>3 DEF RunningInv, RequestOk, Position
    <3>4. p \in 1 .. Len(call.providers) /\ a + 1 \in 1 .. Len(call.providers) /\ p # a + 1
      BY <2>4, <3>1, <3>2
    <3>5. call.providers[p].name # call.providers[a + 1].name  BY <3>3, <3>4
    <3> QED  BY <1>1, <3>1, <3>2, <3>5 DEF Provider
  <2>10. \A i \in 1 .. Len(report') : Row(i)'
    <3>1. \A i \in 1 .. a : i \in 1 .. Len(report) \/ i = a  BY <2>4
    <3> QED  BY <2>5, <2>7, <2>8, <3>1
  <2> QED  BY <1>1, <1>2, <1>4, <1>5, <2>9, <2>10 DEF CountInv
<1> QED  BY <1>6, <1>7

LEMMA CountStutter ==
  ASSUME EvalInv, CountInv, UNCHANGED vars
  PROVE  CountInv'
<1>1. UNCHANGED genVars /\ UNCHANGED <<phase, given, snapshot, call, at, observations, report>>
  BY DEF vars, evalVars
<1>2. ListInv'  BY <1>1, ListStands DEF CountInv
<1>3. entries' = entries  BY <1>1 DEF genVars
<1>4. ChosenNow' = ChosenNow /\ Provider' = Provider  BY <1>1, <1>3 DEF ChosenNow, Provider
<1>5. \A o : Accounted(o)' <=> Accounted(o)  BY <1>1 DEF Accounted
<1>6. \A o : Past(o)' <=> Past(o)  BY <1>1, <1>3, <1>4 DEF Past
<1>7. \A i : Row(i)' <=> Row(i)
  <2>1. \A r : RunsOf(r)' = RunsOf(r)  BY <1>1 DEF RunsOf
  <2>2. \A p, t, e : Made(p, t, e)' <=> Made(p, t, e)  BY <1>1 DEF Made
  <2> QED  BY <1>1, <1>3, <1>4, <2>1, <2>2 DEF Row
<1> QED  BY <1>1, <1>2, <1>4, <1>5, <1>6, <1>7 DEF CountInv

\* A provider that is reported has k runs of every chosen case.
LEMMA RunsCount ==
  ASSUME EvalInv, CountInv, NEW i \in 1 .. Len(report)
  PROVE  Cardinality(RunsOf(report[i])) = call.k * Cardinality(Chosen)
<1> DEFINE runs == RunsOf(report[i])
           isRun(o, x) == o.trial = x[1] /\ o.case = IdOf(x[2])
           f == [x \in (1 .. call.k) \X Chosen |-> CHOOSE o \in runs : isRun(o, x)]
<1>1. PICK S : entries \in Seq(S)  BY DEF EvalInv, EntriesInv
<1>2. Row(i) /\ call.k \in Nat  BY DEF CountInv, Row
<1>3. report[i].provider = call.providers[i].name  BY DEF EvalInv, ReportInv
<1>4. runs \subseteq observations /\ IsFiniteSet(runs)
  <2>1. runs \subseteq observations  BY DEF RunsOf
  <2> QED  BY <2>1, FS_Subset DEF EvalInv
<1>5. ASSUME NEW t \in 1 .. call.k, NEW e \in Chosen
      PROVE  \E o \in runs : isRun(o, <<t, e>>)
  <2>1. PICK j \in DOMAIN entries : entries[j] = e /\ e.family \in call.families
    BY DEF Chosen, InFamilies, Range
  <2>2. j \in ChosenNow  BY <1>1, <2>1 DEF ChosenNow, ChosenFrom
  <2>3. Made(i, t, e)  BY <1>2, <2>1, <2>2 DEF Row
  <2> QED  BY <1>3, <2>3 DEF Made, RunsOf, IdOf
<1>6. ASSUME NEW o \in runs
      PROVE  \E t \in 1 .. call.k, e \in Chosen : isRun(o, <<t, e>>)
  <2>1. GoodRun(o) /\ Accounted(o)  BY <1>4 DEF EvalInv, CountInv
  <2>2. PICK e \in Range(entries) : o.case = IdOf(e) /\ e.family \in call.families
    BY <2>1 DEF GoodRun, IdOf
  <2>3. e \in Chosen  BY <2>2 DEF Chosen, InFamilies
  <2> QED  BY <2>1, <2>2, <2>3 DEF Accounted
<1>7. \A o, r \in runs : \A x : isRun(o, x) /\ isRun(r, x) => o = r
  BY <1>4 DEF CountInv, SameRun, RunsOf
<1>8. \A x, y \in (1 .. call.k) \X Chosen : \A o : isRun(o, x) /\ isRun(o, y) => x = y
  <2>1. \A e, b \in Chosen : IdOf(e) = IdOf(b) => e = b
    BY DEF Chosen, InFamilies, IdOf, EvalInv, EntriesInv, SameCase
  <2> DEFINE D == 1 .. call.k
  <2> TAKE x, y \in D \X Chosen
  <2> TAKE o
  <2> HAVE isRun(o, x) /\ isRun(o, y)
  <2>2. x = <<x[1], x[2]>> /\ y = <<y[1], y[2]>> /\ x[2] \in Chosen /\ y[2] \in Chosen
    <3> HIDE DEF D, isRun, runs
    <3> QED  OBVIOUS
  <2>3. x[1] = y[1] /\ IdOf(x[2]) = IdOf(y[2])  OBVIOUS
  <2>4. x[2] = y[2]  BY <2>1, <2>2, <2>3
  <2> QED  BY <2>2, <2>3, <2>4
<1> HIDE DEF isRun, runs
<1>9. \A x \in (1 .. call.k) \X Chosen : f[x] \in runs /\ isRun(f[x], x)
  <2> TAKE x \in (1 .. call.k) \X Chosen
  <2>1. PICK t \in 1 .. call.k, e \in Chosen : x = <<t, e>>  OBVIOUS
  <2>2. \E o \in runs : isRun(o, x)  BY <1>5, <2>1
  <2> QED  BY <2>2
<1>10. f \in Bijection((1 .. call.k) \X Chosen, runs)
  <2>1. f \in [(1 .. call.k) \X Chosen -> runs]  BY <1>9
  <2>2. \A o \in runs : \E x \in (1 .. call.k) \X Chosen : f[x] = o
    <3> TAKE o \in runs
    <3>1. PICK t \in 1 .. call.k, e \in Chosen : isRun(o, <<t, e>>)  BY <1>6
    <3>2. <<t, e>> \in (1 .. call.k) \X Chosen  OBVIOUS
    <3>3. f[<<t, e>>] \in runs /\ isRun(f[<<t, e>>], <<t, e>>)  BY <1>9, <3>2
    <3>4. f[<<t, e>>] = o  BY <1>7, <3>1, <3>3
    <3> QED  BY <3>2, <3>4
  <2>3. \A x, y \in (1 .. call.k) \X Chosen : f[x] = f[y] => x = y
    <3> HIDE DEF f
    <3> QED  BY <1>8, <1>9
  <2> HIDE DEF f
  <2> QED  BY <2>1, <2>2, <2>3 DEF Bijection, Injection, Surjection, IsInjective
<1> HIDE DEF f
<1>11. IsFiniteSet(Chosen)
  <2> DEFINE g == [n \in 1 .. Len(entries) |-> entries[n]]
  <2>1. g \in [1 .. Len(entries) -> Range(entries)]  BY <1>1 DEF Range
  <2>2. \A e \in Range(entries) : \E n \in 1 .. Len(entries) : g[n] = e  BY <1>1 DEF Range
  <2> HIDE DEF g
  <2>3. g \in Surjection(1 .. Len(entries), Range(entries))  BY <2>1, <2>2 DEF Surjection
  <2>4. IsFiniteSet(1 .. Len(entries))
    <3>1. Len(entries) \in Int /\ 1 \in Int  BY <1>1
    <3> QED  BY <3>1, FS_Interval
  <2>5. IsFiniteSet(Range(entries))  BY <2>3, <2>4, FS_Surjection
  <2>6. Chosen \subseteq Range(entries)  BY DEF Chosen, InFamilies
  <2> QED  BY <2>5, <2>6, FS_Subset
<1>12. IsFiniteSet(1 .. call.k) /\ Cardinality(1 .. call.k) = call.k
  <2>1. PICK k \in Nat : k = call.k  BY <1>2
  <2>2. 1 \in Int /\ k \in Int /\ k = IF 1 > k THEN 0 ELSE k - 1 + 1  OBVIOUS
  <2>3. IsFiniteSet(1 .. k) /\ Cardinality(1 .. k) = k  BY <2>2, FS_Interval
  <2> QED  BY <2>1, <2>3
<1>13. /\ IsFiniteSet((1 .. call.k) \X Chosen)
       /\ Cardinality((1 .. call.k) \X Chosen) = call.k * Cardinality(Chosen)
  BY <1>11, <1>12, FS_Product
<1>14. ExistsBijection((1 .. call.k) \X Chosen, runs)  BY <1>10 DEF ExistsBijection
<1>15. Cardinality(runs) = call.k * Cardinality(Chosen)  BY <1>13, <1>14, FS_Bijection
<1> QED  BY <1>15 DEF runs

\* The summaries of a provider are of runs that have labels and are of one split a family.
LEMMA RunsAreGood ==
  ASSUME EvalInv, CountInv, phase # "idle", NEW o \in observations
  PROVE  /\ o.label \in {"suspicious", "benign", "unresolved"}
         /\ o.split = splits[o.family] /\ o.split \in {"dev", "holdout"}
<1>1. GoodRun(o) /\ Accounted(o) /\ splits # None /\ ~raised
  BY DEF EvalInv, CountInv
<1>2. PICK e \in Range(entries) :
        o.case = <<e.family, e.variant>> /\ o.label = e.oracle.label /\ o.split = e.split
  BY <1>1 DEF GoodRun
<1>3. e.oracle # OracleError /\ e.oracle = Evaluate(e.case)
  BY <1>1 DEF EvalInv, EntriesInv
<1>4. o.label \in {"suspicious", "benign", "unresolved"}
  BY <1>2, <1>3, JudgeLabels DEF Evaluate
<1>5. e.split = splits[e.family] /\ e.split \in {"dev", "holdout"}
  BY <1>1 DEF CountInv, ListInv
<1>6. o.family = e.family  BY <1>1, <1>2 DEF Accounted
<1> QED  BY <1>2, <1>4, <1>5, <1>6

LEMMA CountsAreRight ==
  ASSUME EvalInv, CountInv
  PROVE  EveryRunCounted
<1> SUFFICES ASSUME NEW r \in Range(report)
             PROVE
    /\ \A s \in SPLITS :
         LET rates == r.splits[s].rates IN
         /\ rates.wrong_benign.n + rates.false_alarm.n = rates.coverage.n
         /\ rates.coverage.k + rates.abstention.k = rates.coverage.n
         /\ rates.coverage.n + rates.unresolved_kept.n = rates.verdict_accuracy.n
         /\ rates.selective_accuracy.n = rates.coverage.k
    /\ \A name \in DOMAIN r.splits["all"].rates, count \in {"k", "n", "clusters"} :
         r.splits["all"].rates[name][count] =
           r.splits["dev"].rates[name][count] + r.splits["holdout"].rates[name][count]
    /\ r.splits["all"].rates.verdict_accuracy.n = Cardinality(RunsOf(r))
    /\ Cardinality(RunsOf(r)) =
         call.k * Cardinality({e \in Range(entries) : e.family \in call.families})
  BY DEF EveryRunCounted
<1>1. PICK i \in 1 .. Len(report) : r = report[i]
  <2>1. PICK T : report \in Seq(T)  BY DEF EvalInv, ReportInv
  <2> QED  BY <2>1 DEF Range
<1>2. phase # "idle"
  <2> SUFFICES ASSUME phase = "idle" PROVE FALSE  OBVIOUS
  <2>1. Len(report) = 0  BY DEF EvalInv
  <2> QED  BY <1>1, <2>1
<1> DEFINE runs == RunsOf(r)
           sum(s) == summarize(InSplit(runs, s), r.violated, call.k)
<1>3. runs \subseteq observations /\ IsFiniteSet(runs)
  <2>1. runs \subseteq observations  BY DEF RunsOf
  <2> QED  BY <2>1, FS_Subset DEF EvalInv
<1>4. \A o \in runs : /\ o.label \in {"suspicious", "benign", "unresolved"}
                      /\ o.split = splits[o.family] /\ o.split \in {"dev", "holdout"}
  BY <1>2, <1>3, RunsAreGood
<1>5. \A o, b \in runs : o.family = b.family => o.split = b.split  BY <1>4
<1>6. \A s \in SPLITS : r.splits[s] = sum(s)
  BY <1>1 DEF CountInv, Row
<1>7. Cardinality(runs)
        = call.k * Cardinality({e \in Range(entries) : e.family \in call.families})
  BY <1>1, RunsCount DEF Chosen, InFamilies
<1> HIDE DEF runs
<1>8. ASSUME NEW s \in SPLITS
      PROVE  LET rates == sum(s).rates IN
             /\ rates.wrong_benign.n + rates.false_alarm.n = rates.coverage.n
             /\ rates.coverage.k + rates.abstention.k = rates.coverage.n
             /\ rates.coverage.n + rates.unresolved_kept.n = rates.verdict_accuracy.n
             /\ rates.selective_accuracy.n = rates.coverage.k
             /\ rates.verdict_accuracy.n = Cardinality(InSplit(runs, s))
  <2>1. InSplit(runs, s) \subseteq runs  BY DEF InSplit
  <2>2. IsFiniteSet(InSplit(runs, s))  BY <1>3, <2>1, FS_Subset
  <2>3. \A o \in InSplit(runs, s) : o.label \in {"suspicious", "benign", "unresolved"}
    BY <1>4, <2>1
  <2> QED  BY <2>2, <2>3, LabelsPart
<1>9. \A name \in DOMAIN sum("all").rates, count \in {"k", "n", "clusters"} :
        sum("all").rates[name][count]
          = sum("dev").rates[name][count] + sum("holdout").rates[name][count]
  <2>1. /\ DOMAIN sum("all").rates = RateNames
        /\ \A name \in RateNames, count \in {"k", "n", "clusters"} :
             sum("all").rates[name][count]
               = sum("dev").rates[name][count] + sum("holdout").rates[name][count]
    <3>1. \A o \in runs : o.split \in {"dev", "holdout"}  BY <1>4
    <3> QED  BY <1>3, <1>5, <3>1, SplitsAddUp
  <2> QED  BY <2>1
<1>10. InSplit(runs, "all") = runs  BY DEF InSplit
<1>11. "all" \in SPLITS /\ "dev" \in SPLITS /\ "holdout" \in SPLITS  BY DEF SPLITS
<1> HIDE DEF sum
<1>12. sum("all").rates.verdict_accuracy.n = Cardinality(runs)  BY <1>8, <1>10, <1>11
<1>13. \A s \in SPLITS :
         LET rates == r.splits[s].rates IN
         /\ rates.wrong_benign.n + rates.false_alarm.n = rates.coverage.n
         /\ rates.coverage.k + rates.abstention.k = rates.coverage.n
         /\ rates.coverage.n + rates.unresolved_kept.n = rates.verdict_accuracy.n
         /\ rates.selective_accuracy.n = rates.coverage.k
  BY <1>6, <1>8
<1>14. \A name \in DOMAIN r.splits["all"].rates, count \in {"k", "n", "clusters"} :
         r.splits["all"].rates[name][count] =
           r.splits["dev"].rates[name][count] + r.splits["holdout"].rates[name][count]
  BY <1>6, <1>9, <1>11
<1>15. r.splits["all"].rates.verdict_accuracy.n = Cardinality(runs)  BY <1>6, <1>11, <1>12
<1> QED  BY <1>7, <1>13, <1>14, <1>15 DEF runs

LEMMA CountHolds == EvaluationSpec => []CountInv
<1>1. EvalInit => CountInv
  <2> SUFFICES ASSUME EvalInit PROVE CountInv  OBVIOUS
  <2>1. /\ turn = 1 /\ entries = <<>> /\ splits = None /\ observations = {} /\ report = <<>>
        /\ phase = "idle"
    BY DEF EvalInit, GenInit
  <2>2. DOMAIN entries = {} /\ Len(report) = 0  BY <2>1
  <2>3. ListInv  BY <2>1, <2>2 DEF ListInv
  <2> QED  BY <2>1, <2>2, <2>3 DEF CountInv
<1>2. EvalInv /\ StrataInv /\ CountInv /\ [Generate \/ EvalNext]_vars => CountInv'
  BY CountGenerate, CountBegin, CountRunCase, CountEscape, CountSummarize, CountStutter
     DEF EvalNext
<1> QED  BY <1>1, <1>2, EvaluationInvariant, StrataHold, PTL DEF EvaluationSpec

\* The counts of a report add up for any set and any call (evaluate, summarize): k runs of
\* every chosen case and no other, every run under one label, every conclusive case covered
\* or abstained from, and the two splits the whole, in runs, in hits and in families.
THEOREM EveryRunCountedHolds == EvaluationSpec => []EveryRunCounted
<1>1. EvalInv /\ CountInv => EveryRunCounted  BY CountsAreRight
<1> QED  BY <1>1, EvaluationInvariant, CountHolds, PTL

-----------------------------------------------------------------------------
(* The adjusted size of a rate, pass^k, and the whole report.              *)

LEMMA Smaller ==
  ASSUME NEW a \in Nat, NEW b \in Nat, NEW c \in Nat, a <= b
  PROVE  a * c <= b * c /\ a * c \in Nat /\ b * c \in Nat
OBVIOUS

\* With j misses and k hits among n runs, in m clusters or more than one, the spread over
\* the clusters is at most what one cluster of all runs would give.
LEMMA SpreadIsBounded ==
  ASSUME NEW j \in Nat \ {0}, NEW k \in Nat \ {0}, NEW n, n = j + k, NEW m \in Nat, m >= 2,
         NEW A \in Nat, A <= k * k, NEW X \in Nat, NEW C \in Nat, C <= j * j
  PROVE  /\ j * j * A - 2 * k * j * X + k * k * C \in Int
         /\ m * (j * j * A - 2 * k * j * X + k * k * C) <= n * ((m - 1) * n * k * j)
         /\ (m - 1) * n * k * j \in Nat \ {0}
<1> DEFINE jj == j * j  kk == k * k  jk == j * k
<1>1. jj \in Nat /\ kk \in Nat /\ jk \in Nat \ {0} /\ jj * kk = jk * jk /\ n \in Nat \ {0}
  OBVIOUS
<1> DEFINE spread == jj * A - 2 * k * j * X + kk * C
<1>2. spread \in Int /\ spread <= 2 * (jk * jk)
  <2>1. 2 * k * j * X = 2 * (jk * X)  OBVIOUS
  <2>2. jk * X \in Nat  BY <1>1
  <2>3. jj * A <= jj * kk /\ jj * A \in Nat
    <3> HIDE DEF jj, kk
    <3>1. A * jj <= kk * jj /\ A * jj \in Nat  BY <1>1, Smaller DEF kk
    <3> QED  BY <1>1, <3>1
  <2>4. kk * C <= jj * kk /\ kk * C \in Nat
    <3>1. C <= jj  OBVIOUS
    <3> HIDE DEF jj, kk
    <3>2. C * kk <= jj * kk /\ C * kk \in Nat  BY <1>1, <3>1, Smaller
    <3> QED  BY <1>1, <3>2
  <2> DEFINE a == jj * A  b == kk * C  x == jk * X  p == jj * kk
  <2>5. spread = a - 2 * x + b  BY <2>1
  <2>6. a \in Nat /\ b \in Nat /\ x \in Nat /\ a <= p /\ b <= p /\ p \in Nat
    BY <1>1, <2>2, <2>3, <2>4
  <2> HIDE DEF a, b, x, p, spread
  <2>7. spread \in Int /\ spread <= 2 * p  BY <2>5, <2>6
  <2> QED  BY <1>1, <2>7 DEF p
<1>3. 4 * jk <= n * n
  <2>1. (j - k) * (j - k) >= 0  OBVIOUS
  <2>2. n * n = (j - k) * (j - k) + 4 * jk  OBVIOUS
  <2>3. n * n \in Nat /\ (j - k) * (j - k) \in Int /\ jk \in Nat  BY <1>1
  <2> QED  BY <2>1, <2>2, <2>3
<1>4. n * ((m - 1) * n * k * j) = (m - 1) * (jk * (n * n)) /\ (m - 1) * n * k * j \in Nat \ {0}
  <2>1. m - 1 \in Nat \ {0}  OBVIOUS
  <2>2. (m - 1) * n * k * j \in Nat \ {0}  BY <1>1, <2>1
  <2> DEFINE l == m - 1
  <2>3. l \in Nat  BY <2>1
  <2> HIDE DEF l
  <2>4. n * (l * n * k * j) = l * (jk * (n * n))  BY <1>1, <2>3
  <2> QED  BY <2>2, <2>4 DEF l
<1> HIDE DEF spread, jk
<1>5. 4 * (jk * jk) <= jk * (n * n) /\ jk * jk \in Nat /\ jk * (n * n) \in Nat
  <2>1. n * n \in Nat /\ 4 * jk \in Nat  BY <1>1
  <2> DEFINE q == n * n
  <2>2. q \in Nat /\ 4 * jk <= q  BY <1>3, <2>1
  <2> HIDE DEF q
  <2>3. (4 * jk) * jk <= q * jk  BY <1>1, <2>2, <2>1, Smaller
  <2>4. (4 * jk) * jk = 4 * (jk * jk) /\ q * jk = jk * q  BY <1>1, <2>2
  <2> QED  BY <1>1, <2>2, <2>3, <2>4 DEF q
<1> DEFINE u == jk * jk  v == jk * (n * n)
<1>6. u \in Nat /\ v \in Nat /\ 4 * u <= v /\ spread <= 2 * u /\ spread \in Int  BY <1>2, <1>5
<1> HIDE DEF u, v
<1>7. m * spread <= (m - 1) * v
  <2>1. m * spread <= m * (2 * u)  BY <1>6
  <2>2. m * (2 * u) <= ((m - 1) * 2) * (2 * u)
    <3>1. m <= (m - 1) * 2 /\ (m - 1) * 2 \in Nat /\ 2 * u \in Nat  BY <1>6
    <3> QED  BY <3>1, Smaller
  <2>3. ((m - 1) * 2) * (2 * u) = (m - 1) * (4 * u)  BY <1>6
  <2>4. (m - 1) * (4 * u) <= (m - 1) * v
    <3>1. m - 1 \in Nat /\ 4 * u \in Nat /\ v \in Nat /\ 4 * u <= v  BY <1>6
    <3>2. (4 * u) * (m - 1) <= v * (m - 1)  BY <3>1, Smaller
    <3> QED  BY <1>6, <3>1, <3>2
  <2> DEFINE p == m * spread  q == m * (2 * u)  r == ((m - 1) * 2) * (2 * u)  w == (m - 1) * v
  <2>5. p \in Int /\ q \in Int /\ r \in Int /\ w \in Int  BY <1>6
  <2>6. p <= q /\ q <= r /\ r <= w  BY <2>1, <2>2, <2>3, <2>4
  <2> HIDE DEF p, q, r, w
  <2>7. p <= w  BY <2>5, <2>6
  <2> QED  BY <2>7 DEF p, w
<1>8. n * ((m - 1) * n * k * j) = (m - 1) * v  BY <1>4 DEF v
<1>9. j * j * A - 2 * k * j * X + k * k * C = spread  BY DEF spread
<1> QED  BY <1>4, <1>6, <1>7, <1>8, <1>9

\* The design effect lies between one and the number of runs.
LEMMA RateSize ==
  ASSUME NEW runs, IsFiniteSet(runs), NEW hits, hits \subseteq runs
  PROVE  LET rate == clustered_rate(runs, hits) IN
         rate.n > 0 => rate.n_eff[2] <= rate.n_eff[1] /\ rate.n_eff[1] <= rate.n * rate.n_eff[2]
<1> DEFINE n == Cardinality(runs)
           k == Cardinality(hits)
           m == Cardinality({o.family : o \in runs})
           misses == runs \ hits
           Together(A, B) == Cardinality({p \in A \X B : p[1].family = p[2].family})
           spread == (n - k) * (n - k) * Together(hits, hits)
                       - 2 * k * (n - k) * Together(hits, misses) + k * k * Together(misses, misses)
           bottom == (m - 1) * n * k * (n - k)
           deff == IF m >= 2 /\ k \in 1 .. n - 1
                   THEN AtLeastOne(m * spread, bottom) ELSE Undefined
           n_eff == IF n = 0 THEN Undefined
                    ELSE IF deff = Undefined THEN <<n, 1>> ELSE <<n * deff[2], deff[1]>>
<1>1. clustered_rate(runs, hits).n = n /\ clustered_rate(runs, hits).n_eff = n_eff
  BY DEF clustered_rate
<1>2. n \in Nat /\ k \in Nat /\ IsFiniteSet(hits)
  BY FS_Subset, FS_CardinalityType
<1>3. m \in Nat  BY FamiliesAreFinite, FS_CardinalityType
<1>4. IsFiniteSet(misses) /\ Cardinality(misses) = n - k
  <2>1. runs \cap hits = hits  OBVIOUS
  <2> QED  BY <2>1, FS_Difference
<1>5. \A A, B : IsFiniteSet(A) /\ IsFiniteSet(B) =>
        Together(A, B) \in Nat /\ Together(A, B) <= Cardinality(A) * Cardinality(B)
  <2> TAKE A, B
  <2> HAVE IsFiniteSet(A) /\ IsFiniteSet(B)
  <2>1. IsFiniteSet(A \X B) /\ Cardinality(A \X B) = Cardinality(A) * Cardinality(B)
    BY FS_Product
  <2>2. {p \in A \X B : p[1].family = p[2].family} \subseteq A \X B  OBVIOUS
  <2> QED  BY <2>1, <2>2, FS_Subset, FS_CardinalityType
<1>6. /\ Together(hits, hits) \in Nat /\ Together(hits, hits) <= k * k
      /\ Together(misses, misses) \in Nat /\ Together(misses, misses) <= (n - k) * (n - k)
      /\ Together(hits, misses) \in Nat
  <2> HIDE DEF Together, n, k, misses
  <2>1. k = Cardinality(hits)  BY DEF k
  <2> QED  BY <1>2, <1>4, <1>5, <2>1
<1> HIDE DEF n, k, m, misses, Together
<1>7. m >= 2 /\ k \in 1 .. n - 1 =>
        spread \in Int /\ m * spread <= n * bottom /\ bottom \in Nat \ {0}
  <2> HAVE m >= 2 /\ k \in 1 .. n - 1
  <2> DEFINE j == n - k
  <2>1. j \in Nat \ {0} /\ k \in Nat \ {0} /\ n = j + k  BY <1>2
  <2> DEFINE A == Together(hits, hits)  X == Together(hits, misses)
             C == Together(misses, misses)
  <2>2. A \in Nat /\ A <= k * k /\ X \in Nat /\ C \in Nat /\ C <= j * j  BY <1>6
  <2>3. /\ spread = j * j * A - 2 * k * j * X + k * k * C
        /\ bottom = (m - 1) * n * k * j
    OBVIOUS
  <2> HIDE DEF j, A, X, C, spread, bottom
  <2>4. /\ j * j * A - 2 * k * j * X + k * k * C \in Int
        /\ m * (j * j * A - 2 * k * j * X + k * k * C) <= n * ((m - 1) * n * k * j)
        /\ (m - 1) * n * k * j \in Nat \ {0}
    BY <1>3, <2>1, <2>2, SpreadIsBounded
  <2> QED  BY <2>3, <2>4
<1> HIDE DEF spread, bottom
<1>8. n > 0 => n_eff[2] <= n_eff[1] /\ n_eff[1] <= n * n_eff[2]
  <2> HAVE n > 0
  <2>1. CASE deff = Undefined
    <3>1. n_eff = <<n, 1>>  BY <1>2, <2>1
    <3> HIDE DEF n_eff
    <3> QED  BY <1>2, <3>1
  <2>2. CASE deff # Undefined /\ ~(m * spread > bottom)
    <3>1. deff = <<1, 1>>  BY <2>2 DEF AtLeastOne
    <3>2. n_eff = <<n * 1, 1>>  BY <1>2, <2>2, <3>1
    <3> HIDE DEF n_eff, deff
    <3> QED  BY <1>2, <3>2
  <2>3. CASE deff # Undefined /\ m * spread > bottom
    <3>1. m >= 2 /\ k \in 1 .. n - 1  BY <2>3
    <3>2. spread \in Int /\ m * spread <= n * bottom /\ bottom \in Nat \ {0}  BY <1>7, <3>1
    <3>3. deff = <<m * spread, bottom>>  BY <2>3, <3>1 DEF AtLeastOne
    <3> DEFINE top == m * spread
    <3>4. top \in Int /\ top > bottom /\ top <= n * bottom  BY <1>3, <2>3, <3>2
    <3>5. n_eff = <<n * bottom, top>>  BY <1>2, <2>3, <3>3
    <3> HIDE DEF n_eff, deff, top
    <3>6. n * bottom <= n * top
      <4>1. bottom * n <= top * n  BY <1>2, <3>2, <3>4, Smaller
      <4> QED  BY <1>2, <3>2, <3>4, <4>1
    <3> QED  BY <1>2, <3>2, <3>4, <3>5, <3>6
  <2> QED  BY <2>1, <2>2, <2>3
<1> HIDE DEF n_eff
<1> QED  BY <1>1, <1>8

\* The runs behind a rate are runs, and its hits are among them.
LEMMA SizesAreRight ==
  ASSUME EvalInv, CountInv
  PROVE  EffectiveSize
<1> SUFFICES ASSUME NEW r \in Range(report), NEW s \in SPLITS,
                    NEW name \in DOMAIN r.splits[s].rates
             PROVE  LET rate == r.splits[s].rates[name] IN
                    rate.n > 0 =>
                      rate.n_eff[2] <= rate.n_eff[1] /\ rate.n_eff[1] <= rate.n * rate.n_eff[2]
  BY DEF EffectiveSize
<1>1. PICK i \in 1 .. Len(report) : r = report[i]
  <2>1. PICK T : report \in Seq(T)  BY DEF EvalInv, ReportInv
  <2> QED  BY <2>1 DEF Range
<1> DEFINE runs == InSplit(RunsOf(r), s)
           sum == summarize(runs, r.violated, call.k)
           rated == RatedRuns(name, runs)
           hits == Hits(name, runs, r.violated)
<1>2. r.splits[s] = sum  BY <1>1 DEF CountInv, Row
<1>3. runs \subseteq observations  BY DEF InSplit, RunsOf
<1>4. IsFiniteSet(runs)
  <2> HIDE DEF runs
  <2> QED  BY <1>3, FS_Subset DEF EvalInv
<1> HIDE DEF runs
<1>5. DOMAIN sum.rates = RateNames /\
      \A nm \in RateNames : sum.rates[nm]
        = clustered_rate(RatedRuns(nm, runs), Hits(nm, runs, r.violated))
  BY RatesOf
<1> HIDE DEF sum
<1>6. r.splits[s].rates[name] = clustered_rate(rated, hits)  BY <1>2, <1>5
<1>7. rated \subseteq runs /\ hits \subseteq rated  BY DEF RatedRuns, Hits
<1> HIDE DEF rated, hits
<1>8. IsFiniteSet(rated)  BY <1>4, <1>7, FS_Subset
<1> QED  BY <1>6, <1>7, <1>8, RateSize

\* Disjoint sets of k elements each hold k times as many elements as they are sets.
LEMMA EqualParts ==
  ASSUME NEW D, IsFiniteSet(D), NEW k \in Nat,
         \A d \in D : IsFiniteSet(d) /\ Cardinality(d) = k,
         \A d, c \in D : d \cap c # {} => d = c
  PROVE  IsFiniteSet(UNION D) /\ Cardinality(UNION D) = k * Cardinality(D)
<1> DEFINE P == (1 .. k) \X D
           b == [d \in D |-> CHOOSE g : g \in Bijection(1 .. k, d)]
           f == [x \in P |-> b[x[2]][x[1]]]
<1>1. IsFiniteSet(1 .. k) /\ Cardinality(1 .. k) = k
  <2>1. 1 \in Int /\ k \in Int /\ k = IF 1 > k THEN 0 ELSE k - 1 + 1  OBVIOUS
  <2> QED  BY <2>1, FS_Interval
<1>2. \A d \in D : b[d] \in Bijection(1 .. k, d)
  <2> TAKE d \in D
  <2>1. ExistsBijection(1 .. k, d)  BY <1>1, FS_SameCardinalityBij
  <2> QED  BY <2>1 DEF ExistsBijection
<1> HIDE DEF b
<1>3. \A t \in 1 .. k, d \in D : <<t, d>> \in P /\ f[<<t, d>>] = b[d][t]  OBVIOUS
<1>4. \A x \in P : \E t \in 1 .. k, d \in D : x = <<t, d>>  OBVIOUS
<1>5. \A d \in D : /\ \A t \in 1 .. k : b[d][t] \in d
                   /\ \A t, u \in 1 .. k : b[d][t] = b[d][u] => t = u
                   /\ \A o \in d : \E t \in 1 .. k : b[d][t] = o
  <2> TAKE d \in D
  <2>1. b[d] \in Injection(1 .. k, d) /\ b[d] \in Surjection(1 .. k, d)
    BY <1>2 DEF Bijection
  <2>2. b[d] \in [1 .. k -> d] /\ \A t, u \in 1 .. k : b[d][t] = b[d][u] => t = u
    BY <2>1 DEF Injection, IsInjective
  <2> QED  BY <2>1, <2>2 DEF Surjection
<1>6. f \in [P -> UNION D]
  <2>1. \A x \in P : f[x] \in UNION D  BY <1>3, <1>4, <1>5
  <2> QED  BY <2>1
<1>7. \A x, y \in P : f[x] = f[y] => x = y
  <2> TAKE x, y \in P
  <2> HAVE f[x] = f[y]
  <2>1. PICK t \in 1 .. k, d \in D : x = <<t, d>>  BY <1>4
  <2>2. PICK u \in 1 .. k, c \in D : y = <<u, c>>  BY <1>4
  <2>3. b[d][t] = b[c][u]  BY <1>3, <2>1, <2>2
  <2>4. d = c  BY <1>5, <2>3
  <2> QED  BY <1>5, <2>1, <2>2, <2>3, <2>4
<1>8. \A o \in UNION D : \E x \in P : f[x] = o
  <2> TAKE o \in UNION D
  <2>1. PICK d \in D : o \in d  OBVIOUS
  <2>2. PICK t \in 1 .. k : b[d][t] = o  BY <1>5, <2>1
  <2>3. <<t, d>> \in P /\ f[<<t, d>>] = o  BY <1>3, <2>2
  <2> HIDE DEF P, f
  <2> QED  BY <2>3
<1>9. IsFiniteSet(P) /\ Cardinality(P) = k * Cardinality(D)  BY <1>1, FS_Product
<1> HIDE DEF P, f
<1>10. f \in Bijection(P, UNION D)
  BY <1>6, <1>7, <1>8 DEF Bijection, Injection, Surjection, IsInjective
<1>11. ExistsBijection(P, UNION D)  BY <1>10 DEF ExistsBijection
<1> QED  BY <1>9, <1>11, FS_Bijection

\* When every case has k runs, pass^k asks for all of a case's runs, and a case that
\* passes it brings k right runs.
LEMMA PassHatBound ==
  ASSUME NEW runs, IsFiniteSet(runs), NEW correct, correct \subseteq runs, NEW k \in Nat,
         \A o \in runs : Cardinality({p \in runs : p.case = o.case}) = k
  PROVE  pass_hat_k(runs, correct, k)[1] * Cardinality(runs)
           <= Cardinality(correct) * pass_hat_k(runs, correct, k)[2]
<1> DEFINE Of(c) == {p \in runs : p.case = c}
           cases == {o.case : o \in runs}
           D == {Of(c) : c \in cases}
           perfect == AllSuccesses(D, correct)
<1>1. Cardinality(runs) \in Nat /\ IsFiniteSet(correct) /\ Cardinality(correct) \in Nat
  BY FS_Subset, FS_CardinalityType
<1>2. CASE runs = {}
  <2>1. pass_hat_k(runs, correct, k) = <<0, 0>>  BY <1>2 DEF pass_hat_k, Undefined
  <2> QED  BY <1>1, <2>1
<1>3. CASE runs # {}
  <2>1. \A c \in cases : Cardinality(Of(c)) = k /\ IsFiniteSet(Of(c)) /\ Of(c) \subseteq runs
    <3> TAKE c \in cases
    <3>1. PICK o \in runs : c = o.case  OBVIOUS
    <3>2. Of(c) \subseteq runs  OBVIOUS
    <3> QED  BY <3>1, <3>2, FS_Subset
  <2>2. \A c \in cases : kSubset(k, Of(c)) = {Of(c)}
    <3> TAKE c \in cases
    <3> DEFINE S == Of(c)
    <3>1. IsFiniteSet(S) /\ Cardinality(S) = k  BY <2>1
    <3> HIDE DEF S
    <3>2. \A T \in SUBSET S : Cardinality(T) = k => T = S  BY <3>1, FS_Subset
    <3>3. kSubset(k, S) = {S}  BY <3>1, <3>2 DEF kSubset
    <3> QED  BY <3>3 DEF S
  <2>3. Draws(runs, k) = D
    <3>1. Draws(runs, k) = UNION {kSubset(k, Of(c)) : c \in cases}  BY DEF Draws
    <3> HIDE DEF Of, cases
    <3> QED  BY <2>2, <3>1
  <2>4. pass_hat_k(runs, correct, k) = <<Cardinality(perfect), Cardinality(D)>>
    BY <1>3, <2>3 DEF pass_hat_k
  <2>5. UNION D = runs
    <3>1. \A o \in runs : o \in Of(o.case) /\ o.case \in cases  OBVIOUS
    <3>2. \A d \in D : d \subseteq runs  BY <2>1
    <3> HIDE DEF Of, cases
    <3> QED  BY <3>1, <3>2
  <2>6. \A d, c \in D : d \cap c # {} => d = c  OBVIOUS
  <2>7. D \subseteq SUBSET runs
    <3> HIDE DEF Of, cases
    <3> QED  BY <2>1
  <2>8. IsFiniteSet(D)
    <3>1. IsFiniteSet(SUBSET runs)  BY FS_SUBSET
    <3> HIDE DEF D
    <3> QED  BY <2>7, <3>1, FS_Subset
  <2>9. \A d \in D : IsFiniteSet(d) /\ Cardinality(d) = k  BY <2>1
  <2> HIDE DEF D, Of, cases
  <2>10. Cardinality(runs) = k * Cardinality(D)  BY <2>5, <2>6, <2>8, <2>9, EqualParts
  <2>11. perfect \subseteq D /\ UNION perfect \subseteq correct  BY DEF AllSuccesses
  <2> HIDE DEF perfect
  <2>12. IsFiniteSet(perfect)  BY <2>8, <2>11, FS_Subset
  <2>13. Cardinality(UNION perfect) = k * Cardinality(perfect)
    BY <2>6, <2>9, <2>11, <2>12, EqualParts
  <2>14. Cardinality(UNION perfect) <= Cardinality(correct)  BY <1>1, <2>11, FS_Subset
  <2> DEFINE p == Cardinality(perfect)  d == Cardinality(D)  c == Cardinality(correct)
  <2>15. p \in Nat /\ d \in Nat  BY <2>8, <2>12, FS_CardinalityType
  <2>16. k * p <= c /\ c \in Nat /\ k * p \in Nat  BY <1>1, <2>13, <2>14, <2>15
  <2>17. Cardinality(runs) = k * d  BY <2>10
  <2>18. pass_hat_k(runs, correct, k) = <<p, d>>  BY <2>4
  <2> HIDE DEF p, d, c
  <2>19. (k * p) * d <= c * d  BY <2>15, <2>16, Smaller
  <2>20. p * (k * d) = (k * p) * d  BY <2>15
  <2>21. p * Cardinality(runs) <= c * d  BY <2>17, <2>19, <2>20
  <2> QED  BY <2>18, <2>21 DEF c
<1> QED  BY <1>2, <1>3

\* A reported provider has k runs of every case it ran, in the split of the case.
LEMMA CasesHaveAllRuns ==
  ASSUME EvalInv, CountInv, phase # "idle", NEW i \in 1 .. Len(report), NEW s \in SPLITS,
         NEW a \in InSplit(RunsOf(report[i]), s)
  PROVE  Cardinality({o \in InSplit(RunsOf(report[i]), s) : o.case = a.case}) = call.k
<1> DEFINE runs == RunsOf(report[i])
           part == InSplit(runs, s)
           same == {o \in part : o.case = a.case}
           f == [t \in 1 .. call.k |-> CHOOSE o \in same : o.trial = t]
<1>1. PICK S : entries \in Seq(S)  BY DEF EvalInv, EntriesInv
<1>2. Row(i) /\ call.k \in Nat  BY DEF CountInv, Row
<1>3. report[i].provider = call.providers[i].name  BY DEF EvalInv, ReportInv
<1>4. a \in runs /\ runs \subseteq observations /\ part \subseteq runs
  BY DEF InSplit, RunsOf
<1>5. PICK j \in ChosenNow : a.case = IdOf(entries[j])
  <2>1. GoodRun(a)  BY <1>4 DEF EvalInv
  <2>2. PICK e \in Range(entries) : a.case = IdOf(e) /\ e.family \in call.families
    BY <2>1 DEF GoodRun, IdOf
  <2>3. PICK n \in DOMAIN entries : entries[n] = e  BY <2>2 DEF Range
  <2>4. n \in ChosenNow  BY <1>1, <2>2, <2>3 DEF ChosenNow, ChosenFrom
  <2> QED  BY <2>2, <2>3, <2>4
<1>6. ASSUME NEW t \in 1 .. call.k
      PROVE  \E o \in same : o.trial = t
  <2>1. Made(i, t, entries[j])  BY <1>2, <1>5 DEF Row
  <2>2. PICK o \in runs : o.trial = t /\ o.case = a.case
    BY <1>3, <1>5, <2>1 DEF Made, RunsOf, IdOf
  <2>3. o.family = a.family  BY <1>4, <2>2 DEF CountInv, Accounted
  <2>4. o.split = a.split  BY <1>4, <2>3, RunsAreGood
  <2>5. o \in part  BY <2>4 DEF InSplit
  <2> QED  BY <2>2, <2>5
<1>7. \A o \in same : o.trial \in 1 .. call.k  BY <1>4 DEF CountInv, Accounted
<1>8. \A o, b \in same : o.trial = b.trial => o = b
  <2>1. \A o, b \in runs : o.provider = b.provider  BY DEF RunsOf
  <2> HIDE DEF runs
  <2> QED  BY <1>4, <2>1 DEF CountInv, SameRun
<1> HIDE DEF same
<1>9. \A t \in 1 .. call.k : f[t] \in same /\ f[t].trial = t  BY <1>6
<1> HIDE DEF f
<1>10. f \in Bijection(1 .. call.k, same)
  <2>1. f \in [1 .. call.k -> same]
    <3>1. f = [t \in 1 .. call.k |-> f[t]]  BY DEF f
    <3> QED  BY <1>9, <3>1
  <2>2. \A t, u \in 1 .. call.k : f[t] = f[u] => t = u  BY <1>9
  <2>3. \A o \in same : \E t \in 1 .. call.k : f[t] = o  BY <1>7, <1>8, <1>9
  <2> QED  BY <2>1, <2>2, <2>3 DEF Bijection, Injection, Surjection, IsInjective
<1>11. IsFiniteSet(1 .. call.k) /\ Cardinality(1 .. call.k) = call.k
  <2>1. PICK k \in Nat : k = call.k  BY <1>2
  <2>2. 1 \in Int /\ k \in Int /\ k = IF 1 > k THEN 0 ELSE k - 1 + 1  OBVIOUS
  <2>3. IsFiniteSet(1 .. k) /\ Cardinality(1 .. k) = k  BY <2>2, FS_Interval
  <2> QED  BY <2>1, <2>3
<1>12. ExistsBijection(1 .. call.k, same)  BY <1>10 DEF ExistsBijection
<1>13. Cardinality(same) = call.k  BY <1>11, <1>12, FS_Bijection
<1> QED  BY <1>13 DEF same

LEMMA PassHatIsRight ==
  ASSUME EvalInv, CountInv
  PROVE  PassHatBelowAccuracy
<1> SUFFICES ASSUME NEW r \in Range(report), NEW s \in SPLITS
             PROVE  LET pass == r.splits[s].pass_hat_k
                        accuracy == r.splits[s].rates.verdict_accuracy IN
                    pass[1] * accuracy.n <= accuracy.k * pass[2]
  BY DEF PassHatBelowAccuracy
<1>1. PICK i \in 1 .. Len(report) : r = report[i]
  <2>1. PICK T : report \in Seq(T)  BY DEF EvalInv, ReportInv
  <2> QED  BY <2>1 DEF Range
<1>2. phase # "idle"
  <2> SUFFICES ASSUME phase = "idle" PROVE FALSE  OBVIOUS
  <2>1. Len(report) = 0  BY DEF EvalInv
  <2> QED  BY <1>1, <2>1
<1> DEFINE runs == InSplit(RunsOf(r), s)
           sum == summarize(runs, r.violated, call.k)
           right == {o \in runs : o.outcome = o.label}
<1>3. r.splits[s] = sum /\ call.k \in Nat  BY <1>1 DEF CountInv, Row
<1>4. IsFiniteSet(runs)
  <2>1. runs \subseteq observations  BY DEF InSplit, RunsOf
  <2> HIDE DEF runs
  <2> QED  BY <2>1, FS_Subset DEF EvalInv
<1>5. \A o \in runs : Cardinality({p \in runs : p.case = o.case}) = call.k
  BY <1>1, <1>2, CasesHaveAllRuns
<1> HIDE DEF runs
<1>6. sum.pass_hat_k = pass_hat_k(runs, right, call.k)  BY DEF summarize
<1>7. sum.rates.verdict_accuracy = clustered_rate(runs, right)
  <2>1. "verdict_accuracy" \in RateNames  BY DEF RateNames
  <2>2. /\ RatedRuns("verdict_accuracy", runs) = runs
        /\ Hits("verdict_accuracy", runs, r.violated) = right
    BY DEF RatedRuns, Hits, Rated, IsHit
  <2> HIDE DEF right
  <2>3. sum.rates["verdict_accuracy"]
          = clustered_rate(RatedRuns("verdict_accuracy", runs),
                           Hits("verdict_accuracy", runs, r.violated))
    BY <2>1, RatesOf
  <2> QED  BY <2>2, <2>3
<1>8. right \subseteq runs  OBVIOUS
<1> HIDE DEF right, sum
<1> DEFINE pass == pass_hat_k(runs, right, call.k)
<1>9. pass[1] * Cardinality(runs) <= Cardinality(right) * pass[2]
  BY <1>3, <1>4, <1>5, <1>8, PassHatBound
<1> HIDE DEF pass
<1>10. /\ sum.rates.verdict_accuracy.n = Cardinality(runs)
       /\ sum.rates.verdict_accuracy.k = Cardinality(right)
  <2>1. /\ clustered_rate(runs, right).n = Cardinality(runs)
        /\ clustered_rate(runs, right).k = Cardinality(right)
    BY RateFields
  <2> QED  BY <1>7, <2>1
<1> QED  BY <1>3, <1>6, <1>9, <1>10 DEF pass

\* The summaries of a provider agree with one another and with its runs, for any set and
\* any call (clustered_rate, pass_hat_k, summarize): the runs add up, the design effect
\* leaves between one run and all of them, pass^k is no better than the accuracy of a
\* single run, and one model that the mode allows is behind all of them.
THEOREM ReportAddsUpHolds == EvaluationSpec => []ReportAddsUp
<1>1. EvalInv /\ CountInv => EffectiveSize /\ PassHatBelowAccuracy
  BY SizesAreRight, PassHatIsRight
<1>2. EveryRunCounted /\ EffectiveSize /\ PassHatBelowAccuracy /\ ReportedRanOneModel
        => ReportAddsUp
  BY DEF ReportAddsUp
<1> QED  BY <1>1, <1>2, EvaluationInvariant, CountHolds, EveryRunCountedHolds, OneModelReported,
            PTL
=============================================================================
