-------------------------- MODULE CatalogueProofs --------------------------
(***************************************************************************)
(* Proofs about the shipped catalogue: what the oracle finds in every case *)
(* of every family, whatever orders the hashes give, and with it that      *)
(* generate never raises, that no case is benign by mistake, and where the *)
(* replay model is wrong.                                                  *)
(***************************************************************************)
EXTENDS EvaluationProofs

-----------------------------------------------------------------------------
(* Lists in another order.                                                 *)

IsPermutation(p, n) ==
  /\ p \in [1 .. n -> 1 .. n] /\ \A i, j \in 1 .. n : p[i] = p[j] => i = j
  /\ \A j \in 1 .. n : \E i \in 1 .. n : p[i] = j

LEMMA OneTurn ==
  ASSUME NEW n \in Nat, n > 1
  PROVE  IsPermutation([i \in 1 .. n |-> IF i < n THEN i + 1 ELSE 1], n)
<1> DEFINE turned == [i \in 1 .. n |-> IF i < n THEN i + 1 ELSE 1]
<1>1. turned \in [1 .. n -> 1 .. n]  OBVIOUS
<1>2. \A i, j \in 1 .. n : turned[i] = turned[j] => i = j  OBVIOUS
<1>3. ASSUME NEW j \in 1 .. n PROVE \E i \in 1 .. n : turned[i] = j
  <2>1. CASE j = 1
    <3>1. turned[n] = 1 /\ n \in 1 .. n  OBVIOUS
    <3> HIDE DEF turned
    <3> QED  BY <2>1, <3>1
  <2>2. CASE j > 1
    <3>1. j - 1 \in 1 .. n /\ j - 1 < n /\ j - 1 + 1 = j  BY <2>2
    <3>2. turned[j - 1] = j  BY <3>1
    <3> HIDE DEF turned
    <3> QED  BY <3>1, <3>2
  <2> QED  BY <2>1, <2>2
<1> HIDE DEF turned
<1>4. IsPermutation(turned, n)  BY <1>1, <1>2, <1>3 DEF IsPermutation
<1> QED  BY <1>4 DEF turned

\* Whatever the hash, what permute gives has every item in one place.
LEMMA PermuteIsBijective ==
  ASSUME NEW S, NEW items \in Seq(S), Len(items) <= LargestList, NEW order \in Orders
  PROVE  \E p : /\ IsPermutation(p, Len(items))
                /\ Permute(items, order) = [i \in 1 .. Len(items) |-> items[p[i]]]
<1> DEFINE n == Len(items)
           o == order[n]
           permuted == [i \in DOMAIN items |-> items[o[i]]]
           turned == [i \in 1 .. n |-> IF i < n THEN i + 1 ELSE 1]
<1>1. n \in Nat /\ DOMAIN items = 1 .. n  OBVIOUS
<1>2. Permute(items, order) = IF n > 1 /\ permuted = items THEN Tail(items) \o <<Head(items)>>
                              ELSE permuted
  BY DEF Permute
<1>3. CASE n = 0
  <2> DEFINE p == [i \in 1 .. n |-> i]
  <2>1. p \in [1 .. n -> 1 .. n] /\ \A i \in 1 .. n : p[i] = i  OBVIOUS
  <2>2. permuted = [i \in 1 .. n |-> items[p[i]]]  BY <1>1, <1>3
  <2> HIDE DEF p, permuted
  <2>3. IsPermutation(p, n)  BY <2>1 DEF IsPermutation
  <2>4. Permute(items, order) = permuted  BY <1>2, <1>3
  <2> QED  BY <2>2, <2>3, <2>4
<1>4. CASE n > 1 /\ permuted = items
  <2>1. IsPermutation(turned, n)  BY <1>1, <1>4, OneTurn
  <2> DEFINE l == Tail(items) \o <<Head(items)>>
  <2>2. l \in Seq(S) /\ Len(l) = n
    <3>1. Tail(items) \in Seq(S) /\ Len(Tail(items)) = n - 1 /\ Head(items) \in S  BY <1>4
    <3> QED  BY <1>1, <3>1
  <2>3. \A i \in 1 .. n : l[i] = items[IF i < n THEN i + 1 ELSE 1]
    <3>1. Tail(items) \in Seq(S) /\ Len(Tail(items)) = n - 1 /\ Head(items) = items[1]
          /\ \A i \in 1 .. n - 1 : Tail(items)[i] = items[i + 1]
      BY <1>4
    <3> DEFINE t == Tail(items)
    <3>2. \A i \in 1 .. n - 1 : l[i] = t[i]  BY <1>1, <1>4, <3>1
    <3>3. l[n] = items[1]  BY <1>1, <1>4, <3>1
    <3> HIDE DEF l, n
    <3> QED  BY <1>1, <1>4, <3>1, <3>2, <3>3
  <2>4. l = [i \in 1 .. n |-> l[i]]
    <3> HIDE DEF l, n
    <3> QED  BY <2>2
  <2>5. l = [i \in 1 .. n |-> items[turned[i]]]  BY <2>3, <2>4
  <2>6. Permute(items, order) = l  BY <1>2, <1>4
  <2> HIDE DEF l, turned
  <2> QED  BY <2>1, <2>5, <2>6
<1>5. CASE n > 0 /\ ~(n > 1 /\ permuted = items)
  <2>1. n \in 1 .. LargestList
    <3>1. n <= LargestList  OBVIOUS
    <3> HIDE DEF n
    <3> QED  BY <1>1, <1>5, <3>1 DEF LargestList
  <2>2. DOMAIN o = 1 .. n /\ Range(o) = 1 .. n  BY <2>1, OrdersAssumption
  <2> DEFINE p == [i \in 1 .. n |-> o[i]]
  <2>3. p \in Surjection(1 .. n, 1 .. n)  BY <2>2 DEF Surjection, Range
  <2>4. IsFiniteSet(1 .. n)
    <3>1. 1 \in Int /\ n \in Int  BY <1>1
    <3> QED  BY <3>1, FS_Interval
  <2>5. p \in Injection(1 .. n, 1 .. n)
    <3> HIDE DEF p
    <3> QED  BY <2>3, <2>4, FS_SurjSameCardinalityImpliesInj
  <2>6. permuted = [i \in 1 .. n |-> items[p[i]]]  BY <1>1
  <2>7. Permute(items, order) = permuted  BY <1>2, <1>5
  <2> HIDE DEF p, permuted
  <2>8. IsPermutation(p, n)
    BY <2>3, <2>5 DEF Surjection, Injection, IsInjective, IsPermutation
  <2> QED  BY <2>6, <2>7, <2>8
<1> QED  BY <1>1, <1>3, <1>4, <1>5

LEMMA PermuteKeeps ==
  ASSUME NEW S, NEW items \in Seq(S), Len(items) <= LargestList, NEW order \in Orders
  PROVE  /\ Permute(items, order) \in Seq(S) /\ Len(Permute(items, order)) = Len(items)
         /\ Range(Permute(items, order)) = Range(items)
<1> DEFINE n == Len(items)
           permuted == Permute(items, order)
<1>1. n \in Nat /\ DOMAIN items = 1 .. n /\ \A i \in 1 .. n : items[i] \in S  OBVIOUS
<1>2. PICK p : IsPermutation(p, n) /\ permuted = [i \in 1 .. n |-> items[p[i]]]
  BY PermuteIsBijective
<1>3. p \in [1 .. n -> 1 .. n] /\ \A j \in 1 .. n : \E i \in 1 .. n : p[i] = j
  BY <1>2 DEF IsPermutation
<1> HIDE DEF permuted, n
<1>4. permuted \in [1 .. n -> S] /\ \A i \in 1 .. n : permuted[i] = items[p[i]]
  BY <1>1, <1>2, <1>3
<1>5. permuted \in Seq(S) /\ Len(permuted) = n /\ DOMAIN permuted = 1 .. n  BY <1>1, <1>4
<1>6. Range(permuted) = Range(items)
  <2>1. /\ Range(permuted) = {permuted[i] : i \in 1 .. n}
        /\ Range(items) = {items[i] : i \in 1 .. n}
    BY <1>1, <1>5 DEF Range
  <2>2. ASSUME NEW i \in 1 .. n PROVE permuted[i] \in {items[j] : j \in 1 .. n}
    <3>1. p[i] \in 1 .. n /\ permuted[i] = items[p[i]]  BY <1>3, <1>4
    <3> QED  BY <3>1
  <2>3. ASSUME NEW j \in 1 .. n PROVE items[j] \in {permuted[i] : i \in 1 .. n}
    <3>1. PICK i \in 1 .. n : p[i] = j  BY <1>3
    <3>2. permuted[i] = items[j]  BY <1>4, <3>1
    <3> QED  BY <3>2
  <2> QED  BY <2>1, <2>2, <2>3
<1> QED  BY <1>5, <1>6 DEF permuted, n

-----------------------------------------------------------------------------
(* Rules of the catalogue's size.                                          *)

\* One or two items.
Short(list) == (\E S : list \in Seq(S)) /\ Len(list) \in 1 .. 2

\* None of them the empty one.
ShortList(list, nothing) == Short(list) /\ nothing \notin Range(list)

SmallRule(rule) ==
  /\ {"resources", "verbs"} \subseteq DOMAIN rule
  /\ DOMAIN rule \subseteq {"apiGroups", "resources", "verbs"}
  /\ ShortList(rule["resources"], Plain("")) /\ ShortList(rule["verbs"], "")
  /\ "apiGroups" \in DOMAIN rule => Short(rule["apiGroups"])

SmallRules(rules) ==
  /\ \E S : rules \in Seq(S)
  /\ Len(rules) <= 4 /\ \A i \in 1 .. Len(rules) : SmallRule(rules[i])

LEMMA SmallRuleIsRule ==
  ASSUME NEW rule, SmallRule(rule)
  PROVE  IsRule(rule)
<1>1. \A list : Short(list) => list # <<>> /\ \E S : list \in Seq(S)
  BY DEF Short
<1>2. \A key \in DOMAIN rule : rule[key] # <<>> /\ \E S : rule[key] \in Seq(S)
  BY <1>1 DEF SmallRule, ShortList
<1>3. "" \notin Range(rule["verbs"]) /\ Plain("") \notin Range(rule["resources"])
  BY DEF SmallRule, ShortList
<1>4. "resourceNames" \notin DOMAIN rule /\ DOMAIN rule \subseteq RuleKeys
  BY DEF SmallRule, RuleKeys
<1>5. {"resources", "verbs"} \subseteq DOMAIN rule  BY DEF SmallRule
<1> QED  BY <1>2, <1>3, <1>4, <1>5 DEF IsRule, WellFormedRule

\* Four rules of up to two groups, resources and verbs are far from the limit on atoms.
LEMMA SmallRulesAreWellFormed ==
  ASSUME NEW rules, SmallRules(rules)
  PROVE  AreRules(rules) /\ WellFormed(rules)
<1>1. DOMAIN rules = 1 .. Len(rules) /\ Len(rules) \in Nat /\ Len(rules) <= 4
  BY DEF SmallRules
<1>2. \A i \in DOMAIN rules : SmallRule(rules[i]) /\ IsRule(rules[i])
  BY <1>1, SmallRuleIsRule DEF SmallRules
<1> DEFINE two == 1 .. 2  places == (1 .. 4) \X two \X two \X two \X two
<1>3. \A list : Short(list) => DOMAIN list \subseteq two  BY DEF Short
<1>4. DOMAIN <<"*">> \subseteq two  OBVIOUS
<1>5. ASSUME NEW i \in DOMAIN rules
      PROVE  /\ DOMAIN Listed(rules[i], "apiGroups") \subseteq two
             /\ DOMAIN rules[i]["resources"] \subseteq two
             /\ DOMAIN rules[i]["verbs"] \subseteq two
             /\ DOMAIN Listed(rules[i], "resourceNames") \subseteq two
             /\ i \in 1 .. 4
  <2> HIDE DEF two
  <2>1. SmallRule(rules[i])  BY <1>2
  <2>2. DOMAIN rules[i]["resources"] \subseteq two /\ DOMAIN rules[i]["verbs"] \subseteq two
    BY <1>3, <2>1 DEF SmallRule, ShortList
  <2>3. DOMAIN Listed(rules[i], "apiGroups") \subseteq two
    BY <1>3, <1>4, <2>1 DEF SmallRule, Listed
  <2>4. DOMAIN Listed(rules[i], "resourceNames") \subseteq two
    BY <1>4, <2>1 DEF SmallRule, Listed
  <2> QED  BY <1>1, <2>2, <2>3, <2>4
<1> HIDE DEF two
<1>6. AtomPlaces(rules) \subseteq places
  <2> SUFFICES ASSUME NEW x \in AtomPlaces(rules) PROVE x \in places  OBVIOUS
  <2>1. PICK i \in DOMAIN rules :
          x \in {i} \X (DOMAIN Listed(rules[i], "apiGroups")) \X (DOMAIN rules[i]["resources"])
                  \X (DOMAIN rules[i]["verbs"]) \X (DOMAIN Listed(rules[i], "resourceNames"))
    BY DEF AtomPlaces
  <2> QED  BY <1>5, <2>1
<1>7. IsFiniteSet(places) /\ Cardinality(places) <= 64
  <2>1. IsFiniteSet(two) /\ Cardinality(two) = 2
    <3>1. 1 \in Int /\ 2 \in Int /\ ~(1 > 2) /\ 2 - 1 + 1 = 2  OBVIOUS
    <3> QED  BY <3>1, FS_Interval DEF two
  <2>2. IsFiniteSet(1 .. 4) /\ Cardinality(1 .. 4) = 4
    <3>1. 1 \in Int /\ 4 \in Int /\ ~(1 > 4) /\ 4 - 1 + 1 = 4  OBVIOUS
    <3> QED  BY <3>1, FS_Interval
  <2> DEFINE two2 == two \X two  two4 == two2 \X two2  places4 == (1 .. 4) \X two4
  <2>3. IsFiniteSet(two2) /\ Cardinality(two2) = 4  BY <2>1, FS_Product
  <2> HIDE DEF two2
  <2>4. IsFiniteSet(two4) /\ Cardinality(two4) = 16  BY <2>3, FS_Product
  <2> HIDE DEF two4
  <2>5. IsFiniteSet(places4) /\ Cardinality(places4) = 64  BY <2>2, <2>4, FS_Product
  <2> DEFINE put(x) == <<x[1], x[2][1][1], x[2][1][2], x[2][2][1], x[2][2][2]>>
             f == [x \in places4 |-> put(x)]
  <2>6. ASSUME NEW i \in 1 .. 4, NEW a \in two, NEW b \in two, NEW c \in two, NEW d \in two
        PROVE  LET x == <<i, <<<<a, b>>, <<c, d>>>>>> IN x \in places4 /\ put(x) = <<i, a, b, c, d>>
    <3>1. <<a, b>> \in two2 /\ <<c, d>> \in two2  BY DEF two2
    <3>2. <<<<a, b>>, <<c, d>>>> \in two4  BY <3>1 DEF two4
    <3> QED  BY <3>2
  <2>7. ASSUME NEW x \in places4
        PROVE  put(x) \in places
    <3>1. x[1] \in 1 .. 4 /\ x[2] \in two4  OBVIOUS
    <3>2. x[2][1] \in two2 /\ x[2][2] \in two2  BY <3>1 DEF two4
    <3>3. x[2][1][1] \in two /\ x[2][1][2] \in two /\ x[2][2][1] \in two /\ x[2][2][2] \in two
      BY <3>2 DEF two2
    <3> HIDE DEF places4
    <3> QED  BY <3>1, <3>3
  <2>8. f \in [places4 -> places]
    <3> HIDE DEF places, places4, put
    <3> QED  BY <2>7
  <2>9. ASSUME NEW y \in places PROVE \E x \in places4 : f[x] = y
    <3>1. y = <<y[1], y[2], y[3], y[4], y[5]>> /\ y[1] \in 1 .. 4 /\ y[2] \in two /\ y[3] \in two
          /\ y[4] \in two /\ y[5] \in two
      OBVIOUS
    <3> DEFINE x == <<y[1], <<<<y[2], y[3]>>, <<y[4], y[5]>>>>>>
    <3>2. x \in places4 /\ put(x) = y  BY <2>6, <3>1
    <3> HIDE DEF x, put, places, places4
    <3> QED  BY <3>2
  <2> HIDE DEF places, places4, f
  <2>10. f \in Surjection(places4, places)  BY <2>8, <2>9 DEF Surjection
  <2>11. IsFiniteSet(places) /\ Cardinality(places) <= Cardinality(places4)
    BY <2>5, <2>10, FS_Surjection
  <2> QED  BY <2>5, <2>11
<1> HIDE DEF places
<1>8. IsFiniteSet(AtomPlaces(rules)) /\ Cardinality(AtomPlaces(rules)) <= 64
  <2>1. IsFiniteSet(AtomPlaces(rules)) /\ Cardinality(AtomPlaces(rules)) <= Cardinality(places)
    BY <1>6, <1>7, FS_Subset
  <2> QED  BY <1>7, <2>1, FS_CardinalityType
<1>9. Cardinality(AtomPlaces(rules)) <= MAX_ATOMS_PER_OBJECT
  BY <1>8, FS_CardinalityType DEF MAX_ATOMS_PER_OBJECT
<1> QED  BY <1>2, <1>9 DEF AreRules, IsRule, WellFormed

LEMMA AtomsOfAppend ==
  ASSUME NEW S, NEW rules \in Seq(S), NEW rule
  PROVE  AtomsOf(Append(rules, rule)) = AtomsOf(rules) \cup RuleAtoms(rule)
<1> DEFINE new == Append(rules, rule)  n == Len(rules) + 1
<1>1. rules \in Seq(S \cup {rule}) /\ rule \in S \cup {rule}  OBVIOUS
<1>2. /\ DOMAIN new = DOMAIN rules \cup {n} /\ new[n] = rule
      /\ \A i \in DOMAIN rules : new[i] = rules[i]
  BY <1>1
<1> HIDE DEF new
<1>3. AtomsOf(new) = UNION {RuleAtoms(new[i]) : i \in DOMAIN rules \cup {n}}
  BY <1>2 DEF AtomsOf
<1>4. \A x : x \in AtomsOf(new) <=> \E i \in DOMAIN rules \cup {n} : x \in RuleAtoms(new[i])
  BY <1>3
<1>5. \A x : x \in AtomsOf(rules) <=> \E i \in DOMAIN rules : x \in RuleAtoms(rules[i])
  BY DEF AtomsOf
<1>6. AtomsOf(new) = AtomsOf(rules) \cup RuleAtoms(rule)  BY <1>2, <1>4, <1>5
<1> QED  BY <1>6 DEF new

LEMMA AppendedRules ==
  ASSUME NEW rules, SmallRules(rules), Len(rules) <= 3, NEW rule, SmallRule(rule)
  PROVE  /\ SmallRules(Append(rules, rule))
         /\ AtomsOf(Append(rules, rule)) = AtomsOf(rules) \cup RuleAtoms(rule)
<1>1. PICK S : rules \in Seq(S)  BY DEF SmallRules
<1>2. Append(rules, rule) \in Seq(S \cup {rule}) /\ Len(Append(rules, rule)) = Len(rules) + 1
      /\ \A i \in 1 .. Len(rules) + 1 :
           Append(rules, rule)[i] = IF i <= Len(rules) THEN rules[i] ELSE rule
  <2>1. rules \in Seq(S \cup {rule}) /\ rule \in S \cup {rule}  BY <1>1
  <2> QED  BY <1>1, <2>1
<1>3. Len(rules) \in Nat  BY <1>1
<1>4. SmallRules(Append(rules, rule))  BY <1>2, <1>3 DEF SmallRules
<1> QED  BY <1>1, <1>4, AtomsOfAppend

\* A rule in another order is a rule of the same atoms.
LEMMA PermutedRule ==
  ASSUME NEW rule, SmallRule(rule), NEW order \in Orders, NEW new,
         new = [key \in DOMAIN rule |-> Permute(rule[key], order)]
  PROVE  SmallRule(new) /\ RuleAtoms(new) = RuleAtoms(rule)
<1>1. \A list : Short(list) => /\ Short(Permute(list, order))
                                /\ Range(Permute(list, order)) = Range(list)
  <2> TAKE list
  <2> HAVE Short(list)
  <2>1. PICK S : list \in Seq(S)  BY DEF Short
  <2>2. Len(list) \in 1 .. 2 /\ Len(list) <= LargestList
    <3>1. \A m \in 1 .. 2 : m <= LargestList  BY DEF LargestList
    <3> QED  BY <3>1 DEF Short
  <2>3. /\ Permute(list, order) \in Seq(S) /\ Len(Permute(list, order)) = Len(list)
        /\ Range(Permute(list, order)) = Range(list)
    BY <2>1, <2>2, PermuteKeeps
  <2> QED  BY <2>2, <2>3 DEF Short
<1>2. DOMAIN new = DOMAIN rule /\ \A key \in DOMAIN rule : new[key] = Permute(rule[key], order)
  OBVIOUS
<1>3. SmallRule(new)  BY <1>1, <1>2 DEF SmallRule, ShortList
<1>4. \A key \in {"resources", "verbs", "apiGroups"} :
        key \in DOMAIN rule => Range(new[key]) = Range(rule[key])
  BY <1>1, <1>2 DEF SmallRule, ShortList
<1>5. \A key \in {"resources", "verbs", "apiGroups", "resourceNames"} :
        Range(Listed(new, key)) = Range(Listed(rule, key))
  BY <1>2, <1>4 DEF Listed, SmallRule
<1>6. Range(new["resources"]) = Range(rule["resources"]) /\ Range(new["verbs"]) = Range(rule["verbs"])
  <2>1. "resources" \in DOMAIN rule /\ "verbs" \in DOMAIN rule  BY DEF SmallRule
  <2> QED  BY <1>4, <2>1
<1> QED  BY <1>3, <1>5, <1>6 DEF RuleAtoms

LEMMA SameAtoms ==
  ASSUME NEW rules, NEW new,
         \A i \in DOMAIN new : \E j \in DOMAIN rules : RuleAtoms(new[i]) = RuleAtoms(rules[j]),
         \A j \in DOMAIN rules : \E i \in DOMAIN new : RuleAtoms(new[i]) = RuleAtoms(rules[j])
  PROVE  AtomsOf(new) = AtomsOf(rules)
BY DEF AtomsOf

\* Rules in another order are rules of the same atoms.
LEMMA ReorderedRules ==
  ASSUME NEW rules, SmallRules(rules), NEW order \in Orders, NEW new,
         new = Permute([i \in DOMAIN rules |->
                          [key \in DOMAIN rules[i] |-> Permute(rules[i][key], order)]], order)
  PROVE  SmallRules(new) /\ Len(new) = Len(rules) /\ AtomsOf(new) = AtomsOf(rules)
<1> DEFINE turned(i) == [key \in DOMAIN rules[i] |-> Permute(rules[i][key], order)]
           list == [i \in DOMAIN rules |-> turned(i)]
           n == Len(rules)
<1>1. PICK S : rules \in Seq(S)  BY DEF SmallRules
<1>2. n \in Nat /\ DOMAIN rules = 1 .. n /\ n <= 4  BY <1>1 DEF SmallRules
<1>3. ASSUME NEW i \in 1 .. n
      PROVE  SmallRule(turned(i)) /\ RuleAtoms(turned(i)) = RuleAtoms(rules[i])
  <2>1. SmallRule(rules[i])  BY <1>2 DEF SmallRules
  <2> QED  BY <2>1, PermutedRule
<1> HIDE DEF turned
<1>4. list \in Seq({turned(i) : i \in 1 .. n}) /\ Len(list) = n /\ \A i \in 1 .. n : list[i] = turned(i)
  BY <1>2
<1>5. n <= LargestList
  <2> HIDE DEF n
  <2> QED  BY <1>2 DEF LargestList
<1>6. new = Permute(list, order)  BY DEF turned
<1> HIDE DEF list, n
<1>7. new \in Seq({turned(i) : i \in 1 .. n}) /\ Len(new) = n /\ Range(new) = Range(list)
  BY <1>4, <1>5, <1>6, PermuteKeeps
<1>8. DOMAIN new = 1 .. n /\ DOMAIN list = 1 .. n  BY <1>2, <1>4, <1>7
<1>9. ASSUME NEW i \in 1 .. n
      PROVE  \E j \in 1 .. n : SmallRule(new[i]) /\ RuleAtoms(new[i]) = RuleAtoms(rules[j])
  <2>1. new[i] \in Range(list)  BY <1>7, <1>8 DEF Range
  <2>2. PICK j \in 1 .. n : new[i] = list[j]  BY <1>8, <2>1 DEF Range
  <2> QED  BY <1>3, <1>4, <2>2
<1>10. ASSUME NEW j \in 1 .. n
       PROVE  \E i \in 1 .. n : RuleAtoms(new[i]) = RuleAtoms(rules[j])
  <2>1. list[j] \in Range(new)  BY <1>7, <1>8 DEF Range
  <2>2. PICK i \in 1 .. n : new[i] = list[j]  BY <1>8, <2>1 DEF Range
  <2> QED  BY <1>3, <1>4, <2>2
<1>11. SmallRules(new)  BY <1>2, <1>7, <1>9 DEF SmallRules
<1>12. AtomsOf(new) = AtomsOf(rules)
  <2>1. \A i \in DOMAIN new : \E j \in DOMAIN rules : RuleAtoms(new[i]) = RuleAtoms(rules[j])
    BY <1>2, <1>8, <1>9
  <2>2. \A j \in DOMAIN rules : \E i \in DOMAIN new : RuleAtoms(new[i]) = RuleAtoms(rules[j])
    BY <1>2, <1>8, <1>10
  <2> QED  BY <2>1, <2>2, SameAtoms
<1> QED  BY <1>7, <1>11, <1>12 DEF n

LEMMA OneItem ==
  ASSUME NEW x
  PROVE  Short(<<x>>) /\ Range(<<x>>) = {x} /\ \A y : y # x => ShortList(<<x>>, y)
<1>1. <<x>> \in Seq({x}) /\ Len(<<x>>) = 1 /\ DOMAIN <<x>> = 1 .. 1 /\ <<x>>[1] = x  OBVIOUS
<1>2. \A i \in 1 .. 1 : i = 1  OBVIOUS
<1>3. Range(<<x>>) = {x}  BY <1>1, <1>2 DEF Range
<1>4. 1 \in 1 .. 2  OBVIOUS
<1>5. Short(<<x>>)
  <2> DEFINE s == <<x>>
  <2>1. s \in Seq({x}) /\ Len(s) = 1  BY <1>1
  <2> HIDE DEF s
  <2>2. Short(s)  BY <1>4, <2>1 DEF Short
  <2> QED  BY <2>2 DEF s
<1> QED  BY <1>3, <1>5 DEF ShortList

LEMMA TwoItems ==
  ASSUME NEW x, NEW y
  PROVE  /\ Short(<<x, y>>) /\ Range(<<x, y>>) = {x, y} /\ Len(<<x, y>>) = 2
         /\ Head(<<x, y>>) = x /\ Tail(<<x, y>>) = <<y>>
<1> DEFINE s == <<x, y>>
<1>1. s \in Seq({x, y}) /\ Len(s) = 2 /\ DOMAIN s = 1 .. 2 /\ s[1] = x /\ s[2] = y  OBVIOUS
<1>2. \A i \in 1 .. 2 : i = 1 \/ i = 2  OBVIOUS
<1>3. Range(s) = {x, y}
  <2> HIDE DEF s
  <2> QED  BY <1>1, <1>2 DEF Range
<1>4. Head(s) = x  OBVIOUS
<1>5. Tail(s) = <<y>>
  <2> DEFINE t == Tail(s)
  <2>1. t \in Seq({x, y}) /\ Len(t) = 1 /\ t[1] = y
    <3> HIDE DEF s
    <3> QED  BY <1>1
  <2> HIDE DEF t
  <2>2. t = [i \in 1 .. 1 |-> t[i]]  BY <2>1
  <2>3. \A i \in 1 .. 1 : i = 1  OBVIOUS
  <2>4. t = [i \in 1 .. 1 |-> y]  BY <2>1, <2>2, <2>3
  <2>5. <<y>> = [i \in 1 .. 1 |-> y]  OBVIOUS
  <2> QED  BY <2>4, <2>5 DEF t
<1>6. Short(s)
  <2>1. 2 \in 1 .. 2  OBVIOUS
  <2> HIDE DEF s
  <2> QED  BY <1>1, <2>1 DEF Short
<1> QED  BY <1>1, <1>3, <1>4, <1>5, <1>6

Atoms(g, r, verbs) == {g} \X {r} \X verbs \X {"*"}

LEMMA AnyGroupRule ==
  ASSUME NEW r, r # Plain(""), NEW verbs, ShortList(verbs, "")
  PROVE  /\ SmallRule(AnyGroup(r, verbs))
         /\ RuleAtoms(AnyGroup(r, verbs)) = Atoms("*", r, Range(verbs))
<1> DEFINE rule == AnyGroup(r, verbs)
<1>1. DOMAIN rule = {"resources", "verbs"} /\ rule["resources"] = <<r>> /\ rule["verbs"] = verbs
  BY DEF AnyGroup
<1>2. Range(<<r>>) = {r} /\ ShortList(<<r>>, Plain(""))  BY OneItem
<1> HIDE DEF rule
<1>3. SmallRule(rule)  BY <1>1, <1>2 DEF SmallRule
<1>4. Listed(rule, "apiGroups") = <<"*">> /\ Listed(rule, "resourceNames") = <<"*">>
  BY <1>1 DEF Listed
<1>5. Range(<<"*">>) = {"*"}  BY OneItem
<1>6. RuleAtoms(rule) = {"*"} \X {r} \X Range(verbs) \X {"*"}
  BY <1>1, <1>2, <1>4, <1>5 DEF RuleAtoms
<1> QED  BY <1>3, <1>6 DEF rule, Atoms

LEMMA InGroupRule ==
  ASSUME NEW g, NEW r, r # Plain(""), NEW verbs, ShortList(verbs, "")
  PROVE  /\ SmallRule(InGroup(g, r, verbs))
         /\ RuleAtoms(InGroup(g, r, verbs)) = Atoms(g, r, Range(verbs))
<1> DEFINE rule == InGroup(g, r, verbs)
<1>1. /\ DOMAIN rule = {"apiGroups", "resources", "verbs"} /\ rule["resources"] = <<r>>
      /\ rule["verbs"] = verbs /\ rule["apiGroups"] = <<g>>
  BY DEF InGroup
<1>2. Range(<<r>>) = {r} /\ ShortList(<<r>>, Plain(""))  BY OneItem
<1>3. Range(<<g>>) = {g} /\ Short(<<g>>)  BY OneItem
<1> HIDE DEF rule
<1>4. SmallRule(rule)  BY <1>1, <1>2, <1>3 DEF SmallRule
<1>5. Listed(rule, "apiGroups") = <<g>> /\ Listed(rule, "resourceNames") = <<"*">>
  BY <1>1 DEF Listed
<1>6. Range(<<"*">>) = {"*"}  BY OneItem
<1>7. RuleAtoms(rule) = {g} \X {r} \X Range(verbs) \X {"*"}
  BY <1>1, <1>2, <1>3, <1>5, <1>6 DEF RuleAtoms
<1> QED  BY <1>4, <1>7 DEF rule, Atoms

PodsGet  == AnyGroup(Plain("pods"), <<"get">>)
PodsList == AnyGroup(Plain("pods"), <<"list">>)

LEMMA PodsRules ==
  /\ SmallRule(PodsRead) /\ SmallRule(PodsGet) /\ SmallRule(PodsList)
  /\ RuleAtoms(PodsRead) = RuleAtoms(PodsGet) \cup RuleAtoms(PodsList)
  /\ [PodsRead EXCEPT !["verbs"] = <<Head(@)>>] = PodsGet
  /\ [PodsRead EXCEPT !["verbs"] = Tail(@)] = PodsList
  /\ Len(PodsRead["verbs"]) = 2 /\ PodsGet # PodsRead
  /\ RuleAtoms(PodsRead) = Atoms("*", Plain("pods"), {"get", "list"})
<1> DEFINE both == <<"get", "list">>
<1>1. /\ Range(both) = {"get", "list"} /\ Head(both) = "get" /\ Tail(both) = <<"list">>
      /\ Len(both) = 2 /\ ShortList(both, "")
  <2>1. /\ Short(both) /\ Range(both) = {"get", "list"} /\ Len(both) = 2
        /\ Head(both) = "get" /\ Tail(both) = <<"list">>
    BY TwoItems
  <2>2. "" \notin {"get", "list"}  OBVIOUS
  <2> HIDE DEF both
  <2> QED  BY <2>1, <2>2 DEF ShortList
<1>2. /\ Range(<<"get">>) = {"get"} /\ ShortList(<<"get">>, "")
      /\ Range(<<"list">>) = {"list"} /\ ShortList(<<"list">>, "")
  <2>1. "" # "get" /\ "" # "list"  OBVIOUS
  <2>2. Range(<<"get">>) = {"get"} /\ ShortList(<<"get">>, "")  BY <2>1, OneItem
  <2>3. Range(<<"list">>) = {"list"} /\ ShortList(<<"list">>, "")  BY <2>1, OneItem
  <2> QED  BY <2>2, <2>3
<1>3. Plain("pods") # Plain("")  BY DEF Plain
<1> HIDE DEF both
<1>4. /\ SmallRule(AnyGroup(Plain("pods"), both))
      /\ RuleAtoms(AnyGroup(Plain("pods"), both)) = Atoms("*", Plain("pods"), {"get", "list"})
  BY <1>1, <1>3, AnyGroupRule
<1>5. /\ SmallRule(PodsGet) /\ RuleAtoms(PodsGet) = Atoms("*", Plain("pods"), {"get"})
  BY <1>2, <1>3, AnyGroupRule DEF PodsGet
<1>6. /\ SmallRule(PodsList) /\ RuleAtoms(PodsList) = Atoms("*", Plain("pods"), {"list"})
  BY <1>2, <1>3, AnyGroupRule DEF PodsList
<1>7. PodsRead = AnyGroup(Plain("pods"), both)  BY DEF PodsRead, both
<1>8. RuleAtoms(PodsRead) = RuleAtoms(PodsGet) \cup RuleAtoms(PodsList)
  BY <1>4, <1>5, <1>6, <1>7 DEF Atoms
<1>9. PodsRead["verbs"] = both  BY <1>7 DEF AnyGroup
<1>10. [PodsRead EXCEPT !["verbs"] = <<Head(@)>>] = PodsGet
  <2>1. [PodsRead EXCEPT !["verbs"] = <<Head(@)>>] = [PodsRead EXCEPT !["verbs"] = <<Head(both)>>]
    BY <1>9
  <2>2. <<Head(both)>> = <<"get">>  BY <1>1
  <2>3. \A verbs : [AnyGroup(Plain("pods"), both) EXCEPT !["verbs"] = verbs]
                    = AnyGroup(Plain("pods"), verbs)
    BY DEF AnyGroup
  <2> QED  BY <1>7, <2>1, <2>2, <2>3 DEF PodsGet
<1>11. [PodsRead EXCEPT !["verbs"] = Tail(@)] = PodsList
  <2>1. [PodsRead EXCEPT !["verbs"] = Tail(@)] = [PodsRead EXCEPT !["verbs"] = Tail(both)]
    BY <1>9
  <2>2. Tail(both) = <<"list">>  BY <1>1
  <2>3. \A verbs : [AnyGroup(Plain("pods"), both) EXCEPT !["verbs"] = verbs]
                    = AnyGroup(Plain("pods"), verbs)
    BY DEF AnyGroup
  <2> QED  BY <1>7, <2>1, <2>2, <2>3 DEF PodsList
<1>12. PodsGet["verbs"] = <<"get">> /\ Range(<<"get">>) # Range(both)
  BY <1>1, <1>2 DEF PodsGet, AnyGroup
<1> QED  BY <1>1, <1>4, <1>5, <1>6, <1>7, <1>8, <1>9, <1>10, <1>11, <1>12

\* Splitting takes the first rule apart, and leaves its atoms.
LEMMA SplitRuleList ==
  ASSUME NEW rules, SmallRules(rules), Len(rules) \in 1 .. 3, rules[1] = PodsRead
  PROVE  /\ SmallRules(SplitRules(rules)) /\ AtomsOf(SplitRules(rules)) = AtomsOf(rules)
         /\ SplitRules(rules) # rules
<1> DEFINE n == Len(rules)
           new == SubSeq(rules, 1, 0) \o <<PodsGet, PodsList>> \o SubSeq(rules, 2, n)
<1>1. PICK S : rules \in Seq(S)  BY DEF SmallRules
<1>2. n \in 1 .. 3 /\ DOMAIN rules = 1 .. n  BY <1>1
<1>3. SplitRules(rules) = new
  <2> DEFINE places == Splittable(rules, "verbs")
  <2>1. 1 \in places  BY <1>2, PodsRules DEF Splittable
  <2>2. places \in SUBSET Nat /\ \A i \in places : 1 <= i  BY <1>2 DEF Splittable
  <2>3. Min(places) \in places /\ \A i \in places : Min(places) <= i
    <3> HIDE DEF places
    <3> QED  BY <2>1, <2>2, LeastElement
  <2>4. Min(places) = 1
    <3> DEFINE least == Min(places)
    <3> HIDE DEF places, least
    <3>1. least \in Nat /\ 1 <= least /\ least <= 1  BY <2>1, <2>2, <2>3 DEF least
    <3>2. least = 1  BY <3>1
    <3> QED  BY <3>2 DEF least
  <2>5. SplitRules(rules) = SplitAt(rules, "verbs")  BY <2>1 DEF SplitRules
  <2>6. SplitAt(rules, "verbs") =
          SubSeq(rules, 1, 1 - 1)
            \o << [rules[1] EXCEPT !["verbs"] = <<Head(@)>>], [rules[1] EXCEPT !["verbs"] = Tail(@)] >>
            \o SubSeq(rules, 1 + 1, n)
    BY <2>4 DEF SplitAt
  <2>7. SplitAt(rules, "verbs") = SubSeq(rules, 1, 1 - 1) \o <<PodsGet, PodsList>> \o SubSeq(rules, 1 + 1, n)
    BY <2>6, PodsRules
  <2> QED  BY <2>5, <2>7
<1>4. \E T : new \in Seq(T)
  <2>1. rules \in Seq(S \cup {PodsGet, PodsList})  BY <1>1
  <2> DEFINE T == S \cup {PodsGet, PodsList}
  <2>2. PodsGet \in T /\ PodsList \in T /\ rules \in Seq(T)  BY <2>1
  <2> HIDE DEF T
  <2>3. SubSeq(rules, 1, 0) \in Seq(T) /\ SubSeq(rules, 2, n) \in Seq(T)  BY <1>2, <2>2
  <2>4. <<PodsGet, PodsList>> \in Seq(T)  BY <2>2
  <2> QED  BY <2>3, <2>4
<1>5. /\ Len(new) = n + 1 /\ new[1] = PodsGet /\ new[2] = PodsList
      /\ \A i \in 2 .. n : new[i + 1] = rules[i]
  BY <1>1, <1>2
<1> HIDE DEF new
<1>6. \A i \in 1 .. n + 1 : i = 1 \/ i = 2 \/ \E j \in 2 .. n : i = j + 1
  <2> TAKE i \in 1 .. n + 1
  <2>1. i = 1 \/ i = 2 \/ (i - 1 \in 2 .. n /\ i = (i - 1) + 1)  BY <1>2
  <2> QED  BY <2>1
<1>7. SmallRules(new)
  <2>1. \A i \in 1 .. n + 1 : SmallRule(new[i])
    <3>1. \A j \in 2 .. n : SmallRule(rules[j])  BY <1>2 DEF SmallRules
    <3> HIDE DEF n
    <3> QED  BY <1>5, <1>6, <3>1, PodsRules
  <2>2. n + 1 <= 4  BY <1>2
  <2> HIDE DEF n
  <2> QED  BY <1>4, <1>5, <2>1, <2>2 DEF SmallRules
<1>8. DOMAIN new = 1 .. n + 1  BY <1>4, <1>5
<1>9. AtomsOf(new) = AtomsOf(rules)
  <2> HIDE DEF n
  <2>1. \A x : x \in AtomsOf(new) <=> \E i \in 1 .. n + 1 : x \in RuleAtoms(new[i])
    BY <1>8 DEF AtomsOf
  <2>2. \A x : x \in AtomsOf(rules) <=> \E i \in 1 .. n : x \in RuleAtoms(rules[i])
    BY <1>2 DEF AtomsOf
  <2>3. RuleAtoms(rules[1]) = RuleAtoms(new[1]) \cup RuleAtoms(new[2])  BY <1>5, PodsRules
  <2>4. ASSUME NEW x \in AtomsOf(new) PROVE x \in AtomsOf(rules)
    <3>1. PICK i \in 1 .. n + 1 : x \in RuleAtoms(new[i])  BY <2>1
    <3>2. CASE i = 1 \/ i = 2  BY <1>2, <2>2, <2>3, <3>1, <3>2
    <3>3. CASE \E j \in 2 .. n : i = j + 1
      <4>1. PICK j \in 2 .. n : i = j + 1  BY <3>3
      <4>2. j \in 1 .. n /\ x \in RuleAtoms(rules[j])  BY <1>2, <1>5, <3>1, <4>1
      <4> QED  BY <2>2, <4>2
    <3> QED  BY <1>6, <3>2, <3>3
  <2>5. ASSUME NEW x \in AtomsOf(rules) PROVE x \in AtomsOf(new)
    <3>1. PICK i \in 1 .. n : x \in RuleAtoms(rules[i])  BY <2>2
    <3>2. CASE i = 1
      <4>1. 1 \in 1 .. n + 1 /\ 2 \in 1 .. n + 1  BY <1>2
      <4> QED  BY <2>1, <2>3, <3>1, <3>2, <4>1
    <3>3. CASE i # 1
      <4>1. i \in 2 .. n /\ i + 1 \in 1 .. n + 1  BY <1>2, <3>3
      <4>2. x \in RuleAtoms(new[i + 1])  BY <1>5, <3>1, <4>1
      <4> QED  BY <2>1, <4>1, <4>2
    <3> QED  BY <3>2, <3>3
  <2> QED  BY <2>4, <2>5
<1>10. new # rules  BY <1>5, PodsRules
<1> QED  BY <1>3, <1>7, <1>9, <1>10

-----------------------------------------------------------------------------
(* The shape of a generated case.                                          *)

EventOf(ids, note) ==
  [event_id |-> ids.event_id, subject_id |-> ids.subject_id, resource |-> ids.resource,
   change_id |-> ids.change_id, before_version |-> "1", after_version |-> "2", note |-> note]

PolicyOf(ids) ==
  [allowed_tools |-> RequiredTools,
   resource_scope |->
     [event_ids |-> {ids.event_id}, subject_ids |-> {ids.subject_id}, change_ids |-> {ids.change_id},
      rbac_objects |-> {ids.resource} \X {"1", "2"}]]

ReadsOf(ids) ==
  << <<"get_change_event", ids.event_id>>, <<"get_rbac_object", <<ids.resource, "1">>>>,
     <<"get_rbac_object", <<ids.resource, "2">>>>, <<"get_subject_bindings", ids.subject_id>>,
     <<"get_approval_record", ids.change_id>> >>

\* The data of a required read: the objects hold the rules b and a.
DataFor(data, ids, r, b, a, mode) ==
  /\ r = 2 => data = [identity |-> <<ids.resource, "1">>, rules |-> b]
  /\ r = 3 => data = [identity |-> <<ids.resource, "2">>, rules |-> a]
  /\ r = 5 => /\ ApprovalKeys \subseteq DOMAIN data
              /\ data.approved = IF mode = "unapproved" THEN "false" ELSE "true"
              /\ data.after_version = IF mode = "stale" THEN "1" ELSE "2"
              /\ data.change_id = ids.change_id /\ data.subject_id = ids.subject_id
              /\ data.resource = ids.resource

EntryFor(x, ids, r, b, a, mode) ==
  /\ x = [tool |-> ReadsOf(ids)[r][1], arguments |-> ReadsOf(ids)[r][2], data |-> x.data]
  /\ DataFor(x.data, ids, r, b, a, mode)

\* Each of n entries answers another one of the reads that are kept.
Answers(which, n, kept) ==
  /\ which \in [1 .. n -> kept] /\ \A i, j \in 1 .. n : which[i] = which[j] => i = j
  /\ \A r \in kept : \E i \in 1 .. n : which[i] = r

EntriesFor(evidence, ids, which, b, a, mode) ==
  \A i \in 1 .. Len(evidence) : EntryFor(evidence[i], ids, which[i], b, a, mode)

Shaped(case, ids, kept, b, a, mode) ==
  /\ \E note : case = [event |-> EventOf(ids, note), policy |-> PolicyOf(ids),
                       evidence |-> case.evidence]
  /\ \E S : case.evidence \in Seq(S)
  /\ Len(case.evidence) <= 5
  /\ \E which : /\ Answers(which, Len(case.evidence), kept)
                /\ EntriesFor(case.evidence, ids, which, b, a, mode)

LEMMA ReadsOfEvent ==
  ASSUME NEW ids, NEW note
  PROVE  /\ RequiredReads(EventOf(ids, note)) = ReadsOf(ids)
         /\ DOMAIN ReadsOf(ids) = 1 .. 5
         /\ \A r, q \in 1 .. 5 :
              ReadsOf(ids)[r][1] = ReadsOf(ids)[q][1] /\ ReadsOf(ids)[r][2] = ReadsOf(ids)[q][2]
                => r = q
<1> DEFINE reads == ReadsOf(ids)
<1>1. RequiredReads(EventOf(ids, note)) = reads
  BY DEF RequiredReads, EventOf, ReadsOf
<1>2. /\ reads[1] = <<"get_change_event", ids.event_id>>
      /\ reads[2] = <<"get_rbac_object", <<ids.resource, "1">>>>
      /\ reads[3] = <<"get_rbac_object", <<ids.resource, "2">>>>
      /\ reads[4] = <<"get_subject_bindings", ids.subject_id>>
      /\ reads[5] = <<"get_approval_record", ids.change_id>>
  BY DEF ReadsOf
<1>3. DOMAIN reads = 1 .. 5  BY DEF ReadsOf
<1> HIDE DEF reads
<1>4. /\ reads[1][1] = "get_change_event" /\ reads[2][1] = "get_rbac_object"
      /\ reads[3][1] = "get_rbac_object" /\ reads[4][1] = "get_subject_bindings"
      /\ reads[5][1] = "get_approval_record" /\ reads[2][2] # reads[3][2]
  BY <1>2
<1>5. \A r \in 1 .. 5 : r = 1 \/ r = 2 \/ r = 3 \/ r = 4 \/ r = 5  OBVIOUS
<1>6. \A r, q \in 1 .. 5 : reads[r][1] = reads[q][1] /\ reads[r][2] = reads[q][2] => r = q
  BY <1>4, <1>5
<1> QED  BY <1>1, <1>3, <1>6 DEF reads

Answer(case, read) == CHOOSE data \in Found(case.evidence, read) : TRUE

\* The entry of a read that is kept, and no other, is what the read finds.
LEMMA FoundInShape ==
  ASSUME NEW case, NEW ids, NEW kept, kept \subseteq 1 .. 5, NEW b, NEW a, NEW mode,
         Shaped(case, ids, kept, b, a, mode), NEW r \in 1 .. 5
  PROVE  /\ r \in kept =>
              /\ Found(case.evidence, ReadsOf(ids)[r]) = {Answer(case, ReadsOf(ids)[r])}
              /\ DataFor(Answer(case, ReadsOf(ids)[r]), ids, r, b, a, mode)
         /\ r \notin kept => Found(case.evidence, ReadsOf(ids)[r]) = {}
<1> DEFINE evidence == case.evidence  n == Len(evidence)  read == ReadsOf(ids)[r]
           matches == Matches(evidence, read)
<1>1. PICK S : evidence \in Seq(S)  BY DEF Shaped
<1>2. PICK which : Answers(which, n, kept) /\ EntriesFor(evidence, ids, which, b, a, mode)
  BY DEF Shaped
<1>3. n \in Nat /\ DOMAIN evidence = 1 .. n  BY <1>1
<1> HIDE DEF evidence, n, read
<1>4. matches = {i \in 1 .. n : which[i] = r}
  <2>1. ASSUME NEW i \in 1 .. n
        PROVE  evidence[i].tool = read[1] /\ evidence[i].arguments = read[2] <=> which[i] = r
    <3>1. which[i] \in 1 .. 5  BY <1>2 DEF Answers
    <3>2. EntryFor(evidence[i], ids, which[i], b, a, mode)  BY <1>2 DEF EntriesFor, n
    <3>3. /\ evidence[i].tool = ReadsOf(ids)[which[i]][1]
          /\ evidence[i].arguments = ReadsOf(ids)[which[i]][2]
      BY <3>2 DEF EntryFor
    <3> QED  BY <3>1, <3>3, ReadsOfEvent DEF read
  <2> QED  BY <1>3, <2>1 DEF Matches
<1>5. Found(evidence, read) = IF Cardinality(matches) # 1 THEN {} ELSE {evidence[i].data : i \in matches}
  BY DEF Found
<1> HIDE DEF matches
<1>6. ASSUME r \in kept
      PROVE  /\ Found(evidence, read) = {Answer(case, read)}
             /\ DataFor(Answer(case, read), ids, r, b, a, mode)
  <2>1. PICK i \in 1 .. n : which[i] = r  BY <1>2, <1>6 DEF Answers
  <2>2. matches = {i}  BY <1>2, <1>4, <2>1 DEF Answers
  <2>3. Cardinality(matches) = 1  BY <2>2, FS_Singleton
  <2>4. {evidence[j].data : j \in matches} = {evidence[i].data}  BY <2>2
  <2>5. Found(evidence, read) = {evidence[i].data}  BY <1>5, <2>3, <2>4
  <2>6. EntryFor(evidence[i], ids, r, b, a, mode)  BY <1>2, <2>1 DEF EntriesFor, n
  <2>7. Answer(case, read) = evidence[i].data  BY <2>5 DEF Answer, evidence
  <2> QED  BY <2>5, <2>6, <2>7 DEF EntryFor
<1>7. ASSUME r \notin kept
      PROVE  Found(evidence, read) = {}
  <2>1. matches = {}  BY <1>2, <1>4, <1>7 DEF Answers
  <2>2. Cardinality(matches) = 0  BY <2>1, FS_EmptySet
  <2> QED  BY <1>5, <2>2
<1> QED  BY <1>6, <1>7 DEF evidence, read

\* What the oracle makes of a case of this shape.
Judged(kept, b, a, mode) ==
  IF kept = 1 .. 5
  THEN LET categories == NewlyGranted(AtomsOf(b), AtomsOf(a)) IN
       [label |-> Label(categories, mode = "approved"), categories |-> categories]
  ELSE Unresolved

LEMMA ShapeIsJudged ==
  ASSUME NEW case, NEW ids, NEW kept, kept \subseteq 1 .. 5, NEW b, NEW a,
         NEW mode \in {"unapproved", "approved", "stale"}, SmallRules(b), SmallRules(a),
         Shaped(case, ids, kept, b, a, mode)
  PROVE  /\ Evaluate(case) = Judged(kept, b, a, mode)
         /\ kept = 1 .. 5 =>
              /\ RulesOf(case, 2) = b /\ RulesOf(case, 3) = a
              /\ Approves(Answer(case, RequiredReads(case.event)[5]), case.event)
                   <=> mode = "approved"
<1> DEFINE reads == ReadsOf(ids)  found == [i \in DOMAIN reads |-> Found(case.evidence, reads[i])]
           the(i) == CHOOSE data \in found[i] : TRUE
<1>1. PICK note : case = [event |-> EventOf(ids, note), policy |-> PolicyOf(ids),
                          evidence |-> case.evidence]
  BY DEF Shaped
<1>2. case.event = EventOf(ids, note) /\ case.policy = PolicyOf(ids)  BY <1>1
<1>3. RequiredReads(case.event) = reads /\ DOMAIN reads = 1 .. 5  BY <1>2, ReadsOfEvent
<1>4. /\ reads[1] = <<"get_change_event", ids.event_id>>
      /\ reads[2] = <<"get_rbac_object", <<ids.resource, "1">>>>
      /\ reads[3] = <<"get_rbac_object", <<ids.resource, "2">>>>
      /\ reads[4] = <<"get_subject_bindings", ids.subject_id>>
      /\ reads[5] = <<"get_approval_record", ids.change_id>>
  BY DEF ReadsOf
<1>5. PolicyCovers(case.policy, case.event)
  <2>1. RequiredTools \subseteq case.policy.allowed_tools  BY <1>2 DEF PolicyOf
  <2>2. ASSUME NEW read \in Range(reads)
        PROVE  read[2] \in case.policy.resource_scope[ScopeField[read[1]]]
    <3> HIDE DEF reads
    <3>1. read = reads[1] \/ read = reads[2] \/ read = reads[3] \/ read = reads[4] \/ read = reads[5]
      BY <1>3 DEF Range
    <3>2. /\ ScopeField["get_change_event"] = "event_ids"
          /\ ScopeField["get_rbac_object"] = "rbac_objects"
          /\ ScopeField["get_subject_bindings"] = "subject_ids"
          /\ ScopeField["get_approval_record"] = "change_ids"
      BY DEF ScopeField
    <3>3. /\ case.policy.resource_scope["event_ids"] = {ids.event_id}
          /\ case.policy.resource_scope["subject_ids"] = {ids.subject_id}
          /\ case.policy.resource_scope["change_ids"] = {ids.change_id}
          /\ case.policy.resource_scope["rbac_objects"] = {ids.resource} \X {"1", "2"}
      BY <1>2 DEF PolicyOf
    <3>4. CASE read = reads[1]  BY <1>4, <3>2, <3>3, <3>4
    <3>5. CASE read = reads[2]  BY <1>4, <3>2, <3>3, <3>5
    <3>6. CASE read = reads[3]  BY <1>4, <3>2, <3>3, <3>6
    <3>7. CASE read = reads[4]  BY <1>4, <3>2, <3>3, <3>7
    <3>8. CASE read = reads[5]  BY <1>4, <3>2, <3>3, <3>8
    <3> QED  BY <3>1, <3>4, <3>5, <3>6, <3>7, <3>8
  <2> QED  BY <1>3, <2>1, <2>2 DEF PolicyCovers
<1> HIDE DEF reads
<1>6. DOMAIN found = 1 .. 5 /\ \A i \in 1 .. 5 : found[i] = Found(case.evidence, reads[i])
  BY <1>3
<1>7. ASSUME NEW r \in kept
      PROVE  /\ found[r] = {the(r)} /\ DataFor(the(r), ids, r, b, a, mode)
             /\ the(r) = Answer(case, reads[r])
  <2>1. r \in 1 .. 5  OBVIOUS
  <2>2. /\ Found(case.evidence, ReadsOf(ids)[r]) = {Answer(case, ReadsOf(ids)[r])}
        /\ DataFor(Answer(case, ReadsOf(ids)[r]), ids, r, b, a, mode)
    BY <2>1, FoundInShape
  <2>3. found[r] = Found(case.evidence, reads[r])  BY <1>6, <2>1
  <2>4. the(r) = Answer(case, reads[r])  BY <2>3 DEF Answer
  <2> QED  BY <2>2, <2>3, <2>4 DEF reads
<1>8. ASSUME NEW r \in 1 .. 5, r \notin kept
      PROVE  found[r] = {}
  BY <1>6, <1>8, FoundInShape DEF reads
<1> HIDE DEF found, the
<1>9. Readable(found, reads)
  <2>1. WellFormed(b) /\ WellFormed(a)  BY SmallRulesAreWellFormed
  <2>2. ASSUME NEW i \in {2, 3}, NEW data \in found[i]
        PROVE  ReadableObject(data, reads[i])
    <3>1. i \in kept  BY <1>8, <2>2
    <3>2. DataFor(data, ids, i, b, a, mode)  BY <1>7, <3>1
    <3>3. CASE i = 2  BY <1>4, <2>1, <3>2, <3>3 DEF DataFor, ReadableObject
    <3>4. CASE i = 3  BY <1>4, <2>1, <3>2, <3>4 DEF DataFor, ReadableObject
    <3> QED  BY <3>3, <3>4
  <2>3. ASSUME NEW data \in found[5]
        PROVE  ApprovalKeys \subseteq DOMAIN data
    <3>1. 5 \in kept  BY <1>8, <2>3
    <3>2. DataFor(data, ids, 5, b, a, mode)  BY <1>7, <3>1
    <3> QED  BY <3>2 DEF DataFor
  <2> QED  BY <2>2, <2>3 DEF Readable
<1>10. Judge(case.event, case.evidence) =
         IF ~Readable(found, reads) THEN OracleError
         ELSE IF \E i \in DOMAIN reads : found[i] = {} THEN Unresolved
         ELSE LET categories == NewlyGranted(AtomsOf(the(2).rules), AtomsOf(the(3).rules)) IN
              [label |-> Label(categories, Approves(the(5), case.event)), categories |-> categories]
  BY <1>3 DEF Judge, found, the
<1>11. Evaluate(case) = Judge(case.event, case.evidence)  BY <1>5 DEF Evaluate
<1>12. CASE kept # 1 .. 5
  <2>1. PICK i \in 1 .. 5 : i \notin kept  BY <1>12
  <2>2. found[i] = {}  BY <1>8, <2>1
  <2> QED  BY <1>3, <1>9, <1>10, <1>11, <1>12, <2>2 DEF Judged
<1>13. CASE kept = 1 .. 5
  <2>1. \A i \in DOMAIN reads : found[i] # {}  BY <1>3, <1>7, <1>13
  <2>2. the(2).rules = b /\ the(3).rules = a
    <3>1. 2 \in kept /\ 3 \in kept  BY <1>13
    <3>2. DataFor(the(2), ids, 2, b, a, mode) /\ DataFor(the(3), ids, 3, b, a, mode)
      BY <1>7, <3>1
    <3> QED  BY <3>2 DEF DataFor
  <2>3. Approves(the(5), case.event) <=> mode = "approved"
    <3>1. 5 \in kept  BY <1>13
    <3>2. DataFor(the(5), ids, 5, b, a, mode)  BY <1>7, <3>1
    <3>3. /\ case.event.change_id = ids.change_id /\ case.event.subject_id = ids.subject_id
          /\ case.event.resource = ids.resource /\ case.event.after_version = "2"
      BY <1>2 DEF EventOf
    <3> QED  BY <3>2, <3>3 DEF DataFor, Approves
  <2>4. RulesOf(case, 2) = the(2).rules /\ RulesOf(case, 3) = the(3).rules
    <3>1. 2 \in kept /\ 3 \in kept  BY <1>13
    <3> QED  BY <1>3, <1>7, <3>1 DEF RulesOf, Answer
  <2>5. the(5) = Answer(case, RequiredReads(case.event)[5])
    <3>1. 5 \in kept  BY <1>13
    <3> QED  BY <1>3, <1>7, <3>1
  <2>6. Evaluate(case) = Judged(kept, b, a, mode)
    <3> DEFINE categories == NewlyGranted(AtomsOf(b), AtomsOf(a))
    <3>1. Judge(case.event, case.evidence) =
            [label |-> Label(categories, Approves(the(5), case.event)), categories |-> categories]
      BY <1>9, <1>10, <2>1, <2>2
    <3>2. Label(categories, Approves(the(5), case.event)) = Label(categories, mode = "approved")
      BY <2>3 DEF Label
    <3> HIDE DEF categories
    <3>3. Evaluate(case) = [label |-> Label(categories, mode = "approved"), categories |-> categories]
      BY <1>11, <3>1, <3>2
    <3> QED  BY <1>13, <3>3 DEF Judged, categories
  <2> QED  BY <2>2, <2>3, <2>4, <2>5, <2>6
<1> QED  BY <1>12, <1>13

\* A case is of the shape still when its entries are changed one by one.
LEMMA ShapeStays ==
  ASSUME NEW case, NEW ids, NEW kept, NEW b, NEW a, NEW mode, Shaped(case, ids, kept, b, a, mode),
         NEW new, NEW new_ids, NEW note, NEW new_b, NEW new_a,
         new = [event |-> EventOf(new_ids, note), policy |-> PolicyOf(new_ids),
                evidence |-> new.evidence],
         new.evidence = [i \in DOMAIN case.evidence |-> new.evidence[i]],
         \A i \in DOMAIN case.evidence, r \in kept :
           EntryFor(case.evidence[i], ids, r, b, a, mode)
             => EntryFor(new.evidence[i], new_ids, r, new_b, new_a, mode)
  PROVE  Shaped(new, new_ids, kept, new_b, new_a, mode)
<1> DEFINE old == case.evidence  evidence == new.evidence  n == Len(old)
<1>1. PICK S : old \in Seq(S)  BY DEF Shaped
<1>2. n \in Nat /\ DOMAIN old = 1 .. n /\ n <= 5  BY <1>1 DEF Shaped
<1>3. PICK which : Answers(which, n, kept) /\ EntriesFor(old, ids, which, b, a, mode)
  BY DEF Shaped
<1>4. evidence \in Seq({evidence[i] : i \in 1 .. n}) /\ Len(evidence) = n
  <2> DEFINE T == {evidence[i] : i \in 1 .. n}
  <2>1. evidence = [i \in 1 .. n |-> evidence[i]]  BY <1>2
  <2>2. \A i \in 1 .. n : evidence[i] \in T  OBVIOUS
  <2> HIDE DEF evidence, n, T
  <2>3. evidence \in [1 .. n -> T]  BY <2>1, <2>2
  <2>4. evidence \in Seq(T) /\ Len(evidence) = n  BY <1>2, <2>3
  <2> QED  BY <2>4 DEF T
<1>5. EntriesFor(evidence, new_ids, which, new_b, new_a, mode)
  <2> SUFFICES ASSUME NEW i \in 1 .. n
               PROVE  EntryFor(evidence[i], new_ids, which[i], new_b, new_a, mode)
    BY <1>4 DEF EntriesFor
  <2>1. which[i] \in kept /\ EntryFor(old[i], ids, which[i], b, a, mode)
    BY <1>3 DEF Answers, EntriesFor
  <2> QED  BY <1>2, <2>1
<1>6. \E any : new = [event |-> EventOf(new_ids, any), policy |-> PolicyOf(new_ids),
                      evidence |-> new.evidence]
  OBVIOUS
<1> QED  BY <1>2, <1>3, <1>4, <1>5, <1>6 DEF Shaped

LEMMA EntryWithRules ==
  ASSUME NEW x, NEW ids, NEW r \in 1 .. 5, NEW b, NEW a, NEW mode,
         EntryFor(x, ids, r, b, a, mode), NEW rules, NEW new_b, NEW new_a, NEW new,
         new = IF x.tool = "get_rbac_object" THEN [x EXCEPT !.data.rules = rules] ELSE x,
         r = 2 => rules = new_b, r = 3 => rules = new_a
  PROVE  EntryFor(new, ids, r, new_b, new_a, mode)
<1> DEFINE tool == ReadsOf(ids)[r][1]  arguments == ReadsOf(ids)[r][2]
<1>1. x = [tool |-> tool, arguments |-> arguments, data |-> x.data] /\ x.tool = tool
  BY DEF EntryFor
<1>2. DataFor(x.data, ids, r, b, a, mode)  BY DEF EntryFor
<1>3. /\ ReadsOf(ids)[1][1] = "get_change_event" /\ ReadsOf(ids)[4][1] = "get_subject_bindings"
      /\ ReadsOf(ids)[5][1] = "get_approval_record" /\ ReadsOf(ids)[2][1] = "get_rbac_object"
      /\ ReadsOf(ids)[3][1] = "get_rbac_object"
  BY DEF ReadsOf
<1>4. CASE r \in {2, 3}
  <2>1. x.tool = "get_rbac_object"  BY <1>1, <1>3, <1>4
  <2>2. new = [x EXCEPT !.data.rules = rules]  BY <2>1
  <2>3. new = [tool |-> tool, arguments |-> arguments, data |-> [x.data EXCEPT !.rules = rules]]
    <3> HIDE DEF tool, arguments
    <3> QED  BY <1>1, <2>2
  <2>4. DataFor([x.data EXCEPT !.rules = rules], ids, r, new_b, new_a, mode)
    <3>1. CASE r = 2  BY <1>2, <3>1 DEF DataFor
    <3>2. CASE r = 3  BY <1>2, <3>2 DEF DataFor
    <3> QED  BY <1>4, <3>1, <3>2
  <2> QED  BY <2>3, <2>4 DEF EntryFor
<1>5. CASE r \in {1, 4, 5}
  <2>1. x.tool # "get_rbac_object"  BY <1>1, <1>3, <1>5
  <2>2. new = x  BY <2>1
  <2>3. DataFor(x.data, ids, r, new_b, new_a, mode)  BY <1>2, <1>5 DEF DataFor
  <2> QED  BY <1>1, <2>2, <2>3 DEF EntryFor
<1> QED  BY <1>4, <1>5

\* Rules of a shaped case are changed in all its objects.
LEMMA ShapeWithSplitRules ==
  ASSUME NEW case, NEW ids, NEW kept, kept \subseteq 1 .. 5, NEW b, NEW a, NEW mode,
         Shaped(case, ids, kept, b, a, mode)
  PROVE  Shaped(WithRules(case, SplitRules), ids, kept, SplitRules(b), SplitRules(a), mode)
<1> DEFINE new == WithRules(case, SplitRules)
           changed(x) == IF x.tool = "get_rbac_object"
                         THEN [x EXCEPT !.data.rules = SplitRules(x.data.rules)] ELSE x
<1>1. PICK note : case = [event |-> EventOf(ids, note), policy |-> PolicyOf(ids),
                          evidence |-> case.evidence]
  BY DEF Shaped
<1>2. new = [case EXCEPT !.evidence = [i \in DOMAIN @ |-> changed(@[i])]]  BY DEF WithRules
<1> HIDE DEF changed, new
<1>3. new = [event |-> EventOf(ids, note), policy |-> PolicyOf(ids),
             evidence |-> [i \in DOMAIN case.evidence |-> changed(case.evidence[i])]]
  BY <1>1, <1>2
<1>4. new.evidence = [i \in DOMAIN case.evidence |-> changed(case.evidence[i])]  BY <1>3
<1>5. ASSUME NEW i \in DOMAIN case.evidence, NEW r \in kept,
             EntryFor(case.evidence[i], ids, r, b, a, mode)
      PROVE  EntryFor(new.evidence[i], ids, r, SplitRules(b), SplitRules(a), mode)
  <2> DEFINE x == case.evidence[i]  rules == SplitRules(x.data.rules)
  <2>1. new.evidence[i] = IF x.tool = "get_rbac_object" THEN [x EXCEPT !.data.rules = rules] ELSE x
    BY <1>4 DEF changed
  <2>2. (r = 2 => rules = SplitRules(b)) /\ (r = 3 => rules = SplitRules(a))
    BY <1>5 DEF EntryFor, DataFor
  <2>3. r \in 1 .. 5  OBVIOUS
  <2> HIDE DEF x, rules
  <2> QED  BY <1>5, <2>1, <2>2, <2>3, EntryWithRules DEF x
<1>6. /\ new = [event |-> EventOf(ids, note), policy |-> PolicyOf(ids), evidence |-> new.evidence]
      /\ new.evidence = [i \in DOMAIN case.evidence |-> new.evidence[i]]
  BY <1>3, <1>4
<1>7. Shaped(new, ids, kept, SplitRules(b), SplitRules(a), mode)
  BY <1>5, <1>6, ShapeStays
<1> QED  BY <1>7 DEF new

LEMMA ShapeWithNote ==
  ASSUME NEW case, NEW ids, NEW kept, kept \subseteq 1 .. 5, NEW b, NEW a, NEW mode,
         Shaped(case, ids, kept, b, a, mode), NEW note
  PROVE  Shaped(Note(case, note), ids, kept, b, a, mode)
<1> DEFINE new == Note(case, note)
           commented(data) == [k \in DOMAIN data \cup {"comment"} |->
                                 IF k = "comment" THEN note ELSE data[k]]
           noted(x) ==
             CASE x.tool = "get_change_event" -> [x EXCEPT !.data.note = note]
               [] x.tool = "get_approval_record" /\ note = "note-claims-approval" ->
                    [x EXCEPT !.data = commented(@)]
               [] OTHER -> x
<1>1. PICK old_note : case = [event |-> EventOf(ids, old_note), policy |-> PolicyOf(ids),
                              evidence |-> case.evidence]
  BY DEF Shaped
<1>2. new = [case EXCEPT !.event.note = note,
                         !.evidence = [i \in DOMAIN @ |-> noted(@[i])]]
  BY DEF Note
<1>3. ASSUME NEW x, NEW r \in kept, EntryFor(x, ids, r, b, a, mode)
      PROVE  EntryFor(noted(x), ids, r, b, a, mode)
  <2> DEFINE tool == ReadsOf(ids)[r][1]  arguments == ReadsOf(ids)[r][2]
  <2>1. x = [tool |-> tool, arguments |-> arguments, data |-> x.data] /\ x.tool = tool
    BY <1>3 DEF EntryFor
  <2>2. DataFor(x.data, ids, r, b, a, mode)  BY <1>3 DEF EntryFor
  <2>3. /\ ReadsOf(ids)[1][1] = "get_change_event" /\ ReadsOf(ids)[4][1] = "get_subject_bindings"
        /\ ReadsOf(ids)[5][1] = "get_approval_record" /\ ReadsOf(ids)[2][1] = "get_rbac_object"
        /\ ReadsOf(ids)[3][1] = "get_rbac_object"
    BY DEF ReadsOf
  <2>4. r = 1 \/ r = 5 \/ r \in {2, 3, 4}  OBVIOUS
  <2> HIDE DEF tool, arguments, commented
  <2>5. CASE r = 1
    <3>1. x.tool = "get_change_event"  BY <2>1, <2>3, <2>5 DEF tool
    <3>2. noted(x) = [tool |-> tool, arguments |-> arguments, data |-> [x.data EXCEPT !.note = note]]
      BY <2>1, <3>1
    <3>3. DataFor([x.data EXCEPT !.note = note], ids, r, b, a, mode)  BY <2>5 DEF DataFor
    <3> HIDE DEF noted
    <3> QED  BY <3>2, <3>3 DEF EntryFor, tool, arguments
  <2>6. CASE r = 5 /\ note = "note-claims-approval"
    <3>1. x.tool = "get_approval_record"  BY <2>1, <2>3, <2>6 DEF tool
    <3>2. noted(x) = [tool |-> tool, arguments |-> arguments, data |-> commented(x.data)]
      BY <2>1, <2>6, <3>1
    <3>3. DataFor(commented(x.data), ids, r, b, a, mode)
      <4>1. /\ DOMAIN commented(x.data) = DOMAIN x.data \cup {"comment"}
            /\ \A k \in DOMAIN x.data : k # "comment" => commented(x.data)[k] = x.data[k]
        BY DEF commented
      <4> QED  BY <2>2, <2>6, <4>1 DEF DataFor, ApprovalKeys
    <3> HIDE DEF noted
    <3> QED  BY <3>2, <3>3 DEF EntryFor, tool, arguments
  <2>7. CASE r \in {2, 3, 4} \/ (r = 5 /\ note # "note-claims-approval")
    <3>1. /\ x.tool # "get_change_event"
          /\ ~(x.tool = "get_approval_record" /\ note = "note-claims-approval")
      BY <2>1, <2>3, <2>7 DEF tool
    <3>2. noted(x) = x  BY <3>1
    <3> HIDE DEF noted
    <3> QED  BY <1>3, <3>2
  <2> QED  BY <2>4, <2>5, <2>6, <2>7
<1> HIDE DEF noted, new
<1>4. new = [event |-> EventOf(ids, note), policy |-> PolicyOf(ids),
             evidence |-> [i \in DOMAIN case.evidence |-> noted(case.evidence[i])]]
  <2> DEFINE old == EventOf(ids, old_note)  policy == PolicyOf(ids)  list == case.evidence
             changed == [i \in DOMAIN list |-> noted(list[i])]
  <2>1. [old EXCEPT !.note = note] = EventOf(ids, note)  BY DEF EventOf
  <2>2. case = [event |-> old, policy |-> policy, evidence |-> list]  BY <1>1
  <2>3. new = [case EXCEPT !.event.note = note, !.evidence = changed]  BY <1>2
  <2> HIDE DEF old, policy, list, changed
  <2>4. new = [event |-> [old EXCEPT !.note = note], policy |-> policy, evidence |-> changed]
    BY <2>2, <2>3
  <2> QED  BY <2>1, <2>4 DEF old, policy, list, changed
<1>5. new.evidence = [i \in DOMAIN case.evidence |-> noted(case.evidence[i])]  BY <1>4
<1>6. /\ new = [event |-> EventOf(ids, note), policy |-> PolicyOf(ids), evidence |-> new.evidence]
      /\ new.evidence = [i \in DOMAIN case.evidence |-> new.evidence[i]]
  BY <1>4, <1>5
<1>7. Shaped(new, ids, kept, b, a, mode)
  BY <1>3, <1>5, <1>6, ShapeStays
<1> QED  BY <1>7 DEF new

\* The grant goes to the after version only.
LEMMA ShapeWithGrant ==
  ASSUME NEW case, NEW ids, NEW kept, kept \subseteq 1 .. 5, NEW b, NEW a, NEW mode,
         Shaped(case, ids, kept, b, a, mode)
  PROVE  Shaped(Monotonic(case), ids, kept, b, Append(a, MONOTONIC_GRANTS[Min(NewGrants(case))]), mode)
<1> DEFINE new == Monotonic(case)  grant == MONOTONIC_GRANTS[Min(NewGrants(case))]
           new_a == Append(a, grant)
           granted(x) == IF <<x.tool, x.arguments>> = ReadsOf(ids)[3]
                         THEN [x EXCEPT !.data.rules = Append(@, grant)] ELSE x
<1> HIDE DEF grant
<1>1. PICK note : case = [event |-> EventOf(ids, note), policy |-> PolicyOf(ids),
                          evidence |-> case.evidence]
  BY DEF Shaped
<1>2. RequiredReads(case.event) = ReadsOf(ids)
  <2>1. case.event = EventOf(ids, note)  BY <1>1
  <2> QED  BY <2>1, ReadsOfEvent
<1>3. new = [case EXCEPT !.evidence = [i \in DOMAIN @ |-> granted(@[i])]]
  BY <1>2 DEF Monotonic, grant
<1>4. ASSUME NEW x, NEW r \in kept, EntryFor(x, ids, r, b, a, mode)
      PROVE  EntryFor(granted(x), ids, r, b, new_a, mode)
  <2> DEFINE tool == ReadsOf(ids)[r][1]  arguments == ReadsOf(ids)[r][2]
  <2>1. /\ x = [tool |-> tool, arguments |-> arguments, data |-> x.data]
        /\ x.tool = tool /\ x.arguments = arguments
    BY <1>4 DEF EntryFor
  <2>2. DataFor(x.data, ids, r, b, a, mode)  BY <1>4 DEF EntryFor
  <2>3. ReadsOf(ids)[3] = <<ReadsOf(ids)[3][1], ReadsOf(ids)[3][2]>>  BY DEF ReadsOf
  <2>4. CASE r = 3
    <3>1. <<x.tool, x.arguments>> = ReadsOf(ids)[3]  BY <2>1, <2>3, <2>4
    <3> HIDE DEF tool, arguments
    <3>2. granted(x) = [tool |-> tool, arguments |-> arguments,
                        data |-> [x.data EXCEPT !.rules = Append(@, grant)]]
      <4>1. granted(x) = [x EXCEPT !.data.rules = Append(@, grant)]  BY <3>1
      <4> HIDE DEF granted
      <4> QED  BY <2>1, <4>1
    <3>3. x.data = [identity |-> <<ids.resource, "2">>, rules |-> a]  BY <2>2, <2>4 DEF DataFor
    <3>4. [x.data EXCEPT !.rules = Append(@, grant)]
            = [identity |-> <<ids.resource, "2">>, rules |-> new_a]
      BY <3>3, SMTT(30)
    <3>5. DataFor([x.data EXCEPT !.rules = Append(@, grant)], ids, r, b, new_a, mode)
      <4> HIDE DEF new_a
      <4> QED  BY <2>4, <3>4 DEF DataFor
    <3> HIDE DEF granted, new_a
    <3> QED  BY <3>2, <3>5 DEF EntryFor, tool, arguments
  <2>5. CASE r # 3
    <3>1. r \in 1 .. 5 /\ 3 \in 1 .. 5  OBVIOUS
    <3>2. ~(tool = ReadsOf(ids)[3][1] /\ arguments = ReadsOf(ids)[3][2])
      BY <2>5, <3>1, ReadsOfEvent
    <3>3. granted(x) = x  BY <2>1, <2>3, <3>2
    <3>4. DataFor(x.data, ids, r, b, new_a, mode)  BY <2>2, <2>5 DEF DataFor
    <3> HIDE DEF granted, new_a
    <3> QED  BY <2>1, <3>3, <3>4 DEF EntryFor
  <2> QED  BY <2>4, <2>5
<1> HIDE DEF granted, new, new_a
<1>5. new = [event |-> EventOf(ids, note), policy |-> PolicyOf(ids),
             evidence |-> [i \in DOMAIN case.evidence |-> granted(case.evidence[i])]]
  BY <1>1, <1>3
<1>6. new.evidence = [i \in DOMAIN case.evidence |-> granted(case.evidence[i])]  BY <1>5
<1>7. /\ new = [event |-> EventOf(ids, note), policy |-> PolicyOf(ids), evidence |-> new.evidence]
      /\ new.evidence = [i \in DOMAIN case.evidence |-> new.evidence[i]]
  BY <1>5, <1>6
<1>8. Shaped(new, ids, kept, b, new_a, mode)
  BY <1>4, <1>6, <1>7, ShapeStays
<1> QED  BY <1>8 DEF new, new_a, grant

ReorderRules(list, order) ==
  Permute([i \in DOMAIN list |-> [key \in DOMAIN list[i] |-> Permute(list[i][key], order)]], order)

\* Entries in another order answer the same reads.
LEMMA ShapePermuted ==
  ASSUME NEW case, NEW ids, NEW kept, NEW b, NEW a, NEW mode, Shaped(case, ids, kept, b, a, mode),
         NEW order \in Orders
  PROVE  Shaped([case EXCEPT !.evidence = Permute(@, order)], ids, kept, b, a, mode)
<1> DEFINE old == case.evidence  n == Len(old)  evidence == Permute(old, order)
           new == [case EXCEPT !.evidence = evidence]
<1>1. PICK note : case = [event |-> EventOf(ids, note), policy |-> PolicyOf(ids), evidence |-> old]
  BY DEF Shaped
<1>2. PICK S : old \in Seq(S)  BY DEF Shaped
<1>3. n \in Nat /\ n <= 5  BY <1>2 DEF Shaped
<1>4. PICK which : Answers(which, n, kept) /\ EntriesFor(old, ids, which, b, a, mode)
  BY DEF Shaped
<1>5. n <= LargestList
  <2> HIDE DEF n
  <2> QED  BY <1>3 DEF LargestList
<1>6. PICK p : IsPermutation(p, n) /\ evidence = [i \in 1 .. n |-> old[p[i]]]
  BY <1>2, <1>5, PermuteIsBijective
<1>7. new = [event |-> EventOf(ids, note), policy |-> PolicyOf(ids), evidence |-> evidence]
  <2> HIDE DEF old, evidence
  <2> QED  BY <1>1
<1> HIDE DEF evidence, new
<1>8. new.evidence = evidence  BY <1>7
<1>9. evidence \in Seq({old[p[i]] : i \in 1 .. n}) /\ Len(evidence) = n
  <2> HIDE DEF old, n
  <2> QED  BY <1>3, <1>6
<1> DEFINE moved == [i \in 1 .. n |-> which[p[i]]]
<1>10. p \in [1 .. n -> 1 .. n] /\ \A i, j \in 1 .. n : p[i] = p[j] => i = j  BY <1>6 DEF IsPermutation
<1>11. \A j \in 1 .. n : \E i \in 1 .. n : p[i] = j  BY <1>6 DEF IsPermutation
<1>12. Answers(moved, n, kept)
  <2> HIDE DEF n, old
  <2>1. which \in [1 .. n -> kept]  BY <1>4 DEF Answers
  <2>2. \A i, j \in 1 .. n : which[i] = which[j] => i = j  BY <1>4 DEF Answers
  <2>3. \A r \in kept : \E i \in 1 .. n : which[i] = r  BY <1>4 DEF Answers
  <2>4. moved \in [1 .. n -> kept]  BY <1>10, <2>1
  <2>5. \A i, j \in 1 .. n : moved[i] = moved[j] => i = j  BY <1>10, <2>2
  <2>6. \A r \in kept : \E i \in 1 .. n : moved[i] = r  BY <1>11, <2>3
  <2> HIDE DEF moved
  <2> QED  BY <2>4, <2>5, <2>6 DEF Answers
<1>13. EntriesFor(evidence, ids, moved, b, a, mode)
  <2>1. ASSUME NEW i \in 1 .. n PROVE EntryFor(evidence[i], ids, moved[i], b, a, mode)
    <3>1. p[i] \in 1 .. n  BY <1>10
    <3>2. EntryFor(old[p[i]], ids, which[p[i]], b, a, mode)  BY <1>4, <3>1 DEF EntriesFor
    <3> QED  BY <1>6, <3>2
  <2> HIDE DEF moved, n, old
  <2> QED  BY <1>9, <2>1 DEF EntriesFor
<1>14. \E any : new = [event |-> EventOf(ids, any), policy |-> PolicyOf(ids), evidence |-> new.evidence]
  BY <1>7, <1>8
<1>15. Shaped(new, ids, kept, b, a, mode)
  <2> HIDE DEF moved, n, old
  <2>1. (\E T : new.evidence \in Seq(T)) /\ Len(new.evidence) <= 5  BY <1>3, <1>8, <1>9
  <2>2. Answers(moved, Len(new.evidence), kept) /\ EntriesFor(new.evidence, ids, moved, b, a, mode)
    BY <1>8, <1>9, <1>12, <1>13
  <2> QED  BY <1>14, <2>1, <2>2 DEF Shaped
<1> QED  BY <1>15 DEF new, evidence

LEMMA ShapeReordered ==
  ASSUME NEW case, NEW ids, NEW kept, kept \subseteq 1 .. 5, NEW b, NEW a, NEW mode,
         Shaped(case, ids, kept, b, a, mode), NEW order \in Orders, NEW evidence_order \in Orders
  PROVE  Shaped(Reorder(case, order, evidence_order), ids, kept,
                ReorderRules(b, order), ReorderRules(a, order), mode)
<1> DEFINE turned(list) == ReorderRules(list, order)
           changed(x) == IF x.tool = "get_rbac_object"
                         THEN [x EXCEPT !.data.rules = turned(x.data.rules)] ELSE x
           mid == [case EXCEPT !.evidence = [i \in DOMAIN @ |-> changed(@[i])]]
<1>1. PICK note : case = [event |-> EventOf(ids, note), policy |-> PolicyOf(ids),
                          evidence |-> case.evidence]
  BY DEF Shaped
<1>2. Reorder(case, order, evidence_order) = [mid EXCEPT !.evidence = Permute(@, evidence_order)]
  BY DEF Reorder, WithRules, ReorderRules
<1> HIDE DEF changed
<1>3. mid = [event |-> EventOf(ids, note), policy |-> PolicyOf(ids),
             evidence |-> [i \in DOMAIN case.evidence |-> changed(case.evidence[i])]]
  BY <1>1
<1> HIDE DEF mid
<1>4. mid.evidence = [i \in DOMAIN case.evidence |-> changed(case.evidence[i])]  BY <1>3
<1>5. ASSUME NEW i \in DOMAIN case.evidence, NEW r \in kept,
             EntryFor(case.evidence[i], ids, r, b, a, mode)
      PROVE  EntryFor(mid.evidence[i], ids, r, turned(b), turned(a), mode)
  <2> HIDE DEF turned
  <2> DEFINE x == case.evidence[i]  rules == turned(x.data.rules)
  <2>1. mid.evidence[i] = IF x.tool = "get_rbac_object" THEN [x EXCEPT !.data.rules = rules] ELSE x
    BY <1>4 DEF changed
  <2>2. (r = 2 => rules = turned(b)) /\ (r = 3 => rules = turned(a))
    BY <1>5 DEF EntryFor, DataFor
  <2>3. r \in 1 .. 5  OBVIOUS
  <2> HIDE DEF x, rules
  <2> QED  BY <1>5, <2>1, <2>2, <2>3, EntryWithRules DEF x
<1>6. /\ mid = [event |-> EventOf(ids, note), policy |-> PolicyOf(ids), evidence |-> mid.evidence]
      /\ mid.evidence = [i \in DOMAIN case.evidence |-> mid.evidence[i]]
  BY <1>3, <1>4
<1> HIDE DEF turned
<1>7. Shaped(mid, ids, kept, turned(b), turned(a), mode)
  BY <1>5, <1>6, ShapeStays
<1>8. Shaped(Reorder(case, order, evidence_order), ids, kept, turned(b), turned(a), mode)
  BY <1>2, <1>7, ShapePermuted
<1> QED  BY <1>8 DEF turned

SeedIds ==
  [event_id |-> "evt-S", subject_id |-> "deployer", resource |-> "release-operator",
   change_id |-> "chg-S"]

\* Renaming puts the neutral identifiers in the place of the seed's.
LEMMA ShapeRenamed ==
  ASSUME NEW case, NEW kept, kept \subseteq 1 .. 5, NEW b, NEW a, NEW mode,
         Shaped(case, SeedIds, kept, b, a, mode), NEW tag
  PROVE  Shaped(Rename(case, tag), NeutralIds(tag), kept, b, a, mode)
<1> DEFINE new == Rename(case, tag)
           ids == NeutralIds(tag)
           to(x) == IF \E k \in DOMAIN ids : case.event[k] = x
                    THEN ids[CHOOSE k \in DOMAIN ids : case.event[k] = x] ELSE x
           object(o) == <<to(o[1]), o[2]>>
           entry(old) ==
             IF old.tool = "get_rbac_object"
             THEN [old EXCEPT !.arguments = object(@), !.data.identity = object(@)]
             ELSE [old EXCEPT !.arguments = to(@), !.data = [k \in DOMAIN @ |-> to(@[k])]]
           scope(field, values) ==
             IF field = "rbac_objects" THEN {object(o) : o \in values} ELSE {to(x) : x \in values}
<1>1. PICK note : case = [event |-> EventOf(SeedIds, note), policy |-> PolicyOf(SeedIds),
                          evidence |-> case.evidence]
  BY DEF Shaped
<1>2. new = [case EXCEPT !.event = [k \in DOMAIN @ |-> to(@[k])],
                         !.policy.resource_scope = [f \in DOMAIN @ |-> scope(f, @[f])],
                         !.evidence = [i \in DOMAIN @ |-> entry(@[i])]]
  BY DEF Rename
<1>3. /\ DOMAIN ids = {"event_id", "subject_id", "resource", "change_id"}
      /\ ids = [event_id |-> ids.event_id, subject_id |-> ids.subject_id,
                resource |-> ids.resource, change_id |-> ids.change_id]
  BY DEF NeutralIds
<1>4. /\ case.event["event_id"] = "evt-S" /\ case.event["subject_id"] = "deployer"
      /\ case.event["resource"] = "release-operator" /\ case.event["change_id"] = "chg-S"
  BY <1>1 DEF EventOf, SeedIds
<1> HIDE DEF ids
<1>5. /\ to("evt-S") = ids["event_id"] /\ to("deployer") = ids["subject_id"]
      /\ to("release-operator") = ids["resource"] /\ to("chg-S") = ids["change_id"]
  <2>1. ASSUME NEW k \in DOMAIN ids
        PROVE  to(case.event[k]) = ids[k]
    <3> DEFINE x == case.event[k]  other == CHOOSE q \in DOMAIN ids : case.event[q] = x
    <3>1. other \in DOMAIN ids /\ case.event[other] = x  OBVIOUS
    <3>2. other = k  BY <1>3, <1>4, <3>1
    <3>3. to(x) = IF \E q \in DOMAIN ids : case.event[q] = x THEN ids[other] ELSE x  OBVIOUS
    <3> HIDE DEF other, x, to
    <3> QED  BY <3>2, <3>3 DEF x
  <2> HIDE DEF to
  <2> QED  BY <1>3, <1>4, <2>1
<1>6. ASSUME NEW x, x \notin {"evt-S", "deployer", "release-operator", "chg-S"}
      PROVE  to(x) = x
  BY <1>3, <1>4, <1>6
<1> HIDE DEF to
<1>7. to("1") = "1" /\ to("2") = "2" /\ to("true") = "true" /\ to("false") = "false"
  <2>1. \A x \in {"1", "2", "true", "false"} : x \notin {"evt-S", "deployer", "release-operator", "chg-S"}
    OBVIOUS
  <2> QED  BY <1>6, <2>1
<1>8. [k \in DOMAIN case.event |-> to(case.event[k])] = EventOf(ids, to(note))
  <2> DEFINE event == EventOf(SeedIds, note)
             changed == [k \in DOMAIN event |-> to(event[k])]
  <2>1. /\ DOMAIN event = {"event_id", "subject_id", "resource", "change_id", "before_version",
                           "after_version", "note"}
        /\ event["event_id"] = "evt-S" /\ event["subject_id"] = "deployer"
        /\ event["resource"] = "release-operator" /\ event["change_id"] = "chg-S"
        /\ event["before_version"] = "1" /\ event["after_version"] = "2" /\ event["note"] = note
    BY DEF EventOf, SeedIds
  <2> HIDE DEF event
  <2>2. /\ DOMAIN changed = {"event_id", "subject_id", "resource", "change_id", "before_version",
                             "after_version", "note"}
        /\ changed["event_id"] = ids["event_id"] /\ changed["subject_id"] = ids["subject_id"]
        /\ changed["resource"] = ids["resource"] /\ changed["change_id"] = ids["change_id"]
        /\ changed["before_version"] = "1" /\ changed["after_version"] = "2"
        /\ changed["note"] = to(note)
    BY <1>5, <1>7, <2>1
  <2>3. changed = [k \in DOMAIN changed |-> changed[k]]  OBVIOUS
  <2> HIDE DEF changed
  <2>4. changed = EventOf(ids, to(note))  BY <2>2, <2>3 DEF EventOf
  <2>5. case.event = event  BY <1>1 DEF event
  <2> QED  BY <2>4, <2>5 DEF changed
<1>9. ASSUME NEW old, NEW r \in kept, EntryFor(old, SeedIds, r, b, a, mode)
      PROVE  EntryFor(entry(old), ids, r, b, a, mode)
  <2> DEFINE reads == ReadsOf(SeedIds)  tool == reads[r][1]  arguments == reads[r][2]
             new_reads == ReadsOf(ids)
  <2>1. /\ old = [tool |-> tool, arguments |-> arguments, data |-> old.data]
        /\ old.tool = tool /\ old.arguments = arguments
    BY <1>9 DEF EntryFor
  <2>2. DataFor(old.data, SeedIds, r, b, a, mode)  BY <1>9 DEF EntryFor
  <2>3. /\ reads[1] = <<"get_change_event", "evt-S">>
        /\ reads[2] = <<"get_rbac_object", <<"release-operator", "1">>>>
        /\ reads[3] = <<"get_rbac_object", <<"release-operator", "2">>>>
        /\ reads[4] = <<"get_subject_bindings", "deployer">>
        /\ reads[5] = <<"get_approval_record", "chg-S">>
    BY DEF ReadsOf, SeedIds
  <2>4. /\ new_reads[1] = <<"get_change_event", ids["event_id"]>>
        /\ new_reads[2] = <<"get_rbac_object", <<ids["resource"], "1">>>>
        /\ new_reads[3] = <<"get_rbac_object", <<ids["resource"], "2">>>>
        /\ new_reads[4] = <<"get_subject_bindings", ids["subject_id"]>>
        /\ new_reads[5] = <<"get_approval_record", ids["change_id"]>>
    BY DEF ReadsOf
  <2>5. r = 1 \/ r = 2 \/ r = 3 \/ r = 4 \/ r = 5  OBVIOUS
  <2> HIDE DEF reads, new_reads, tool, arguments
  <2>6. ASSUME r \in {2, 3}
        PROVE  EntryFor(entry(old), ids, r, b, a, mode)
    <3>1. tool = "get_rbac_object"  BY <2>3, <2>6 DEF tool
    <3>2. entry(old) = [tool |-> tool, arguments |-> object(arguments),
                        data |-> [old.data EXCEPT !.identity = object(@)]]
      <4>1. entry(old) = [old EXCEPT !.arguments = object(@), !.data.identity = object(@)]
        BY <2>1, <3>1
      <4> HIDE DEF entry, object
      <4> QED  BY <2>1, <4>1
    <3>3. new_reads[r][1] = tool /\ new_reads[r][2] = object(arguments)
      BY <1>5, <2>3, <2>4, <2>6 DEF tool, arguments
    <3>4. DataFor([old.data EXCEPT !.identity = object(@)], ids, r, b, a, mode)
      BY <1>5, <2>2, <2>6 DEF DataFor, SeedIds
    <3> HIDE DEF entry, object
    <3> QED  BY <3>2, <3>3, <3>4 DEF EntryFor, new_reads
  <2>7. ASSUME r \in {1, 4, 5}
        PROVE  EntryFor(entry(old), ids, r, b, a, mode)
    <3> DEFINE data == [k \in DOMAIN old.data |-> to(old.data[k])]
    <3>1. tool # "get_rbac_object"  BY <2>3, <2>7 DEF tool
    <3>2. entry(old) = [tool |-> tool, arguments |-> to(arguments), data |-> data]
      <4>1. entry(old) = [old EXCEPT !.arguments = to(@), !.data = data]
        BY <2>1, <3>1
      <4> HIDE DEF entry, data
      <4> QED  BY <2>1, <4>1
    <3>3. new_reads[r][1] = tool /\ new_reads[r][2] = to(arguments)
      BY <1>5, <2>3, <2>4, <2>7 DEF tool, arguments
    <3>4. DataFor(data, ids, r, b, a, mode)
      <4>1. CASE r # 5  BY <2>7, <4>1 DEF DataFor
      <4>2. CASE r = 5
        <5>1. /\ ApprovalKeys \subseteq DOMAIN old.data
              /\ old.data.approved = IF mode = "unapproved" THEN "false" ELSE "true"
              /\ old.data.after_version = IF mode = "stale" THEN "1" ELSE "2"
              /\ old.data.change_id = "chg-S" /\ old.data.subject_id = "deployer"
              /\ old.data.resource = "release-operator"
          BY <2>2, <4>2 DEF DataFor, SeedIds
        <5>2. DOMAIN data = DOMAIN old.data /\ \A k \in DOMAIN old.data : data[k] = to(old.data[k])
          OBVIOUS
        <5> HIDE DEF data
        <5>3. \A k \in ApprovalKeys : data[k] = to(old.data[k])  BY <5>1, <5>2
        <5>4. /\ data["approved"] = to(old.data["approved"])
              /\ data["after_version"] = to(old.data["after_version"])
              /\ data["change_id"] = to(old.data["change_id"])
              /\ data["subject_id"] = to(old.data["subject_id"])
              /\ data["resource"] = to(old.data["resource"])
          BY <5>3 DEF ApprovalKeys
        <5>5. /\ data["approved"] = IF mode = "unapproved" THEN "false" ELSE "true"
              /\ data["after_version"] = IF mode = "stale" THEN "1" ELSE "2"
              /\ data["change_id"] = ids["change_id"] /\ data["subject_id"] = ids["subject_id"]
              /\ data["resource"] = ids["resource"]
          BY <1>5, <1>7, <5>1, <5>4
        <5> QED  BY <4>2, <5>1, <5>2, <5>5 DEF DataFor
      <4> QED  BY <4>1, <4>2
    <3> HIDE DEF entry, data
    <3> QED  BY <3>2, <3>3, <3>4 DEF EntryFor, new_reads
  <2> QED  BY <2>5, <2>6, <2>7
<1>10. [f \in DOMAIN PolicyOf(SeedIds).resource_scope |-> scope(f, PolicyOf(SeedIds).resource_scope[f])]
         = PolicyOf(ids).resource_scope
  <2> DEFINE old == PolicyOf(SeedIds).resource_scope
             changed == [f \in DOMAIN old |-> scope(f, old[f])]
  <2>1. /\ DOMAIN old = {"event_ids", "subject_ids", "change_ids", "rbac_objects"}
        /\ old["event_ids"] = {"evt-S"} /\ old["subject_ids"] = {"deployer"}
        /\ old["change_ids"] = {"chg-S"} /\ old["rbac_objects"] = {"release-operator"} \X {"1", "2"}
    BY DEF PolicyOf, SeedIds
  <2>2. scope("rbac_objects", {"release-operator"} \X {"1", "2"}) = {ids["resource"]} \X {"1", "2"}
    <3> DEFINE objects == {"release-operator"} \X {"1", "2"}
    <3>1. ASSUME NEW o \in objects
          PROVE  object(o) \in {ids["resource"]} \X {"1", "2"}
      <4>1. o[1] = "release-operator" /\ o[2] \in {"1", "2"}  OBVIOUS
      <4> QED  BY <1>5, <4>1
    <3>2. ASSUME NEW v \in {"1", "2"}
          PROVE  \E o \in objects : <<ids["resource"], v>> = object(o)
      <4> DEFINE o == <<"release-operator", v>>
      <4>1. o \in objects /\ o[1] = "release-operator" /\ o[2] = v  OBVIOUS
      <4> HIDE DEF o
      <4>2. object(o) = <<ids["resource"], v>>  BY <1>5, <4>1
      <4> QED  BY <4>1, <4>2
    <3>3. \A y : y \in {ids["resource"]} \X {"1", "2"}
                  => \E v \in {"1", "2"} : y = <<ids["resource"], v>>
      OBVIOUS
    <3> HIDE DEF objects, object
    <3>4. {object(o) : o \in objects} = {ids["resource"]} \X {"1", "2"}  BY <3>1, <3>2, <3>3
    <3> QED  BY <3>4 DEF objects
  <2>3. \A x : scope("event_ids", {x}) = {to(x)} /\ scope("subject_ids", {x}) = {to(x)}
               /\ scope("change_ids", {x}) = {to(x)}
    OBVIOUS
  <2> HIDE DEF old, scope
  <2>4. /\ DOMAIN changed = {"event_ids", "subject_ids", "change_ids", "rbac_objects"}
        /\ changed["event_ids"] = {ids["event_id"]} /\ changed["subject_ids"] = {ids["subject_id"]}
        /\ changed["change_ids"] = {ids["change_id"]}
        /\ changed["rbac_objects"] = {ids["resource"]} \X {"1", "2"}
    BY <1>5, <2>1, <2>2, <2>3
  <2>5. changed = [f \in DOMAIN changed |-> changed[f]]  OBVIOUS
  <2> HIDE DEF changed
  <2>6. changed = [event_ids |-> {ids["event_id"]}, subject_ids |-> {ids["subject_id"]},
                   change_ids |-> {ids["change_id"]}, rbac_objects |-> {ids["resource"]} \X {"1", "2"}]
    BY <2>4, <2>5
  <2>7. PolicyOf(ids).resource_scope
          = [event_ids |-> {ids["event_id"]}, subject_ids |-> {ids["subject_id"]},
             change_ids |-> {ids["change_id"]}, rbac_objects |-> {ids["resource"]} \X {"1", "2"}]
    BY DEF PolicyOf
  <2> QED  BY <2>6, <2>7 DEF changed, old
<1> HIDE DEF entry, scope, new
<1>11. new = [event |-> EventOf(ids, to(note)), policy |-> PolicyOf(ids),
              evidence |-> [i \in DOMAIN case.evidence |-> entry(case.evidence[i])]]
  <2> DEFINE event == EventOf(SeedIds, note)  policy == PolicyOf(SeedIds)  list == case.evidence
             new_event == [k \in DOMAIN event |-> to(event[k])]
             new_scope == [f \in DOMAIN policy.resource_scope |-> scope(f, policy.resource_scope[f])]
             new_list == [i \in DOMAIN list |-> entry(list[i])]
  <2>1. case = [event |-> event, policy |-> policy, evidence |-> list]  BY <1>1
  <2>2. case.event = event /\ case.policy = policy  BY <2>1
  <2>3. new = [case EXCEPT !.event = new_event, !.policy.resource_scope = new_scope, !.evidence = new_list]
    BY <1>2, <2>2
  <2>4. policy = [allowed_tools |-> RequiredTools, resource_scope |-> policy.resource_scope]
    BY DEF PolicyOf
  <2> HIDE DEF event, policy, list, new_event, new_scope, new_list
  <2>5. new = [event |-> new_event, policy |-> [policy EXCEPT !.resource_scope = new_scope],
               evidence |-> new_list]
    BY <2>1, <2>3
  <2>6. [policy EXCEPT !.resource_scope = new_scope]
          = [allowed_tools |-> RequiredTools, resource_scope |-> new_scope]
    BY <2>4
  <2>7. PolicyOf(ids) = [allowed_tools |-> RequiredTools, resource_scope |-> PolicyOf(ids).resource_scope]
    BY DEF PolicyOf
  <2>8. new_scope = PolicyOf(ids).resource_scope  BY <1>10 DEF new_scope, policy
  <2>9. new_event = EventOf(ids, to(note))  BY <1>8, <2>2 DEF new_event
  <2> QED  BY <2>5, <2>6, <2>7, <2>8, <2>9 DEF new_list, list
<1>12. new.evidence = [i \in DOMAIN case.evidence |-> entry(case.evidence[i])]  BY <1>11
<1>13. /\ new = [event |-> EventOf(ids, to(note)), policy |-> PolicyOf(ids), evidence |-> new.evidence]
       /\ new.evidence = [i \in DOMAIN case.evidence |-> new.evidence[i]]
  BY <1>11, <1>12
<1>14. Shaped(new, ids, kept, b, a, mode)
  BY <1>9, <1>12, <1>13, ShapeStays
<1> QED  BY <1>14 DEF new, ids

Before(injection) == <<PodsRead>> \o injection.before_add
AfterOf(injection) ==
  IF injection.kind = "removal" THEN <<>> ELSE Before(injection) \o injection.after_add

Kept(family) ==
  CASE family.reads = "missing-approval" -> 1 .. 4
    [] family.reads = "missing-before" -> {1, 3, 4, 5}
    [] OTHER -> 1 .. 5

\* What a family starts from has the shape, but for the read its evidence misses.
LEMMA BaseShape ==
  ASSUME NEW family
  PROVE  Shaped(FamilyCase(family), SeedIds, Kept(family), Before(family.injection),
                AfterOf(family.injection), family.mode)
<1> DEFINE b == Before(family.injection)  a == AfterOf(family.injection)  mode == family.mode
           event == SeedEvent
           reads == RequiredReads(event)
           approval ==
             [approved |-> IF mode = "unapproved" THEN "false" ELSE "true",
              change_id |-> event.change_id, subject_id |-> event.subject_id,
              resource |-> event.resource,
              after_version |-> IF mode = "stale" THEN event.before_version ELSE event.after_version]
           x1 == Entry(reads[1], event)
           x2 == Entry(reads[2], [identity |-> reads[2][2], rules |-> b])
           x3 == Entry(reads[3], [identity |-> reads[3][2], rules |-> a])
           x4 == Entry(reads[4], [subject_id |-> event.subject_id])
           x5 == Entry(reads[5], approval)
           all == <<x1, x2, x3, x4, x5>>
           missing == CASE family.reads = "missing-approval" -> 5
                        [] family.reads = "missing-before" -> 2 [] OTHER -> 0
           case == FamilyCase(family)
<1>1. case = [event |-> event, policy |-> SeedPolicy,
              evidence |-> IF missing = 0 THEN all ELSE RemoveAt(all, missing)]
  BY DEF FamilyCase, Before, AfterOf
<1>2. event = EventOf(SeedIds, "none") /\ SeedPolicy = PolicyOf(SeedIds)
  BY DEF SeedEvent, SeedPolicy, EventOf, PolicyOf, SeedIds
<1>3. reads = ReadsOf(SeedIds)  BY <1>2, ReadsOfEvent
<1>4. /\ EntryFor(x1, SeedIds, 1, b, a, mode) /\ EntryFor(x4, SeedIds, 4, b, a, mode)
  <2> HIDE DEF b, a, mode, event, reads
  <2> QED  BY <1>3 DEF EntryFor, DataFor, Entry
<1>5. /\ EntryFor(x2, SeedIds, 2, b, a, mode) /\ EntryFor(x3, SeedIds, 3, b, a, mode)
  <2>1. /\ ReadsOf(SeedIds)[2][2] = <<SeedIds.resource, "1">>
        /\ ReadsOf(SeedIds)[3][2] = <<SeedIds.resource, "2">>
    BY DEF ReadsOf
  <2> HIDE DEF b, a, mode, event, reads
  <2> QED  BY <1>3, <2>1 DEF EntryFor, DataFor, Entry
<1>6. EntryFor(x5, SeedIds, 5, b, a, mode)
  <2>1. DataFor(approval, SeedIds, 5, b, a, mode)
    <3> HIDE DEF mode
    <3> QED  BY DEF DataFor, ApprovalKeys, SeedEvent, SeedIds
  <2> HIDE DEF b, a, mode, event, reads, approval
  <2> QED  BY <1>3, <2>1 DEF EntryFor, Entry
<1> HIDE DEF b, a, mode, event, reads, approval, x1, x2, x3, x4, x5, case
<1>7. ASSUME NEW evidence, NEW which, NEW S,
             case.evidence = evidence, evidence \in Seq(S), Len(evidence) <= 5,
             Answers(which, Len(evidence), Kept(family)),
             EntriesFor(evidence, SeedIds, which, b, a, mode)
      PROVE  Shaped(case, SeedIds, Kept(family), b, a, mode)
  <2>1. \E note : case = [event |-> EventOf(SeedIds, note), policy |-> PolicyOf(SeedIds),
                          evidence |-> case.evidence]
    <3> HIDE DEF all
    <3>1. case = [event |-> EventOf(SeedIds, "none"), policy |-> PolicyOf(SeedIds),
                  evidence |-> case.evidence]
      BY <1>1, <1>2
    <3> QED  BY <3>1
  <2> QED  BY <1>7, <2>1 DEF Shaped
<1>8. ASSUME family.reads \notin {"missing-approval", "missing-before"}
      PROVE  Shaped(case, SeedIds, Kept(family), b, a, mode)
  <2> DEFINE which == [i \in 1 .. 5 |-> i]
  <2>1. Kept(family) = 1 .. 5 /\ missing = 0  BY <1>8 DEF Kept
  <2>2. case.evidence = all
    <3> HIDE DEF all, missing
    <3> QED  BY <1>1, <2>1
  <2>3. all \in Seq({x1, x2, x3, x4, x5}) /\ Len(all) = 5 /\ all[1] = x1 /\ all[2] = x2
        /\ all[3] = x3 /\ all[4] = x4 /\ all[5] = x5
    OBVIOUS
  <2>4. which \in [1 .. 5 -> 1 .. 5] /\ \A i \in 1 .. 5 : which[i] = i  OBVIOUS
  <2> HIDE DEF all, which
  <2>5. Answers(which, Len(all), Kept(family))  BY <2>1, <2>3, <2>4 DEF Answers
  <2>6. EntriesFor(all, SeedIds, which, b, a, mode)
    <3>1. \A i \in 1 .. 5 : i = 1 \/ i = 2 \/ i = 3 \/ i = 4 \/ i = 5  OBVIOUS
    <3>2. \A i \in 1 .. 5 : EntryFor(all[i], SeedIds, i, b, a, mode)
      BY <1>4, <1>5, <1>6, <2>3, <3>1
    <3> QED  BY <2>3, <2>4, <3>2 DEF EntriesFor
  <2>7. Len(all) <= 5  BY <2>3
  <2> QED  BY <1>7, <2>2, <2>3, <2>5, <2>6, <2>7
<1>9. ASSUME family.reads = "missing-approval"
      PROVE  Shaped(case, SeedIds, Kept(family), b, a, mode)
  <2> DEFINE which == [i \in 1 .. 4 |-> i]  rest == RemoveAt(all, 5)
  <2>1. Kept(family) = 1 .. 4 /\ missing = 5  BY <1>9 DEF Kept
  <2>2. case.evidence = rest
    <3> HIDE DEF all, missing
    <3> QED  BY <1>1, <2>1
  <2>3. rest \in Seq({x1, x2, x3, x4, x5}) /\ Len(rest) = 4 /\ rest[1] = x1 /\ rest[2] = x2
        /\ rest[3] = x3 /\ rest[4] = x4
    BY DEF RemoveAt
  <2>4. which \in [1 .. 4 -> 1 .. 4] /\ \A i \in 1 .. 4 : which[i] = i  OBVIOUS
  <2> HIDE DEF all, which, rest
  <2>5. Answers(which, Len(rest), Kept(family))  BY <2>1, <2>3, <2>4 DEF Answers
  <2>6. EntriesFor(rest, SeedIds, which, b, a, mode)
    <3>1. \A i \in 1 .. 4 : i = 1 \/ i = 2 \/ i = 3 \/ i = 4  OBVIOUS
    <3>2. \A i \in 1 .. 4 : EntryFor(rest[i], SeedIds, i, b, a, mode)
      BY <1>4, <1>5, <2>3, <3>1
    <3> QED  BY <2>3, <2>4, <3>2 DEF EntriesFor
  <2>7. Len(rest) <= 5  BY <2>3
  <2> QED  BY <1>7, <2>2, <2>3, <2>5, <2>6, <2>7
<1>10. ASSUME family.reads = "missing-before"
       PROVE  Shaped(case, SeedIds, Kept(family), b, a, mode)
  <2> DEFINE which == <<1, 3, 4, 5>>  rest == RemoveAt(all, 2)
  <2>1. Kept(family) = {1, 3, 4, 5} /\ missing = 2  BY <1>10 DEF Kept
  <2>2. case.evidence = rest
    <3> HIDE DEF all, missing
    <3> QED  BY <1>1, <2>1
  <2>3. rest \in Seq({x1, x2, x3, x4, x5}) /\ Len(rest) = 4 /\ rest[1] = x1 /\ rest[2] = x3
        /\ rest[3] = x4 /\ rest[4] = x5
    BY DEF RemoveAt
  <2>4. which \in [1 .. 4 -> {1, 3, 4, 5}] /\ which[1] = 1 /\ which[2] = 3 /\ which[3] = 4
        /\ which[4] = 5
    OBVIOUS
  <2>5. \A i \in 1 .. 4 : i = 1 \/ i = 2 \/ i = 3 \/ i = 4  OBVIOUS
  <2> HIDE DEF all, which, rest
  <2>6. Answers(which, Len(rest), Kept(family))
    <3>1. \A i, j \in 1 .. 4 : which[i] = which[j] => i = j  BY <2>4, <2>5
    <3>2. 1 \in 1 .. 4 /\ 2 \in 1 .. 4 /\ 3 \in 1 .. 4 /\ 4 \in 1 .. 4  OBVIOUS
    <3>3. \A r \in {1, 3, 4, 5} : \E i \in 1 .. 4 : which[i] = r  BY <2>4, <3>2
    <3> QED  BY <2>1, <2>3, <2>4, <3>1, <3>3 DEF Answers
  <2>7. EntriesFor(rest, SeedIds, which, b, a, mode)
    <3>1. \A i \in 1 .. 4 : EntryFor(rest[i], SeedIds, which[i], b, a, mode)
      BY <1>4, <1>5, <1>6, <2>3, <2>4, <2>5
    <3> QED  BY <2>3, <3>1 DEF EntriesFor
  <2>8. Len(rest) <= 5  BY <2>3
  <2> QED  BY <1>7, <2>2, <2>3, <2>6, <2>7, <2>8
<1>11. Shaped(case, SeedIds, Kept(family), b, a, mode)
  <2> HIDE DEF all
  <2> QED  BY <1>8, <1>9, <1>10
<1> QED  BY <1>11 DEF case, b, a, mode

-----------------------------------------------------------------------------
(* What the catalogue grants.                                              *)

PodAtoms == Atoms("*", Plain("pods"), {"get", "list"})

LEMMA AtomFields ==
  ASSUME NEW g, NEW r, NEW verbs
  PROVE  /\ \A x \in Atoms(g, r, verbs) : x[1] = g /\ x[2] = r /\ x[3] \in verbs /\ x[4] = "*"
         /\ \A v \in verbs : <<g, r, v, "*">> \in Atoms(g, r, verbs)
BY DEF Atoms

LEMMA NoRules == SmallRules(<<>>) /\ Len(<<>>) = 0 /\ AtomsOf(<<>>) = {}
<1>1. <<>> \in Seq({}) /\ Len(<<>>) = 0 /\ DOMAIN <<>> = {}  OBVIOUS
<1>2. \A i \in 1 .. 0 : FALSE  OBVIOUS
<1>3. AtomsOf(<<>>) = {}  BY <1>1 DEF AtomsOf
<1> QED  BY <1>1, <1>2, <1>3 DEF SmallRules

LEMMA OneRule ==
  ASSUME NEW rule, SmallRule(rule)
  PROVE  SmallRules(<<rule>>) /\ Len(<<rule>>) = 1 /\ AtomsOf(<<rule>>) = RuleAtoms(rule)
<1>1. Append(<<>>, rule) = <<rule>>  OBVIOUS
<1>2. Len(<<>>) <= 3 /\ Len(<<rule>>) = 1  OBVIOUS
<1>3. SmallRules(<<rule>>) /\ AtomsOf(<<rule>>) = {} \cup RuleAtoms(rule)
  BY <1>1, <1>2, NoRules, AppendedRules
<1> QED  BY <1>2, <1>3

LEMMA TwoRules ==
  ASSUME NEW rule, SmallRule(rule), NEW other, SmallRule(other)
  PROVE  /\ SmallRules(<<rule, other>>) /\ Len(<<rule, other>>) = 2
         /\ AtomsOf(<<rule, other>>) = RuleAtoms(rule) \cup RuleAtoms(other)
<1>1. Append(<<rule>>, other) = <<rule, other>>
  <2> DEFINE s == Append(<<rule>>, other)  t == <<rule, other>>
  <2>1. s \in Seq({rule, other}) /\ Len(s) = 2 /\ s[1] = rule /\ s[2] = other  OBVIOUS
  <2>2. t \in Seq({rule, other}) /\ Len(t) = 2 /\ t[1] = rule /\ t[2] = other  OBVIOUS
  <2>3. \A i \in 1 .. 2 : i = 1 \/ i = 2  OBVIOUS
  <2> HIDE DEF s, t
  <2>4. s = [i \in 1 .. 2 |-> s[i]] /\ t = [i \in 1 .. 2 |-> t[i]]  BY <2>1, <2>2
  <2>5. s = t  BY <2>1, <2>2, <2>3, <2>4
  <2> QED  BY <2>5 DEF s, t
<1>2. Len(<<rule>>) <= 3 /\ Len(<<rule, other>>) = 2  OBVIOUS
<1>3. SmallRules(<<rule>>) /\ AtomsOf(<<rule>>) = RuleAtoms(rule)  BY OneRule
<1> QED  BY <1>1, <1>2, <1>3, AppendedRules

\* A rule for one resource, with one verb or two.
LEMMA OneVerbRule ==
  ASSUME NEW g, NEW r, r # Plain(""), NEW v, v # ""
  PROVE  /\ SmallRule(AnyGroup(r, <<v>>)) /\ RuleAtoms(AnyGroup(r, <<v>>)) = Atoms("*", r, {v})
         /\ SmallRule(InGroup(g, r, <<v>>)) /\ RuleAtoms(InGroup(g, r, <<v>>)) = Atoms(g, r, {v})
<1>1. ShortList(<<v>>, "") /\ Range(<<v>>) = {v}  BY OneItem
<1> QED  BY <1>1, AnyGroupRule, InGroupRule

Adds(injection, before, after) ==
  /\ SmallRules(injection.before_add) /\ Len(injection.before_add) <= 1
  /\ Len(injection.before_add) + Len(injection.after_add) <= 2
  /\ AtomsOf(injection.before_add) = before
  /\ SmallRules(injection.after_add) /\ Len(injection.after_add) <= 2
  /\ AtomsOf(injection.after_add) = after

LEMMA AddsPrivileged ==
  ASSUME NEW name, NEW rule, SmallRule(rule), NEW injection, injection = Privileged(name, <<rule>>)
  PROVE  Adds(injection, {}, RuleAtoms(rule)) /\ injection.kind # "removal"
<1> DEFINE one == <<rule>>  none == <<>>
<1>1. injection.before_add = none /\ injection.after_add = one /\ injection.kind = "privileged"
  BY DEF Privileged, Inject
<1>2. SmallRules(one) /\ Len(one) = 1 /\ AtomsOf(one) = RuleAtoms(rule)  BY OneRule
<1>3. SmallRules(none) /\ Len(none) = 0 /\ AtomsOf(none) = {}  BY NoRules
<1> HIDE DEF one, none
<1>4. /\ Len(none) <= 1 /\ Len(none) <= 2 /\ Len(one) <= 1 /\ Len(one) <= 2
      /\ Len(none) + Len(one) <= 2 /\ Len(one) + Len(none) <= 2
  BY <1>2, <1>3
<1> QED  BY <1>1, <1>2, <1>3, <1>4 DEF Adds

LEMMA AddsHarmless ==
  ASSUME NEW name, NEW kind, kind # "removal", NEW rule, SmallRule(rule), NEW injection,
         injection = Harmless(name, kind, rule)
  PROVE  Adds(injection, {}, RuleAtoms(rule)) /\ injection.kind # "removal"
<1> DEFINE one == <<rule>>  none == <<>>
<1>1. injection.before_add = none /\ injection.after_add = one /\ injection.kind = kind
  BY DEF Harmless, Inject
<1>2. SmallRules(one) /\ Len(one) = 1 /\ AtomsOf(one) = RuleAtoms(rule)  BY OneRule
<1>3. SmallRules(none) /\ Len(none) = 0 /\ AtomsOf(none) = {}  BY NoRules
<1> HIDE DEF one, none
<1>4. /\ Len(none) <= 1 /\ Len(none) <= 2 /\ Len(one) <= 1 /\ Len(one) <= 2
      /\ Len(none) + Len(one) <= 2 /\ Len(one) + Len(none) <= 2
  BY <1>2, <1>3
<1> QED  BY <1>1, <1>2, <1>3, <1>4 DEF Adds

LEMMA AddsPreexisting ==
  ASSUME NEW name, NEW rule, SmallRule(rule), NEW injection, injection = Preexisting(name, rule)
  PROVE  Adds(injection, RuleAtoms(rule), {}) /\ injection.kind # "removal"
<1> DEFINE one == <<rule>>  none == <<>>
<1>1. injection.before_add = one /\ injection.after_add = none /\ injection.kind = "pre-existing"
  BY DEF Preexisting, Inject
<1>2. SmallRules(one) /\ Len(one) = 1 /\ AtomsOf(one) = RuleAtoms(rule)  BY OneRule
<1>3. SmallRules(none) /\ Len(none) = 0 /\ AtomsOf(none) = {}  BY NoRules
<1> HIDE DEF one, none
<1>4. /\ Len(none) <= 1 /\ Len(none) <= 2 /\ Len(one) <= 1 /\ Len(one) <= 2
      /\ Len(none) + Len(one) <= 2 /\ Len(one) + Len(none) <= 2
  BY <1>2, <1>3
<1> QED  BY <1>1, <1>2, <1>3, <1>4 DEF Adds

\* The atoms each injection adds to either version.
LEMMA CatalogueAdds ==
  /\ Adds(INJECTIONS[1], {}, Atoms("", Plain("configmaps"), {"*"}))
  /\ Adds(INJECTIONS[2], {}, Atoms("*", Plain("secrets"), {"list"}))
  /\ Adds(INJECTIONS[3], {}, Atoms("apps", Plain("deployments"), {"create"}))
  /\ Adds(INJECTIONS[4], {}, Atoms("", Plain("persistentvolumes"), {"create"}))
  /\ Adds(INJECTIONS[5], {}, Atoms("*", NodesProxy, {"get"}))
  /\ Adds(INJECTIONS[6], {}, Atoms(RBAC, Plain("clusterroles"), {"escalate"}))
  /\ Adds(INJECTIONS[7], {}, Atoms(RBAC, Plain("roles"), {"bind"}))
  /\ Adds(INJECTIONS[8], {}, Atoms("*", Plain("serviceaccounts"), {"impersonate"}))
  /\ Adds(INJECTIONS[9], {},
          Atoms(Certificates, Plain("certificatesigningrequests"), {"create"})
            \cup Atoms(Certificates, <<"certificatesigningrequests", "approval">>, {"update"}))
  /\ Adds(INJECTIONS[10], {}, Atoms("*", <<"serviceaccounts", "token">>, {"create"}))
  /\ Adds(INJECTIONS[11], {}, Atoms(Admission, Plain("mutatingwebhookconfigurations"), {"patch"}))
  /\ Adds(INJECTIONS[12], {}, Atoms("*", Plain("namespaces"), {"patch"}))
  /\ Adds(INJECTIONS[13], {}, Atoms("*", Plain("configmaps"), {"get", "list"}))
  /\ Adds(INJECTIONS[14], {}, Atoms("*", Plain("services"), {"list", "watch"}))
  /\ Adds(INJECTIONS[15], {}, Atoms("*", <<"pods", "log">>, {"get"}))
  /\ Adds(INJECTIONS[16], {}, Atoms("events.k8s.io", Plain("events"), {"watch"}))
  /\ Adds(INJECTIONS[17], {}, Atoms("apps", Plain("secrets"), {"get"}))
  /\ Adds(INJECTIONS[18], {}, Atoms(Certificates, Plain("certificatesigningrequests"), {"create"}))
  /\ Adds(INJECTIONS[19], {}, Atoms(RBAC, Plain("roles"), {"get", "list"}))
  /\ Adds(INJECTIONS[20], {}, {})
  /\ Adds(INJECTIONS[21], Atoms("*", Plain("secrets"), {"list"}), {})
  /\ Adds(INJECTIONS[22], Atoms(RBAC, Plain("roles"), {"bind"}), {})
  /\ \A j \in 1 .. 22 : INJECTIONS[j].kind = "removal" <=> j = 20
<1>1. \A name : name # "" => Plain(name) # Plain("")  BY DEF Plain
<1>2. /\ NodesProxy # Plain("") /\ <<"serviceaccounts", "token">> # Plain("")
      /\ <<"pods", "log">> # Plain("") /\ <<"certificatesigningrequests", "approval">> # Plain("")
  BY DEF Plain, NodesProxy
<1>3. Adds(INJECTIONS[1], {}, Atoms("", Plain("configmaps"), {"*"})) /\ INJECTIONS[1].kind # "removal"
  <2> DEFINE atoms == Atoms("", Plain("configmaps"), {"*"})
             rule == InGroup("", Plain("configmaps"), <<"*">>)
  <2>1. "*" # "" /\ "configmaps" # ""  OBVIOUS
    <2>2. Plain("configmaps") # Plain("")  BY <1>1, <2>1
  <2>3. SmallRule(rule) /\ RuleAtoms(rule) = atoms
    BY <2>1, <2>2, OneVerbRule
  <2>4. INJECTIONS[1] = Privileged("wildcard_grant", <<rule>>)  BY DEF INJECTIONS
  <2> HIDE DEF rule, atoms
  <2>5. Adds(INJECTIONS[1], {}, atoms) /\ INJECTIONS[1].kind # "removal"
    BY <2>1, <2>3, <2>4, AddsPrivileged
  <2> QED  BY <2>5 DEF atoms
<1>4. Adds(INJECTIONS[2], {}, Atoms("*", Plain("secrets"), {"list"})) /\ INJECTIONS[2].kind # "removal"
  <2> DEFINE atoms == Atoms("*", Plain("secrets"), {"list"})
             rule == AnyGroup(Plain("secrets"), <<"list">>)
  <2>1. "list" # "" /\ "secrets" # ""  OBVIOUS
    <2>2. Plain("secrets") # Plain("")  BY <1>1, <2>1
  <2>3. SmallRule(rule) /\ RuleAtoms(rule) = atoms
    BY <2>1, <2>2, OneVerbRule
  <2>4. INJECTIONS[2] = Privileged("secrets_read", <<rule>>)  BY DEF INJECTIONS
  <2> HIDE DEF rule, atoms
  <2>5. Adds(INJECTIONS[2], {}, atoms) /\ INJECTIONS[2].kind # "removal"
    BY <2>1, <2>3, <2>4, AddsPrivileged
  <2> QED  BY <2>5 DEF atoms
<1>5. Adds(INJECTIONS[3], {}, Atoms("apps", Plain("deployments"), {"create"})) /\ INJECTIONS[3].kind # "removal"
  <2> DEFINE atoms == Atoms("apps", Plain("deployments"), {"create"})
             rule == InGroup("apps", Plain("deployments"), <<"create">>)
  <2>1. "create" # "" /\ "deployments" # ""  OBVIOUS
    <2>2. Plain("deployments") # Plain("")  BY <1>1, <2>1
  <2>3. SmallRule(rule) /\ RuleAtoms(rule) = atoms
    BY <2>1, <2>2, OneVerbRule
  <2>4. INJECTIONS[3] = Privileged("workload_creation", <<rule>>)  BY DEF INJECTIONS
  <2> HIDE DEF rule, atoms
  <2>5. Adds(INJECTIONS[3], {}, atoms) /\ INJECTIONS[3].kind # "removal"
    BY <2>1, <2>3, <2>4, AddsPrivileged
  <2> QED  BY <2>5 DEF atoms
<1>6. Adds(INJECTIONS[4], {}, Atoms("", Plain("persistentvolumes"), {"create"})) /\ INJECTIONS[4].kind # "removal"
  <2> DEFINE atoms == Atoms("", Plain("persistentvolumes"), {"create"})
             rule == InGroup("", Plain("persistentvolumes"), <<"create">>)
  <2>1. "create" # "" /\ "persistentvolumes" # ""  OBVIOUS
    <2>2. Plain("persistentvolumes") # Plain("")  BY <1>1, <2>1
  <2>3. SmallRule(rule) /\ RuleAtoms(rule) = atoms
    BY <2>1, <2>2, OneVerbRule
  <2>4. INJECTIONS[4] = Privileged("persistent_volume_creation", <<rule>>)  BY DEF INJECTIONS
  <2> HIDE DEF rule, atoms
  <2>5. Adds(INJECTIONS[4], {}, atoms) /\ INJECTIONS[4].kind # "removal"
    BY <2>1, <2>3, <2>4, AddsPrivileged
  <2> QED  BY <2>5 DEF atoms
<1>7. Adds(INJECTIONS[5], {}, Atoms("*", NodesProxy, {"get"})) /\ INJECTIONS[5].kind # "removal"
  <2> DEFINE atoms == Atoms("*", NodesProxy, {"get"})
             rule == AnyGroup(NodesProxy, <<"get">>)
  <2>1. "get" # ""  OBVIOUS
    <2>2. NodesProxy # Plain("")  BY <1>2, <2>1
  <2>3. SmallRule(rule) /\ RuleAtoms(rule) = atoms
    BY <2>1, <2>2, OneVerbRule
  <2>4. INJECTIONS[5] = Privileged("nodes_proxy", <<rule>>)  BY DEF INJECTIONS
  <2> HIDE DEF rule, atoms
  <2>5. Adds(INJECTIONS[5], {}, atoms) /\ INJECTIONS[5].kind # "removal"
    BY <2>1, <2>3, <2>4, AddsPrivileged
  <2> QED  BY <2>5 DEF atoms
<1>8. Adds(INJECTIONS[6], {}, Atoms(RBAC, Plain("clusterroles"), {"escalate"})) /\ INJECTIONS[6].kind # "removal"
  <2> DEFINE atoms == Atoms(RBAC, Plain("clusterroles"), {"escalate"})
             rule == InGroup(RBAC, Plain("clusterroles"), <<"escalate">>)
  <2>1. "escalate" # "" /\ "clusterroles" # ""  OBVIOUS
    <2>2. Plain("clusterroles") # Plain("")  BY <1>1, <2>1
  <2>3. SmallRule(rule) /\ RuleAtoms(rule) = atoms
    BY <2>1, <2>2, OneVerbRule
  <2>4. INJECTIONS[6] = Privileged("escalate_verb", <<rule>>)  BY DEF INJECTIONS
  <2> HIDE DEF rule, atoms
  <2>5. Adds(INJECTIONS[6], {}, atoms) /\ INJECTIONS[6].kind # "removal"
    BY <2>1, <2>3, <2>4, AddsPrivileged
  <2> QED  BY <2>5 DEF atoms
<1>9. Adds(INJECTIONS[7], {}, Atoms(RBAC, Plain("roles"), {"bind"})) /\ INJECTIONS[7].kind # "removal"
  <2> DEFINE atoms == Atoms(RBAC, Plain("roles"), {"bind"})
             rule == InGroup(RBAC, Plain("roles"), <<"bind">>)
  <2>1. "bind" # "" /\ "roles" # ""  OBVIOUS
    <2>2. Plain("roles") # Plain("")  BY <1>1, <2>1
  <2>3. SmallRule(rule) /\ RuleAtoms(rule) = atoms
    BY <2>1, <2>2, OneVerbRule
  <2>4. INJECTIONS[7] = Privileged("bind_verb", <<rule>>)  BY DEF INJECTIONS
  <2> HIDE DEF rule, atoms
  <2>5. Adds(INJECTIONS[7], {}, atoms) /\ INJECTIONS[7].kind # "removal"
    BY <2>1, <2>3, <2>4, AddsPrivileged
  <2> QED  BY <2>5 DEF atoms
<1>10. Adds(INJECTIONS[8], {}, Atoms("*", Plain("serviceaccounts"), {"impersonate"})) /\ INJECTIONS[8].kind # "removal"
  <2> DEFINE atoms == Atoms("*", Plain("serviceaccounts"), {"impersonate"})
             rule == AnyGroup(Plain("serviceaccounts"), <<"impersonate">>)
  <2>1. "impersonate" # "" /\ "serviceaccounts" # ""  OBVIOUS
    <2>2. Plain("serviceaccounts") # Plain("")  BY <1>1, <2>1
  <2>3. SmallRule(rule) /\ RuleAtoms(rule) = atoms
    BY <2>1, <2>2, OneVerbRule
  <2>4. INJECTIONS[8] = Privileged("impersonate_verb", <<rule>>)  BY DEF INJECTIONS
  <2> HIDE DEF rule, atoms
  <2>5. Adds(INJECTIONS[8], {}, atoms) /\ INJECTIONS[8].kind # "removal"
    BY <2>1, <2>3, <2>4, AddsPrivileged
  <2> QED  BY <2>5 DEF atoms
<1>11. /\ Adds(INJECTIONS[9], {},
               Atoms(Certificates, Plain("certificatesigningrequests"), {"create"})
                 \cup Atoms(Certificates, <<"certificatesigningrequests", "approval">>, {"update"}))
       /\ INJECTIONS[9].kind # "removal"
  <2> DEFINE rule == InGroup(Certificates, Plain("certificatesigningrequests"), <<"create">>)
             other == InGroup(Certificates, <<"certificatesigningrequests", "approval">>, <<"update">>)
             both == <<rule, other>>
  <2>1. "create" # "" /\ "update" # "" /\ "certificatesigningrequests" # ""  OBVIOUS
  <2>2. /\ SmallRule(rule)
        /\ RuleAtoms(rule) = Atoms(Certificates, Plain("certificatesigningrequests"), {"create"})
    <3>1. Plain("certificatesigningrequests") # Plain("")  BY <1>1, <2>1
    <3> QED  BY <2>1, <3>1, OneVerbRule
  <2>3. /\ SmallRule(other)
        /\ RuleAtoms(other) = Atoms(Certificates, <<"certificatesigningrequests", "approval">>, {"update"})
    BY <1>2, <2>1, OneVerbRule
  <2>4. INJECTIONS[9] = Privileged("csr_issuing", both)  BY DEF INJECTIONS, CsrRules
  <2>5. \A rules : /\ Privileged("csr_issuing", rules).before_add = <<>>
                   /\ Privileged("csr_issuing", rules).after_add = rules
                   /\ Privileged("csr_issuing", rules).kind = "privileged"
    BY DEF Privileged, Inject
  <2> HIDE DEF rule, other
  <2>6. /\ SmallRules(both) /\ Len(both) = 2 /\ AtomsOf(both) = RuleAtoms(rule) \cup RuleAtoms(other)
    BY <2>2, <2>3, TwoRules
  <2> HIDE DEF both
  <2>7. /\ INJECTIONS[9].before_add = <<>> /\ INJECTIONS[9].after_add = both
        /\ INJECTIONS[9].kind = "privileged"
    BY <2>4, <2>5
  <2>8. Adds(INJECTIONS[9], {}, RuleAtoms(rule) \cup RuleAtoms(other))
    <3> DEFINE none == <<>>
    <3>1. SmallRules(none) /\ Len(none) = 0 /\ AtomsOf(none) = {}  BY NoRules
    <3>2. INJECTIONS[9].before_add = none  BY <2>7
    <3> DEFINE injection == INJECTIONS[9]
    <3>3. injection.after_add = both  BY <2>7
    <3> HIDE DEF none, injection
    <3>4. Len(both) <= 2 /\ Len(none) <= 1 /\ Len(none) + Len(both) <= 2  BY <2>6, <3>1
    <3>5. Adds(injection, {}, RuleAtoms(rule) \cup RuleAtoms(other))
      BY <2>6, <3>1, <3>2, <3>3, <3>4 DEF Adds, injection
    <3> QED  BY <3>5 DEF injection
  <2> QED  BY <2>2, <2>3, <2>7, <2>8
<1>12. Adds(INJECTIONS[10], {}, Atoms("*", <<"serviceaccounts", "token">>, {"create"})) /\ INJECTIONS[10].kind # "removal"
  <2> DEFINE atoms == Atoms("*", <<"serviceaccounts", "token">>, {"create"})
             rule == AnyGroup(<<"serviceaccounts", "token">>, <<"create">>)
  <2>1. "create" # ""  OBVIOUS
    <2>2. <<"serviceaccounts", "token">> # Plain("")  BY <1>2, <2>1
  <2>3. SmallRule(rule) /\ RuleAtoms(rule) = atoms
    BY <2>1, <2>2, OneVerbRule
  <2>4. INJECTIONS[10] = Privileged("token_request", <<rule>>)  BY DEF INJECTIONS
  <2> HIDE DEF rule, atoms
  <2>5. Adds(INJECTIONS[10], {}, atoms) /\ INJECTIONS[10].kind # "removal"
    BY <2>1, <2>3, <2>4, AddsPrivileged
  <2> QED  BY <2>5 DEF atoms
<1>13. Adds(INJECTIONS[11], {}, Atoms(Admission, Plain("mutatingwebhookconfigurations"), {"patch"})) /\ INJECTIONS[11].kind # "removal"
  <2> DEFINE atoms == Atoms(Admission, Plain("mutatingwebhookconfigurations"), {"patch"})
             rule == InGroup(Admission, Plain("mutatingwebhookconfigurations"), <<"patch">>)
  <2>1. "patch" # "" /\ "mutatingwebhookconfigurations" # ""  OBVIOUS
    <2>2. Plain("mutatingwebhookconfigurations") # Plain("")  BY <1>1, <2>1
  <2>3. SmallRule(rule) /\ RuleAtoms(rule) = atoms
    BY <2>1, <2>2, OneVerbRule
  <2>4. INJECTIONS[11] = Privileged("admission_webhook_control", <<rule>>)  BY DEF INJECTIONS
  <2> HIDE DEF rule, atoms
  <2>5. Adds(INJECTIONS[11], {}, atoms) /\ INJECTIONS[11].kind # "removal"
    BY <2>1, <2>3, <2>4, AddsPrivileged
  <2> QED  BY <2>5 DEF atoms
<1>14. Adds(INJECTIONS[12], {}, Atoms("*", Plain("namespaces"), {"patch"})) /\ INJECTIONS[12].kind # "removal"
  <2> DEFINE atoms == Atoms("*", Plain("namespaces"), {"patch"})
             rule == AnyGroup(Plain("namespaces"), <<"patch">>)
  <2>1. "patch" # "" /\ "namespaces" # ""  OBVIOUS
    <2>2. Plain("namespaces") # Plain("")  BY <1>1, <2>1
  <2>3. SmallRule(rule) /\ RuleAtoms(rule) = atoms
    BY <2>1, <2>2, OneVerbRule
  <2>4. INJECTIONS[12] = Privileged("namespace_modification", <<rule>>)  BY DEF INJECTIONS
  <2> HIDE DEF rule, atoms
  <2>5. Adds(INJECTIONS[12], {}, atoms) /\ INJECTIONS[12].kind # "removal"
    BY <2>1, <2>3, <2>4, AddsPrivileged
  <2> QED  BY <2>5 DEF atoms
<1>15. Adds(INJECTIONS[13], {}, Atoms("*", Plain("configmaps"), {"get", "list"})) /\ INJECTIONS[13].kind # "removal"
  <2> DEFINE atoms == Atoms("*", Plain("configmaps"), {"get", "list"})
             verbs == <<"get", "list">>
             rule == AnyGroup(Plain("configmaps"), verbs)
  <2>1. "get" # "" /\ "list" # "" /\ "configmaps" # "" /\ "benign" # "removal"  OBVIOUS
    <2>2. Plain("configmaps") # Plain("")  BY <1>1, <2>1
  <2>3. SmallRule(rule) /\ RuleAtoms(rule) = atoms
    <3>1. Short(verbs) /\ Range(verbs) = {"get", "list"}  BY TwoItems
    <3>2. "" \notin {"get", "list"}  BY <2>1
    <3> HIDE DEF verbs
    <3>3. ShortList(verbs, "")  BY <3>1, <3>2 DEF ShortList
    <3> QED  BY <2>2, <3>1, <3>3, AnyGroupRule
  <2>4. INJECTIONS[13] = Harmless("configmaps-read", "benign", rule)  BY DEF INJECTIONS
  <2> HIDE DEF rule, atoms
  <2>5. Adds(INJECTIONS[13], {}, atoms) /\ INJECTIONS[13].kind # "removal"
    BY <2>1, <2>3, <2>4, AddsHarmless
  <2> QED  BY <2>5 DEF atoms
<1>16. Adds(INJECTIONS[14], {}, Atoms("*", Plain("services"), {"list", "watch"})) /\ INJECTIONS[14].kind # "removal"
  <2> DEFINE atoms == Atoms("*", Plain("services"), {"list", "watch"})
             verbs == <<"list", "watch">>
             rule == AnyGroup(Plain("services"), verbs)
  <2>1. "list" # "" /\ "watch" # "" /\ "services" # "" /\ "benign" # "removal"  OBVIOUS
    <2>2. Plain("services") # Plain("")  BY <1>1, <2>1
  <2>3. SmallRule(rule) /\ RuleAtoms(rule) = atoms
    <3>1. Short(verbs) /\ Range(verbs) = {"list", "watch"}  BY TwoItems
    <3>2. "" \notin {"list", "watch"}  BY <2>1
    <3> HIDE DEF verbs
    <3>3. ShortList(verbs, "")  BY <3>1, <3>2 DEF ShortList
    <3> QED  BY <2>2, <3>1, <3>3, AnyGroupRule
  <2>4. INJECTIONS[14] = Harmless("services-watch", "benign", rule)  BY DEF INJECTIONS
  <2> HIDE DEF rule, atoms
  <2>5. Adds(INJECTIONS[14], {}, atoms) /\ INJECTIONS[14].kind # "removal"
    BY <2>1, <2>3, <2>4, AddsHarmless
  <2> QED  BY <2>5 DEF atoms
<1>17. Adds(INJECTIONS[15], {}, Atoms("*", <<"pods", "log">>, {"get"})) /\ INJECTIONS[15].kind # "removal"
  <2> DEFINE atoms == Atoms("*", <<"pods", "log">>, {"get"})
             rule == AnyGroup(<<"pods", "log">>, <<"get">>)
  <2>1. "get" # "" /\ "benign" # "removal"  OBVIOUS
    <2>2. <<"pods", "log">> # Plain("")  BY <1>2, <2>1
  <2>3. SmallRule(rule) /\ RuleAtoms(rule) = atoms
    BY <2>1, <2>2, OneVerbRule
  <2>4. INJECTIONS[15] = Harmless("pods-log", "benign", rule)  BY DEF INJECTIONS
  <2> HIDE DEF rule, atoms
  <2>5. Adds(INJECTIONS[15], {}, atoms) /\ INJECTIONS[15].kind # "removal"
    BY <2>1, <2>3, <2>4, AddsHarmless
  <2> QED  BY <2>5 DEF atoms
<1>18. Adds(INJECTIONS[16], {}, Atoms("events.k8s.io", Plain("events"), {"watch"})) /\ INJECTIONS[16].kind # "removal"
  <2> DEFINE atoms == Atoms("events.k8s.io", Plain("events"), {"watch"})
             rule == InGroup("events.k8s.io", Plain("events"), <<"watch">>)
  <2>1. "watch" # "" /\ "events" # "" /\ "benign" # "removal"  OBVIOUS
    <2>2. Plain("events") # Plain("")  BY <1>1, <2>1
  <2>3. SmallRule(rule) /\ RuleAtoms(rule) = atoms
    BY <2>1, <2>2, OneVerbRule
  <2>4. INJECTIONS[16] = Harmless("events-watch", "benign", rule)  BY DEF INJECTIONS
  <2> HIDE DEF rule, atoms
  <2>5. Adds(INJECTIONS[16], {}, atoms) /\ INJECTIONS[16].kind # "removal"
    BY <2>1, <2>3, <2>4, AddsHarmless
  <2> QED  BY <2>5 DEF atoms
<1>19. Adds(INJECTIONS[17], {}, Atoms("apps", Plain("secrets"), {"get"})) /\ INJECTIONS[17].kind # "removal"
  <2> DEFINE atoms == Atoms("apps", Plain("secrets"), {"get"})
             rule == InGroup("apps", Plain("secrets"), <<"get">>)
  <2>1. "get" # "" /\ "secrets" # "" /\ "near-miss" # "removal"  OBVIOUS
    <2>2. Plain("secrets") # Plain("")  BY <1>1, <2>1
  <2>3. SmallRule(rule) /\ RuleAtoms(rule) = atoms
    BY <2>1, <2>2, OneVerbRule
  <2>4. INJECTIONS[17] = Harmless("apps-secrets", "near-miss", rule)  BY DEF INJECTIONS
  <2> HIDE DEF rule, atoms
  <2>5. Adds(INJECTIONS[17], {}, atoms) /\ INJECTIONS[17].kind # "removal"
    BY <2>1, <2>3, <2>4, AddsHarmless
  <2> QED  BY <2>5 DEF atoms
<1>20. Adds(INJECTIONS[18], {}, Atoms(Certificates, Plain("certificatesigningrequests"), {"create"})) /\ INJECTIONS[18].kind # "removal"
  <2> DEFINE atoms == Atoms(Certificates, Plain("certificatesigningrequests"), {"create"})
             rule == InGroup(Certificates, Plain("certificatesigningrequests"), <<"create">>)
  <2>1. "create" # "" /\ "certificatesigningrequests" # "" /\ "near-miss" # "removal"  OBVIOUS
    <2>2. Plain("certificatesigningrequests") # Plain("")  BY <1>1, <2>1
  <2>3. SmallRule(rule) /\ RuleAtoms(rule) = atoms
    BY <2>1, <2>2, OneVerbRule
  <2>4. INJECTIONS[18] = Harmless("csr-create-only", "near-miss", rule)  BY DEF INJECTIONS, CsrRules
  <2> HIDE DEF rule, atoms
  <2>5. Adds(INJECTIONS[18], {}, atoms) /\ INJECTIONS[18].kind # "removal"
    BY <2>1, <2>3, <2>4, AddsHarmless
  <2> QED  BY <2>5 DEF atoms
<1>21. Adds(INJECTIONS[19], {}, Atoms(RBAC, Plain("roles"), {"get", "list"})) /\ INJECTIONS[19].kind # "removal"
  <2> DEFINE atoms == Atoms(RBAC, Plain("roles"), {"get", "list"})
             verbs == <<"get", "list">>
             rule == InGroup(RBAC, Plain("roles"), verbs)
  <2>1. "get" # "" /\ "list" # "" /\ "roles" # "" /\ "near-miss" # "removal"  OBVIOUS
    <2>2. Plain("roles") # Plain("")  BY <1>1, <2>1
  <2>3. SmallRule(rule) /\ RuleAtoms(rule) = atoms
    <3>1. Short(verbs) /\ Range(verbs) = {"get", "list"}  BY TwoItems
    <3>2. "" \notin {"get", "list"}  BY <2>1
    <3> HIDE DEF verbs
    <3>3. ShortList(verbs, "")  BY <3>1, <3>2 DEF ShortList
    <3> QED  BY <2>2, <3>1, <3>3, InGroupRule
  <2>4. INJECTIONS[19] = Harmless("rbac-roles-read", "near-miss", rule)  BY DEF INJECTIONS
  <2> HIDE DEF rule, atoms
  <2>5. Adds(INJECTIONS[19], {}, atoms) /\ INJECTIONS[19].kind # "removal"
    BY <2>1, <2>3, <2>4, AddsHarmless
  <2> QED  BY <2>5 DEF atoms
<1>22. Adds(INJECTIONS[20], {}, {}) /\ INJECTIONS[20].kind = "removal"
  <2>1. INJECTIONS[20] = Inject("remove-all", "removal", None, <<>>, <<>>)  BY DEF INJECTIONS
  <2>2. /\ INJECTIONS[20].before_add = <<>> /\ INJECTIONS[20].after_add = <<>>
        /\ INJECTIONS[20].kind = "removal"
    BY <2>1 DEF Inject
  <2> QED  BY <2>2, NoRules DEF Adds
<1>23. Adds(INJECTIONS[21], Atoms("*", Plain("secrets"), {"list"}), {}) /\ INJECTIONS[21].kind # "removal"
  <2> DEFINE atoms == Atoms("*", Plain("secrets"), {"list"})
             rule == AnyGroup(Plain("secrets"), <<"list">>)
  <2>1. "list" # "" /\ "secrets" # ""  OBVIOUS
    <2>2. Plain("secrets") # Plain("")  BY <1>1, <2>1
  <2>3. SmallRule(rule) /\ RuleAtoms(rule) = atoms
    BY <2>1, <2>2, OneVerbRule
  <2>4. INJECTIONS[21] = Preexisting("preexisting-secrets", rule)  BY DEF INJECTIONS
  <2> HIDE DEF rule, atoms
  <2>5. Adds(INJECTIONS[21], atoms, {}) /\ INJECTIONS[21].kind # "removal"
    BY <2>1, <2>3, <2>4, AddsPreexisting
  <2> QED  BY <2>5 DEF atoms
<1>24. Adds(INJECTIONS[22], Atoms(RBAC, Plain("roles"), {"bind"}), {}) /\ INJECTIONS[22].kind # "removal"
  <2> DEFINE atoms == Atoms(RBAC, Plain("roles"), {"bind"})
             rule == InGroup(RBAC, Plain("roles"), <<"bind">>)
  <2>1. "bind" # "" /\ "roles" # ""  OBVIOUS
    <2>2. Plain("roles") # Plain("")  BY <1>1, <2>1
  <2>3. SmallRule(rule) /\ RuleAtoms(rule) = atoms
    BY <2>1, <2>2, OneVerbRule
  <2>4. INJECTIONS[22] = Preexisting("preexisting-bind", rule)  BY DEF INJECTIONS
  <2> HIDE DEF rule, atoms
  <2>5. Adds(INJECTIONS[22], atoms, {}) /\ INJECTIONS[22].kind # "removal"
    BY <2>1, <2>3, <2>4, AddsPreexisting
  <2> QED  BY <2>5 DEF atoms
<1>25. \A j \in 1 .. 22 : INJECTIONS[j].kind = "removal" <=> j = 20
  <2>1. \A j \in 1 .. 22 : j \in {1, 2, 3, 4, 5, 6, 7, 8, 9, 10, 11} \/ j \in {12, 13, 14, 15, 16, 17}
                           \/ j \in {18, 19, 20, 21, 22}
    OBVIOUS
  <2> QED  BY <1>3, <1>4, <1>5, <1>6, <1>7, <1>8, <1>9, <1>10, <1>11, <1>12, <1>13, <1>14, <1>15,
              <1>16, <1>17, <1>18, <1>19, <1>20, <1>21, <1>22, <1>23, <1>24, <2>1
<1> QED  BY <1>3, <1>4, <1>5, <1>6, <1>7, <1>8, <1>9, <1>10, <1>11, <1>12, <1>13, <1>14, <1>15,
            <1>16, <1>17, <1>18, <1>19, <1>20, <1>21, <1>22, <1>23, <1>24, <1>25

LEMMA JoinedRules ==
  ASSUME NEW s, NEW t, SmallRules(s), SmallRules(t), Len(s) + Len(t) <= 4
  PROVE  /\ SmallRules(s \o t) /\ Len(s \o t) = Len(s) + Len(t)
         /\ AtomsOf(s \o t) = AtomsOf(s) \cup AtomsOf(t)
         /\ \A i \in 1 .. Len(s) : (s \o t)[i] = s[i]
<1> DEFINE n == Len(s)  m == Len(t)  both == s \o t
<1>1. PICK S : s \in Seq(S)  BY DEF SmallRules
<1>2. PICK T : t \in Seq(T)  BY DEF SmallRules
<1>3. s \in Seq(S \cup T) /\ t \in Seq(S \cup T)  BY <1>1, <1>2
<1>4. /\ both \in Seq(S \cup T) /\ Len(both) = n + m /\ n \in Nat /\ m \in Nat
      /\ \A i \in 1 .. n : both[i] = s[i]
      /\ \A i \in 1 .. m : both[n + i] = t[i]
  BY <1>3
<1>5. DOMAIN both = 1 .. n + m /\ DOMAIN s = 1 .. n /\ DOMAIN t = 1 .. m  BY <1>3, <1>4
<1>6. n + m <= 4  OBVIOUS
<1> HIDE DEF both, n, m
<1>7. \A i \in 1 .. n + m : i \in 1 .. n \/ (i - n \in 1 .. m /\ i = n + (i - n))  BY <1>4
<1>8. \A i \in 1 .. n + m : SmallRule(both[i])
  <2>1. (\A i \in 1 .. n : SmallRule(s[i])) /\ (\A i \in 1 .. m : SmallRule(t[i]))
    BY DEF SmallRules, n, m
  <2>2. ASSUME NEW i \in 1 .. n + m PROVE SmallRule(both[i])
    <3>1. CASE i \in 1 .. n  BY <1>4, <2>1, <3>1
    <3>2. CASE i - n \in 1 .. m /\ i = n + (i - n)
      <4>1. PICK k \in 1 .. m : i = n + k  BY <3>2
      <4> QED  BY <1>4, <2>1, <4>1
    <3> QED  BY <1>7, <3>1, <3>2
  <2> QED  BY <2>2
<1>9. SmallRules(both)  BY <1>4, <1>6, <1>8 DEF SmallRules
<1>10. AtomsOf(both) = AtomsOf(s) \cup AtomsOf(t)
  <2>1. \A x : x \in AtomsOf(both) <=> \E i \in 1 .. n + m : x \in RuleAtoms(both[i])
    BY <1>5 DEF AtomsOf
  <2>2. \A x : x \in AtomsOf(s) <=> \E i \in 1 .. n : x \in RuleAtoms(s[i])  BY <1>5 DEF AtomsOf
  <2>3. \A x : x \in AtomsOf(t) <=> \E i \in 1 .. m : x \in RuleAtoms(t[i])  BY <1>5 DEF AtomsOf
  <2>4. ASSUME NEW x \in AtomsOf(both) PROVE x \in AtomsOf(s) \cup AtomsOf(t)
    <3>1. PICK i \in 1 .. n + m : x \in RuleAtoms(both[i])  BY <2>1
    <3>2. CASE i \in 1 .. n  BY <1>4, <2>2, <3>1, <3>2
    <3>3. CASE i - n \in 1 .. m /\ i = n + (i - n)
      <4>1. PICK k \in 1 .. m : i = n + k  BY <3>3
      <4> QED  BY <1>4, <2>3, <3>1, <4>1
    <3> QED  BY <1>7, <3>2, <3>3
  <2>5. ASSUME NEW x \in AtomsOf(s) PROVE x \in AtomsOf(both)
    <3>1. PICK i \in 1 .. n : x \in RuleAtoms(s[i])  BY <2>2
    <3>2. i \in 1 .. n + m  BY <1>4
    <3> QED  BY <1>4, <2>1, <3>1, <3>2
  <2>6. ASSUME NEW x \in AtomsOf(t) PROVE x \in AtomsOf(both)
    <3>1. PICK i \in 1 .. m : x \in RuleAtoms(t[i])  BY <2>3
    <3>2. n + i \in 1 .. n + m  BY <1>4
    <3> QED  BY <1>4, <2>1, <3>1, <3>2
  <2> QED  BY <2>4, <2>5, <2>6
<1> QED  BY <1>4, <1>9, <1>10 DEF both, n, m

\* Rules as the catalogue has them: none, or the first reads pods and can be split.
CatalogueRules(rules) ==
  /\ SmallRules(rules) /\ Len(rules) <= 3
  /\ rules = <<>> \/ (Len(rules) >= 1 /\ rules[1] = PodsRead)

LEMMA VersionRules ==
  ASSUME NEW injection, NEW before, NEW after, Adds(injection, before, after)
  PROVE  /\ CatalogueRules(Before(injection)) /\ Before(injection) # <<>>
         /\ AtomsOf(Before(injection)) = PodAtoms \cup before
         /\ CatalogueRules(AfterOf(injection))
         /\ AtomsOf(AfterOf(injection)) =
              IF injection.kind = "removal" THEN {} ELSE PodAtoms \cup before \cup after
<1> DEFINE one == <<PodsRead>>  b == Before(injection)  a == AfterOf(injection)
           s == injection.before_add  t == injection.after_add
<1>1. /\ SmallRules(s) /\ Len(s) <= 1 /\ Len(s) + Len(t) <= 2 /\ AtomsOf(s) = before
      /\ SmallRules(t) /\ Len(t) <= 2 /\ AtomsOf(t) = after
  BY DEF Adds
<1>2. /\ SmallRules(one) /\ Len(one) = 1 /\ AtomsOf(one) = RuleAtoms(PodsRead)  BY PodsRules, OneRule
<1>3. RuleAtoms(PodsRead) = PodAtoms  BY PodsRules DEF PodAtoms
<1>4. one[1] = PodsRead /\ b = one \o s
  BY DEF Before
<1>5. Len(s) \in Nat /\ Len(t) \in Nat
  <2>1. (\E S : s \in Seq(S)) /\ (\E S : t \in Seq(S))  BY <1>1 DEF SmallRules
  <2> HIDE DEF s, t
  <2> QED  BY <2>1
<1> HIDE DEF one, b, s, t
<1>6. /\ SmallRules(b) /\ Len(b) = 1 + Len(s) /\ AtomsOf(b) = PodAtoms \cup before /\ b[1] = PodsRead
  <2>1. 1 \in 1 .. Len(one) /\ Len(one) + Len(s) <= 4  BY <1>1, <1>2, <1>5
  <2> QED  BY <1>1, <1>2, <1>3, <1>4, <2>1, JoinedRules
<1>7. CatalogueRules(b) /\ b # <<>>
  <2>1. Len(b) <= 3 /\ Len(b) >= 1  BY <1>1, <1>5, <1>6
  <2>2. Len(<<>>) = 0  OBVIOUS
  <2>3. b # <<>>  BY <2>1, <2>2
  <2> QED  BY <1>6, <2>1, <2>3 DEF CatalogueRules
<1>8. CASE injection.kind = "removal"
  <2>1. a = <<>>  BY <1>8 DEF AfterOf
  <2>2. SmallRules(a) /\ Len(a) = 0 /\ AtomsOf(a) = {}  BY <2>1, NoRules
  <2> HIDE DEF a
  <2>3. CatalogueRules(a)  BY <2>1, <2>2 DEF CatalogueRules
  <2> QED  BY <1>6, <1>7, <1>8, <2>2, <2>3 DEF a, b
<1>9. CASE injection.kind # "removal"
  <2>1. a = b \o t  BY <1>9 DEF AfterOf, b, t
  <2> HIDE DEF a
  <2>2. 1 \in 1 .. Len(b) /\ Len(b) + Len(t) <= 4  BY <1>1, <1>5, <1>6
  <2>3. /\ SmallRules(a) /\ Len(a) = Len(b) + Len(t) /\ AtomsOf(a) = AtomsOf(b) \cup after
        /\ a[1] = b[1]
    BY <1>1, <1>6, <2>1, <2>2, JoinedRules
  <2>4. Len(a) <= 3 /\ Len(a) >= 1  BY <1>1, <1>5, <1>6, <2>3
  <2>5. CatalogueRules(a)  BY <1>6, <2>3, <2>4 DEF CatalogueRules
  <2> QED  BY <1>6, <1>7, <1>9, <2>3, <2>5 DEF a, b
<1> QED  BY <1>8, <1>9

LEMMA SplitCatalogueRules ==
  ASSUME NEW rules, CatalogueRules(rules)
  PROVE  /\ SmallRules(SplitRules(rules)) /\ AtomsOf(SplitRules(rules)) = AtomsOf(rules)
         /\ rules # <<>> => SplitRules(rules) # rules
<1>1. CASE rules = <<>>
  <2>1. Splittable(rules, "verbs") = {} /\ Splittable(rules, "resources") = {}
    BY <1>1 DEF Splittable
  <2>2. SplitRules(rules) = rules  BY <2>1 DEF SplitRules
  <2> QED  BY <1>1, <2>2 DEF CatalogueRules
<1>2. CASE Len(rules) >= 1 /\ rules[1] = PodsRead
  <2>1. \E S : rules \in Seq(S)  BY DEF CatalogueRules, SmallRules
  <2>2. Len(rules) \in 1 .. 3
    <3> DEFINE n == Len(rules)
    <3>1. n \in Nat  BY <2>1
    <3>2. n <= 3 /\ n >= 1  BY <1>2 DEF CatalogueRules
    <3> HIDE DEF n
    <3>3. n \in 1 .. 3  BY <3>1, <3>2
    <3> QED  BY <3>3 DEF n
  <2> QED  BY <1>2, <2>2, SplitRuleList DEF CatalogueRules
<1> QED  BY <1>1, <1>2 DEF CatalogueRules

LEMMA Injected ==
  ASSUME NEW j \in 1 .. 22
  PROVE  \E before, after : Adds(INJECTIONS[j], before, after)
<1>1. \/ j \in {1, 2, 3, 4, 5, 6, 7, 8, 9, 10, 11} \/ j \in {12, 13, 14, 15, 16, 17}
      \/ j \in {18, 19, 20, 21, 22}
  OBVIOUS
<1> QED  BY <1>1, CatalogueAdds

-----------------------------------------------------------------------------
(* What the catalogue escalates.                                           *)

GrantedBefore(injection) == AtomsOf(Before(injection))
GrantedAfter(injection)  == AtomsOf(AfterOf(injection))

\* A permission the replay model takes for privileged.
IsPrivileged(x) == PrivilegedPermission(x[2], x[3])

TokenResource == <<"serviceaccounts", "token">>

\* An atom that names its resource covers only atoms of that resource.
LEMMA NamedCovers ==
  ASSUME NEW q, q[2][1] # "*", NEW a, Covers(q, a)
  PROVE  q[2] = a[2]
<1>1. Star[1] = "*"  BY DEF Star
<1>2. q[2] # Star  BY <1>1
<1> QED  BY <1>2 DEF Covers, ResourceMatch

LEMMA PodAtomFields ==
  \A x \in PodAtoms : /\ x[1] = "*" /\ x[2] = Plain("pods") /\ x[3] \in {"get", "list"} /\ x[2][1] # "*"
                      /\ x[2][1] = "pods" /\ x[2][2] = ""
<1>1. Plain("pods")[1] = "pods" /\ Plain("pods")[2] = ""  BY DEF Plain
<1>2. ASSUME NEW x \in PodAtoms PROVE x[1] = "*" /\ x[2] = Plain("pods") /\ x[3] \in {"get", "list"}
  <2> DEFINE verbs == {"get", "list"}
  <2>1. PodAtoms = Atoms("*", Plain("pods"), verbs)  BY DEF PodAtoms
  <2> HIDE DEF verbs
  <2>2. x[1] = "*" /\ x[2] = Plain("pods") /\ x[3] \in verbs  BY <2>1, AtomFields
  <2> QED  BY <2>2 DEF verbs
<1> QED  BY <1>1, <1>2

\* An atom for something else than pods is not covered by reading pods.
LEMMA NewBesidePods ==
  ASSUME NEW after, NEW x \in after, x[2][1] # "pods"
  PROVE  x \in NewAtoms(PodAtoms, PodAtoms \cup after)
<1>1. ASSUME NEW q \in PodAtoms, Covers(q, x) PROVE FALSE
  <2>1. q[2][1] = "pods" /\ q[2][1] # "*"  BY PodAtomFields
  <2>2. q[2] = x[2]  BY <1>1, <2>1, NamedCovers
  <2> QED  BY <2>1, <2>2
<1> QED  BY <1>1 DEF NewAtoms

LEMMA NewTriple ==
  ASSUME NEW c \in DOMAIN Triples, NEW triple \in Triples[c], NEW before, NEW after,
         NEW x \in NewAtoms(before, after), Grants(x, triple)
  PROVE  c \in NewlyGranted(before, after)
<1>1. GrantsAny(NewAtoms(before, after), triple)  BY DEF GrantsAny
<1>2. NewlyGrants(c, before, after)  BY <1>1, TripleCategory
<1> QED  BY <1>2 DEF NewlyGranted, Categories

\* One atom that is added, and one request it grants.
LEMMA AddedTriple ==
  ASSUME NEW c \in DOMAIN Triples, NEW triple \in Triples[c],
         NEW g, g \in {"*", triple[1]}, NEW verbs, triple[3] \in verbs, triple[2][1] # "pods"
  PROVE  c \in NewlyGranted(PodAtoms, PodAtoms \cup Atoms(g, triple[2], verbs))
<1> DEFINE after == Atoms(g, triple[2], verbs)  x == <<g, triple[2], triple[3], "*">>
<1>1. x \in after  BY AtomFields
<1>2. x[2][1] # "pods"  OBVIOUS
<1>3. Grants(x, triple)  BY DEF Grants, ResourceMatch
<1> HIDE DEF after, x
<1>4. x \in NewAtoms(PodAtoms, PodAtoms \cup after)  BY <1>1, <1>2, NewBesidePods
<1>5. c \in NewlyGranted(PodAtoms, PodAtoms \cup after)  BY <1>3, <1>4, NewTriple
<1> QED  BY <1>5 DEF after

\* The triples of which an injection of the catalogue is one.
LEMMA InjectedTriples ==
  /\ <<"", Plain("secrets"), "list">> \in Triples["secrets_read"]
  /\ <<"apps", Plain("deployments"), "create">> \in Triples["workload_creation"]
  /\ <<"", Plain("persistentvolumes"), "create">> \in Triples["persistent_volume_creation"]
  /\ <<RBAC, Plain("clusterroles"), "escalate">> \in Triples["escalate_verb"]
  /\ <<RBAC, Plain("roles"), "bind">> \in Triples["bind_verb"]
  /\ <<"", TokenResource, "create">> \in Triples["token_request"]
  /\ <<Admission, Plain("mutatingwebhookconfigurations"), "patch">>
       \in Triples["admission_webhook_control"]
  /\ <<"", Plain("namespaces"), "patch">> \in Triples["namespace_modification"]
  /\ DOMAIN Triples = {"secrets_read", "workload_creation", "persistent_volume_creation",
                       "escalate_verb", "bind_verb", "token_request", "admission_webhook_control",
                       "namespace_modification"}
BY DEF Triples, TokenResource

\* Each of the twelve privileged injections newly grants its category.
LEMMA PrivilegedEscalates ==
  ASSUME NEW j \in 1 .. 12, NEW before, NEW after, Adds(INJECTIONS[j], before, after)
  PROVE  INJECTIONS[j].category \in NewlyGranted(PodAtoms, PodAtoms \cup after)
<1> DEFINE injection == INJECTIONS[j]
<1>2. \A b, added : Adds(injection, b, added) => added = after  BY DEF Adds
<1>3. CASE j = 1
  <2> DEFINE added == Atoms("", Plain("configmaps"), {"*"})  x == <<"", Plain("configmaps"), "*", "*">>
  <2>1. x \in added  BY AtomFields
  <2>2. x[2][1] # "pods" /\ x[3] = "*"  BY DEF Plain
  <2> HIDE DEF added, x
  <2>3. x \in NewAtoms(PodAtoms, PodAtoms \cup added)  BY <2>1, <2>2, NewBesidePods
  <2>4. "wildcard_grant" \in NewlyGranted(PodAtoms, PodAtoms \cup added)
    BY <2>2, <2>3, OtherCategories DEF NewlyGranted, NewlyGrants, Categories
  <2>5. added = after  BY <1>2, <1>3, CatalogueAdds DEF added
  <2> QED  BY <1>3, <2>4, <2>5, CatalogueCategories
<1>4. CASE j = 5
  <2> DEFINE added == Atoms("*", NodesProxy, {"get"})  x == <<"*", NodesProxy, "get", "*">>
  <2>1. x \in added  BY AtomFields
  <2>2. x[1] = "*" /\ x[2] = NodesProxy /\ x[2][1] # "pods"  BY DEF NodesProxy
  <2> HIDE DEF added, x
  <2>3. x \in NewAtoms(PodAtoms, PodAtoms \cup added)  BY <2>1, <2>2, NewBesidePods
  <2>4. "nodes_proxy" \in NewlyGranted(PodAtoms, PodAtoms \cup added)
    BY <2>2, <2>3, OtherCategories DEF NewlyGranted, NewlyGrants, Categories, ResourceMatch
  <2>5. added = after  BY <1>2, <1>4, CatalogueAdds DEF added
  <2> QED  BY <1>4, <2>4, <2>5, CatalogueCategories
<1>5. CASE j = 8
  <2> DEFINE added == Atoms("*", Plain("serviceaccounts"), {"impersonate"})
             x == <<"*", Plain("serviceaccounts"), "impersonate", "*">>
  <2>1. x \in added  BY AtomFields
  <2>2. x[3] = "impersonate" /\ x[2][1] # "pods"  BY DEF Plain
  <2> HIDE DEF added, x
  <2>3. x \in NewAtoms(PodAtoms, PodAtoms \cup added)  BY <2>1, <2>2, NewBesidePods
  <2>4. "impersonate_verb" \in NewlyGranted(PodAtoms, PodAtoms \cup added)
    BY <2>2, <2>3, OtherCategories DEF NewlyGranted, NewlyGrants, Categories
  <2>5. added = after  BY <1>2, <1>5, CatalogueAdds DEF added
  <2> QED  BY <1>5, <2>4, <2>5, CatalogueCategories
<1>6. CASE j = 9
  <2> DEFINE csr == Atoms(Certificates, Plain("certificatesigningrequests"), {"create"})
             approval == Atoms(Certificates, <<"certificatesigningrequests", "approval">>, {"update"})
             x == <<Certificates, Plain("certificatesigningrequests"), "create", "*">>
             y == <<Certificates, <<"certificatesigningrequests", "approval">>, "update", "*">>
             added == csr \cup approval
  <2>1. x \in csr /\ y \in approval  BY AtomFields
  <2>2. Grants(x, CsrCreate) /\ Grants(y, CsrApprove)
    BY DEF Grants, CsrCreate, CsrApprove, ResourceMatch
  <2> HIDE DEF csr, approval, x, y
  <2>3. CsrGranted(PodAtoms \cup added)  BY <2>1, <2>2 DEF CsrGranted, GrantsAny
  <2>4. ~CsrGranted(PodAtoms)
    <3>1. ASSUME NEW q \in PodAtoms, Grants(q, CsrCreate) PROVE FALSE
      <4>1. CsrCreate[2][1] = "certificatesigningrequests"  BY DEF CsrCreate, Plain
      <4>2. q[2][1] = "pods" /\ q[2][1] # "*" /\ Star[1] = "*"  BY PodAtomFields DEF Star
      <4> QED  BY <3>1, <4>1, <4>2 DEF Grants, ResourceMatch
    <3> QED  BY <3>1 DEF CsrGranted, GrantsAny
  <2>5. "csr_issuing" \in NewlyGranted(PodAtoms, PodAtoms \cup added)
    BY <2>3, <2>4, OtherCategories DEF NewlyGranted, NewlyGrants, Categories
  <2>6. added = after  BY <1>2, <1>6, CatalogueAdds DEF csr, approval
  <2> QED  BY <1>6, <2>5, <2>6, CatalogueCategories
<1>7. CASE j = 2
  <2> DEFINE triple == <<"", Plain("secrets"), "list">>  g == "*"  verbs == {"list"}
             added == Atoms(g, triple[2], verbs)
  <2>1. "secrets_read" \in DOMAIN Triples /\ triple \in Triples["secrets_read"]  BY InjectedTriples
  <2>2. /\ g \in {"*", triple[1]} /\ triple[3] \in verbs /\ triple[2][1] # "pods"
        /\ triple[2] = Plain("secrets")
    BY DEF Plain, TokenResource
  <2>3. Adds(injection, {}, added)
    BY <1>7, CatalogueAdds
  <2> HIDE DEF triple, g, verbs
  <2>4. "secrets_read" \in NewlyGranted(PodAtoms, PodAtoms \cup added)
    BY <2>1, <2>2, AddedTriple
  <2>5. added = after  BY <1>2, <2>3
  <2> QED  BY <1>7, <2>4, <2>5, CatalogueCategories
<1>8. CASE j = 3
  <2> DEFINE triple == <<"apps", Plain("deployments"), "create">>  g == "apps"  verbs == {"create"}
             added == Atoms(g, triple[2], verbs)
  <2>1. "workload_creation" \in DOMAIN Triples /\ triple \in Triples["workload_creation"]  BY InjectedTriples
  <2>2. /\ g \in {"*", triple[1]} /\ triple[3] \in verbs /\ triple[2][1] # "pods"
        /\ triple[2] = Plain("deployments")
    BY DEF Plain, TokenResource
  <2>3. Adds(injection, {}, added)
    BY <1>8, CatalogueAdds
  <2> HIDE DEF triple, g, verbs
  <2>4. "workload_creation" \in NewlyGranted(PodAtoms, PodAtoms \cup added)
    BY <2>1, <2>2, AddedTriple
  <2>5. added = after  BY <1>2, <2>3
  <2> QED  BY <1>8, <2>4, <2>5, CatalogueCategories
<1>9. CASE j = 4
  <2> DEFINE triple == <<"", Plain("persistentvolumes"), "create">>  g == ""  verbs == {"create"}
             added == Atoms(g, triple[2], verbs)
  <2>1. "persistent_volume_creation" \in DOMAIN Triples /\ triple \in Triples["persistent_volume_creation"]  BY InjectedTriples
  <2>2. /\ g \in {"*", triple[1]} /\ triple[3] \in verbs /\ triple[2][1] # "pods"
        /\ triple[2] = Plain("persistentvolumes")
    BY DEF Plain, TokenResource
  <2>3. Adds(injection, {}, added)
    BY <1>9, CatalogueAdds
  <2> HIDE DEF triple, g, verbs
  <2>4. "persistent_volume_creation" \in NewlyGranted(PodAtoms, PodAtoms \cup added)
    BY <2>1, <2>2, AddedTriple
  <2>5. added = after  BY <1>2, <2>3
  <2> QED  BY <1>9, <2>4, <2>5, CatalogueCategories
<1>10. CASE j = 6
  <2> DEFINE triple == <<RBAC, Plain("clusterroles"), "escalate">>  g == RBAC  verbs == {"escalate"}
             added == Atoms(g, triple[2], verbs)
  <2>1. "escalate_verb" \in DOMAIN Triples /\ triple \in Triples["escalate_verb"]  BY InjectedTriples
  <2>2. /\ g \in {"*", triple[1]} /\ triple[3] \in verbs /\ triple[2][1] # "pods"
        /\ triple[2] = Plain("clusterroles")
    BY DEF Plain, TokenResource
  <2>3. Adds(injection, {}, added)
    BY <1>10, CatalogueAdds
  <2> HIDE DEF triple, g, verbs
  <2>4. "escalate_verb" \in NewlyGranted(PodAtoms, PodAtoms \cup added)
    BY <2>1, <2>2, AddedTriple
  <2>5. added = after  BY <1>2, <2>3
  <2> QED  BY <1>10, <2>4, <2>5, CatalogueCategories
<1>11. CASE j = 7
  <2> DEFINE triple == <<RBAC, Plain("roles"), "bind">>  g == RBAC  verbs == {"bind"}
             added == Atoms(g, triple[2], verbs)
  <2>1. "bind_verb" \in DOMAIN Triples /\ triple \in Triples["bind_verb"]  BY InjectedTriples
  <2>2. /\ g \in {"*", triple[1]} /\ triple[3] \in verbs /\ triple[2][1] # "pods"
        /\ triple[2] = Plain("roles")
    BY DEF Plain, TokenResource
  <2>3. Adds(injection, {}, added)
    BY <1>11, CatalogueAdds
  <2> HIDE DEF triple, g, verbs
  <2>4. "bind_verb" \in NewlyGranted(PodAtoms, PodAtoms \cup added)
    BY <2>1, <2>2, AddedTriple
  <2>5. added = after  BY <1>2, <2>3
  <2> QED  BY <1>11, <2>4, <2>5, CatalogueCategories
<1>12. CASE j = 10
  <2> DEFINE triple == <<"", TokenResource, "create">>  g == "*"  verbs == {"create"}
             added == Atoms(g, triple[2], verbs)
  <2>1. "token_request" \in DOMAIN Triples /\ triple \in Triples["token_request"]  BY InjectedTriples
  <2>2. /\ g \in {"*", triple[1]} /\ triple[3] \in verbs /\ triple[2][1] # "pods"
        /\ triple[2] = TokenResource
    BY DEF Plain, TokenResource
  <2>3. Adds(injection, {}, added)
    BY <1>12, CatalogueAdds DEF TokenResource
  <2> HIDE DEF triple, g, verbs
  <2>4. "token_request" \in NewlyGranted(PodAtoms, PodAtoms \cup added)
    BY <2>1, <2>2, AddedTriple
  <2>5. added = after  BY <1>2, <2>3
  <2> QED  BY <1>12, <2>4, <2>5, CatalogueCategories
<1>13. CASE j = 11
  <2> DEFINE triple == <<Admission, Plain("mutatingwebhookconfigurations"), "patch">>  g == Admission  verbs == {"patch"}
             added == Atoms(g, triple[2], verbs)
  <2>1. "admission_webhook_control" \in DOMAIN Triples /\ triple \in Triples["admission_webhook_control"]  BY InjectedTriples
  <2>2. /\ g \in {"*", triple[1]} /\ triple[3] \in verbs /\ triple[2][1] # "pods"
        /\ triple[2] = Plain("mutatingwebhookconfigurations")
    BY DEF Plain, TokenResource
  <2>3. Adds(injection, {}, added)
    BY <1>13, CatalogueAdds
  <2> HIDE DEF triple, g, verbs
  <2>4. "admission_webhook_control" \in NewlyGranted(PodAtoms, PodAtoms \cup added)
    BY <2>1, <2>2, AddedTriple
  <2>5. added = after  BY <1>2, <2>3
  <2> QED  BY <1>13, <2>4, <2>5, CatalogueCategories
<1>14. CASE j = 12
  <2> DEFINE triple == <<"", Plain("namespaces"), "patch">>  g == "*"  verbs == {"patch"}
             added == Atoms(g, triple[2], verbs)
  <2>1. "namespace_modification" \in DOMAIN Triples /\ triple \in Triples["namespace_modification"]  BY InjectedTriples
  <2>2. /\ g \in {"*", triple[1]} /\ triple[3] \in verbs /\ triple[2][1] # "pods"
        /\ triple[2] = Plain("namespaces")
    BY DEF Plain, TokenResource
  <2>3. Adds(injection, {}, added)
    BY <1>14, CatalogueAdds
  <2> HIDE DEF triple, g, verbs
  <2>4. "namespace_modification" \in NewlyGranted(PodAtoms, PodAtoms \cup added)
    BY <2>1, <2>2, AddedTriple
  <2>5. added = after  BY <1>2, <2>3
  <2> QED  BY <1>14, <2>4, <2>5, CatalogueCategories
<1>15. j \in {1, 2, 3, 4, 5, 6} \/ j \in {7, 8, 9, 10, 11, 12}  OBVIOUS
<1> QED  BY <1>3, <1>4, <1>5, <1>6, <1>7, <1>8, <1>9, <1>10, <1>11, <1>12, <1>13, <1>14, <1>15

\* The verbs and resources of the triples, as far as the harmless injections meet them.
LEMMA ReadTriples ==
  ASSUME NEW c \in DOMAIN Triples, NEW t \in Triples[c]
  PROVE  /\ t[3] \in {"get", "list", "watch"} => t[1] = "" /\ t[2] = Plain("secrets")
         /\ t[2] # Plain("certificatesigningrequests") /\ t[3] # "*" /\ t[2][1] # "*"
<1>1. \A name : Plain(name)[1] = name  BY DEF Plain
<1>2. t[2][1] \notin {"*", "certificatesigningrequests"}
        => t[2] # Plain("certificatesigningrequests") /\ t[2][1] # "*"
  BY <1>1
<1>3. CASE c = "secrets_read"
  <2>1. t[2] \in {Plain("secrets")} /\ t[3] \in {"get", "list", "watch"} /\ t[1] = "" /\ t[2] = Plain("secrets")
    BY <1>3 DEF Triples
  <2>2. t[2][1] \in {"secrets"}  BY <1>1, <2>1
  <2> QED  BY <1>2, <2>1, <2>2
<1>4. CASE c = "workload_creation"
  <2>1. t[2] \in {Plain("pods"), Plain("replicationcontrollers"), Plain("deployments"), Plain("replicasets"), Plain("statefulsets"), Plain("daemonsets"), Plain("jobs"), Plain("cronjobs")} /\ t[3] = "create"
    BY <1>4 DEF Triples
  <2>2. t[2][1] \in {"pods", "replicationcontrollers", "deployments", "replicasets", "statefulsets", "daemonsets", "jobs", "cronjobs"}  BY <1>1, <2>1
  <2> QED  BY <1>2, <2>1, <2>2
<1>5. CASE c = "persistent_volume_creation"
  <2>0. t = <<"", Plain("persistentvolumes"), "create">>  BY <1>5 DEF Triples
  <2>1. t[2] \in {Plain("persistentvolumes")} /\ t[3] = "create"  BY <2>0
  <2>2. t[2][1] \in {"persistentvolumes"}  BY <1>1, <2>1
  <2> QED  BY <1>2, <2>1, <2>2
<1>6. CASE c = "escalate_verb"
  <2>1. t[2] \in {Plain("roles"), Plain("clusterroles")} /\ t[3] = "escalate"
    BY <1>6 DEF Triples
  <2>2. t[2][1] \in {"roles", "clusterroles"}  BY <1>1, <2>1
  <2> QED  BY <1>2, <2>1, <2>2
<1>7. CASE c = "bind_verb"
  <2>1. t[2] \in {Plain("roles"), Plain("clusterroles")} /\ t[3] = "bind"
    BY <1>7 DEF Triples
  <2>2. t[2][1] \in {"roles", "clusterroles"}  BY <1>1, <2>1
  <2> QED  BY <1>2, <2>1, <2>2
<1>8. CASE c = "token_request"
  <2>1. t = <<"", TokenResource, "create">>  BY <1>8 DEF Triples, TokenResource
  <2>2. t[2][1] = "serviceaccounts" /\ t[3] = "create"  BY <2>1 DEF TokenResource
  <2> QED  BY <1>2, <2>2
<1>9. CASE c = "admission_webhook_control"
  <2>1. t[2] \in {Plain("validatingwebhookconfigurations"), Plain("mutatingwebhookconfigurations")} /\ t[3] \in {"create", "update", "patch", "delete", "deletecollection"}
    BY <1>9 DEF Triples
  <2>2. t[2][1] \in {"validatingwebhookconfigurations", "mutatingwebhookconfigurations"}  BY <1>1, <2>1
  <2> QED  BY <1>2, <2>1, <2>2
<1>10. CASE c = "namespace_modification"
  <2>1. t[2] \in {Plain("namespaces")} /\ t[3] \in {"patch", "update"}
    BY <1>10 DEF Triples
  <2>2. t[2][1] \in {"namespaces"}  BY <1>1, <2>1
  <2> QED  BY <1>2, <2>1, <2>2
<1> QED  BY <1>3, <1>4, <1>5, <1>6, <1>7, <1>8, <1>9, <1>10, InjectedTriples

\* A new atom that reads something that is not a core secret, or creates a signing request.
HarmlessAtom(x) ==
  /\ x[2][1] \notin {"*", "nodes"}
  /\ \/ x[3] \in {"get", "list", "watch"} /\ ~(x[1] \in {"*", ""} /\ x[2] = Plain("secrets"))
     \/ x[3] = "create" /\ x[2] = Plain("certificatesigningrequests")

LEMMA HarmlessIsNoCategory ==
  ASSUME NEW before, NEW after, \A x \in NewAtoms(before, after) : HarmlessAtom(x),
         CsrGranted(after) => CsrGranted(before)
  PROVE  NewlyGranted(before, after) = {}
<1> DEFINE new == NewAtoms(before, after)
<1>1. ASSUME NEW x \in new, NEW c \in DOMAIN Triples, NEW t \in Triples[c], Grants(x, t) PROVE FALSE
  <2>1. x[2] = t[2]
    <3>1. Star[1] = "*"  BY DEF Star
    <3>2. x[2][1] # "*"  BY DEF HarmlessAtom
    <3> QED  BY <1>1, <3>1, <3>2 DEF Grants, ResourceMatch
  <2>2. x[3] # "*"  BY DEF HarmlessAtom
  <2>3. x[3] = t[3] /\ x[1] \in {"*", t[1]}  BY <1>1, <2>2 DEF Grants
  <2> QED  BY <2>1, <2>3, ReadTriples DEF HarmlessAtom
<1>2. ASSUME NEW x \in new PROVE x[2] # Star /\ x[3] \notin {"*", "impersonate"} /\ ~ResourceMatch(x[2], NodesProxy)
  <2>1. Star[1] = "*" /\ NodesProxy[1] = "nodes"  BY DEF Star, NodesProxy
  <2>2. x[2][1] \notin {"*", "nodes"} /\ x[3] \in {"get", "list", "watch", "create"}  BY DEF HarmlessAtom
  <2> QED  BY <2>1, <2>2 DEF ResourceMatch
<1>3. \A c \in DOMAIN Triples : ~NewlyGrants(c, before, after)
  BY <1>1, TripleCategory DEF GrantsAny
<1>4. \A c \in {"wildcard_grant", "nodes_proxy", "impersonate_verb", "csr_issuing"} :
        ~NewlyGrants(c, before, after)
  BY <1>2, OtherCategories DEF NewlyGrants
<1> QED  BY <1>3, <1>4 DEF NewlyGranted, Categories

\* What neither reads secrets nor escalates: the seven injections that add something harmless.
LEMMA HarmlessAdds ==
  ASSUME NEW g, NEW r, NEW verbs, ~(g \in {"*", ""} /\ r = Plain("secrets")),
         r[1] \notin {"*", "nodes"}, r # <<"certificatesigningrequests", "approval">>,
         \/ verbs \subseteq {"get", "list", "watch"}
         \/ verbs = {"create"} /\ r = Plain("certificatesigningrequests")
  PROVE  NewlyGranted(PodAtoms, PodAtoms \cup Atoms(g, r, verbs)) = {}
<1> DEFINE added == Atoms(g, r, verbs)
<1>0. \A x \in added : x[1] = g /\ x[2] = r /\ x[3] \in verbs
  <2> TAKE x \in added
  <2> QED  BY DEF Atoms
<1> HIDE DEF added
<1>1. ASSUME NEW x \in added PROVE HarmlessAtom(x)
  <2>1. x[1] = g /\ x[2] = r /\ x[3] \in verbs  BY <1>0
  <2> QED  BY <2>1 DEF HarmlessAtom
<1>2. \A x \in NewAtoms(PodAtoms, PodAtoms \cup added) : x \in added
  <2>1. ASSUME NEW x \in PodAtoms PROVE \E q \in PodAtoms : Covers(q, x)  BY CoversIsAPreorder
  <2> QED  BY <2>1 DEF NewAtoms
<1>3. ~CsrGranted(PodAtoms \cup added)
  <2>1. CsrApprove[2] = <<"certificatesigningrequests", "approval">> /\ Star[1] = "*"
    BY DEF CsrApprove, Star
  <2>2. ASSUME NEW x \in PodAtoms \cup added, Grants(x, CsrApprove) PROVE FALSE
    <3>1. x[2][1] # "*" /\ x[2] # <<"certificatesigningrequests", "approval">>
      <4>1. CASE x \in PodAtoms
        <5>1. x[2][1] = "pods"  BY <4>1, PodAtomFields
        <5>2. <<"certificatesigningrequests", "approval">>[1] = "certificatesigningrequests"  OBVIOUS
        <5> QED  BY <5>1, <5>2
      <4>2. CASE x \in added  BY <1>0, <4>2
      <4> QED  BY <4>1, <4>2
    <3> QED  BY <2>1, <2>2, <3>1 DEF Grants, ResourceMatch
  <2> QED  BY <2>2 DEF CsrGranted, GrantsAny
<1>4. NewlyGranted(PodAtoms, PodAtoms \cup added) = {}  BY <1>1, <1>2, <1>3, HarmlessIsNoCategory
<1> QED  BY <1>4 DEF added

\* Nothing is newly granted by a version that only takes away.
LEMMA NothingAdded ==
  ASSUME NEW before, NEW after, after \subseteq before
  PROVE  NewlyGranted(before, after) = {}
<1>1. NewAtoms(before, after) = {}  BY CoversIsAPreorder DEF NewAtoms
<1>2. CsrGranted(after) => CsrGranted(before)  BY DEF CsrGranted, GrantsAny
<1> QED  BY <1>1, <1>2, HarmlessIsNoCategory

\* An atom of the catalogue names its resource, and leaves a grant that it does not cover:
\* to request tokens, or, when the injection is that one, to list secrets.
NamedAtom(x, j) ==
  /\ x[2][1] # "*"
  /\ j # 10 => x[2] # TokenResource
  /\ j = 10 => x[2] # Plain("secrets")

LEMMA NamedAtoms ==
  ASSUME NEW g, NEW r, NEW verbs, NEW j, r[1] # "*", j # 10 => r[2] # "token", j = 10 => r[2] # ""
  PROVE  \A x \in Atoms(g, r, verbs) : NamedAtom(x, j)
<1> TAKE x \in Atoms(g, r, verbs)
<1>1. x[2] = r  BY DEF Atoms
<1>2. TokenResource[2] = "token" /\ Plain("secrets")[2] = ""  BY DEF TokenResource, Plain
<1> QED  BY <1>1, <1>2 DEF NamedAtom

LEMMA CatalogueIsNamed ==
  ASSUME NEW j \in 1 .. 22, NEW before, NEW after, Adds(INJECTIONS[j], before, after)
  PROVE  \A x \in before \cup after : NamedAtom(x, j)
<1>1. \A b, a : Adds(INJECTIONS[j], b, a) => b = before /\ a = after  BY DEF Adds
<1>2. \A name : Plain(name)[1] = name /\ Plain(name)[2] = ""  BY DEF Plain
<1>3. CASE j = 1
  <2> DEFINE r == Plain("configmaps")  verbs == {"*"}  added == Atoms("", r, verbs)
  <2>1. Adds(INJECTIONS[j], {}, added)  BY <1>3, CatalogueAdds
  <2>2. r[1] = "configmaps" /\ r[2] = ""  BY <1>2
  <2> HIDE DEF r, verbs
  <2>3. r[1] # "*" /\ (j # 10 => r[2] # "token") /\ (j = 10 => r[2] # "")
    <3>1. r[1] # "*" /\ r[2] # "token"  BY <2>2
    <3>2. j # 10  BY <1>3
    <3> QED  BY <3>1, <3>2
  <2>4. \A x \in added : NamedAtom(x, j)  BY <2>3, NamedAtoms
  <2> HIDE DEF added
  <2>5. before = {} /\ after = added  BY <1>1, <2>1
  <2> QED  BY <2>4, <2>5
<1>4. CASE j = 2
  <2> DEFINE r == Plain("secrets")  verbs == {"list"}  added == Atoms("*", r, verbs)
  <2>1. Adds(INJECTIONS[j], {}, added)  BY <1>4, CatalogueAdds
  <2>2. r[1] = "secrets" /\ r[2] = ""  BY <1>2
  <2> HIDE DEF r, verbs
  <2>3. r[1] # "*" /\ (j # 10 => r[2] # "token") /\ (j = 10 => r[2] # "")
    <3>1. r[1] # "*" /\ r[2] # "token"  BY <2>2
    <3>2. j # 10  BY <1>4
    <3> QED  BY <3>1, <3>2
  <2>4. \A x \in added : NamedAtom(x, j)  BY <2>3, NamedAtoms
  <2> HIDE DEF added
  <2>5. before = {} /\ after = added  BY <1>1, <2>1
  <2> QED  BY <2>4, <2>5
<1>5. CASE j = 3
  <2> DEFINE r == Plain("deployments")  verbs == {"create"}  added == Atoms("apps", r, verbs)
  <2>1. Adds(INJECTIONS[j], {}, added)  BY <1>5, CatalogueAdds
  <2>2. r[1] = "deployments" /\ r[2] = ""  BY <1>2
  <2> HIDE DEF r, verbs
  <2>3. r[1] # "*" /\ (j # 10 => r[2] # "token") /\ (j = 10 => r[2] # "")
    <3>1. r[1] # "*" /\ r[2] # "token"  BY <2>2
    <3>2. j # 10  BY <1>5
    <3> QED  BY <3>1, <3>2
  <2>4. \A x \in added : NamedAtom(x, j)  BY <2>3, NamedAtoms
  <2> HIDE DEF added
  <2>5. before = {} /\ after = added  BY <1>1, <2>1
  <2> QED  BY <2>4, <2>5
<1>6. CASE j = 4
  <2> DEFINE r == Plain("persistentvolumes")  verbs == {"create"}  added == Atoms("", r, verbs)
  <2>1. Adds(INJECTIONS[j], {}, added)  BY <1>6, CatalogueAdds
  <2>2. r[1] = "persistentvolumes" /\ r[2] = ""  BY <1>2
  <2> HIDE DEF r, verbs
  <2>3. r[1] # "*" /\ (j # 10 => r[2] # "token") /\ (j = 10 => r[2] # "")
    <3>1. r[1] # "*" /\ r[2] # "token"  BY <2>2
    <3>2. j # 10  BY <1>6
    <3> QED  BY <3>1, <3>2
  <2>4. \A x \in added : NamedAtom(x, j)  BY <2>3, NamedAtoms
  <2> HIDE DEF added
  <2>5. before = {} /\ after = added  BY <1>1, <2>1
  <2> QED  BY <2>4, <2>5
<1>7. CASE j = 5
  <2> DEFINE r == NodesProxy  verbs == {"get"}  added == Atoms("*", r, verbs)
  <2>1. Adds(INJECTIONS[j], {}, added)  BY <1>7, CatalogueAdds
  <2>2. r[1] = "nodes" /\ r[2] = "proxy"  BY <1>2 DEF NodesProxy
  <2> HIDE DEF r, verbs
  <2>3. r[1] # "*" /\ (j # 10 => r[2] # "token") /\ (j = 10 => r[2] # "")
    <3>1. r[1] # "*" /\ r[2] # "token"  BY <2>2
    <3>2. j # 10  BY <1>7
    <3> QED  BY <3>1, <3>2
  <2>4. \A x \in added : NamedAtom(x, j)  BY <2>3, NamedAtoms
  <2> HIDE DEF added
  <2>5. before = {} /\ after = added  BY <1>1, <2>1
  <2> QED  BY <2>4, <2>5
<1>8. CASE j = 6
  <2> DEFINE r == Plain("clusterroles")  verbs == {"escalate"}  added == Atoms(RBAC, r, verbs)
  <2>1. Adds(INJECTIONS[j], {}, added)  BY <1>8, CatalogueAdds
  <2>2. r[1] = "clusterroles" /\ r[2] = ""  BY <1>2
  <2> HIDE DEF r, verbs
  <2>3. r[1] # "*" /\ (j # 10 => r[2] # "token") /\ (j = 10 => r[2] # "")
    <3>1. r[1] # "*" /\ r[2] # "token"  BY <2>2
    <3>2. j # 10  BY <1>8
    <3> QED  BY <3>1, <3>2
  <2>4. \A x \in added : NamedAtom(x, j)  BY <2>3, NamedAtoms
  <2> HIDE DEF added
  <2>5. before = {} /\ after = added  BY <1>1, <2>1
  <2> QED  BY <2>4, <2>5
<1>9. CASE j = 7
  <2> DEFINE r == Plain("roles")  verbs == {"bind"}  added == Atoms(RBAC, r, verbs)
  <2>1. Adds(INJECTIONS[j], {}, added)  BY <1>9, CatalogueAdds
  <2>2. r[1] = "roles" /\ r[2] = ""  BY <1>2
  <2> HIDE DEF r, verbs
  <2>3. r[1] # "*" /\ (j # 10 => r[2] # "token") /\ (j = 10 => r[2] # "")
    <3>1. r[1] # "*" /\ r[2] # "token"  BY <2>2
    <3>2. j # 10  BY <1>9
    <3> QED  BY <3>1, <3>2
  <2>4. \A x \in added : NamedAtom(x, j)  BY <2>3, NamedAtoms
  <2> HIDE DEF added
  <2>5. before = {} /\ after = added  BY <1>1, <2>1
  <2> QED  BY <2>4, <2>5
<1>10. CASE j = 8
  <2> DEFINE r == Plain("serviceaccounts")  verbs == {"impersonate"}  added == Atoms("*", r, verbs)
  <2>1. Adds(INJECTIONS[j], {}, added)  BY <1>10, CatalogueAdds
  <2>2. r[1] = "serviceaccounts" /\ r[2] = ""  BY <1>2
  <2> HIDE DEF r, verbs
  <2>3. r[1] # "*" /\ (j # 10 => r[2] # "token") /\ (j = 10 => r[2] # "")
    <3>1. r[1] # "*" /\ r[2] # "token"  BY <2>2
    <3>2. j # 10  BY <1>10
    <3> QED  BY <3>1, <3>2
  <2>4. \A x \in added : NamedAtom(x, j)  BY <2>3, NamedAtoms
  <2> HIDE DEF added
  <2>5. before = {} /\ after = added  BY <1>1, <2>1
  <2> QED  BY <2>4, <2>5
<1>11. CASE j = 9
  <2> DEFINE csr == Atoms(Certificates, Plain("certificatesigningrequests"), {"create"})
             approval == Atoms(Certificates, <<"certificatesigningrequests", "approval">>, {"update"})
  <2>1. Adds(INJECTIONS[j], {}, csr \cup approval)  BY <1>11, CatalogueAdds
  <2>2. \A x \in csr : NamedAtom(x, j)
    <3> DEFINE r == Plain("certificatesigningrequests")  verbs == {"create"}
    <3>1. r[1] # "*" /\ r[2] # "token"  BY <1>2
    <3>2. j # 10  BY <1>11
    <3>3. r[1] # "*" /\ (j # 10 => r[2] # "token") /\ (j = 10 => r[2] # "")  BY <3>1, <3>2
    <3> HIDE DEF r, verbs
    <3>4. \A x \in Atoms(Certificates, r, verbs) : NamedAtom(x, j)  BY <3>3, NamedAtoms
    <3> QED  BY <3>4 DEF r, verbs
  <2>3. \A x \in approval : NamedAtom(x, j)  BY <1>11, NamedAtoms
  <2> HIDE DEF csr, approval
  <2>4. before = {} /\ after = csr \cup approval  BY <1>1, <2>1
  <2> QED  BY <2>2, <2>3, <2>4
<1>12. CASE j = 10
  <2> DEFINE r == TokenResource  verbs == {"create"}  added == Atoms("*", r, verbs)
  <2>1. Adds(INJECTIONS[j], {}, added)  BY <1>12, CatalogueAdds DEF TokenResource
  <2>2. r[1] = "serviceaccounts" /\ r[2] = "token"  BY <1>2 DEF TokenResource
  <2> HIDE DEF r, verbs
  <2>3. r[1] # "*" /\ (j # 10 => r[2] # "token") /\ (j = 10 => r[2] # "")
    <3>1. r[1] # "*" /\ r[2] # ""  BY <2>2
    <3> QED  BY <3>1, <1>12
  <2>4. \A x \in added : NamedAtom(x, j)  BY <2>3, NamedAtoms
  <2> HIDE DEF added
  <2>5. before = {} /\ after = added  BY <1>1, <2>1
  <2> QED  BY <2>4, <2>5
<1>13. CASE j = 11
  <2> DEFINE r == Plain("mutatingwebhookconfigurations")  verbs == {"patch"}  added == Atoms(Admission, r, verbs)
  <2>1. Adds(INJECTIONS[j], {}, added)  BY <1>13, CatalogueAdds
  <2>2. r[1] = "mutatingwebhookconfigurations" /\ r[2] = ""  BY <1>2
  <2> HIDE DEF r, verbs
  <2>3. r[1] # "*" /\ (j # 10 => r[2] # "token") /\ (j = 10 => r[2] # "")
    <3>1. r[1] # "*" /\ r[2] # "token"  BY <2>2
    <3>2. j # 10  BY <1>13
    <3> QED  BY <3>1, <3>2
  <2>4. \A x \in added : NamedAtom(x, j)  BY <2>3, NamedAtoms
  <2> HIDE DEF added
  <2>5. before = {} /\ after = added  BY <1>1, <2>1
  <2> QED  BY <2>4, <2>5
<1>14. CASE j = 12
  <2> DEFINE r == Plain("namespaces")  verbs == {"patch"}  added == Atoms("*", r, verbs)
  <2>1. Adds(INJECTIONS[j], {}, added)  BY <1>14, CatalogueAdds
  <2>2. r[1] = "namespaces" /\ r[2] = ""  BY <1>2
  <2> HIDE DEF r, verbs
  <2>3. r[1] # "*" /\ (j # 10 => r[2] # "token") /\ (j = 10 => r[2] # "")
    <3>1. r[1] # "*" /\ r[2] # "token"  BY <2>2
    <3>2. j # 10  BY <1>14
    <3> QED  BY <3>1, <3>2
  <2>4. \A x \in added : NamedAtom(x, j)  BY <2>3, NamedAtoms
  <2> HIDE DEF added
  <2>5. before = {} /\ after = added  BY <1>1, <2>1
  <2> QED  BY <2>4, <2>5
<1>15. CASE j = 13
  <2> DEFINE r == Plain("configmaps")  verbs == {"get", "list"}  added == Atoms("*", r, verbs)
  <2>1. Adds(INJECTIONS[j], {}, added)  BY <1>15, CatalogueAdds
  <2>2. r[1] = "configmaps" /\ r[2] = ""  BY <1>2
  <2> HIDE DEF r, verbs
  <2>3. r[1] # "*" /\ (j # 10 => r[2] # "token") /\ (j = 10 => r[2] # "")
    <3>1. r[1] # "*" /\ r[2] # "token"  BY <2>2
    <3>2. j # 10  BY <1>15
    <3> QED  BY <3>1, <3>2
  <2>4. \A x \in added : NamedAtom(x, j)  BY <2>3, NamedAtoms
  <2> HIDE DEF added
  <2>5. before = {} /\ after = added  BY <1>1, <2>1
  <2> QED  BY <2>4, <2>5
<1>16. CASE j = 14
  <2> DEFINE r == Plain("services")  verbs == {"list", "watch"}  added == Atoms("*", r, verbs)
  <2>1. Adds(INJECTIONS[j], {}, added)  BY <1>16, CatalogueAdds
  <2>2. r[1] = "services" /\ r[2] = ""  BY <1>2
  <2> HIDE DEF r, verbs
  <2>3. r[1] # "*" /\ (j # 10 => r[2] # "token") /\ (j = 10 => r[2] # "")
    <3>1. r[1] # "*" /\ r[2] # "token"  BY <2>2
    <3>2. j # 10  BY <1>16
    <3> QED  BY <3>1, <3>2
  <2>4. \A x \in added : NamedAtom(x, j)  BY <2>3, NamedAtoms
  <2> HIDE DEF added
  <2>5. before = {} /\ after = added  BY <1>1, <2>1
  <2> QED  BY <2>4, <2>5
<1>17. CASE j = 15
  <2> DEFINE r == <<"pods", "log">>  verbs == {"get"}  added == Atoms("*", r, verbs)
  <2>1. Adds(INJECTIONS[j], {}, added)  BY <1>17, CatalogueAdds
  <2>2. r[1] = "pods" /\ r[2] = "log"  BY <1>2
  <2> HIDE DEF r, verbs
  <2>3. r[1] # "*" /\ (j # 10 => r[2] # "token") /\ (j = 10 => r[2] # "")
    <3>1. r[1] # "*" /\ r[2] # "token"  BY <2>2
    <3>2. j # 10  BY <1>17
    <3> QED  BY <3>1, <3>2
  <2>4. \A x \in added : NamedAtom(x, j)  BY <2>3, NamedAtoms
  <2> HIDE DEF added
  <2>5. before = {} /\ after = added  BY <1>1, <2>1
  <2> QED  BY <2>4, <2>5
<1>18. CASE j = 16
  <2> DEFINE r == Plain("events")  verbs == {"watch"}  added == Atoms("events.k8s.io", r, verbs)
  <2>1. Adds(INJECTIONS[j], {}, added)  BY <1>18, CatalogueAdds
  <2>2. r[1] = "events" /\ r[2] = ""  BY <1>2
  <2> HIDE DEF r, verbs
  <2>3. r[1] # "*" /\ (j # 10 => r[2] # "token") /\ (j = 10 => r[2] # "")
    <3>1. r[1] # "*" /\ r[2] # "token"  BY <2>2
    <3>2. j # 10  BY <1>18
    <3> QED  BY <3>1, <3>2
  <2>4. \A x \in added : NamedAtom(x, j)  BY <2>3, NamedAtoms
  <2> HIDE DEF added
  <2>5. before = {} /\ after = added  BY <1>1, <2>1
  <2> QED  BY <2>4, <2>5
<1>19. CASE j = 17
  <2> DEFINE r == Plain("secrets")  verbs == {"get"}  added == Atoms("apps", r, verbs)
  <2>1. Adds(INJECTIONS[j], {}, added)  BY <1>19, CatalogueAdds
  <2>2. r[1] = "secrets" /\ r[2] = ""  BY <1>2
  <2> HIDE DEF r, verbs
  <2>3. r[1] # "*" /\ (j # 10 => r[2] # "token") /\ (j = 10 => r[2] # "")
    <3>1. r[1] # "*" /\ r[2] # "token"  BY <2>2
    <3>2. j # 10  BY <1>19
    <3> QED  BY <3>1, <3>2
  <2>4. \A x \in added : NamedAtom(x, j)  BY <2>3, NamedAtoms
  <2> HIDE DEF added
  <2>5. before = {} /\ after = added  BY <1>1, <2>1
  <2> QED  BY <2>4, <2>5
<1>20. CASE j = 18
  <2> DEFINE r == Plain("certificatesigningrequests")  verbs == {"create"}  added == Atoms(Certificates, r, verbs)
  <2>1. Adds(INJECTIONS[j], {}, added)  BY <1>20, CatalogueAdds
  <2>2. r[1] = "certificatesigningrequests" /\ r[2] = ""  BY <1>2
  <2> HIDE DEF r, verbs
  <2>3. r[1] # "*" /\ (j # 10 => r[2] # "token") /\ (j = 10 => r[2] # "")
    <3>1. r[1] # "*" /\ r[2] # "token"  BY <2>2
    <3>2. j # 10  BY <1>20
    <3> QED  BY <3>1, <3>2
  <2>4. \A x \in added : NamedAtom(x, j)  BY <2>3, NamedAtoms
  <2> HIDE DEF added
  <2>5. before = {} /\ after = added  BY <1>1, <2>1
  <2> QED  BY <2>4, <2>5
<1>21. CASE j = 19
  <2> DEFINE r == Plain("roles")  verbs == {"get", "list"}  added == Atoms(RBAC, r, verbs)
  <2>1. Adds(INJECTIONS[j], {}, added)  BY <1>21, CatalogueAdds
  <2>2. r[1] = "roles" /\ r[2] = ""  BY <1>2
  <2> HIDE DEF r, verbs
  <2>3. r[1] # "*" /\ (j # 10 => r[2] # "token") /\ (j = 10 => r[2] # "")
    <3>1. r[1] # "*" /\ r[2] # "token"  BY <2>2
    <3>2. j # 10  BY <1>21
    <3> QED  BY <3>1, <3>2
  <2>4. \A x \in added : NamedAtom(x, j)  BY <2>3, NamedAtoms
  <2> HIDE DEF added
  <2>5. before = {} /\ after = added  BY <1>1, <2>1
  <2> QED  BY <2>4, <2>5
<1>22. CASE j = 20
  <2>1. before = {} /\ after = {}  BY <1>1, <1>22, CatalogueAdds
  <2> QED  BY <2>1
<1>23. CASE j = 21
  <2> DEFINE r == Plain("secrets")  verbs == {"list"}  added == Atoms("*", r, verbs)
  <2>1. Adds(INJECTIONS[j], added, {})  BY <1>23, CatalogueAdds
  <2>2. r[1] = "secrets" /\ r[2] = ""  BY <1>2
  <2> HIDE DEF r, verbs
  <2>3. r[1] # "*" /\ (j # 10 => r[2] # "token") /\ (j = 10 => r[2] # "")
    <3>1. r[1] # "*" /\ r[2] # "token"  BY <2>2
    <3>2. j # 10  BY <1>23
    <3> QED  BY <3>1, <3>2
  <2>4. \A x \in added : NamedAtom(x, j)  BY <2>3, NamedAtoms
  <2> HIDE DEF added
  <2>5. before = added /\ after = {}  BY <1>1, <2>1
  <2> QED  BY <2>4, <2>5
<1>24. CASE j = 22
  <2> DEFINE r == Plain("roles")  verbs == {"bind"}  added == Atoms(RBAC, r, verbs)
  <2>1. Adds(INJECTIONS[j], added, {})  BY <1>24, CatalogueAdds
  <2>2. r[1] = "roles" /\ r[2] = ""  BY <1>2
  <2> HIDE DEF r, verbs
  <2>3. r[1] # "*" /\ (j # 10 => r[2] # "token") /\ (j = 10 => r[2] # "")
    <3>1. r[1] # "*" /\ r[2] # "token"  BY <2>2
    <3>2. j # 10  BY <1>24
    <3> QED  BY <3>1, <3>2
  <2>4. \A x \in added : NamedAtom(x, j)  BY <2>3, NamedAtoms
  <2> HIDE DEF added
  <2>5. before = added /\ after = {}  BY <1>1, <2>1
  <2> QED  BY <2>4, <2>5
<1>25. \/ j \in {1, 2, 3, 4, 5, 6, 7, 8} \/ j \in {9, 10, 11, 12, 13, 14, 15, 16}
      \/ j \in {17, 18, 19, 20, 21, 22}
  OBVIOUS
<1> QED  BY <1>3, <1>4, <1>5, <1>6, <1>7, <1>8, <1>9, <1>10, <1>11, <1>12, <1>13, <1>14, <1>15, <1>16, <1>17, <1>18, <1>19, <1>20, <1>21, <1>22, <1>23, <1>24, <1>25

\* The other ten newly grant nothing that escalates, and add no permission the replay model
\* takes for privileged.
LEMMA HarmlessInjections ==
  ASSUME NEW j \in 13 .. 19, NEW before, NEW after, Adds(INJECTIONS[j], before, after)
  PROVE  /\ before = {} /\ NewlyGranted(PodAtoms, PodAtoms \cup after) = {}
         /\ \A x \in after : ~IsPrivileged(x)
<1>1. \A b, a : Adds(INJECTIONS[j], b, a) => b = before /\ a = after  BY DEF Adds
<1>2. \A name : Plain(name)[1] = name /\ Plain(name)[2] = ""  BY DEF Plain
<1>3. Star[1] = "*"  BY DEF Star
<1>4. CASE j = 13
  <2> DEFINE g == "*"  r == Plain("configmaps")  verbs == {"get", "list"}  added == Atoms(g, r, verbs)
  <2>1. Adds(INJECTIONS[j], {}, added)  BY <1>4, CatalogueAdds
  <2>2. r[1] = "configmaps" /\ r[2] = ""  BY <1>2
  <2>3. r[1] = "configmaps" /\ r[2] = "" /\ r[1] \notin {"*", "nodes"} /\ r # Star
    <3> HIDE DEF r
    <3> QED  BY <1>3, <2>2
  <2>4. r # <<"certificatesigningrequests", "approval">>
    <3>1. <<"certificatesigningrequests", "approval">>[2] = "approval"  OBVIOUS
    <3> QED  BY <2>3, <3>1
  <2>5. ~(g \in {"*", ""} /\ r = Plain("secrets"))
    BY <1>2, <2>3
  <2>6. \/ verbs \subseteq {"get", "list", "watch"}
        \/ verbs = {"create"} /\ r = Plain("certificatesigningrequests")
    OBVIOUS
  <2> HIDE DEF g, r, verbs
  <2>7. NewlyGranted(PodAtoms, PodAtoms \cup added) = {}
    BY <2>3, <2>4, <2>5, <2>6, HarmlessAdds
  <2>8. \A x \in added : x[2] = r /\ x[3] \in verbs
    <3> TAKE x \in added
    <3> QED  BY DEF Atoms
  <2> HIDE DEF added
  <2>9. \A x \in added : ~IsPrivileged(x)
    BY <2>3, <2>6, <2>8 DEF IsPrivileged, PrivilegedPermission
  <2>10. before = {} /\ after = added  BY <1>1, <2>1
  <2> QED  BY <2>7, <2>9, <2>10
<1>5. CASE j = 14
  <2> DEFINE g == "*"  r == Plain("services")  verbs == {"list", "watch"}  added == Atoms(g, r, verbs)
  <2>1. Adds(INJECTIONS[j], {}, added)  BY <1>5, CatalogueAdds
  <2>2. r[1] = "services" /\ r[2] = ""  BY <1>2
  <2>3. r[1] = "services" /\ r[2] = "" /\ r[1] \notin {"*", "nodes"} /\ r # Star
    <3> HIDE DEF r
    <3> QED  BY <1>3, <2>2
  <2>4. r # <<"certificatesigningrequests", "approval">>
    <3>1. <<"certificatesigningrequests", "approval">>[2] = "approval"  OBVIOUS
    <3> QED  BY <2>3, <3>1
  <2>5. ~(g \in {"*", ""} /\ r = Plain("secrets"))
    BY <1>2, <2>3
  <2>6. \/ verbs \subseteq {"get", "list", "watch"}
        \/ verbs = {"create"} /\ r = Plain("certificatesigningrequests")
    OBVIOUS
  <2> HIDE DEF g, r, verbs
  <2>7. NewlyGranted(PodAtoms, PodAtoms \cup added) = {}
    BY <2>3, <2>4, <2>5, <2>6, HarmlessAdds
  <2>8. \A x \in added : x[2] = r /\ x[3] \in verbs
    <3> TAKE x \in added
    <3> QED  BY DEF Atoms
  <2> HIDE DEF added
  <2>9. \A x \in added : ~IsPrivileged(x)
    BY <2>3, <2>6, <2>8 DEF IsPrivileged, PrivilegedPermission
  <2>10. before = {} /\ after = added  BY <1>1, <2>1
  <2> QED  BY <2>7, <2>9, <2>10
<1>6. CASE j = 15
  <2> DEFINE g == "*"  r == <<"pods", "log">>  verbs == {"get"}  added == Atoms(g, r, verbs)
  <2>1. Adds(INJECTIONS[j], {}, added)  BY <1>6, CatalogueAdds
  <2>2. r[1] = "pods" /\ r[2] = "log"  BY <1>2
  <2>3. r[1] = "pods" /\ r[2] = "log" /\ r[1] \notin {"*", "nodes"} /\ r # Star
    <3> HIDE DEF r
    <3> QED  BY <1>3, <2>2
  <2>4. r # <<"certificatesigningrequests", "approval">>
    <3>1. <<"certificatesigningrequests", "approval">>[2] = "approval"  OBVIOUS
    <3> QED  BY <2>3, <3>1
  <2>5. ~(g \in {"*", ""} /\ r = Plain("secrets"))
    BY <1>2, <2>3
  <2>6. \/ verbs \subseteq {"get", "list", "watch"}
        \/ verbs = {"create"} /\ r = Plain("certificatesigningrequests")
    OBVIOUS
  <2> HIDE DEF g, r, verbs
  <2>7. NewlyGranted(PodAtoms, PodAtoms \cup added) = {}
    BY <2>3, <2>4, <2>5, <2>6, HarmlessAdds
  <2>8. \A x \in added : x[2] = r /\ x[3] \in verbs
    <3> TAKE x \in added
    <3> QED  BY DEF Atoms
  <2> HIDE DEF added
  <2>9. \A x \in added : ~IsPrivileged(x)
    BY <2>3, <2>6, <2>8 DEF IsPrivileged, PrivilegedPermission
  <2>10. before = {} /\ after = added  BY <1>1, <2>1
  <2> QED  BY <2>7, <2>9, <2>10
<1>7. CASE j = 16
  <2> DEFINE g == "events.k8s.io"  r == Plain("events")  verbs == {"watch"}  added == Atoms(g, r, verbs)
  <2>1. Adds(INJECTIONS[j], {}, added)  BY <1>7, CatalogueAdds
  <2>2. r[1] = "events" /\ r[2] = ""  BY <1>2
  <2>3. r[1] = "events" /\ r[2] = "" /\ r[1] \notin {"*", "nodes"} /\ r # Star
    <3> HIDE DEF r
    <3> QED  BY <1>3, <2>2
  <2>4. r # <<"certificatesigningrequests", "approval">>
    <3>1. <<"certificatesigningrequests", "approval">>[2] = "approval"  OBVIOUS
    <3> QED  BY <2>3, <3>1
  <2>5. ~(g \in {"*", ""} /\ r = Plain("secrets"))
    BY <1>2, <2>3
  <2>6. \/ verbs \subseteq {"get", "list", "watch"}
        \/ verbs = {"create"} /\ r = Plain("certificatesigningrequests")
    OBVIOUS
  <2> HIDE DEF g, r, verbs
  <2>7. NewlyGranted(PodAtoms, PodAtoms \cup added) = {}
    BY <2>3, <2>4, <2>5, <2>6, HarmlessAdds
  <2>8. \A x \in added : x[2] = r /\ x[3] \in verbs
    <3> TAKE x \in added
    <3> QED  BY DEF Atoms
  <2> HIDE DEF added
  <2>9. \A x \in added : ~IsPrivileged(x)
    BY <2>3, <2>6, <2>8 DEF IsPrivileged, PrivilegedPermission
  <2>10. before = {} /\ after = added  BY <1>1, <2>1
  <2> QED  BY <2>7, <2>9, <2>10
<1>8. CASE j = 17
  <2> DEFINE g == "apps"  r == Plain("secrets")  verbs == {"get"}  added == Atoms(g, r, verbs)
  <2>1. Adds(INJECTIONS[j], {}, added)  BY <1>8, CatalogueAdds
  <2>2. r[1] = "secrets" /\ r[2] = ""  BY <1>2
  <2>3. r[1] = "secrets" /\ r[2] = "" /\ r[1] \notin {"*", "nodes"} /\ r # Star
    <3> HIDE DEF r
    <3> QED  BY <1>3, <2>2
  <2>4. r # <<"certificatesigningrequests", "approval">>
    <3>1. <<"certificatesigningrequests", "approval">>[2] = "approval"  OBVIOUS
    <3> QED  BY <2>3, <3>1
  <2>5. ~(g \in {"*", ""} /\ r = Plain("secrets"))
    OBVIOUS
  <2>6. \/ verbs \subseteq {"get", "list", "watch"}
        \/ verbs = {"create"} /\ r = Plain("certificatesigningrequests")
    OBVIOUS
  <2> HIDE DEF g, r, verbs
  <2>7. NewlyGranted(PodAtoms, PodAtoms \cup added) = {}
    BY <2>3, <2>4, <2>5, <2>6, HarmlessAdds
  <2>8. \A x \in added : x[2] = r /\ x[3] \in verbs
    <3> TAKE x \in added
    <3> QED  BY DEF Atoms
  <2> HIDE DEF added
  <2>9. \A x \in added : ~IsPrivileged(x)
    BY <2>3, <2>6, <2>8 DEF IsPrivileged, PrivilegedPermission
  <2>10. before = {} /\ after = added  BY <1>1, <2>1
  <2> QED  BY <2>7, <2>9, <2>10
<1>9. CASE j = 18
  <2> DEFINE g == Certificates  r == Plain("certificatesigningrequests")  verbs == {"create"}  added == Atoms(g, r, verbs)
  <2>1. Adds(INJECTIONS[j], {}, added)  BY <1>9, CatalogueAdds
  <2>2. r[1] = "certificatesigningrequests" /\ r[2] = ""  BY <1>2
  <2>3. r[1] = "certificatesigningrequests" /\ r[2] = "" /\ r[1] \notin {"*", "nodes"} /\ r # Star
    <3> HIDE DEF r
    <3> QED  BY <1>3, <2>2
  <2>4. r # <<"certificatesigningrequests", "approval">>
    <3>1. <<"certificatesigningrequests", "approval">>[2] = "approval"  OBVIOUS
    <3> QED  BY <2>3, <3>1
  <2>5. ~(g \in {"*", ""} /\ r = Plain("secrets"))
    BY <1>2, <2>3
  <2>6. \/ verbs \subseteq {"get", "list", "watch"}
        \/ verbs = {"create"} /\ r = Plain("certificatesigningrequests")
    OBVIOUS
  <2> HIDE DEF g, r, verbs
  <2>7. NewlyGranted(PodAtoms, PodAtoms \cup added) = {}
    BY <2>3, <2>4, <2>5, <2>6, HarmlessAdds
  <2>8. \A x \in added : x[2] = r /\ x[3] \in verbs
    <3> TAKE x \in added
    <3> QED  BY DEF Atoms
  <2> HIDE DEF added
  <2>9. \A x \in added : ~IsPrivileged(x)
    BY <2>3, <2>6, <2>8 DEF IsPrivileged, PrivilegedPermission
  <2>10. before = {} /\ after = added  BY <1>1, <2>1
  <2> QED  BY <2>7, <2>9, <2>10
<1>10. CASE j = 19
  <2> DEFINE g == RBAC  r == Plain("roles")  verbs == {"get", "list"}  added == Atoms(g, r, verbs)
  <2>1. Adds(INJECTIONS[j], {}, added)  BY <1>10, CatalogueAdds
  <2>2. r[1] = "roles" /\ r[2] = ""  BY <1>2
  <2>3. r[1] = "roles" /\ r[2] = "" /\ r[1] \notin {"*", "nodes"} /\ r # Star
    <3> HIDE DEF r
    <3> QED  BY <1>3, <2>2
  <2>4. r # <<"certificatesigningrequests", "approval">>
    <3>1. <<"certificatesigningrequests", "approval">>[2] = "approval"  OBVIOUS
    <3> QED  BY <2>3, <3>1
  <2>5. ~(g \in {"*", ""} /\ r = Plain("secrets"))
    BY <1>2, <2>3
  <2>6. \/ verbs \subseteq {"get", "list", "watch"}
        \/ verbs = {"create"} /\ r = Plain("certificatesigningrequests")
    OBVIOUS
  <2> HIDE DEF g, r, verbs
  <2>7. NewlyGranted(PodAtoms, PodAtoms \cup added) = {}
    BY <2>3, <2>4, <2>5, <2>6, HarmlessAdds
  <2>8. \A x \in added : x[2] = r /\ x[3] \in verbs
    <3> TAKE x \in added
    <3> QED  BY DEF Atoms
  <2> HIDE DEF added
  <2>9. \A x \in added : ~IsPrivileged(x)
    BY <2>3, <2>6, <2>8 DEF IsPrivileged, PrivilegedPermission
  <2>10. before = {} /\ after = added  BY <1>1, <2>1
  <2> QED  BY <2>7, <2>9, <2>10
<1>11. j \in {13, 14, 15, 16, 17, 18, 19}  OBVIOUS
<1> QED  BY <1>4, <1>5, <1>6, <1>7, <1>8, <1>9, <1>10, <1>11

\* What is known of an injection: it escalates exactly when the catalogue says so, it
\* leaves a grant to be made, and only an injection that escalates adds a privileged
\* permission to a version that had none, or to one that has the same.
LEMMA InjectionFacts ==
  ASSUME NEW j \in 1 .. 22, NEW injection, injection = INJECTIONS[j]
  PROVE  LET before == GrantedBefore(injection)  after == GrantedAfter(injection) IN
         /\ CatalogueRules(Before(injection)) /\ Before(injection) # <<>>
         /\ CatalogueRules(AfterOf(injection))
         /\ injection.category # None => injection.category \in NewlyGranted(before, after)
         /\ injection.category = None => NewlyGranted(before, after) = {}
         /\ \A x \in before \cup after : NamedAtom(x, j)
         /\ (\A x \in before : ~IsPrivileged(x)) \/ after \subseteq before
         /\ injection.category = None => \A x \in after : IsPrivileged(x) => x \in before
<1>1. PICK before, after : Adds(injection, before, after)  BY Injected
<1> DEFINE held == GrantedBefore(injection)  granted == GrantedAfter(injection)
<1>2. injection.kind = "removal" <=> j = 20  BY CatalogueAdds
<1>3. /\ CatalogueRules(Before(injection)) /\ Before(injection) # <<>>
      /\ CatalogueRules(AfterOf(injection)) /\ held = PodAtoms \cup before
      /\ granted = IF j = 20 THEN {} ELSE PodAtoms \cup before \cup after
  <2>1. CatalogueRules(Before(injection)) /\ CatalogueRules(AfterOf(injection))  BY <1>1, VersionRules
  <2>2. Before(injection) # <<>>  BY <1>1, VersionRules
  <2>3. AtomsOf(Before(injection)) = PodAtoms \cup before  BY <1>1, VersionRules
  <2>4. /\ injection.kind = "removal" => AtomsOf(AfterOf(injection)) = {}
        /\ injection.kind # "removal" => AtomsOf(AfterOf(injection)) = PodAtoms \cup before \cup after
    <3>1. ASSUME NEW i, NEW b, NEW a, Adds(i, b, a)
          PROVE  /\ i.kind = "removal" => AtomsOf(AfterOf(i)) = {}
                 /\ i.kind # "removal" => AtomsOf(AfterOf(i)) = PodAtoms \cup b \cup a
      <4>1. AtomsOf(AfterOf(i)) = IF i.kind = "removal" THEN {} ELSE PodAtoms \cup b \cup a
        BY <3>1, VersionRules
      <4> QED  BY <4>1
    <3> QED  BY <1>1, <3>1
  <2>5. held = AtomsOf(Before(injection)) /\ granted = AtomsOf(AfterOf(injection))
    BY DEF GrantedBefore, GrantedAfter
  <2> HIDE DEF held, granted
  <2>6. j = 20 => granted = {}  BY <1>2, <2>4, <2>5
  <2>7. j # 20 => granted = PodAtoms \cup before \cup after  BY <1>2, <2>4, <2>5
  <2> QED  BY <2>1, <2>2, <2>3, <2>5, <2>6, <2>7
<1> HIDE DEF held, granted
<1>4. \A x \in held \cup granted : NamedAtom(x, j)
  <2>1. \A x \in before \cup after : NamedAtom(x, j)  BY <1>1, CatalogueIsNamed
  <2>2. \A x \in PodAtoms : NamedAtom(x, j)
    <3>1. Plain("secrets")[1] = "secrets" /\ TokenResource[1] = "serviceaccounts"
      BY DEF Plain, TokenResource
    <3>2. ASSUME NEW x \in PodAtoms PROVE NamedAtom(x, j)
      <4>1. x[2][1] = "pods"  BY PodAtomFields
      <4>2. x[2][1] # "*" /\ x[2] # TokenResource /\ x[2] # Plain("secrets")  BY <3>1, <4>1
      <4> QED  BY <4>2 DEF NamedAtom
    <3> QED  BY <3>2
  <2> QED  BY <1>3, <2>1, <2>2
<1>5. \A x \in PodAtoms : ~IsPrivileged(x)
  <2>1. ASSUME NEW x \in PodAtoms PROVE ~IsPrivileged(x)
    <3>1. x[2][1] = "pods" /\ x[3] \in {"get", "list"} /\ Star[1] = "*"  BY PodAtomFields DEF Star
    <3> QED  BY <3>1 DEF IsPrivileged, PrivilegedPermission
  <2> QED  BY <2>1
<1>6. \A b, a : Adds(injection, b, a) => b = before /\ a = after  BY <1>1 DEF Adds
<1>7. CASE j \in 1 .. 12
  <2>1. injection.category # None
    <3>1. injection.category \in Categories
      <4>1. j \in {1, 2, 3, 4, 5, 6} \/ j \in {7, 8, 9, 10, 11, 12}  BY <1>7
      <4>2. injection.category \in
              {"secrets_read", "workload_creation", "persistent_volume_creation", "escalate_verb",
               "bind_verb", "token_request", "admission_webhook_control", "namespace_modification",
               "wildcard_grant", "nodes_proxy", "impersonate_verb", "csr_issuing"}
        BY <4>1, CatalogueCategories
      <4> QED  BY <4>2, InjectedTriples DEF Categories
    <3> QED  BY <3>1, NoneAssumption
  <2>2. before = {}
    <3>1. j \in {1, 2, 3, 4, 5, 6} \/ j \in {7, 8, 9, 10, 11, 12}  BY <1>7
    <3>2. \E a : Adds(injection, {}, a)  BY <3>1, CatalogueAdds
    <3> QED  BY <1>6, <3>2
  <2>3. injection.category \in NewlyGranted(PodAtoms, PodAtoms \cup after)
    BY <1>1, <1>7, PrivilegedEscalates
  <2>4. held = PodAtoms /\ granted = PodAtoms \cup after  BY <1>3, <1>7, <2>2
  <2> QED  BY <1>3, <1>4, <1>5, <2>1, <2>3, <2>4 DEF held, granted
<1>8. CASE j \in 13 .. 19
  <2>1. injection.category = None
    <3>1. j \in 13 .. 22  BY <1>8
    <3> QED  BY <3>1, CatalogueCategories
  <2>2. /\ before = {} /\ NewlyGranted(PodAtoms, PodAtoms \cup after) = {}
        /\ \A x \in after : ~IsPrivileged(x)
    BY <1>1, <1>8, HarmlessInjections
  <2>3. held = PodAtoms /\ granted = PodAtoms \cup after  BY <1>3, <1>8, <2>2
  <2> QED  BY <1>3, <1>4, <1>5, <2>1, <2>2, <2>3 DEF held, granted
<1>9. CASE j \in 20 .. 22
  <2>1. injection.category = None
    <3>1. j \in 13 .. 22  BY <1>9
    <3> QED  BY <3>1, CatalogueCategories
  <2>2. granted \subseteq held
    <3>1. CASE j = 20  BY <1>3, <3>1
    <3>2. CASE j \in {21, 22}
      <4>1. \E b : Adds(injection, b, {})  BY <3>2, CatalogueAdds
      <4>2. after = {}  BY <1>6, <4>1
      <4>3. granted = PodAtoms \cup before  BY <1>3, <3>2, <4>2
      <4> QED  BY <1>3, <4>3
    <3>3. j = 20 \/ j \in {21, 22}  BY <1>9
    <3> QED  BY <3>1, <3>2, <3>3
  <2>3. NewlyGranted(held, granted) = {}  BY <2>2, NothingAdded
  <2> QED  BY <1>3, <1>4, <2>1, <2>2, <2>3 DEF held, granted
<1>10. j \in 1 .. 12 \/ j \in 13 .. 19 \/ j \in 20 .. 22  OBVIOUS
<1> QED  BY <1>7, <1>8, <1>9, <1>10

\* What a monotonic variant adds is one rule of one atom, for nothing privileged.
LEMMA GrantRules ==
  /\ DOMAIN MONOTONIC_GRANTS = 1 .. 3
  /\ \A g \in 1 .. 3 : /\ SmallRule(MONOTONIC_GRANTS[g])
                       /\ \A x \in RuleAtoms(MONOTONIC_GRANTS[g]) : ~IsPrivileged(x)
  /\ <<"", Plain("secrets"), "list", "*">> \in RuleAtoms(MONOTONIC_GRANTS[1])
  /\ <<"", TokenResource, "create", "*">> \in RuleAtoms(MONOTONIC_GRANTS[2])
<1>1. Plain("secrets") # Plain("") /\ Plain("persistentvolumes") # Plain("") /\ TokenResource # Plain("")
  BY DEF Plain, TokenResource
<1>2. Plain("secrets")[1] = "secrets" /\ Plain("persistentvolumes")[1] = "persistentvolumes"
      /\ TokenResource[1] = "serviceaccounts" /\ Star[1] = "*"
  BY DEF Plain, TokenResource, Star
<1> DEFINE Fits(g, r, v) == /\ SmallRule(MONOTONIC_GRANTS[g])
                            /\ RuleAtoms(MONOTONIC_GRANTS[g]) = Atoms("", r, {v})
<1> DEFINE group == ""
<1>3. ASSUME NEW g, NEW r, r # Plain(""), NEW v, v # "", MONOTONIC_GRANTS[g] = InGroup(group, r, <<v>>)
      PROVE  Fits(g, r, v)
  <2> HIDE DEF group
  <2>1. SmallRule(InGroup(group, r, <<v>>)) /\ RuleAtoms(InGroup(group, r, <<v>>)) = Atoms(group, r, {v})
    BY <1>3, OneVerbRule
  <2>2. SmallRule(MONOTONIC_GRANTS[g]) /\ RuleAtoms(MONOTONIC_GRANTS[g]) = Atoms(group, r, {v})
    BY <1>3, <2>1
  <2> QED  BY <2>2 DEF group
<1>4. Fits(1, Plain("secrets"), "list")
  <2> DEFINE r == Plain("secrets")  v == "list"
  <2>1. MONOTONIC_GRANTS[1] = InGroup(group, r, <<v>>)  BY DEF MONOTONIC_GRANTS
  <2>2. v # "" /\ r # Plain("")  BY <1>1
  <2> HIDE DEF r, v, group, Fits
  <2>3. Fits(1, r, v)  BY <1>3, <2>1, <2>2
  <2> QED  BY <2>3 DEF r, v
<1>5. Fits(2, TokenResource, "create")
  <2> DEFINE r == TokenResource  v == "create"
  <2>1. MONOTONIC_GRANTS[2] = InGroup(group, r, <<v>>)  BY DEF MONOTONIC_GRANTS, TokenResource
  <2>2. v # "" /\ r # Plain("")  BY <1>1
  <2> HIDE DEF r, v, group, Fits
  <2>3. Fits(2, r, v)  BY <1>3, <2>1, <2>2
  <2> QED  BY <2>3 DEF r, v
<1>6. Fits(3, Plain("persistentvolumes"), "create")
  <2> DEFINE r == Plain("persistentvolumes")  v == "create"
  <2>1. MONOTONIC_GRANTS[3] = InGroup(group, r, <<v>>)  BY DEF MONOTONIC_GRANTS
  <2>2. v # "" /\ r # Plain("")  BY <1>1
  <2> HIDE DEF r, v, group, Fits
  <2>3. Fits(3, r, v)  BY <1>3, <2>1, <2>2
  <2> QED  BY <2>3 DEF r, v
<1>7. ASSUME NEW g \in 1 .. 3, NEW r, NEW v, Fits(g, r, v), r # Star, v \in {"list", "create"}
      PROVE  /\ \A x \in RuleAtoms(MONOTONIC_GRANTS[g]) : ~IsPrivileged(x)
             /\ <<"", r, v, "*">> \in RuleAtoms(MONOTONIC_GRANTS[g])
  <2>1. RuleAtoms(MONOTONIC_GRANTS[g]) = Atoms("", r, {v})  BY <1>7
  <2>2. \A x \in Atoms("", r, {v}) : x[2] = r /\ x[3] = v
    <3> TAKE x \in Atoms("", r, {v})
    <3> QED  BY DEF Atoms
  <2>3. <<"", r, v, "*">> \in Atoms("", r, {v})  BY DEF Atoms
  <2>4. \A x \in Atoms("", r, {v}) : ~IsPrivileged(x)
    BY <1>7, <2>2 DEF IsPrivileged, PrivilegedPermission
  <2> QED  BY <2>1, <2>3, <2>4
<1>8. Plain("secrets") # Star /\ TokenResource # Star /\ Plain("persistentvolumes") # Star  BY <1>2
<1>9. \A g \in 1 .. 3 : g = 1 \/ g = 2 \/ g = 3  OBVIOUS
<1>10. DOMAIN MONOTONIC_GRANTS = 1 .. 3  BY DEF MONOTONIC_GRANTS
<1>11. /\ \A x \in RuleAtoms(MONOTONIC_GRANTS[1]) : ~IsPrivileged(x)
       /\ <<"", Plain("secrets"), "list", "*">> \in RuleAtoms(MONOTONIC_GRANTS[1])
  <2>1. 1 \in 1 .. 3 /\ "list" \in {"list", "create"}  OBVIOUS
  <2> DEFINE r == Plain("secrets")
  <2>2. Fits(1, r, "list") /\ r # Star  BY <1>4, <1>8
  <2> HIDE DEF Fits, r
  <2>3. /\ \A x \in RuleAtoms(MONOTONIC_GRANTS[1]) : ~IsPrivileged(x)
        /\ <<"", r, "list", "*">> \in RuleAtoms(MONOTONIC_GRANTS[1])
    BY <1>7, <2>1, <2>2
  <2> QED  BY <2>3 DEF r
<1>12. /\ \A x \in RuleAtoms(MONOTONIC_GRANTS[2]) : ~IsPrivileged(x)
       /\ <<"", TokenResource, "create", "*">> \in RuleAtoms(MONOTONIC_GRANTS[2])
  <2>1. 2 \in 1 .. 3 /\ "create" \in {"list", "create"}  OBVIOUS
  <2> HIDE DEF Fits
  <2> QED  BY <1>5, <1>7, <1>8, <2>1
<1>13. \A x \in RuleAtoms(MONOTONIC_GRANTS[3]) : ~IsPrivileged(x)
  <2>1. 3 \in 1 .. 3 /\ "create" \in {"list", "create"}  OBVIOUS
  <2> DEFINE r == Plain("persistentvolumes")
  <2>2. Fits(3, r, "create") /\ r # Star  BY <1>6, <1>8
  <2> HIDE DEF Fits, r
  <2>3. \A x \in RuleAtoms(MONOTONIC_GRANTS[3]) : ~IsPrivileged(x)
    BY <1>7, <2>1, <2>2
  <2> QED  BY <2>3
<1> QED  BY <1>4, <1>5, <1>6, <1>9, <1>10, <1>11, <1>12, <1>13

\* A grant whose resource no atom names is new.
LEMMA GrantIsNew ==
  ASSUME NEW case, NEW g \in 1 .. 3, NEW y \in RuleAtoms(MONOTONIC_GRANTS[g]),
         \A x \in AtomsOf(RulesOf(case, 2)) \cup AtomsOf(RulesOf(case, 3)) :
           x[2][1] # "*" /\ x[2] # y[2]
  PROVE  g \in NewGrants(case)
<1> DEFINE held == AtomsOf(RulesOf(case, 2)) \cup AtomsOf(RulesOf(case, 3))
           rule == MONOTONIC_GRANTS[g]
<1> HIDE DEF held
<1>1. \A x \in held : ~Covers(x, y)  BY NamedCovers DEF held
<1>2. AtomsOf(<<rule>>) = RuleAtoms(rule)  BY GrantRules, OneRule
<1>3. y \in NewAtoms(held, AtomsOf(<<rule>>))  BY <1>1, <1>2 DEF NewAtoms
<1>4. g \in DOMAIN MONOTONIC_GRANTS  BY GrantRules
<1> QED  BY <1>3, <1>4 DEF NewGrants, held

\* So every complete family has a monotonic variant.
LEMMA SomeGrantIsNew ==
  ASSUME NEW j \in 1 .. 22, NEW case,
         \A x \in AtomsOf(RulesOf(case, 2)) \cup AtomsOf(RulesOf(case, 3)) : NamedAtom(x, j)
  PROVE  NewGrants(case) # {} /\ Min(NewGrants(case)) \in 1 .. 3
<1> DEFINE held == AtomsOf(RulesOf(case, 2)) \cup AtomsOf(RulesOf(case, 3))
           grants == NewGrants(case)
<1> HIDE DEF held
<1>1. ASSUME j = 10 PROVE grants # {}
  <2> DEFINE y == <<"", Plain("secrets"), "list", "*">>
  <2>1. y \in RuleAtoms(MONOTONIC_GRANTS[1]) /\ y[2] = Plain("secrets")  BY GrantRules
  <2> HIDE DEF y
  <2>2. \A x \in held : x[2][1] # "*" /\ x[2] # y[2]  BY <1>1, <2>1 DEF NamedAtom, held
  <2>3. 1 \in 1 .. 3  OBVIOUS
  <2> QED  BY <2>1, <2>2, <2>3, GrantIsNew DEF held
<1>2. ASSUME j # 10 PROVE grants # {}
  <2> DEFINE y == <<"", TokenResource, "create", "*">>
  <2>1. y \in RuleAtoms(MONOTONIC_GRANTS[2]) /\ y[2] = TokenResource  BY GrantRules
  <2> HIDE DEF y
  <2>2. \A x \in held : x[2][1] # "*" /\ x[2] # y[2]  BY <1>2, <2>1 DEF NamedAtom, held
  <2>3. 2 \in 1 .. 3  OBVIOUS
  <2> QED  BY <2>1, <2>2, <2>3, GrantIsNew DEF held
<1>3. grants # {}  BY <1>1, <1>2
<1>4. grants \subseteq 1 .. 3  BY GrantRules DEF NewGrants
<1>5. grants \in SUBSET Nat  BY <1>4
<1> HIDE DEF grants
<1>6. Min(grants) \in grants  BY <1>3, <1>5, LeastElement
<1>7. Min(grants) \in 1 .. 3  BY <1>4, <1>6
<1> QED  BY <1>3, <1>7 DEF grants

-----------------------------------------------------------------------------
(* The families and what the oracle makes of them.                         *)

Modes == {"unapproved", "approved", "stale"}
ReadsKept == {"complete", "missing-approval", "missing-before"}

IsFamily(family) ==
  \E j \in 1 .. 22, mode \in Modes, reads \in ReadsKept : family = Family(INJECTIONS[j], mode, reads)

LEMMA FamiliesAreMade ==
  ASSUME NEW n \in 1 .. 72
  PROVE  IsFamily(Families[n])
<1>1. Complete = 66  BY CatalogueCategories DEF Complete
<1> DEFINE mode == APPROVAL_MODES[((n - 1) % 3) + 1]
           missing == MISSING_FAMILIES[((n - Complete - 1) \div 3) + 1]
<1>2. Families[n] = IF n <= Complete THEN Family(INJECTIONS[((n - 1) \div 3) + 1], mode, "complete")
                    ELSE Family(INJECTIONS[missing[1]], mode, missing[2])
  BY <1>1 DEF Families
<1>3. mode \in Modes
  <2>1. (n - 1) % 3 \in {0, 1, 2}  OBVIOUS
  <2>2. /\ APPROVAL_MODES[0 + 1] \in Modes /\ APPROVAL_MODES[1 + 1] \in Modes
        /\ APPROVAL_MODES[2 + 1] \in Modes
    BY DEF APPROVAL_MODES, Modes
  <2> QED  BY <2>1, <2>2
<1> HIDE DEF mode
<1>4. CASE n <= 66
  <2> DEFINE j == ((n - 1) \div 3) + 1
  <2>1. j \in 1 .. 22 /\ "complete" \in ReadsKept  BY <1>4 DEF ReadsKept
  <2>2. Families[n] = Family(INJECTIONS[j], mode, "complete")  BY <1>1, <1>2, <1>4
  <2> HIDE DEF j
  <2> QED  BY <1>3, <2>1, <2>2 DEF IsFamily
<1>5. CASE n > 66
  <2>1. (n - 66 - 1) \div 3 \in {0, 1}  BY <1>5
  <2>2. MISSING_FAMILIES[0 + 1] = <<2, "missing-approval">> /\ MISSING_FAMILIES[1 + 1] = <<1, "missing-before">>
    BY DEF MISSING_FAMILIES
  <2>3. missing \in {<<2, "missing-approval">>, <<1, "missing-before">>}  BY <1>1, <2>1, <2>2
  <2>4. Families[n] = Family(INJECTIONS[missing[1]], mode, missing[2])  BY <1>1, <1>2, <1>5
  <2> HIDE DEF missing
  <2>5. missing[1] \in 1 .. 22 /\ missing[2] \in ReadsKept
    <3>1. CASE missing = <<2, "missing-approval">>  BY <3>1 DEF ReadsKept
    <3>2. CASE missing = <<1, "missing-before">>  BY <3>2 DEF ReadsKept
    <3> QED  BY <2>3, <3>1, <3>2
  <2> QED  BY <1>3, <2>4, <2>5 DEF IsFamily
<1> QED  BY <1>4, <1>5

\* The categories of a complete family, and the oracle's output for it.
Granted(family) ==
  NewlyGranted(GrantedBefore(family.injection), GrantedAfter(family.injection))

Output(family) ==
  IF family.reads = "complete"
  THEN [label |-> Label(Granted(family), family.mode = "approved"), categories |-> Granted(family)]
  ELSE Unresolved

LEMMA FamilyFacts ==
  ASSUME NEW family, IsFamily(family)
  PROVE  /\ \E j \in 1 .. 22 : family.injection = INJECTIONS[j]
         /\ family.mode \in Modes /\ family.reads \in ReadsKept
         /\ Kept(family) \subseteq 1 .. 5 /\ (Kept(family) = 1 .. 5 <=> family.reads = "complete")
<1>1. PICK j \in 1 .. 22, mode \in Modes, reads \in ReadsKept : family = Family(INJECTIONS[j], mode, reads)
  BY DEF IsFamily
<1>2. family.injection = INJECTIONS[j] /\ family.mode = mode /\ family.reads = reads
  BY <1>1, FamilyFields
<1>3. family.reads \in {"complete", "missing-approval", "missing-before"}  BY <1>2 DEF ReadsKept
<1>4. CASE family.reads = "complete"  BY <1>2, <1>4 DEF Kept
<1>5. CASE family.reads = "missing-approval"
  <2>1. Kept(family) = 1 .. 4  BY <1>5 DEF Kept
  <2>2. 5 \notin 1 .. 4 /\ 5 \in 1 .. 5 /\ 1 .. 4 \subseteq 1 .. 5  OBVIOUS
  <2>3. Kept(family) # 1 .. 5  BY <2>1, <2>2
  <2> QED  BY <1>2, <1>5, <2>1, <2>2, <2>3
<1>6. CASE family.reads = "missing-before"
  <2>1. Kept(family) = {1, 3, 4, 5}  BY <1>6 DEF Kept
  <2>2. 2 \notin {1, 3, 4, 5} /\ 2 \in 1 .. 5 /\ {1, 3, 4, 5} \subseteq 1 .. 5  OBVIOUS
  <2>3. Kept(family) # 1 .. 5  BY <2>1, <2>2
  <2> QED  BY <1>2, <1>6, <2>1, <2>2, <2>3
<1> QED  BY <1>3, <1>4, <1>5, <1>6

\* The oracle's output for a family is what the catalogue says of it.
LEMMA NoDrift ==
  ASSUME NEW family, IsFamily(family)
  PROVE  ~CatalogueDrift(family, Output(family))
<1>1. PICK j \in 1 .. 22 : family.injection = INJECTIONS[j]  BY FamilyFacts
<1> DEFINE injection == family.injection
<1>2. /\ injection.category # None => injection.category \in Granted(family)
      /\ injection.category = None => Granted(family) = {}
  BY <1>1, InjectionFacts DEF Granted
<1>3. CASE family.reads = "complete"
  <2>1. Output(family).categories = Granted(family)  BY <1>3 DEF Output
  <2> QED  BY <1>2, <1>3, <2>1 DEF CatalogueDrift
<1>4. CASE family.reads # "complete"
  <2>1. Output(family).label = "unresolved"  BY <1>4 DEF Output, Unresolved
  <2> QED  BY <1>4, <2>1 DEF CatalogueDrift
<1> QED  BY <1>3, <1>4

\* A case made from a family: its two versions have the atoms of the family's, and the
\* after version may have those of a grant in addition.
MadeFrom(case, family, extra) ==
  \E ids, b, a :
    /\ Shaped(case, ids, Kept(family), b, a, family.mode) /\ SmallRules(b) /\ SmallRules(a)
    /\ AtomsOf(b) = GrantedBefore(family.injection)
    /\ AtomsOf(a) = GrantedAfter(family.injection) \cup extra

\* What the oracle makes of it.
LEMMA MadeIsJudged ==
  ASSUME NEW family, IsFamily(family), NEW case, NEW extra, MadeFrom(case, family, extra)
  PROVE  /\ Evaluate(case) # OracleError
         /\ extra = {} => Evaluate(case) = Output(family)
         /\ Output(family).categories \subseteq Evaluate(case).categories
         /\ Evaluate(case).label = "benign" => Output(family).label = "benign"
         /\ family.reads = "complete" =>
              Evaluate(case).categories = NewlyGranted(GrantedBefore(family.injection),
                                                       GrantedAfter(family.injection) \cup extra)
         /\ family.reads = "complete" =>
              Evaluate(case).label = Label(Evaluate(case).categories, family.mode = "approved")
<1> DEFINE B == GrantedBefore(family.injection)  A == GrantedAfter(family.injection)
           granted == NewlyGranted(B, A \cup extra)
<1>1. PICK ids, b, a :
        /\ Shaped(case, ids, Kept(family), b, a, family.mode) /\ SmallRules(b) /\ SmallRules(a)
        /\ AtomsOf(b) = B /\ AtomsOf(a) = A \cup extra
  BY DEF MadeFrom
<1>2. Evaluate(case) = Judged(Kept(family), b, a, family.mode)
  BY <1>1, FamilyFacts, ShapeIsJudged DEF Modes
<1> HIDE DEF B, A
<1>3. CASE family.reads = "complete"
  <2>1. Kept(family) = 1 .. 5  BY <1>3, FamilyFacts
  <2>2. Evaluate(case) = [label |-> Label(granted, family.mode = "approved"), categories |-> granted]
    BY <1>1, <1>2, <2>1 DEF Judged
  <2>3. Output(family) = [label |-> Label(NewlyGranted(B, A), family.mode = "approved"),
                          categories |-> NewlyGranted(B, A)]
    BY <1>3 DEF Output, Granted, B, A
  <2>4. NewlyGranted(B, A) \subseteq granted  BY EscalationIsMonotone
  <2> DEFINE approved == family.mode = "approved"
  <2>5. Label(granted, approved) = "benign" => Label(NewlyGranted(B, A), approved) = "benign"
    BY <2>4 DEF Label
  <2>6. Evaluate(case).label # "error"  BY <2>2 DEF Label
  <2>7. extra = {} => granted = NewlyGranted(B, A)  OBVIOUS
  <2> HIDE DEF granted, approved
  <2>8. extra = {} => Evaluate(case) = Output(family)  BY <2>2, <2>3, <2>7
  <2>9. Evaluate(case).categories = granted /\ Output(family).categories = NewlyGranted(B, A)
    BY <2>2, <2>3
  <2>10. Evaluate(case).label = Label(granted, approved) /\ Output(family).label = Label(NewlyGranted(B, A), approved)
    BY <2>2, <2>3 DEF approved
  <2>11. Evaluate(case) # OracleError  BY <2>6 DEF OracleError
  <2> QED  BY <1>3, <2>4, <2>5, <2>8, <2>9, <2>10, <2>11 DEF granted, B, A, approved
<1>4. CASE family.reads # "complete"
  <2>1. Kept(family) # 1 .. 5  BY <1>4, FamilyFacts
  <2>2. Evaluate(case) = Unresolved /\ Output(family) = Unresolved
    BY <1>2, <1>4, <2>1 DEF Judged, Output
  <2>3. Unresolved # OracleError
    <3>1. Unresolved.label # OracleError.label  BY DEF Unresolved, OracleError
    <3> QED  BY <3>1
  <2> QED  BY <1>4, <2>2, <2>3
<1> QED  BY <1>3, <1>4

\* The shape before the identifiers are renamed.
Fits(case, family, extra) ==
  \E b, a :
    /\ Shaped(case, SeedIds, Kept(family), b, a, family.mode) /\ SmallRules(b) /\ SmallRules(a)
    /\ AtomsOf(b) = GrantedBefore(family.injection)
    /\ AtomsOf(a) = GrantedAfter(family.injection) \cup extra

LEMMA RenamedIsMade ==
  ASSUME NEW family, IsFamily(family), NEW case, NEW extra, Fits(case, family, extra), NEW tag
  PROVE  MadeFrom(Rename(case, tag), family, extra)
<1>1. PICK b, a :
        /\ Shaped(case, SeedIds, Kept(family), b, a, family.mode) /\ SmallRules(b) /\ SmallRules(a)
        /\ AtomsOf(b) = GrantedBefore(family.injection)
        /\ AtomsOf(a) = GrantedAfter(family.injection) \cup extra
  BY DEF Fits
<1>2. Shaped(Rename(case, tag), NeutralIds(tag), Kept(family), b, a, family.mode)
  BY <1>1, FamilyFacts, ShapeRenamed
<1> QED  BY <1>1, <1>2 DEF MadeFrom

\* Only complete families are split and granted more.
LEMMA VariantsByName ==
  ASSUME NEW family, NEW v \in 1 .. Len(VariantsOf(family))
  PROVE  LET name == VariantsOf(family)[v] IN
         /\ name \in {"base", "rename", "reorder", "split-rule", "note-neutral",
                      "note-claims-approval", "note-claims-benign", "monotonic"}
         /\ name \in {"split-rule", "monotonic"} => family.reads = "complete"
<1>1. CASE family.reads = "complete"
  <2>1. VariantsOf(family) = COMPLETE_VARIANTS  BY <1>1 DEF VariantsOf
  <2>2. Len(COMPLETE_VARIANTS) = 8  BY DEF COMPLETE_VARIANTS
  <2>3. \A i \in 1 .. 8 : COMPLETE_VARIANTS[i] \in {"base", "rename", "reorder", "split-rule",
          "note-neutral", "note-claims-approval", "note-claims-benign", "monotonic"}
    BY DEF COMPLETE_VARIANTS
  <2> QED  BY <1>1, <2>1, <2>2, <2>3
<1>2. CASE family.reads # "complete"
  <2>1. VariantsOf(family) = MISSING_VARIANTS  BY <1>2 DEF VariantsOf
  <2>2. Len(MISSING_VARIANTS) = 4  BY DEF MISSING_VARIANTS
  <2>3. \A i \in 1 .. 4 : MISSING_VARIANTS[i] \in {"base", "rename", "reorder", "note-claims-approval"}
    BY DEF MISSING_VARIANTS
  <2>4. VariantsOf(family)[v] \in {"base", "rename", "reorder", "note-claims-approval"}
    BY <2>1, <2>2, <2>3
  <2> QED  BY <2>4
<1> QED  BY <1>1, <1>2

\* What the case of a family starts from.
LEMMA RawFits ==
  ASSUME NEW family, IsFamily(family)
  PROVE  LET raw == FamilyCase(family)  b == Before(family.injection)  a == AfterOf(family.injection) IN
         /\ Shaped(raw, SeedIds, Kept(family), b, a, family.mode)
         /\ CatalogueRules(b) /\ b # <<>> /\ CatalogueRules(a)
         /\ AtomsOf(b) = GrantedBefore(family.injection)
         /\ AtomsOf(a) = GrantedAfter(family.injection)
         /\ family.reads = "complete" => RulesOf(raw, 2) = b /\ RulesOf(raw, 3) = a
<1> DEFINE raw == FamilyCase(family)  b == Before(family.injection)  a == AfterOf(family.injection)
<1>1. Shaped(raw, SeedIds, Kept(family), b, a, family.mode)  BY BaseShape
<1>2. PICK j \in 1 .. 22 : family.injection = INJECTIONS[j]  BY FamilyFacts
<1>3. CatalogueRules(b) /\ b # <<>> /\ CatalogueRules(a)  BY <1>2, InjectionFacts
<1>4. AtomsOf(b) = GrantedBefore(family.injection) /\ AtomsOf(a) = GrantedAfter(family.injection)
  BY DEF GrantedBefore, GrantedAfter
<1>5. SmallRules(b) /\ SmallRules(a)  BY <1>3 DEF CatalogueRules
<1>6. family.reads = "complete" => RulesOf(raw, 2) = b /\ RulesOf(raw, 3) = a
  <2> HIDE DEF raw, b, a
  <2> QED  BY <1>1, <1>5, FamilyFacts, ShapeIsJudged DEF Modes
<1> QED  BY <1>1, <1>3, <1>4, <1>6

\* No variant that is asked for is refused.
LEMMA EveryCaseVaries ==
  ASSUME NEW family, IsFamily(family), NEW v \in 1 .. Len(VariantsOf(family))
  PROVE  /\ ~CannotVary(FamilyCase(family), VariantsOf(family)[v])
         /\ family.reads = "complete" => Min(NewGrants(FamilyCase(family))) \in 1 .. 3
<1> DEFINE raw == FamilyCase(family)  b == Before(family.injection)  a == AfterOf(family.injection)
           name == VariantsOf(family)[v]
<1>1. /\ Shaped(raw, SeedIds, Kept(family), b, a, family.mode)
      /\ CatalogueRules(b) /\ b # <<>> /\ CatalogueRules(a)
      /\ AtomsOf(b) = GrantedBefore(family.injection)
      /\ AtomsOf(a) = GrantedAfter(family.injection)
      /\ family.reads = "complete" => RulesOf(raw, 2) = b /\ RulesOf(raw, 3) = a
  BY RawFits
<1>2. PICK j \in 1 .. 22 : family.injection = INJECTIONS[j]  BY FamilyFacts
<1>3. name \in {"split-rule", "monotonic"} => family.reads = "complete"  BY VariantsByName
<1> HIDE DEF raw, b, a, name
<1>4. family.reads = "complete" => WithRules(raw, SplitRules) # raw
  <2> SUFFICES ASSUME family.reads = "complete", WithRules(raw, SplitRules) = raw PROVE FALSE
    OBVIOUS
  <2>1. SplitRules(b) # b /\ SmallRules(SplitRules(b)) /\ SmallRules(SplitRules(a))
    BY <1>1, SplitCatalogueRules
  <2>2. Shaped(raw, SeedIds, Kept(family), SplitRules(b), SplitRules(a), family.mode)
    BY <1>1, FamilyFacts, ShapeWithSplitRules
  <2>3. RulesOf(raw, 2) = SplitRules(b)
    BY <2>1, <2>2, FamilyFacts, ShapeIsJudged DEF Modes
  <2> QED  BY <1>1, <2>1, <2>3
<1>5. family.reads = "complete" => NewGrants(raw) # {} /\ Min(NewGrants(raw)) \in 1 .. 3
  <2> SUFFICES ASSUME family.reads = "complete"
               PROVE  NewGrants(raw) # {} /\ Min(NewGrants(raw)) \in 1 .. 3
    OBVIOUS
  <2>1. \A x \in GrantedBefore(family.injection) \cup GrantedAfter(family.injection) : NamedAtom(x, j)
    BY <1>2, InjectionFacts
  <2>2. \A x \in AtomsOf(RulesOf(raw, 2)) \cup AtomsOf(RulesOf(raw, 3)) : NamedAtom(x, j)
    BY <1>1, <2>1
  <2> QED  BY <2>2, SomeGrantIsNew
<1>6. ~CannotVary(raw, name)  BY <1>3, <1>4, <1>5 DEF CannotVary
<1> QED  BY <1>5, <1>6 DEF raw, name

\* Every variant of a family is made from it, whatever order is chosen; only the monotonic
\* one has atoms in addition, and none of them is privileged.
LEMMA VariantIsMade ==
  ASSUME NEW family, IsFamily(family), NEW v \in 1 .. Len(VariantsOf(family)),
         NEW name, name = VariantsOf(family)[v], NEW order, NEW evidence_order,
         name = "reorder" => order \in Orders /\ evidence_order \in Orders
  PROVE  \E extra : /\ MadeFrom(VariantCase(FamilyCase(family), name, order, evidence_order), family, extra)
                    /\ Relation(name) # "monotonic" => extra = {}
                    /\ \A x \in extra : ~IsPrivileged(x)
<1> DEFINE raw == FamilyCase(family)  b == Before(family.injection)  a == AfterOf(family.injection)
           inner == CASE name = "reorder"    -> Reorder(raw, order, evidence_order)
                      [] name = "split-rule" -> WithRules(raw, SplitRules)
                      [] name \in Notes      -> Note(raw, name)
                      [] name = "monotonic"  -> Monotonic(raw)
                      [] OTHER               -> raw
           tag == IF name = "rename" THEN "B" ELSE "A"
           Good(extra) == /\ Fits(inner, family, extra) /\ (Relation(name) # "monotonic" => extra = {})
                          /\ \A x \in extra : ~IsPrivileged(x)
<1>1. VariantCase(raw, name, order, evidence_order) = Rename(inner, tag)  BY DEF VariantCase
<1>2. /\ Shaped(raw, SeedIds, Kept(family), b, a, family.mode)
      /\ CatalogueRules(b) /\ b # <<>> /\ CatalogueRules(a)
      /\ AtomsOf(b) = GrantedBefore(family.injection)
      /\ AtomsOf(a) = GrantedAfter(family.injection)
  BY RawFits
<1>3. /\ name \in {"base", "rename", "reorder", "split-rule", "note-neutral",
                   "note-claims-approval", "note-claims-benign", "monotonic"}
      /\ name \in {"split-rule", "monotonic"} => family.reads = "complete"
  BY VariantsByName
<1>4. SmallRules(b) /\ SmallRules(a) /\ Len(a) <= 3  BY <1>2 DEF CatalogueRules
<1>5. Kept(family) \subseteq 1 .. 5  BY FamilyFacts
<1>6. Relation(name) # "monotonic" <=> name # "monotonic"  BY DEF Relation
<1> HIDE DEF raw, b, a, inner, tag
<1>7. ASSUME name \in {"base", "rename"} PROVE Good({})
  <2>1. inner = raw  BY <1>7 DEF inner, Notes
  <2> QED  BY <1>2, <1>4, <2>1 DEF Fits
<1>8. ASSUME name = "reorder" PROVE Good({})
  <2>1. inner = Reorder(raw, order, evidence_order)  BY <1>8 DEF inner, Notes
  <2>2. order \in Orders /\ evidence_order \in Orders  BY <1>8
  <2>3. Shaped(inner, SeedIds, Kept(family), ReorderRules(b, order), ReorderRules(a, order), family.mode)
    BY <1>2, <1>5, <2>1, <2>2, ShapeReordered
  <2>4. /\ SmallRules(ReorderRules(b, order)) /\ AtomsOf(ReorderRules(b, order)) = AtomsOf(b)
        /\ SmallRules(ReorderRules(a, order)) /\ AtomsOf(ReorderRules(a, order)) = AtomsOf(a)
    BY <1>4, <2>2, ReorderedRules DEF ReorderRules
  <2> QED  BY <1>2, <2>3, <2>4 DEF Fits
<1>9. ASSUME name = "split-rule" PROVE Good({})
  <2>1. inner = WithRules(raw, SplitRules)  BY <1>9 DEF inner, Notes
  <2>2. Shaped(inner, SeedIds, Kept(family), SplitRules(b), SplitRules(a), family.mode)
    BY <1>2, <1>5, <2>1, ShapeWithSplitRules
  <2>3. /\ SmallRules(SplitRules(b)) /\ AtomsOf(SplitRules(b)) = AtomsOf(b)
        /\ SmallRules(SplitRules(a)) /\ AtomsOf(SplitRules(a)) = AtomsOf(a)
    BY <1>2, SplitCatalogueRules
  <2> QED  BY <1>2, <2>2, <2>3 DEF Fits
<1>10. ASSUME name \in Notes PROVE Good({})
  <2>1. inner = Note(raw, name)  BY <1>10 DEF inner, Notes
  <2>2. Shaped(inner, SeedIds, Kept(family), b, a, family.mode)
    BY <1>2, <1>5, <2>1, ShapeWithNote
  <2> QED  BY <1>2, <1>4, <2>2 DEF Fits
<1>11. ASSUME name = "monotonic" PROVE \E extra : Good(extra)
  <2> DEFINE grant == MONOTONIC_GRANTS[Min(NewGrants(raw))]
  <2>1. inner = Monotonic(raw)  BY <1>11 DEF inner, Notes
  <2>2. Min(NewGrants(raw)) \in 1 .. 3  BY <1>3, <1>11, EveryCaseVaries DEF raw
  <2>3. SmallRule(grant) /\ \A x \in RuleAtoms(grant) : ~IsPrivileged(x)  BY <2>2, GrantRules
  <2>4. Shaped(inner, SeedIds, Kept(family), b, Append(a, grant), family.mode)
    BY <1>2, <1>5, <2>1, ShapeWithGrant
  <2> HIDE DEF grant
  <2>5. SmallRules(Append(a, grant)) /\ AtomsOf(Append(a, grant)) = AtomsOf(a) \cup RuleAtoms(grant)
    BY <1>4, <2>3, AppendedRules
  <2>6. Fits(inner, family, RuleAtoms(grant))  BY <1>2, <1>4, <2>4, <2>5 DEF Fits
  <2>7. Good(RuleAtoms(grant))  BY <1>6, <1>11, <2>3, <2>6
  <2> QED  BY <2>7
<1>12. PICK extra : Good(extra)
  <2>1. name \in {"base", "rename"} \/ name = "reorder" \/ name = "split-rule" \/ name \in Notes
        \/ name = "monotonic"
    BY <1>3 DEF Notes
  <2> HIDE DEF Good
  <2> QED  BY <1>7, <1>8, <1>9, <1>10, <1>11, <2>1
<1>13. MadeFrom(Rename(inner, tag), family, extra)  BY <1>12, RenamedIsMade
<1> QED  BY <1>1, <1>12, <1>13 DEF raw

-----------------------------------------------------------------------------
(* The run of generate.                                                    *)

\* What is known of the case that was produced last.
KnownCase(case, family) ==
  /\ IsFamily(family)
  /\ \E extra : MadeFrom(case, family, extra) /\ \A x \in extra : ~IsPrivileged(x)

\* An entry's output is that of its family, or one with more categories.
EntryFits(e) ==
  /\ e.relation = "invariant" => e.oracle = Output(Families[e.family])
  /\ e.oracle.label = "benign" => Output(Families[e.family]).label = "benign"
  /\ e.variant = "base" => e.oracle = Output(Families[e.family])

CatInv ==
  /\ ~raised /\ turn >= 1
  /\ splits = None /\ variant > 1 => base = Output(Families[turn])
  /\ \A e \in Range(entries) : EntryFits(e)
  /\ produced # None => KnownCase(produced, ProducedFamily)

\* What is produced is consistent with the family's base case and with the catalogue.
LEMMA ProducedIsConsistent ==
  ASSUME NEW family, IsFamily(family), NEW v \in 1 .. Len(VariantsOf(family)),
         NEW name, name = VariantsOf(family)[v], NEW order, NEW evidence_order,
         name = "reorder" => order \in Orders /\ evidence_order \in Orders,
         NEW first, name # "base" => first = Output(family)
  PROVE  LET made == VariantCase(FamilyCase(family), name, order, evidence_order) IN
         /\ KnownCase(made, family)
         /\ ~Inconsistent(family, name, Evaluate(made), first)
         /\ name # "monotonic" => Evaluate(made) = Output(family)
         /\ Evaluate(made).label = "benign" => Output(family).label = "benign"
<1> DEFINE made == VariantCase(FamilyCase(family), name, order, evidence_order)
<1>1. PICK extra : /\ MadeFrom(made, family, extra) /\ (Relation(name) # "monotonic" => extra = {})
                   /\ \A x \in extra : ~IsPrivileged(x)
  BY VariantIsMade
<1> HIDE DEF made
<1>2. KnownCase(made, family)  BY <1>1 DEF KnownCase
<1>3. /\ Evaluate(made) # OracleError
      /\ extra = {} => Evaluate(made) = Output(family)
      /\ Output(family).categories \subseteq Evaluate(made).categories
      /\ Evaluate(made).label = "benign" => Output(family).label = "benign"
  BY <1>1, MadeIsJudged
<1>4. name # "monotonic" => Evaluate(made) = Output(family)
  BY <1>1, <1>3 DEF Relation
<1>5. ~Inconsistent(family, name, Evaluate(made), first)
  <2>1. name = "base" => ~CatalogueDrift(family, Evaluate(made))
    BY <1>4, NoDrift
  <2>2. Relation(name) = "invariant" => Evaluate(made) = first
    BY <1>4 DEF Relation
  <2>3. name = "monotonic" => first.categories \subseteq Evaluate(made).categories
    BY <1>3
  <2> QED  BY <1>3, <2>1, <2>2, <2>3 DEF Inconsistent
<1> QED  BY <1>2, <1>3, <1>4, <1>5 DEF made


LEMMA ProduceKeepsCatalogue ==
  ASSUME EntriesInv, CatInv, Produce
  PROVE  CatInv'
<1> DEFINE family == Families[turn]  names == VariantsOf(family)  name == names[variant]
<1>1. /\ turn \in Nat /\ turn >= 1 /\ variant \in 1 .. Len(names) /\ turn <= Len(Families)
      /\ splits = None /\ splits' = None /\ wanted' = wanted
      /\ variant > 1 => base = Output(family)
      /\ \A e \in Range(entries) : EntryFits(e)
  BY DEF EntriesInv, CatInv, Produce, Generating
<1>2. Len(Families) = 72  BY FamiliesOfInjections
<1>3. turn \in 1 .. 72  BY <1>1, <1>2
<1>4. IsFamily(family)  BY <1>3, FamiliesAreMade
<1>5. ~CannotVary(FamilyCase(family), name)  BY <1>1, <1>4, EveryCaseVaries
<1>6. PICK order, evidence_order \in
             (IF name = "reorder" THEN Orders ELSE {CHOOSE o \in Orders : TRUE}) :
        LET made == VariantCase(FamilyCase(family), name, order, evidence_order)
            result == Evaluate(made) IN
        /\ produced' = made
        /\ raised' = Inconsistent(family, name, result, base)
        /\ base' = IF name = "base" THEN result ELSE base
        /\ entries' = IF turn \notin wanted THEN entries
                      ELSE Append(entries, [family |-> turn, variant |-> name, case |-> made,
                                            oracle |-> result, relation |-> Relation(name),
                                            split |-> None])
        /\ IF variant < Len(names) THEN variant' = variant + 1 /\ UNCHANGED turn
           ELSE variant' = 1 /\ turn' = turn + 1
  BY <1>5 DEF Produce
<1> DEFINE made == VariantCase(FamilyCase(family), name, order, evidence_order)
           entry == [family |-> turn, variant |-> name, case |-> made,
                     oracle |-> Evaluate(made), relation |-> Relation(name), split |-> None]
<1>7. Len(names) \in Nat \ {0} /\ names[1] = "base"
      /\ \A i, j \in 1 .. Len(names) : names[i] = names[j] => i = j
  BY VariantNames
<1>8. name = "base" <=> variant = 1
  <2> HIDE DEF names
  <2> QED  BY <1>1, <1>7
<1>9. name = "reorder" => order \in Orders /\ evidence_order \in Orders  BY <1>6
<1>10. name # "base" => base = Output(family)
  <2> HIDE DEF name, family, names
  <2>1. name # "base" => variant > 1  BY <1>1, <1>7, <1>8
  <2> QED  BY <1>1, <2>1
<1>11. /\ KnownCase(made, family)
       /\ ~Inconsistent(family, name, Evaluate(made), base)
       /\ name # "monotonic" => Evaluate(made) = Output(family)
       /\ Evaluate(made).label = "benign" => Output(family).label = "benign"
  BY <1>1, <1>4, <1>9, <1>10, ProducedIsConsistent, ZenonT(40)
<1>12. /\ produced' = made /\ ~raised' /\ (name = "base" => base' = Evaluate(made))
       /\ name # "base" => base' = base
       /\ entries' = IF turn \notin wanted THEN entries ELSE Append(entries, entry)
  BY <1>6, <1>11
<1> HIDE DEF made, name
<1>13. EntryFits(entry)
  <2>1. /\ entry.oracle = Evaluate(made) /\ entry.family = turn /\ entry.variant = name
        /\ entry.relation = Relation(name)
    OBVIOUS
  <2> HIDE DEF entry
  <2>2. Relation(name) = "invariant" => name # "monotonic"  BY DEF Relation
  <2> QED  BY <1>11, <2>1, <2>2 DEF EntryFits
<1> HIDE DEF entry
<1>14. \A e \in Range(entries') : EntryFits(e)
  <2>1. PICK S : entries \in Seq(S)  BY DEF EntriesInv
  <2>2. Range(Append(entries, entry)) = Range(entries) \cup {entry}  BY <2>1, RangeOfAppend
  <2> QED  BY <1>1, <1>12, <1>13, <2>2
<1>15. base' = Output(family)
  <2>1. name = "base" => name # "monotonic"  OBVIOUS
  <2> QED  BY <1>10, <1>11, <1>12, <2>1
<1> HIDE DEF family
<1>16. /\ variant' > 1 => turn' = turn
       /\ (IF variant' = 1 THEN turn' - 1 ELSE turn') = turn
       /\ turn' >= 1
  <2> HIDE DEF names
  <2> QED  BY <1>1, <1>6, <1>7
<1>17. ProducedFamily' = family  BY <1>16 DEF ProducedFamily, family
<1>18. splits' = None /\ variant' > 1 => base' = Output(Families[turn'])
  BY <1>15, <1>16 DEF family
<1> QED  BY <1>11, <1>12, <1>14, <1>16, <1>17, <1>18 DEF CatInv

LEMMA AssignKeepsCatalogue ==
  ASSUME EntriesInv, StrataInv, CatInv, AssignSplits
  PROVE  CatInv'
<1> DEFINE marked(e) == [e EXCEPT !.split = splits'[e.family]]
<1>1. /\ \A e \in Range(entries) : IsEntry(e) /\ EntryFits(e)
      /\ \A e, b \in Range(entries) : SameCase(e, b) => e = b
      /\ \A e \in Range(entries) : \E b \in Range(entries) : IsBaseOf(b, e)
      /\ UNCHANGED <<turn, variant>> /\ turn >= 1 /\ produced' = None
      /\ raised' = (RelationViolations(Range(entries), LabelsOf(entries)) # {})
      /\ entries' = [i \in DOMAIN entries |-> marked(entries[i])]
  BY DEF EntriesInv, CatInv, AssignSplits
<1>2. variant' = 1  BY <1>1, AllFamilies
<1>3. \A e \in Range(entries) : LabelsOf(entries)[<<e.family, e.variant>>] = e.oracle.label
  <2> TAKE e \in Range(entries)
  <2> DEFINE id == <<e.family, e.variant>>
             same == {b \in Range(entries) : id = <<b.family, b.variant>>}
  <2>1. same = {e}  BY <1>1 DEF SameCase
  <2>2. (CHOOSE b \in Range(entries) : id = <<b.family, b.variant>>) = e  BY <2>1
  <2>3. id \in {<<b.family, b.variant>> : b \in Range(entries)}  OBVIOUS
  <2> QED  BY <2>2, <2>3 DEF LabelsOf
<1>4. ASSUME NEW e \in Range(entries)
      PROVE  LET label == LabelsOf(entries)[<<e.family, e.variant>>]
                 first == LabelsOf(entries)[<<e.family, "base">>] IN
             ~(\/ e.relation = "invariant" /\ label # first
               \/ e.relation = "monotonic" /\ label = "benign" /\ first # "benign")
  <2>1. PICK b \in Range(entries) : b.family = e.family /\ b.variant = "base"
    BY <1>1 DEF IsBaseOf
  <2>2. b.oracle = Output(Families[e.family])  BY <1>1, <2>1 DEF EntryFits
  <2>3. LabelsOf(entries)[<<e.family, "base">>] = b.oracle.label  BY <1>3, <2>1
  <2>4. LabelsOf(entries)[<<e.family, e.variant>>] = e.oracle.label  BY <1>3
  <2>5. /\ e.relation = "invariant" => e.oracle = Output(Families[e.family])
        /\ e.oracle.label = "benign" => Output(Families[e.family]).label = "benign"
    BY <1>1 DEF EntryFits
  <2> QED  BY <2>2, <2>3, <2>4, <2>5
<1>5. RelationViolations(Range(entries), LabelsOf(entries)) = {}
  BY <1>4 DEF RelationViolations
<1>6. \A e \in Range(entries') : EntryFits(e)
  <2>1. \A e \in Range(entries) :
          LET m == marked(e) IN
          /\ m.family = e.family /\ m.variant = e.variant
          /\ m.oracle = e.oracle /\ m.relation = e.relation
    BY <1>1 DEF IsEntry
  <2> HIDE DEF marked
  <2>2. Range(entries') = {marked(e) : e \in Range(entries)}  BY <1>1 DEF Range
  <2> QED  BY <1>1, <2>1, <2>2 DEF EntryFits
<1>7. ~(variant' > 1)  BY <1>2
<1> HIDE DEF marked
<1>8. ~raised'  BY <1>1, <1>5
<1> QED  BY <1>1, <1>6, <1>7, <1>8 DEF CatInv

LEMMA CatalogueInvariant == EvaluationSpec => []CatInv
<1>1. EvalInit => CatInv
  <2> SUFFICES ASSUME EvalInit PROVE CatInv  OBVIOUS
  <2>1. entries = <<>> /\ turn = 1 /\ variant = 1 /\ produced = None /\ ~raised
    BY DEF EvalInit, GenInit
  <2>2. Range(entries) = {}  BY <2>1 DEF Range
  <2> QED  BY <2>1, <2>2 DEF CatInv
<1>2. EvalInv /\ StrataInv /\ CatInv /\ [Generate \/ EvalNext]_vars => CatInv'
  <2> SUFFICES ASSUME EvalInv, StrataInv, CatInv, [Generate \/ EvalNext]_vars PROVE CatInv'
    OBVIOUS
  <2>1. CASE Generate
    BY <2>1, ProduceKeepsCatalogue, AssignKeepsCatalogue DEF Generate, GenNext, EvalInv
  <2>2. CASE UNCHANGED genVars
    <3>1. UNCHANGED <<turn, variant, base, produced, splits, entries, raised>>
      BY <2>2 DEF genVars
    <3>2. ProducedFamily' = ProducedFamily  BY <3>1 DEF ProducedFamily
    <3> QED  BY <3>1, <3>2 DEF CatInv
  <2>3. Generate \/ UNCHANGED genVars
    BY DEF EvalNext, Begin, RunCase, Escape, Summarize, vars
  <2> QED  BY <2>1, <2>2, <2>3
<1> QED  BY <1>1, <1>2, EvaluationInvariant, StrataHold, PTL DEF EvaluationSpec

\* Whatever orders the hashes give, the shipped catalogue never makes generate raise
\* (generate, _assert_relations, _assert_catalogue): every variant of every family can be
\* made and keeps the oracle's output, or only adds to its categories, and what the oracle
\* makes of a family is what the catalogue says of it.
THEOREM CatalogueHoldsAlways == EvaluationSpec => []CatalogueHolds
<1>1. CatInv => CatalogueHolds  BY DEF CatInv, CatalogueHolds
<1> QED  BY <1>1, CatalogueInvariant, PTL

-----------------------------------------------------------------------------
(* What is produced, for the two judges of it.                             *)

\* The rules of a case with every read, and whether its approval holds.
LEMMA MadeIsRead ==
  ASSUME NEW family, IsFamily(family), NEW case, NEW extra, MadeFrom(case, family, extra),
         family.reads = "complete"
  PROVE  /\ SmallRules(RulesOf(case, 2)) /\ SmallRules(RulesOf(case, 3))
         /\ AtomsOf(RulesOf(case, 2)) = GrantedBefore(family.injection)
         /\ AtomsOf(RulesOf(case, 3)) = GrantedAfter(family.injection) \cup extra
         /\ Approves(Answer(case, RequiredReads(case.event)[5]), case.event)
              <=> family.mode = "approved"
<1>1. PICK ids, b, a :
        /\ Shaped(case, ids, Kept(family), b, a, family.mode) /\ SmallRules(b) /\ SmallRules(a)
        /\ AtomsOf(b) = GrantedBefore(family.injection)
        /\ AtomsOf(a) = GrantedAfter(family.injection) \cup extra
  BY DEF MadeFrom
<1>2. Kept(family) = 1 .. 5 /\ family.mode \in Modes  BY FamilyFacts
<1>3. /\ RulesOf(case, 2) = b /\ RulesOf(case, 3) = a
      /\ Approves(Answer(case, RequiredReads(case.event)[5]), case.event)
           <=> family.mode = "approved"
  BY <1>1, <1>2, ShapeIsJudged DEF Modes
<1> QED  BY <1>1, <1>3

\* No case that is produced is labelled benign, without an approval of that very version,
\* when its after version allows a dangerous request that its before version does not
\* (evaluate_case on what generate makes of the shipped catalogue).
THEOREM NoDangerousBenignHolds == EvaluationSpec => []NoDangerousBenign
<1>1. CatInv => NoDangerousBenign
  <2> SUFFICES ASSUME CatInv, produced # None, ProducedFamily.reads = "complete",
                      ProducedFamily.mode # "approved", Evaluate(produced).label # "suspicious",
                      NEW request \in Dangerous, Allows(RulesOf(produced, 3), request)
               PROVE  Allows(RulesOf(produced, 2), request)
    BY DEF NoDangerousBenign
  <2> DEFINE family == ProducedFamily  b == RulesOf(produced, 2)  a == RulesOf(produced, 3)
             B == GrantedBefore(family.injection)  A == GrantedAfter(family.injection)
  <2>1. IsFamily(family) /\ \E extra : MadeFrom(produced, family, extra)
    BY DEF CatInv, KnownCase
  <2>2. PICK extra : MadeFrom(produced, family, extra)  BY <2>1
  <2>3. SmallRules(b) /\ SmallRules(a) /\ AtomsOf(b) = B /\ AtomsOf(a) = A \cup extra
    BY <2>1, <2>2, MadeIsRead
  <2>4. /\ Evaluate(produced).categories = NewlyGranted(B, A \cup extra)
        /\ Evaluate(produced).label = Label(Evaluate(produced).categories, family.mode = "approved")
    BY <2>1, <2>2, MadeIsJudged
  <2>5. NewlyGranted(B, A \cup extra) = {}
    <3>1. Evaluate(produced).label # "suspicious" /\ family.mode # "approved"  OBVIOUS
    <3> HIDE DEF family, B, A
    <3> QED  BY <2>4, <3>1 DEF Label
  <2> HIDE DEF family, b, a, B, A
  <2>6. GrantsAny(AtomsOf(a), request)  BY <2>3, SmallRulesAreWellFormed, AtomsGrantWhatRulesAllow DEF a
  <2>7. GrantsAny(AtomsOf(b), request)  BY <2>3, <2>5, <2>6, NewRequestHasCategory
  <2> QED  BY <2>3, <2>7, SmallRulesAreWellFormed, AtomsGrantWhatRulesAllow DEF b
<1> QED  BY <1>1, CatalogueInvariant, PTL

\* The replay model's permissions are the atoms without their groups and names.
LEMMA PermissionsOfAtoms ==
  ASSUME NEW rules, SmallRules(rules)
  PROVE  /\ \A x \in AtomsOf(rules) : <<x[2], x[3]>> \in Permissions(rules)
         /\ \A p \in Permissions(rules) : \E x \in AtomsOf(rules) : p = <<x[2], x[3]>>
<1>1. DOMAIN rules = 1 .. Len(rules) /\ \A i \in DOMAIN rules : SmallRule(rules[i])
  BY DEF SmallRules
<1>2. ASSUME NEW i \in DOMAIN rules
      PROVE  /\ \A x \in RuleAtoms(rules[i]) :
                  <<x[2], x[3]>> \in Range(rules[i].resources) \X Range(rules[i].verbs)
             /\ \A p \in Range(rules[i].resources) \X Range(rules[i].verbs) :
                  \E x \in RuleAtoms(rules[i]) : p = <<x[2], x[3]>>
  <2> DEFINE groups == Range(Listed(rules[i], "apiGroups"))
             names  == Range(Listed(rules[i], "resourceNames"))
             resources == Range(rules[i]["resources"])  verbs == Range(rules[i]["verbs"])
  <2>1. RuleAtoms(rules[i]) = groups \X resources \X verbs \X names  BY DEF RuleAtoms
  <2>2. \A list : Short(list) => \E g : g \in Range(list)
    <3> SUFFICES ASSUME NEW list, Short(list) PROVE \E g : g \in Range(list)  OBVIOUS
    <3>1. 1 \in DOMAIN list  BY DEF Short
    <3>2. list[1] \in Range(list)  BY <3>1 DEF Range
    <3> QED  BY <3>2
  <2>3. "*" \in Range(<<"*">>)
    <3>1. DOMAIN <<"*">> = 1 .. 1 /\ <<"*">>[1] = "*"  OBVIOUS
    <3> QED  BY <3>1 DEF Range
  <2>4. \E g : g \in groups
    <3>1. CASE "apiGroups" \in DOMAIN rules[i]
      <4>1. Short(rules[i]["apiGroups"])  BY <1>1, <3>1 DEF SmallRule
      <4> QED  BY <2>2, <3>1, <4>1 DEF Listed
    <3>2. CASE "apiGroups" \notin DOMAIN rules[i]  BY <2>3, <3>2 DEF Listed
    <3> QED  BY <3>1, <3>2
  <2>5. \E n : n \in names
    <3>1. "resourceNames" \notin DOMAIN rules[i]  BY <1>1 DEF SmallRule
    <3> QED  BY <2>3, <3>1 DEF Listed
  <2>6. PICK g \in groups, n \in names : TRUE  BY <2>4, <2>5
  <2> HIDE DEF groups, names, resources, verbs
  <2>7. \A x \in RuleAtoms(rules[i]) : x[2] \in resources /\ x[3] \in verbs  BY <2>1
  <2>8. ASSUME NEW p \in resources \X verbs PROVE \E x \in RuleAtoms(rules[i]) : p = <<x[2], x[3]>>
    <3>1. PICK r \in resources, v \in verbs : p = <<r, v>>  BY <2>8
    <3>2. <<g, r, v, n>> \in RuleAtoms(rules[i])  BY <2>1, <2>6, <3>1
    <3> QED  BY <3>1, <3>2
  <2> QED  BY <2>7, <2>8 DEF resources, verbs
<1> QED  BY <1>2 DEF AtomsOf, Permissions

\* When the replay model calls a produced case suspicious.
LEMMA ReplayConcludes ==
  ASSUME NEW family, IsFamily(family), NEW case, NEW extra, MadeFrom(case, family, extra),
         family.reads = "complete"
  PROVE  LET before == GrantedBefore(family.injection)
             after  == GrantedAfter(family.injection) \cup extra
             increase == \E x \in after :
                           IsPrivileged(x) /\ \A y \in before : x[2] # y[2] \/ x[3] # y[3]
         IN  STATUS_LABEL[ReplayStatus(case)] =
               IF increase /\ family.mode # "approved" THEN "suspicious" ELSE "benign"
<1> DEFINE b == RulesOf(case, 2)  a == RulesOf(case, 3)
           before == GrantedBefore(family.injection)
           after  == GrantedAfter(family.injection) \cup extra
           increase == \E x \in after :
                         IsPrivileged(x) /\ \A y \in before : x[2] # y[2] \/ x[3] # y[3]
           approved == Approves(Answer(case, RequiredReads(case.event)[5]), case.event)
           grown == \E p \in Permissions(a) \ Permissions(b) : PrivilegedPermission(p[1], p[2])
<1>1. /\ SmallRules(b) /\ SmallRules(a) /\ AtomsOf(b) = before /\ AtomsOf(a) = after
      /\ approved <=> family.mode = "approved"
  BY MadeIsRead
<1>2. ReplayStatus(case) = IF grown /\ ~approved THEN "confirmed_suspicious" ELSE "likely_benign"
  BY DEF ReplayStatus, RulesOf, Answer
<1> HIDE DEF b, a, before, after, approved
<1>3. grown <=> increase
  <2>1. ASSUME grown PROVE increase
    <3>1. PICK p \in Permissions(a) : p \notin Permissions(b) /\ PrivilegedPermission(p[1], p[2])
      BY <2>1
    <3>2. PICK x \in after : p = <<x[2], x[3]>>  BY <1>1, PermissionsOfAtoms
    <3>3. IsPrivileged(x)  BY <3>1, <3>2 DEF IsPrivileged
    <3>4. \A y \in before : <<y[2], y[3]>> \in Permissions(b)  BY <1>1, PermissionsOfAtoms
    <3>5. \A y \in before : x[2] # y[2] \/ x[3] # y[3]  BY <3>1, <3>2, <3>4
    <3> QED  BY <3>3, <3>5
  <2>2. ASSUME increase PROVE grown
    <3>1. PICK x \in after : IsPrivileged(x) /\ \A y \in before : x[2] # y[2] \/ x[3] # y[3]
      BY <2>2
    <3> DEFINE p == <<x[2], x[3]>>
    <3>2. p \in Permissions(a)  BY <1>1, PermissionsOfAtoms
    <3>3. p \notin Permissions(b)
      <4> SUFFICES ASSUME p \in Permissions(b) PROVE FALSE  OBVIOUS
      <4>1. PICK y \in before : p = <<y[2], y[3]>>  BY <1>1, PermissionsOfAtoms
      <4> QED  BY <3>1, <4>1
    <3>4. PrivilegedPermission(p[1], p[2])  BY <3>1 DEF IsPrivileged
    <3> QED  BY <3>2, <3>3, <3>4
  <2> QED  BY <2>1, <2>2
<1> HIDE DEF grown, increase
<1>4. /\ STATUS_LABEL["confirmed_suspicious"] = "suspicious"
      /\ STATUS_LABEL["likely_benign"] = "benign"
  BY DEF STATUS_LABEL
<1>5. CASE grown /\ ~approved  BY <1>1, <1>2, <1>3, <1>4, <1>5 DEF increase, before, after
<1>6. CASE ~(grown /\ ~approved)  BY <1>1, <1>2, <1>3, <1>4, <1>6 DEF increase, before, after
<1> QED  BY <1>5, <1>6

\* The categories of which the replay model knows the verb.
KnownToReplay == {"wildcard_grant", "bind_verb", "escalate_verb", "impersonate_verb"}

\* Each of them is newly granted by a privileged atom.
LEMMA KnownIsPrivileged ==
  ASSUME NEW before, NEW after, NEW category \in KnownToReplay,
         category \in NewlyGranted(before, after)
  PROVE  \E x \in NewAtoms(before, after) : IsPrivileged(x)
<1> DEFINE new == NewAtoms(before, after)
<1>1. NewlyGrants(category, before, after)  BY DEF NewlyGranted
<1>2. CASE category = "wildcard_grant"
  <2>1. \E x \in new : x[2] = Star \/ x[3] = "*"
    BY <1>1, <1>2, OtherCategories DEF NewlyGrants
  <2> QED  BY <2>1 DEF IsPrivileged, PrivilegedPermission
<1>3. CASE category = "impersonate_verb"
  <2>1. \E x \in new : x[3] \in {"*", "impersonate"}
    BY <1>1, <1>3, OtherCategories DEF NewlyGrants
  <2> QED  BY <2>1 DEF IsPrivileged, PrivilegedPermission
<1>4. CASE category \in {"bind_verb", "escalate_verb"}
  <2>1. category \in DOMAIN Triples  BY <1>4, InjectedTriples
  <2>2. PICK triple \in Triples[category] : GrantsAny(new, triple)
    BY <1>1, <2>1, OtherCategories DEF NewlyGrants
  <2>3. triple[3] \in {"bind", "escalate"}
    <3>1. \A t \in Triples["bind_verb"] : t[3] = "bind"  BY DEF Triples
    <3>2. \A t \in Triples["escalate_verb"] : t[3] = "escalate"  BY DEF Triples
    <3> QED  BY <1>4, <3>1, <3>2
  <2>4. PICK x \in new : Grants(x, triple)  BY <2>2 DEF GrantsAny
  <2>5. x[3] \in {"*", "bind", "escalate"}  BY <2>3, <2>4 DEF Grants
  <2> QED  BY <2>5 DEF IsPrivileged, PrivilegedPermission
<1> QED  BY <1>2, <1>3, <1>4 DEF KnownToReplay

\* The replay model and the oracle differ on a produced case only where the replay model
\* takes an escalation for benign whose categories it has no verb of: it sees every
\* wildcard, bind, escalate and impersonate that the oracle sees, and accuses nothing that
\* the oracle clears (DeterministicReplayModel against evaluate_case).
THEOREM ReplayErrsHolds == EvaluationSpec => []ReplayErrsOnlyAsDocumented
<1>1. CatInv => ReplayErrsOnlyAsDocumented
  <2> DEFINE family == ProducedFamily
             judged == Evaluate(produced)  concluded == STATUS_LABEL[ReplayStatus(produced)]
             B == GrantedBefore(family.injection)  A == GrantedAfter(family.injection)
  <2> SUFFICES ASSUME CatInv, produced # None, family.reads = "complete", concluded # judged.label
               PROVE  concluded = "benign" /\ judged.categories \cap KnownToReplay = {}
    BY DEF ReplayErrsOnlyAsDocumented, KnownToReplay
  <2>1. IsFamily(family)  BY DEF CatInv, KnownCase
  <2>2. PICK extra : MadeFrom(produced, family, extra) /\ \A x \in extra : ~IsPrivileged(x)
    BY DEF CatInv, KnownCase
  <2> DEFINE after == A \cup extra
             increase == \E x \in after :
                           IsPrivileged(x) /\ \A y \in B : x[2] # y[2] \/ x[3] # y[3]
  <2>3. concluded = IF increase /\ family.mode # "approved" THEN "suspicious" ELSE "benign"
    BY <2>1, <2>2, ReplayConcludes
  <2>4. /\ judged.categories = NewlyGranted(B, after)
        /\ judged.label = Label(judged.categories, family.mode = "approved")
    BY <2>1, <2>2, MadeIsJudged
  <2>5. PICK j \in 1 .. 22 : family.injection = INJECTIONS[j]  BY <2>1, FamilyFacts
  <2>6. /\ family.injection.category # None => family.injection.category \in NewlyGranted(B, A)
        /\ (\A x \in B : ~IsPrivileged(x)) \/ A \subseteq B
        /\ family.injection.category = None => \A x \in A : IsPrivileged(x) => x \in B
    BY <2>5, InjectionFacts
  <2>7. NewlyGranted(B, A) \subseteq NewlyGranted(B, after)  BY EscalationIsMonotone
  <2> HIDE DEF family, judged, concluded, B, A
  <2>8. family.mode # "approved"  BY <2>3, <2>4 DEF Label
  <2>9. ~increase
    <3> SUFFICES ASSUME increase PROVE FALSE  OBVIOUS
    <3>1. PICK x \in after : IsPrivileged(x) /\ \A y \in B : x[2] # y[2] \/ x[3] # y[3]
      OBVIOUS
    <3>2. x \in A /\ x \notin B  BY <2>2, <3>1
    <3>3. family.injection.category # None  BY <2>6, <3>1, <3>2
    <3>4. NewlyGranted(B, after) # {}  BY <2>6, <2>7, <3>3
    <3>5. judged.label = "suspicious"  BY <2>4, <2>8, <3>4 DEF Label
    <3>6. concluded = "suspicious"  BY <2>3, <2>8
    <3> QED  BY <3>5, <3>6
  <2>10. ASSUME NEW category \in KnownToReplay, category \in NewlyGranted(B, after)
         PROVE  FALSE
    <3>1. PICK x \in NewAtoms(B, after) : IsPrivileged(x)  BY <2>10, KnownIsPrivileged
    <3>2. x \in after /\ \A q \in B : ~Covers(q, x)  BY <3>1 DEF NewAtoms
    <3>3. x \in A  BY <2>2, <3>1, <3>2
    <3>4. x \notin B  BY <3>2 DEF Covers, ResourceMatch
    <3>5. \A y \in B : ~IsPrivileged(y)  BY <2>6, <3>3, <3>4
    <3>6. \A y \in B : x[2] # y[2] \/ x[3] # y[3]  BY <3>1, <3>5 DEF IsPrivileged
    <3> QED  BY <2>9, <3>1, <3>2, <3>6
  <2> QED  BY <2>3, <2>4, <2>9, <2>10
<1> QED  BY <1>1, CatalogueInvariant, PTL
=============================================================================
