------------------------------ MODULE Metrics ------------------------------
(***************************************************************************)
(* The statistics of evals/metrics.py.  Runs are a set of observations; a  *)
(* rate is taken over a set of runs and the set of those that are hits.    *)
(* Quotients are pairs <<numerator, denominator>>; rounding, the Wilson    *)
(* intervals (which take square roots) and the usage means are left out.   *)
(***************************************************************************)
EXTENDS Integers, FiniteSets, FiniteSetsExt

Undefined == <<0, 0>>   \* the null of a rate without a value

CONCLUSIVE == {"suspicious", "benign"}
FORMAT_FAILURES == {"ModelError", "ContractError"}
POLICY_REJECTIONS == {"ToolNotAllowedError", "ScopeError", "PolicyError"}

\* Mutant: the design effect may be below 1.
AnyQuotient(top, bottom) == <<top, bottom>>

\* The larger of a quotient and 1.
AtLeastOne(top, bottom) == IF top > bottom THEN <<top, bottom>> ELSE <<1, 1>>

\* The cluster of a run is its family; n_eff is n divided by the design effect.  Its sum
\* over the clusters of (hits * n - size * k)^2 is taken pair by pair: in the bracket a hit
\* counts n - k and a miss -k, and the square is the product over all pairs of a cluster.
clustered_rate(runs, hits) ==
  LET n == Cardinality(runs)
      k == Cardinality(hits)
      m == Cardinality({o.family : o \in runs})
      misses == runs \ hits
      Together(A, B) == Cardinality({p \in A \X B : p[1].family = p[2].family})
      spread == (n - k) * (n - k) * Together(hits, hits)
                  - 2 * k * (n - k) * Together(hits, misses) + k * k * Together(misses, misses)
      deff == IF m >= 2 /\ k \in 1 .. n - 1
              THEN AtLeastOne(m * spread, (m - 1) * n * k * (n - k)) ELSE Undefined
  IN  [k |-> k, n |-> n, clusters |-> m, deff |-> deff,
       n_eff |-> IF n = 0 THEN Undefined
                 ELSE IF deff = Undefined THEN <<n, 1>> ELSE <<n * deff[2], deff[1]>>]

\* The ways to draw k trials of one case.
Draws(runs, k) == UNION {kSubset(k, {o \in runs : o.case = c}) : c \in {o.case : o \in runs}}

\* Mutant: one success in k is enough.
AnySuccess(draws, correct) == {trials \in draws : trials \cap correct # {}}

AllSuccesses(draws, correct) == {trials \in draws : trials \subseteq correct}

\* Every case has the same number of trials: the mean over the cases of C(c, k) / C(n, k)
\* is the share of the draws that are all correct.
pass_hat_k(runs, correct, k) ==
  LET draws == Draws(runs, k) IN
  IF runs = {} THEN Undefined
  ELSE <<Cardinality(AllSuccesses(draws, correct)), Cardinality(draws)>>

\* violated holds the pairs <<case, trial>> whose relation is violated.
summarize(runs, violated, k) ==
  LET Rate(selected, Hit(_)) == clustered_rate(selected, {o \in selected : Hit(o)})
      Correct(o) == o.outcome = o.label
      Concluded(o) == o.outcome \in CONCLUSIVE
      labelled(labels) == {o \in runs : o.label \in labels}
      varied == {o \in runs : o.relation \in {"invariant", "monotonic"}}
  IN  [cases |-> Cardinality({o.case : o \in runs}),
       families |-> Cardinality({o.family : o \in runs}),
       rates |->
         [wrong_benign |-> Rate(labelled({"suspicious"}), LAMBDA o : o.outcome = "benign"),
          false_alarm |-> Rate(labelled({"benign"}), LAMBDA o : o.outcome = "suspicious"),
          abstention |-> Rate(labelled(CONCLUSIVE), LAMBDA o : ~Concluded(o)),
          coverage |-> Rate(labelled(CONCLUSIVE), Concluded),
          selective_accuracy |-> Rate({o \in labelled(CONCLUSIVE) : Concluded(o)}, Correct),
          verdict_accuracy |-> Rate(runs, Correct),
          unresolved_kept |-> Rate(labelled({"unresolved"}), LAMBDA o : o.outcome = "unresolved"),
          adapter_or_format_failure |-> Rate(runs, LAMBDA o : o.reason \in FORMAT_FAILURES),
          policy_rejection |-> Rate(runs, LAMBDA o : o.reason \in POLICY_REJECTIONS),
          grounding_failure |-> Rate(runs, LAMBDA o : o.reason = "GroundingError"),
          metamorphic_violation |->
            Rate(varied, LAMBDA o : <<o.case, o.trial>> \in violated)],
       pass_hat_k |-> pass_hat_k(runs, {o \in runs : Correct(o)}, k)]
=============================================================================
