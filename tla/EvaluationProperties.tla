------------------------ MODULE EvaluationProperties ------------------------
(***************************************************************************)
(* What the generated set and an evaluation over it promise.               *)
(***************************************************************************)
EXTENDS Evaluation, OracleReference

-----------------------------------------------------------------------------
(* The generated set.                                                      *)

\* Whatever orders the hashes give, the shipped catalogue never makes generate raise:
\* no variant changes the oracle's output, no case loses the policy's cover of its
\* reads, and the labels obey the relations the runs are held to.
CatalogueHolds == ~raised

ProducedFamily == Families[IF variant = 1 THEN turn - 1 ELSE turn]

\* A case whose after version allows a dangerous request that the before version does not
\* is never labelled benign unless its approval is for that very change and version; a
\* stale approval is none.
NoDangerousBenign ==
  produced # None /\ ProducedFamily.reads = "complete" /\ ProducedFamily.mode # "approved" =>
    LET before == RulesOf(produced, 2)  after == RulesOf(produced, 3) IN
    \/ Evaluate(produced).label = "suspicious"
    \/ \A request \in Dangerous : Allows(after, request) => Allows(before, request)

\* The replay model is wrong about a generated case only as F2 documents: it takes for
\* benign an unapproved grant that is neither a wildcard nor bind, escalate or impersonate.
ReplayErrsOnlyAsDocumented ==
  produced # None /\ ProducedFamily.reads = "complete" =>
    LET judged == Evaluate(produced)  concluded == STATUS_LABEL[ReplayStatus(produced)] IN
    concluded # judged.label =>
      /\ concluded = "benign"
      /\ judged.categories \cap
           {"wildcard_grant", "bind_verb", "escalate_verb", "impersonate_verb"} = {}

\* Every escalation category the oracle knows has a suspicious family in both splits,
\* whatever fraction is held out and however the hashes order the families.
SplitsCoverCategories ==
  splits # None =>
    \A category \in Categories, split \in {"dev", "holdout"} :
      \E f \in DOMAIN splits : splits[f] = split /\ strata[f] = <<"suspicious", category>>

-----------------------------------------------------------------------------
(* The runs.                                                               *)

\* What a run is counted under is what generate produced for its case, although the
\* caller's set may have been edited before and factories change it while cases run:
\* an edited set never runs.
RunsMatchSet ==
  /\ phase \in {"running", "reported"} => snapshot = entries
  /\ \A o \in observations :
       \E e \in Range(entries) :
         /\ o.case = <<e.family, e.variant>> /\ e.family \in call.families
         /\ o.label = e.oracle.label /\ o.split = e.split /\ o.relation = e.relation

RunsOf(r) == {o \in observations : o.provider = r.provider}

\* The reference baseline passes the checks modelled (verdict, risk, reason and reads) of
\* every case, the cases with a read missing included, and violates no relation: it is the ceiling the report compares with.
OracleIsCeiling ==
  /\ \A o \in observations : o.model = "baseline_deterministic_oracle" => o.passed
  /\ \A r \in Range(report) :
       (\A o \in RunsOf(r) : o.model = "baseline_deterministic_oracle") => r.violated = {}

-----------------------------------------------------------------------------
(* The report.                                                             *)

\* No run is lost or counted twice: every chosen case has k runs, the labels part the
\* runs, every conclusive case is covered or abstained from, and the two splits add up
\* to the whole.
EveryRunCounted ==
  \A r \in Range(report) :
    /\ \A s \in SPLITS :
         LET rates == r.splits[s].rates IN
         /\ rates.wrong_benign.n + rates.false_alarm.n = rates.coverage.n
         /\ rates.coverage.k + rates.abstention.k = rates.coverage.n
         /\ rates.coverage.n + rates.unresolved_kept.n = rates.verdict_accuracy.n
         /\ rates.selective_accuracy.n = rates.coverage.k
    /\ \A name \in DOMAIN r.splits["all"].rates, count \in {"k", "n", "clusters"} :
         r.splits["all"].rates[name][count] =
           r.splits["dev"].rates[name][count] + r.splits["holdout"].rates[name][count]
    /\ r.splits["all"].rates.verdict_accuracy.n = Cardinality(RunsOf(r))
    /\ Cardinality(RunsOf(r)) =
         call.k * Cardinality({e \in Range(entries) : e.family \in call.families})

\* The adjusted interval is never taken of more runs than were made, nor of less than one.
EffectiveSize ==
  \A r \in Range(report), s \in SPLITS :
    \A name \in DOMAIN r.splits[s].rates :
      LET rate == r.splits[s].rates[name] IN
      rate.n > 0 => rate.n_eff[2] <= rate.n_eff[1] /\ rate.n_eff[1] <= rate.n * rate.n_eff[2]

\* pass^k is never better than the accuracy of a single run.
PassHatBelowAccuracy ==
  \A r \in Range(report), s \in SPLITS :
    LET pass == r.splits[s].pass_hat_k  accuracy == r.splits[s].rates.verdict_accuracy IN
    pass[1] * accuracy.n <= accuracy.k * pass[2]

\* A provider that is reported ran one model, which its mode may run.
ReportedRanOneModel ==
  \A i \in DOMAIN report :
    \E model \in MODE_MODEL_PROVIDERS[call.providers[i].mode] :
      \A o \in RunsOf(report[i]) : o.model = model

\* The summaries of a provider agree with one another and with the runs of the one model
\* behind them (evaluate, summarize).
ReportAddsUp ==
  EveryRunCounted /\ EffectiveSize /\ PassHatBelowAccuracy /\ ReportedRanOneModel

\* A relation is counted as violated in a trial only if the run of the case or of its
\* base in that very trial is wrong.
ViolationMeansAWrongRun ==
  \A r \in Range(report) :
    \A violation \in r.violated :
      \E o \in RunsOf(r) :
        /\ o.trial = violation[2] /\ o.case[1] = violation[1][1]
        /\ o.case[2] \in {violation[1][2], "base"} /\ o.outcome # o.label
=============================================================================
