----------------------------- MODULE Evaluation -----------------------------
(***************************************************************************)
(* One evaluation of evals/harness.py over a generated set: the caller's   *)
(* set is copied and checked, every provider runs every chosen case k      *)
(* times through execute_case of evals/runner.py, each persisted record is *)
(* graded against the oracle, and the runs are summarised per split.       *)
(*                                                                         *)
(* An investigation is one step that gives the record it ends with: the    *)
(* Investigator modules say how it gets there.  Trials count from 1.  A    *)
(* set holds the entries of the families in wanted.  Digests stand for the *)
(* cases they are taken of, and the report's schema is left out.  So are   *)
(* four of the eight checks of assert_expected, which read what a record   *)
(* here does not hold.                                                     *)
(***************************************************************************)
EXTENDS Generator, Metrics

CONSTANTS
  Calls,             \* [providers, k, families, output_exists]: the arguments of
                     \* evaluate, its providers in the order of their names
  Edits,             \* how the caller's set may differ from the generated one
  FactoryEdits,      \* what a factory may make of it while the cases run
  MockResults(_, _)  \* results a scripted transport leads to, for an entry and a trial

\* What is not a number or a list is refused by its type.
ASSUME CallsAssumption ==
  \A c \in Calls : c.k \in Int /\ c.providers \in Seq(Range(c.providers))

VARIABLES
  phase,         \* "idle", "running", "reported", "refused" or "escaped"
  given,         \* the caller's set; factories may change it
  snapshot,      \* the private copy of it
  call,          \* the arguments, or None
  at,            \* <<provider, trial, position in the set>>: the next run
  observations,  \* what is known of the runs made
  report         \* the summary of each provider that is done

evalVars == <<phase, given, snapshot, call, at, observations, report>>
vars == <<genVars, evalVars>>

-----------------------------------------------------------------------------
(* Which models a mode runs, and how.                                      *)

BASELINE_PROVENANCES ==
  {"baseline_always_suspicious", "baseline_always_benign", "baseline_always_unresolved",
   "baseline_deterministic_oracle"}

MODE_MODEL_PROVIDERS ==
  [replay |-> {"deterministic_replay"}, mock |-> {"anthropic_api"},
   baseline |-> BASELINE_PROVENANCES, live |-> {"anthropic_api"}]

TransportAllowed(mode, model) ==
  IF model.provenance # "anthropic_api" THEN mode # "live"
  ELSE <<mode, model.transport>> \in {<<"live", "metered">>, <<"mock", "mock">>}

Result(status, reason, methods) == [status |-> status, reason |-> reason, methods |-> methods]

\* Mutant: a read that is not there does not end the run.
ReadsOnWithoutIt(case, status) ==
  IF \E read \in Range(RequiredReads(case.event)) : Found(case.evidence, read) = {}
  THEN Result("insufficient_evidence", "model_finished", RequiredTools)
  ELSE Result(status, "model_finished", RequiredTools)

\* The five reads in order, then a verdict; the first read without its entry ends the run.
ReadsThenVerdict(case, status) ==
  LET reads == RequiredReads(case.event)
      gaps  == {i \in DOMAIN reads : Found(case.evidence, reads[i]) = {}} IN
  IF gaps = {} THEN Result(status, "model_finished", RequiredTools)
  ELSE Result("investigation_failed", "ToolExecutionError",
              {reads[i][1] : i \in 1 .. Min(gaps) - 1})

VERDICTS ==
  [suspicious |-> "confirmed_suspicious", benign |-> "likely_benign",
   unresolved |-> "insufficient_evidence"]

\* Mutant: the replay model forgets to look for wildcards.
NamedVerbsOnly(resource, verb) == verb \in {"bind", "escalate", "impersonate"}

PrivilegedPermission(resource, verb) ==
  resource = Star \/ verb \in {"*", "bind", "escalate", "impersonate"}

Permissions(rules) ==
  UNION {Range(rules[i].resources) \X Range(rules[i].verbs) : i \in DOMAIN rules}

ReplayStatus(case) ==
  LET the(i) == CHOOSE data \in Found(case.evidence, RequiredReads(case.event)[i]) : TRUE
      increase == Permissions(the(3).rules) \ Permissions(the(2).rules) IN
  IF /\ \E p \in increase : PrivilegedPermission(p[1], p[2])
     /\ ~Approves(the(5), case.event)
  THEN "confirmed_suspicious" ELSE "likely_benign"

Results(model, entry, trial) ==
  LET case == entry.case  name == model.provenance IN
  CASE name = "anthropic_api" -> MockResults(entry, trial)
    [] name = "baseline_always_suspicious" -> {ReadsThenVerdict(case, "confirmed_suspicious")}
    [] name = "baseline_always_benign" -> {ReadsThenVerdict(case, "likely_benign")}
    [] name = "baseline_always_unresolved" -> {Result("inconclusive", "model_finished", {})}
    [] name = "baseline_deterministic_oracle" ->
         {ReadsThenVerdict(case, VERDICTS[Judge(case.event, case.evidence).label])}
    [] name = "deterministic_replay" -> {ReadsThenVerdict(case, ReplayStatus(case))}

-----------------------------------------------------------------------------
(* Grading.                                                                *)

STATUS_LABEL ==
  [confirmed_suspicious |-> "suspicious", likely_benign |-> "benign",
   insufficient_evidence |-> "unresolved", inconclusive |-> "unresolved",
   investigation_failed |-> "unresolved"]

\* The runtime ends every result with the risk of its status.
RiskOf(status) ==
  CASE status = "confirmed_suspicious" -> "high" [] status = "likely_benign" -> "low"
    [] OTHER -> "unknown"

VerdictPass(label, result) ==
  result.status \in Expected(label).statuses /\ RiskOf(result.status) = Expected(label).risk

Passed(label, result) ==
  /\ VerdictPass(label, result)
  /\ result.reason = Expected(label).reason /\ Expected(label).methods \subseteq result.methods

Observation(provider, model, entry, trial, result) ==
  LET label == Evaluate(entry.case).label IN
  [provider |-> provider.name, model |-> model.provenance, trial |-> trial,
   case |-> <<entry.family, entry.variant>>, family |-> entry.family, split |-> entry.split,
   label |-> label, relation |-> entry.relation,
   outcome |-> STATUS_LABEL[result.status], reason |-> result.reason,
   verdict_pass |-> VerdictPass(label, result), passed |-> Passed(label, result)]

-----------------------------------------------------------------------------
(* The steps of evaluate.                                                  *)

Position(list) == 1 .. Len(list)

\* A set that is not the one generated.
Edited(list, edit) ==
  CASE edit = "none" -> list
    [] edit = "drop" -> Tail(list)
    [] edit = "relabel" -> [list EXCEPT ![Len(list)].oracle = [label |-> "benign", categories |-> {"edited"}]]
    [] edit = "resplit" ->
         [i \in Position(list) |->
            [list[i] EXCEPT !.split = IF @ = "dev" THEN "holdout" ELSE "dev"]]
    [] edit = "swap" -> [list EXCEPT ![1].case = list[Len(list)].case]

InFamilies(list, families) == {e \in Range(list) : e.family \in families}

\* What the checks and the report read.
EntriesInUse == InFamilies(snapshot, call.families)

\* Mutant: what a run reads comes from the caller's set.
GivenEntry(i) == given[i]

\* What a run reads.
StoredEntry(i) == snapshot[i]

Reproducible(list) == list = entries

\* repo_sha, the clock and the spelling of names are refused alike and left out.
RequestOk(c, list) ==
  /\ ~c.output_exists
  /\ c.k >= 1 /\ c.providers # <<>>
  /\ \A i \in Position(c.providers) : c.providers[i].mode \in DOMAIN MODE_MODEL_PROVIDERS
  /\ \A i, j \in Position(c.providers) : c.providers[i].name = c.providers[j].name => i = j
  /\ c.families # {} /\ c.families \subseteq {e.family : e \in Range(list)}

StoredEntriesOk(chosen) == \A e \in chosen : Evaluate(e.case) = e.oracle

\* The positions in a set, from the given one on, that hold a chosen entry.
ChosenFrom(list, families, i) == {j \in i .. Len(list) : list[j].family \in families}

Begin ==
  /\ phase = "idle" /\ splits # None /\ ~raised
  /\ \E c \in Calls, edit \in Edits :
       LET set == Edited(entries, edit) IN
       /\ call' = c /\ given' = set /\ snapshot' = set
       /\ IF /\ RequestOk(c, set)
             /\ StoredEntriesOk(InFamilies(set, c.families))
             /\ Reproducible(set)
          THEN phase' = "running" /\ at' = <<1, 1, Min(ChosenFrom(set, c.families, 1))>>
          ELSE phase' = "refused" /\ UNCHANGED at
  /\ UNCHANGED <<genVars, observations, report>>

Provider == call.providers[at[1]]

First == Min(ChosenFrom(snapshot, call.families, 1))

After(position) ==
  LET later == ChosenFrom(snapshot, call.families, position[3] + 1) IN
  IF later # {} THEN <<position[1], position[2], Min(later)>>
  ELSE <<position[1], position[2] + 1, First>>

\* The factory may change the caller's set before the case is run.
Factory == given' \in {given} \cup {Edited(entries, edit) : edit \in FactoryEdits}

\* The transport is checked before the run, the provenance of the record and
\* the label it was graded against after it.
RunModel(model, entry) ==
  IF /\ TransportAllowed(Provider.mode, model)
     /\ model.provenance \in MODE_MODEL_PROVIDERS[Provider.mode]
     /\ Evaluate(entry.case).label = entry.oracle.label
  THEN /\ \E result \in Results(model, entry, at[2]) :
            observations' =
              observations \cup {Observation(Provider, model, entry, at[2], result)}
       /\ at' = After(at) /\ UNCHANGED phase
  ELSE phase' = "refused" /\ UNCHANGED <<at, observations>>

\* The factory chooses a model for every case of every trial.
RunCase ==
  /\ phase = "running" /\ at[1] <= Len(call.providers) /\ at[2] <= call.k
  /\ Factory
  /\ \E model \in Provider.models[at[2]] : RunModel(model, StoredEntry(at[3]))
  /\ UNCHANGED <<genVars, snapshot, call, report>>

\* A PersistenceError of the run is no EvalError and is caught nowhere.
Escape ==
  /\ phase = "running" /\ at[1] <= Len(call.providers) /\ at[2] <= call.k
  /\ phase' = "escaped"
  /\ UNCHANGED <<genVars, given, snapshot, call, at, observations, report>>

SPLITS == {"all", "dev", "holdout"}

\* Mutant: the split of a run is not looked at for the holdout.
InSplitOrHoldout(runs, split) ==
  IF split = "dev" THEN {o \in runs : o.split = split} ELSE runs

InSplit(runs, split) == {o \in runs : split \in {"all", o.split}}

\* Mutant: whatever trial a run is of.
LabelsInAnyTrial(runs, trial) ==
  [id \in {o.case : o \in runs} |-> (CHOOSE o \in runs : o.case = id).outcome]

LabelsIn(runs, trial) ==
  [id \in {o.case : o \in runs} |->
     (CHOOSE o \in runs : o.case = id /\ o.trial = trial).outcome]

Violated(runs) ==
  UNION {RelationViolations(EntriesInUse, LabelsIn(runs, trial)) \X {trial} :
           trial \in 1 .. call.k}

\* Mutant: a provider may have run several models.
AnyProvenance(runs) == TRUE

OneProvenance(runs) == Cardinality({o.model : o \in runs}) = 1

Summarize ==
  LET runs == {o \in observations : o.provider = Provider.name}
      violated == Violated(runs) IN
  /\ phase = "running" /\ at[1] <= Len(call.providers) /\ at[2] > call.k
  /\ IF OneProvenance(runs)
     THEN /\ report' = Append(report,
                 [provider |-> Provider.name, violated |-> violated,
                  splits |-> [s \in SPLITS |-> summarize(InSplit(runs, s), violated, call.k)]])
          /\ at' = <<at[1] + 1, 1, First>>
          /\ phase' = IF at[1] = Len(call.providers) THEN "reported" ELSE phase
     ELSE phase' = "refused" /\ UNCHANGED <<report, at>>
  /\ UNCHANGED <<genVars, given, snapshot, call, observations>>

EvalInit ==
  /\ GenInit
  /\ phase = "idle" /\ given = <<>> /\ snapshot = <<>> /\ call = None
  /\ at = <<1, 1, 1>> /\ observations = {} /\ report = <<>>

EvalNext == Begin \/ RunCase \/ Escape \/ Summarize
Generate == GenNext /\ UNCHANGED evalVars

EvaluationSpec == EvalInit /\ [][Generate \/ EvalNext]_vars
=============================================================================
