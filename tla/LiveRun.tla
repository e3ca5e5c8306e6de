------------------------------- MODULE LiveRun -------------------------------
(***************************************************************************)
(* run_live of evals/live.py: the cases of a protocol, one after the       *)
(* other, each an investigation whose model calls go through the metered   *)
(* transport.  A stop is not an exception of its own: the call that is     *)
(* stopped fails its case closed like any failed call, the case is graded, *)
(* and only the factory of the next case, or the end of the run, looks at  *)
(* the latch.                                                              *)
(***************************************************************************)
EXTENDS Metering

CONSTANTS
  Cases,         \* how many cases and trials the protocol runs
  CallsPerCase   \* bound: model calls of one case (policy.max_model_calls)

ASSUME CasesAssumption == Cases \in Nat \ {0} /\ CallsPerCase \in Nat

\* live-run.json: a run that stopped has no metrics, one that completed no stop.
Reports ==
  [status : {"completed", "stopped"}, stop : Conditions \cup {"no_model_calls", None},
   calls : Nat, cost : Nat, metrics : Nat \cup {None}]

\* What stands for nothing is neither a report nor a condition.
ASSUME ReportAssumption == None \notin Reports \cup {"no_model_calls"}

VARIABLES
  driver,   \* "between" cases, "running" one, "done"
  graded,   \* cases observed so far
  asked,    \* model calls of the case in hand
  report,   \* live-run.json, or None
  ended     \* how run_live ended

runVars == <<driver, graded, asked, report, ended>>
liveVars == <<meterVars, runVars>>

LiveInit ==
  /\ MeterInit
  /\ driver = "between" /\ graded = 0 /\ asked = 0
  /\ report = None /\ ended = "not yet"

\* Mutant: the factory builds an adapter without looking at the latch.
BeginCaseRegardless ==
  /\ driver = "between" /\ graded < Cases
  /\ driver' = "running" /\ asked' = 0
  /\ UNCHANGED <<meterVars, graded, report, ended>>

\* The factory builds an adapter only while nothing has stopped the run.
BeginCase ==
  /\ driver = "between" /\ graded < Cases
  /\ stop = None
  /\ driver' = "running" /\ asked' = 0
  /\ UNCHANGED <<meterVars, graded, report, ended>>

\* The investigator makes no call after one that failed or was cancelled: its
\* case ends there.
LastCallFailed == asked > 0 /\ returned \in {"raised", "cancelled"}

CaseCalls ==
  /\ driver = "running" /\ ~LastCallFailed /\ asked < CallsPerCase
  /\ Request
  /\ asked' = asked + 1
  /\ UNCHANGED <<driver, graded, report, ended>>

CaseExchanges == ExchangeNext /\ UNCHANGED runVars

\* However the investigation ended, its record is graded.  It may end after any
\* call, and before the first: so also after a deadline that a close swallowed,
\* where the investigator finds its limit passed and calls no more.
EndCase ==
  /\ driver = "running" /\ at = "idle"
  /\ driver' = "between" /\ graded' = graded + 1
  /\ UNCHANGED <<meterVars, asked, report, ended>>

Leave(how) ==
  /\ driver' = "done" /\ ended' = how
  /\ UNCHANGED <<meterVars, graded, asked, report>>

\* A run that reached no API measured nothing, which is a stop of its own.
WriteReport(metrics) ==
  LET final == IF stop = None /\ calls = 0 THEN "no_model_calls" ELSE stop IN
  /\ report' = [status  |-> IF final = None THEN "completed" ELSE "stopped",
                stop    |-> final,
                calls   |-> calls,
                cost    |-> cost,
                metrics |-> IF final = None THEN metrics ELSE None]
  /\ driver' = "done" /\ ended' = "reported"
  /\ UNCHANGED <<meterVars, graded, asked>>

\* live-run.json is written, or its write fails and leaves no report that can be
\* read.  The checks before the write cannot fail: they see a protocol that was
\* checked before, a finite ledger, and metrics that evaluate has checked.
Conclude(metrics) == WriteReport(metrics) \/ Leave("escaped")

\* Mutant: the abort of a stopped run leaves run_live like any EvalError.
EvalErrorRaised == Leave("refused")

\* evaluate raised EvalError: the abort of a stopped run, or a refusal.
EvalError == IF stop = None THEN Leave("refused") ELSE Conclude(None)

AbortBeforeCase ==
  /\ driver = "between" /\ graded < Cases
  /\ stop # None
  /\ EvalError

\* A record of another provenance, a directory that appeared, a report that
\* violates its schema: evaluate refuses, during a case or at the end.
EvaluateRefuses ==
  /\ \/ driver = "running" /\ at = "idle"
     \/ driver = "between" /\ graded = Cases
  /\ EvalError

\* A record that cannot be stored, or a result that is too large, leaves the
\* investigator as an exception that nothing here catches.
CaseEscapes ==
  /\ driver = "running" /\ at = "idle"
  /\ Leave("escaped")

Evaluated ==
  /\ driver = "between" /\ graded = Cases
  /\ Conclude(graded)

LiveNext ==
  \/ BeginCase \/ CaseCalls \/ CaseExchanges \/ EndCase
  \/ AbortBeforeCase \/ EvaluateRefuses \/ CaseEscapes \/ Evaluated

LiveSpec == LiveInit /\ [][LiveNext]_liveVars

\* The loop over the cases goes on, every case ends (its deadline and limits see
\* to that), and every exchange does.
LiveFairness ==
  /\ WF_liveVars(CaseExchanges /\ (Open \/ DeadlineWhileSending))
  /\ WF_liveVars(CaseExchanges /\ CloseExpires)
  /\ WF_liveVars(BeginCase) /\ WF_liveVars(EndCase)
  /\ WF_liveVars(AbortBeforeCase) /\ WF_liveVars(Evaluated)

FairLiveSpec == LiveSpec /\ LiveFairness

-----------------------------------------------------------------------------
\* A completed run measured what it says: nothing stopped it, every case was
\* graded, the API was reached, each call of the ledger returned a checked
\* response or was cut off by a deadline, and the spend is within the cap
\* (run_live, EV-LIVE-05 and EV-LIVE-06).
CompletedMeansMeasured ==
  (report # None /\ report.status = "completed") =>
    /\ stop = None /\ report.stop = None
    /\ report.metrics = Cases
    /\ report.calls > 0
    /\ report.calls = http_statuses["2xx"] + worst_case_charged
    /\ report.cost <= MaxCost

\* A run that stopped never ends as completed nor as a refusal that would hide
\* what it has spent: unless an exception escaped from a case or from the write
\* of the report, it reports the condition that was latched first, the calls and
\* the cost, and no metrics.
StopIsReported ==
  (driver = "done" /\ stop # None /\ ended # "escaped") =>
    /\ report # None
    /\ report.status = "stopped" /\ report.stop = stop /\ report.metrics = None
    /\ report.calls = calls /\ report.cost = cost

\* A refusal hides no stop, and an API that was reached is not reported as one
\* that was not.
RefusalIsGenuine ==
  /\ ended = "refused" => stop = None
  /\ (report # None /\ report.stop = "no_model_calls") => calls = 0 /\ graded = Cases

\* What a run ends with is what happened in it, whichever of the exceptions ended it:
\* completed, stopped or refused (run_live).
OutcomeIsGenuine == CompletedMeansMeasured /\ StopIsReported /\ RefusalIsGenuine

\* After a stop no further case begins, the case in hand reaches the provider no
\* more, and the condition that stopped the run stays the one that is reported
\* (EV-LIVE-05).
NoCaseAfterStop ==
  [][stop # None =>
       /\ stop' = stop /\ calls' = calls
       /\ ~(driver = "between" /\ driver' = "running")]_liveVars

\* Every run ends, whatever the provider and the cases do, and the transport too
\* as long as it ends what was cancelled (the deadlines of the investigator, the
\* bound of the close and the loop of evaluate).
RunEnds == <>(driver = "done")
=============================================================================
